---------------------------- MODULE GatewayProofs ----------------------------
(***************************************************************************)
(* Proofs about Gateway, for any messages, any answers of the model and    *)
(* any number of deliveries and faults.  IInv types the state, follows     *)
(* each delivery from the queue to its dispatch and bounds the rounds of a *)
(* dispatch.  On top of it: Announced for what the chat is told, Pairs for *)
(* calls, requests and results, Ordered for what is taken one at a time,   *)
(* AskedFor for what is applied, Watched for what is delivered again.      *)
(***************************************************************************)
EXTENDS Gateway, TLAPS

USE GatewayConstants

Plans == {Dispatch(t, Agent) : t \in Texts} \cup {HandleLine(l) : l \in Lines} \cup {Ignore}
UseSeqs == {p.uses : p \in Plans} \cup Turns \cup {<<>>}

Message == [plan : Plans, quiet : BOOLEAN]
Answer3 == {"ok", "refused", "failed"}
JobType == [at : Place, uses : UseSeqs, results : Seq(Answer3), turn : 0..MaxTurns,
            told : 0..MaxTurns, missed : SUBSET (1..MaxTurns)]
NetType == [job : Delivery, turn : 0..MaxTurns, i : Nat, write : BOOLEAN, st : {"sent", "ok", "refused"}]
LogType == [job : Delivery, turn : 0..MaxTurns, i : Nat, late : BOOLEAN]

Typed ==
    /\ kind \in Kinds
    /\ posted \in Seq(Message) /\ Len(posted) <= MaxMsg
    /\ tries \in [1..MaxMsg -> 0..MaxTries]
    /\ acked \in SUBSET (1..Len(posted)) /\ queue \in Seq(Delivery)
    /\ up \in BOOLEAN /\ cancelled \in BOOLEAN /\ reading \in BOOLEAN /\ eof \in BOOLEAN
    /\ faults \in 0..MaxFaults
    /\ job \in [Delivery -> JobType]
    /\ net \in SUBSET NetType /\ log \in Seq(LogType) /\ out \in Seq(Delivery)

\* A delivery is in the queue once, and then its dispatch has not begun.
Delivered ==
    /\ \A n \in 1..MaxMsg : tries[n] > 0 => n <= Len(posted)
    /\ \A j \in 1..Len(queue) : queue[j] \in Sent /\ job[queue[j]].at = "none"
    /\ \A j, k \in 1..Len(queue) : queue[j] = queue[k] => j = k
    /\ \A d \in Delivery : job[d].at # "none" => d \in Sent
    /\ \A q \in net : job[q.job].at # "none"
    /\ \A k \in 1..Len(log) : job[log[k].job].at # "none"

-----------------------------------------------------------------------------
(* Plans and calls *)

LEMMA DispatchPlans ==
    ASSUME NEW t, NEW a
    PROVE  \/ Dispatch(t, a) \in {Answer, Ask}
           \/ \E tool, args : Dispatch(t, a) = Run(tool, args)
BY DEF Dispatch, ParseYank, ParsePromote

LEMMA LinePlans ==
    ASSUME NEW l
    PROVE  \/ HandleLine(l) \in {Answer, Ignore}
           \/ \E tool, args : HandleLine(l) = Run(tool, args)
BY DEF HandleLine

LEMMA PlanShape ==
    ASSUME NEW p \in Plans
    PROVE  /\ p.do \in {"ignore", "answer", "call", "ask"}
           /\ p.uses \in UseSeqs /\ Len(p.uses) \in Nat
           /\ p.do = "ask" => p.uses = <<>>
<1>1. p.uses \in UseSeqs
  BY DEF UseSeqs
<1>2. p \in {Answer, Ask, Ignore} \/ \E tool, args : p = Run(tool, args)
  BY DispatchPlans, LinePlans DEF Plans
<1>3. CASE p \in {Answer, Ask, Ignore}
  BY <1>1, <1>3 DEF Answer, Ask, Ignore, Plan
<1>4. CASE \E tool, args : p = Run(tool, args)
  BY <1>1, <1>4 DEF Run, Plan
<1>. QED
  BY <1>2, <1>3, <1>4

LEMMA UseLengths == \A u \in UseSeqs : Len(u) \in Nat
BY PlanShape DEF UseSeqs

LEMMA GCWrites ==
    ASSUME NEW args
    PROVE  gcTool(args).write \in BOOLEAN
<1>1. CASE args \cap {"keep_last<0", "malformed"} # {}
  BY <1>1 DEF gcTool, Refuse, Get
<1>2. CASE args \cap {"keep_last<0", "malformed"} = {}
  <2>1. gcTool(args).write = ("delete" \in args)
    BY <1>2 DEF gcTool, GC
  <2>. QED
    BY <2>1
<1>. QED
  BY <1>1, <1>2

LEMMA PublishWrites ==
    ASSUME NEW args
    PROVE  publishTool(args).write \in BOOLEAN
BY DEF publishTool, Publish, Refuse, Get, Post

LEMMA CallWrites ==
    ASSUME NEW tool, NEW args
    PROVE  Call(tool, args).write \in BOOLEAN
<1>1. /\ listAppsTool(args).write \in BOOLEAN /\ listReleasesTool(args).write \in BOOLEAN
      /\ getReleaseTool(args).write \in BOOLEAN /\ yankReleaseTool(args).write \in BOOLEAN
      /\ unyankReleaseTool(args).write \in BOOLEAN /\ statsTool(args).write \in BOOLEAN
      /\ createTokenTool(args).write \in BOOLEAN /\ promoteReleaseTool(args).write \in BOOLEAN
      /\ downloadURLTool(args).write \in BOOLEAN /\ Refuse.write \in BOOLEAN
  BY DEF listAppsTool, listReleasesTool, getReleaseTool, yankReleaseTool, unyankReleaseTool,
         promoteReleaseTool, downloadURLTool, statsTool, createTokenTool, Stats, Apps, Releases,
         Release, Latest, Promote, Yank, Unyank, CreateToken, Refuse, Local, Get, Post
<1>. QED
  BY <1>1, GCWrites, PublishWrites DEF Call

-----------------------------------------------------------------------------
(* What the steps do *)

LEMMA InQueue ==
    ASSUME Typed, Delivered, NEW d \in Delivery, d \in Sent
    PROVE  d[1] \in 1..Len(posted) /\ PlanOf(d) \in Plans
<1>1. d[1] \in 1..MaxMsg /\ d[2] \in 1..MaxTries /\ d[2] <= tries[d[1]]
  BY DEF Delivery, Sent
<1>2. tries[d[1]] > 0 /\ Len(posted) \in Nat
  BY <1>1 DEF Typed
<1>3. d[1] \in 1..Len(posted)
  BY <1>1, <1>2 DEF Delivered
<1>4. posted[d[1]] \in Message
  BY <1>3 DEF Typed
<1>. QED
  BY <1>3, <1>4 DEF PlanOf, Message

LEMMA AckFacts ==
    ASSUME Typed, NEW n \in 1..Len(posted), Ack(n)
    PROVE  acked' \in SUBSET (1..Len(posted)) /\ faults' \in 0..MaxFaults
<1>1. faults \in 0..MaxFaults /\ MaxFaults \in Nat /\ acked \subseteq 1..Len(posted)
  BY DEF Typed
<1>2. CASE acked' = acked \cup {n} /\ UNCHANGED faults
  BY <1>1, <1>2
<1>3. CASE Fault /\ UNCHANGED acked
  BY <1>1, <1>3 DEF Fault
<1>. QED
  BY <1>2, <1>3 DEF Ack

\* A delivery is taken from the front of the queue.
Takes(d) ==
    /\ d \in Delivery /\ d \in Sent /\ d[1] \in 1..Len(posted) /\ PlanOf(d) \in Plans
    /\ job[d].at = "none" /\ up
    /\ queue # <<>> /\ d = queue[1] /\ queue' = Tail(queue)
    /\ Begins(d)
    /\ kind = "slack" => ~Busy
    /\ Line => reading /\ ~reading'
    /\ acked' \in SUBSET (1..Len(posted)) /\ faults' \in 0..MaxFaults /\ reading' \in BOOLEAN
    /\ UNCHANGED <<kind, posted, tries, net, log, out, up, cancelled, eof>>

LEMMA TakeFacts ==
    ASSUME Typed, Delivered, Take
    PROVE  \E d \in Delivery : Takes(d)
<1>. DEFINE d == queue[1]
<1>1. queue # <<>> /\ queue \in Seq(Delivery) /\ up
  BY DEF Take, TakeSlack, TakeHook, TakeWs, TakeLine, Typed
<1>2. 1 \in 1..Len(queue) /\ d \in Delivery /\ Head(queue) = d
  BY <1>1
<1>3. d \in Sent /\ job[d].at = "none"
  BY <1>2 DEF Delivered
<1>4. d[1] \in 1..Len(posted) /\ PlanOf(d) \in Plans
  BY <1>2, <1>3, InQueue
<1>5. queue' = Tail(queue) /\ Begins(d)
  BY <1>2 DEF Take, TakeSlack, TakeHook, TakeWs, TakeLine
<1>6. UNCHANGED <<kind, posted, tries, net, log, out, up, cancelled, eof>>
  BY DEF Take, TakeSlack, TakeHook, TakeWs, TakeLine, process
<1>7. reading' \in BOOLEAN
  BY DEF Take, TakeSlack, TakeHook, TakeWs, TakeLine, process, Typed
<1>8. acked' \in SUBSET (1..Len(posted)) /\ faults' \in 0..MaxFaults
  <2>1. CASE TakeSlack \/ TakeHook
    BY <1>2, <1>4, <2>1, AckFacts DEF TakeSlack, TakeHook
  <2>2. CASE TakeWs
    BY <1>2, <1>4, <2>2, AckFacts DEF TakeWs, Typed
  <2>3. CASE TakeLine
    BY <2>3 DEF TakeLine, Typed
  <2>. QED
    BY <2>1, <2>2, <2>3 DEF Take
<1>9. (kind = "slack" => ~Busy) /\ (Line => reading /\ ~reading')
  BY DEF Take, TakeSlack, TakeHook, TakeWs, TakeLine, Line
<1>. QED
  BY <1>1, <1>2, <1>3, <1>4, <1>5, <1>6, <1>7, <1>8, <1>9 DEF Takes

Fresh(uses, place) == [NoJob EXCEPT !.uses = uses, !.at = place]

LEMMA NewJob ==
    ASSUME NEW uses \in UseSeqs, NEW place \in Place
    PROVE  /\ Fresh(uses, place) \in JobType
           /\ Fresh(uses, place).at = place /\ Fresh(uses, place).uses = uses
           /\ Fresh(uses, place).results = <<>>
           /\ Fresh(uses, place).turn = 0 /\ Fresh(uses, place).told = 0
<1>1. <<>> \in UseSeqs /\ "none" \in Place /\ <<>> \in Seq(Answer3) /\ 0 \in 0..MaxTurns
  BY DEF UseSeqs, Place
<1>2. NoJob \in JobType
  BY <1>1 DEF NoJob, JobType
<1>. QED
  BY <1>2 DEF NoJob, JobType, Fresh

\* The dispatch of a delivery starts at the beginning.
LEMMA BeginsFacts ==
    ASSUME Typed, NEW d \in Delivery, PlanOf(d) \in Plans, Begins(d)
    PROVE  /\ job' \in [Delivery -> JobType]
           /\ \A e \in Delivery : e # d => job'[e] = job[e]
           /\ job'[d].results = <<>> /\ job'[d].turn = 0 /\ job'[d].told = 0
           /\ job'[d].uses = PlanOf(d).uses
           /\ job'[d].at \in {"done", "reply", "work", "model"}
           /\ job'[d].at = "model" => PlanOf(d).do = "ask" /\ PlanOf(d).uses = <<>>
           /\ job'[d].at = "work" => PlanOf(d).do = "call"
           /\ job'[d].at = "reply" => PlanOf(d).do = "answer"
<1>1. PlanOf(d).do \in {"ignore", "answer", "call", "ask"} /\ PlanOf(d).uses \in UseSeqs
      /\ (PlanOf(d).do = "ask" => PlanOf(d).uses = <<>>)
  BY PlanShape
<1>. DEFINE p == CASE PlanOf(d).do = "ignore" -> "done"
                   [] PlanOf(d).do = "answer" -> "reply"
                   [] PlanOf(d).do = "call"   -> "work"
                   [] PlanOf(d).do = "ask"    -> "model"
            new == Fresh(PlanOf(d).uses, p)
<1>2. /\ p \in {"done", "reply", "work", "model"}
      /\ p = "model" => PlanOf(d).do = "ask"
      /\ p = "work" => PlanOf(d).do = "call"
      /\ p = "reply" => PlanOf(d).do = "answer"
  BY <1>1
<1>3. job' = [job EXCEPT ![d] = new]
  BY Zenon DEF Begins, Fresh
<1>. HIDE DEF p
<1>4. p \in Place
  BY <1>2 DEF Place
<1>5. /\ new \in JobType /\ new.at = p /\ new.uses = PlanOf(d).uses
      /\ new.results = <<>> /\ new.turn = 0 /\ new.told = 0
  BY <1>1, <1>4, NewJob
<1>. QED
  BY <1>1, <1>2, <1>3, <1>5 DEF Typed

\* Dispatches stay within their process, their iterations and what the chat was told.
Rounds ==
    \A d \in Delivery :
        /\ Active(d) => up /\ job[d].told <= job[d].turn
        /\ job[d].at = "model" => job[d].turn < MaxTurns /\ PlanOf(d).do = "ask"
        /\ job[d].at = "stream" => job[d].turn > 0
        /\ job[d].at \in {"work", "wait"} /\ PlanOf(d).do = "ask" => job[d].told = job[d].turn

IInv == Typed /\ Delivered /\ Rounds

\* What a step of a dispatch leaves alone.
Frame(d) ==
    /\ \A e \in Delivery : e # d => job'[e] = job[e]
    /\ UNCHANGED <<kind, posted, tries, queue, process>>

LEMMA RunToolFacts ==
    ASSUME Typed, NEW d \in Delivery, RunTool(d)
    PROVE  /\ Frame(d) /\ job' \in [Delivery -> JobType] /\ UNCHANGED <<log, acked, faults, out>>
           /\ job[d].at = "work" /\ Next1(d) <= Len(job[d].uses)
           /\ \/ \E r \in Answer3 : /\ Result(d, r) /\ UNCHANGED net
                                     /\ r = "ok" => ~Reads(d).write
              \/ /\ At(d, "wait")
                 /\ net' = net \cup {[job |-> d, turn |-> job[d].turn, i |-> Next1(d),
                                      write |-> Reads(d).write, st |-> "sent"]}
<1>1. job \in [Delivery -> JobType]
  BY DEF Typed
<1>2. ASSUME NEW r \in Answer3, Result(d, r)
      PROVE  job' \in [Delivery -> JobType] /\ \A e \in Delivery : e # d => job'[e] = job[e]
  <2>1. Append(job[d].results, r) \in Seq(Answer3)
    BY <1>1 DEF JobType
  <2>2. "work" \in Place
    BY DEF Place
  <2>. QED
    BY <1>1, <1>2, <2>1, <2>2 DEF Result, JobType
<1>3. ASSUME At(d, "wait")
      PROVE  job' \in [Delivery -> JobType] /\ \A e \in Delivery : e # d => job'[e] = job[e]
  BY <1>1, <1>3 DEF At, JobType, Place
<1>4. CASE ~Sends(Reads(d))
  <2>1. PICK r \in {"ok", "refused"} : Result(d, r) /\ (r = "ok" => Reads(d) = Local)
    BY <1>4 DEF RunTool
  <2>2. r \in Answer3 /\ ~Local.write
    BY DEF Answer3, Local, Get
  <2>. QED
    BY <1>2, <1>4, <2>1, <2>2 DEF RunTool, Frame, pipe
<1>5. CASE Sends(Reads(d)) /\ cancelled
  <2>1. Result(d, "failed") /\ "failed" \in Answer3
    BY <1>5 DEF RunTool, Answer3
  <2>. QED
    BY <1>2, <1>5, <2>1 DEF RunTool, Frame, pipe
<1>6. CASE Sends(Reads(d)) /\ ~cancelled
  BY <1>3, <1>6 DEF RunTool, Frame, pipe
<1>. QED
  BY <1>4, <1>5, <1>6

LEMMA AtFacts ==
    ASSUME Typed, NEW d \in Delivery, NEW p \in Place, At(d, p)
    PROVE  /\ job' \in [Delivery -> JobType] /\ \A e \in Delivery : e # d => job'[e] = job[e]
           /\ job'[d].at = p /\ job'[d].uses = job[d].uses /\ job'[d].results = job[d].results
           /\ job'[d].turn = job[d].turn /\ job'[d].told = job[d].told
BY DEF Typed, At, JobType

LEMMA MessagesFacts ==
    ASSUME Typed, Rounds, NEW d \in Delivery, Messages(d)
    PROVE  /\ Frame(d) /\ job' \in [Delivery -> JobType] /\ UNCHANGED <<net, log, acked, faults, out>>
           /\ job[d].at = "model"
           /\ \/ At(d, "reply")
              \/ /\ job'[d].at = "stream" /\ job'[d].results = <<>>
                 /\ job'[d].turn = job[d].turn + 1 /\ job'[d].told = job[d].told
<1>1. job \in [Delivery -> JobType] /\ job[d].at = "model"
  BY DEF Typed, Messages
<1>2. job[d].turn < MaxTurns /\ job[d].turn \in 0..MaxTurns
  BY <1>1 DEF Rounds, JobType
<1>3. CASE At(d, "reply")
  <2>1. "reply" \in Place
    BY DEF Place
  <2>. QED
    BY <1>1, <1>3, <2>1, AtFacts DEF Messages, Frame, pipe
<1>4. ASSUME NEW uses \in Turns,
             job' = [job EXCEPT ![d].at = "stream", ![d].uses = uses, ![d].results = <<>>,
                                ![d].turn = @ + 1]
      PROVE  /\ job' \in [Delivery -> JobType] /\ \A e \in Delivery : e # d => job'[e] = job[e]
             /\ job'[d].at = "stream" /\ job'[d].results = <<>>
             /\ job'[d].turn = job[d].turn + 1 /\ job'[d].told = job[d].told
  <2>1. uses \in UseSeqs /\ "stream" \in Place /\ <<>> \in Seq(Answer3)
        /\ job[d].turn + 1 \in 0..MaxTurns
    BY <1>2 DEF UseSeqs, Place
  <2>. QED
    BY <1>1, <1>4, <2>1 DEF JobType
<1>. QED
  BY <1>1, <1>3, <1>4 DEF Messages, Frame, pipe

LEMMA ResultFacts ==
    ASSUME Typed, NEW d \in Delivery, NEW r \in Answer3, Result(d, r)
    PROVE  /\ job' \in [Delivery -> JobType] /\ \A e \in Delivery : e # d => job'[e] = job[e]
           /\ job'[d].at = "work" /\ job'[d].uses = job[d].uses
           /\ job'[d].results = Append(job[d].results, r)
           /\ job'[d].turn = job[d].turn /\ job'[d].told = job[d].told
<1>1. Append(job[d].results, r) \in Seq(Answer3) /\ "work" \in Place
  BY DEF Typed, JobType, Place
<1>. QED
  BY <1>1 DEF Typed, Result, JobType

LEMMA StreamFacts ==
    ASSUME Typed, Rounds, NEW d \in Delivery, StreamProgress(d)
    PROVE  /\ Frame(d) /\ job' \in [Delivery -> JobType] /\ UNCHANGED <<net, log, acked, out>>
           /\ job[d].at = "stream" /\ job'[d].at = "work" /\ job'[d].told = job[d].turn
           /\ job'[d].turn = job[d].turn /\ job'[d].uses = job[d].uses
           /\ job'[d].results = job[d].results
           /\ faults' \in 0..MaxFaults /\ faults <= faults'
           /\ job'[d].missed = job[d].missed \/ cancelled \/ faults' > 0
<1>1. job \in [Delivery -> JobType] /\ "work" \in Place
  BY DEF Typed, Place
<1>2. job[d].turn \in 1..MaxTurns
  BY <1>1 DEF StreamProgress, Rounds, JobType
<1>3. faults \in 0..MaxFaults /\ MaxFaults \in Nat
  BY DEF Typed
<1>4. CASE job' = [job EXCEPT ![d].at = "work", ![d].told = job[d].turn] /\ UNCHANGED faults
  <2>1. job' \in [Delivery -> JobType] /\ \A e \in Delivery : e # d => job'[e] = job[e]
    BY <1>1, <1>2, <1>4 DEF JobType
  <2>2. /\ job'[d].at = "work" /\ job'[d].told = job[d].turn
        /\ job'[d].turn = job[d].turn /\ job'[d].uses = job[d].uses
        /\ job'[d].results = job[d].results /\ job'[d].missed = job[d].missed
    BY <1>1, <1>4 DEF JobType
  <2>. QED
    BY <1>3, <1>4, <2>1, <2>2 DEF StreamProgress, Frame
<1>5. CASE /\ job' = [job EXCEPT ![d].at = "work", ![d].told = job[d].turn,
                                 ![d].missed = @ \cup {job[d].turn}]
           /\ IF cancelled THEN UNCHANGED faults ELSE Fault
  <2>1. job' \in [Delivery -> JobType] /\ \A e \in Delivery : e # d => job'[e] = job[e]
    BY <1>1, <1>2, <1>5 DEF JobType
  <2>2. /\ job'[d].at = "work" /\ job'[d].told = job[d].turn
        /\ job'[d].turn = job[d].turn /\ job'[d].uses = job[d].uses
        /\ job'[d].results = job[d].results
    BY <1>1, <1>5 DEF JobType
  <2>3. faults' \in 0..MaxFaults /\ faults <= faults' /\ (cancelled \/ faults' > 0)
    BY <1>3, <1>5 DEF Fault
  <2>. QED
    BY <2>1, <2>2, <2>3 DEF StreamProgress, Frame
<1>. QED
  BY <1>4, <1>5 DEF StreamProgress

LEMMA TurnEndsFacts ==
    ASSUME Typed, NEW d \in Delivery, TurnEnds(d)
    PROVE  /\ Frame(d) /\ job' \in [Delivery -> JobType] /\ UNCHANGED <<net, log, acked, faults, out>>
           /\ job[d].at = "work" /\ Next1(d) > Len(job[d].uses)
           /\ \/ At(d, "reply")
              \/ At(d, "model") /\ PlanOf(d).do = "ask" /\ job[d].turn < MaxTurns
<1>1. At(d, "reply") \/ (At(d, "model") /\ PlanOf(d).do = "ask" /\ job[d].turn < MaxTurns)
  BY DEF TurnEnds
<1>2. "reply" \in Place /\ "model" \in Place
  BY DEF Place
<1>. QED
  BY <1>1, <1>2, AtFacts DEF TurnEnds, Frame, pipe

LEMMA AnsweredFacts ==
    ASSUME Typed, NEW d \in Delivery, Answered(d)
    PROVE  /\ Frame(d) /\ UNCHANGED <<log, acked, faults, out>> /\ job[d].at = "wait"
           /\ \E q \in net : /\ Mine(q, d) /\ q.st # "sent" /\ q.st \in Answer3
                            /\ net' = net \ {q} /\ Result(d, q.st)
<1>1. PICK q \in net : Mine(q, d) /\ q.st # "sent" /\ net' = net \ {q} /\ Result(d, q.st)
  BY DEF Answered
<1>2. q.st \in Answer3
  BY <1>1 DEF Typed, NetType, Answer3
<1>3. \A e \in Delivery : e # d => job'[e] = job[e]
  BY <1>1, <1>2, ResultFacts
<1>. QED
  BY <1>1, <1>2, <1>3 DEF Answered, Frame, pipe

LEMMA FailsFacts ==
    ASSUME Typed, NEW d \in Delivery, Fails(d)
    PROVE  /\ Frame(d) /\ UNCHANGED <<log, acked, out>> /\ faults' \in 0..MaxFaults
           /\ job[d].at = "wait" /\ Result(d, "failed") /\ "failed" \in Answer3
           /\ net' = {q \in net : ~(Mine(q, d) /\ q.st # "sent")}
<1>1. "failed" \in Answer3
  BY DEF Answer3
<1>2. faults \in 0..MaxFaults /\ MaxFaults \in Nat
  BY DEF Typed
<1>3. faults' \in 0..MaxFaults
  BY <1>2 DEF Fails, Fault
<1>. QED
  BY <1>1, <1>3, ResultFacts DEF Fails, Frame

\* What is left of a dispatch that is over.
LEMMA OverFacts ==
    ASSUME Typed, NEW d \in Delivery, NEW p \in Place
    PROVE  /\ Over(d, p) \in JobType /\ Over(d, p).at = p /\ Over(d, p).told = job[d].told
           /\ Over(d, p).results = <<>> /\ Over(d, p).uses = <<>>
<1>1. <<>> \in UseSeqs /\ "none" \in Place /\ <<>> \in Seq(Answer3) /\ 0 \in 0..MaxTurns
  BY DEF UseSeqs, Place
<1>2. NoJob \in JobType
  BY <1>1 DEF NoJob, JobType
<1>3. job[d].told \in 0..MaxTurns /\ job[d].missed \in SUBSET (1..MaxTurns)
  BY DEF Typed, JobType
<1>. QED
  BY <1>2, <1>3 DEF NoJob, JobType, Over

LEMMA ReplyFacts ==
    ASSUME Typed, NEW d \in Delivery, d[1] \in 1..Len(posted), Reply(d)
    PROVE  /\ Frame(d) /\ UNCHANGED <<net, log>> /\ job[d].at = "reply"
           /\ job' = [job EXCEPT ![d] = Over(d, "done")] /\ job' \in [Delivery -> JobType]
           /\ acked' \in SUBSET (1..Len(posted)) /\ faults' \in 0..MaxFaults
           /\ (out' = Append(out, d) /\ ~posted[d[1]].quiet) \/ UNCHANGED out
<1>1. acked' \in SUBSET (1..Len(posted)) /\ faults' \in 0..MaxFaults
  BY AckFacts DEF Reply, Typed
<1>2. "done" \in Place
  BY DEF Place
<1>3. job' \in [Delivery -> JobType] /\ \A e \in Delivery : e # d => job'[e] = job[e]
  BY <1>2, OverFacts DEF Reply, Typed
<1>. QED
  BY <1>1, <1>3 DEF Reply, Frame

LEMMA ServeFacts ==
    ASSUME Typed, NEW q \in net, Serve(q)
    PROVE  /\ q.st = "sent" /\ UNCHANGED <<pipe, process, job, out>>
           /\ \E st \in {"ok", "refused"} :
                /\ net' = (net \ {q}) \cup (IF Waits(q) THEN {[q EXCEPT !.st = st]} ELSE {})
                /\ log' = IF st = "ok" /\ q.write
                          THEN Append(log, [job |-> q.job, turn |-> q.turn, i |-> q.i, late |-> ~Waits(q)])
                          ELSE log
           /\ net' \in SUBSET NetType /\ log' \in Seq(LogType)
<1>1. PICK st \in {"ok", "refused"} :
        /\ net' = (net \ {q}) \cup (IF Waits(q) THEN {[q EXCEPT !.st = st]} ELSE {})
        /\ log' = IF st = "ok" /\ q.write
                  THEN Append(log, [job |-> q.job, turn |-> q.turn, i |-> q.i, late |-> ~Waits(q)])
                  ELSE log
  BY DEF Serve
<1>2. q \in NetType /\ net \subseteq NetType /\ log \in Seq(LogType)
  BY DEF Typed
<1>3. [q EXCEPT !.st = st] \in NetType
  BY <1>2 DEF NetType
<1>4. Waits(q) \in BOOLEAN
  BY DEF Waits, Mine
<1>5. [job |-> q.job, turn |-> q.turn, i |-> q.i, late |-> ~Waits(q)] \in LogType
  <2>. DEFINE w == ~Waits(q)
  <2>1. w \in BOOLEAN
    BY <1>4
  <2>. HIDE DEF w
  <2>2. [job |-> q.job, turn |-> q.turn, i |-> q.i, late |-> w] \in LogType
    BY <1>2, <2>1 DEF NetType, LogType
  <2>. QED
    BY <2>2 DEF w
<1>6. net' \in SUBSET NetType
  BY <1>1, <1>2, <1>3
<1>. DEFINE entry == [job |-> q.job, turn |-> q.turn, i |-> q.i, late |-> ~Waits(q)]
<1>7. log' \in Seq(LogType)
  <2>1. entry \in LogType /\ (log' = Append(log, entry) \/ log' = log)
    BY <1>1, <1>5
  <2>. HIDE DEF entry
  <2>. QED
    BY <1>2, <2>1
<1>. QED
  BY <1>1, <1>6, <1>7 DEF Serve

LEMMA DownFacts ==
    ASSUME Typed, Down
    PROVE  /\ up' = FALSE /\ queue' = <<>> /\ reading' = FALSE
           /\ job' \in [Delivery -> JobType]
           /\ \A d \in Delivery :
                (Active(d) /\ job'[d] = Over(d, "cut")) \/ (~Active(d) /\ job'[d] = job[d])
           /\ net' \in SUBSET net /\ \A q \in net' : q.st = "sent"
           /\ UNCHANGED <<kind, posted, tries, acked, cancelled, eof, log, out>>
<1>1. "cut" \in Place /\ job \in [Delivery -> JobType]
  BY DEF Place, Typed
<1>2. \A d \in Delivery : Over(d, "cut") \in JobType
  BY <1>1, OverFacts
<1>3. job' = [d \in Delivery |-> IF Active(d) THEN Over(d, "cut") ELSE job[d]]
  BY DEF Down
<1>. HIDE DEF Active
<1>4. job' \in [Delivery -> JobType]
  BY <1>1, <1>2, <1>3
<1>5. ASSUME NEW d \in Delivery
      PROVE  (Active(d) /\ job'[d] = Over(d, "cut")) \/ (~Active(d) /\ job'[d] = job[d])
  <2>1. job'[d] = IF Active(d) THEN Over(d, "cut") ELSE job[d]
    BY <1>3, Zenon
  <2>2. CASE Active(d)
    BY <2>1, <2>2, Zenon
  <2>3. CASE ~Active(d)
    BY <2>1, <2>3, Zenon
  <2>. QED
    BY <2>2, <2>3
<1>6. net' \in SUBSET net /\ \A q \in net' : q.st = "sent"
  BY DEF Down
<1>. QED
  <2>1. UNCHANGED <<kind, posted, tries, acked, cancelled, eof, log, out>>
        /\ up' = FALSE /\ queue' = <<>> /\ reading' = FALSE
    BY DEF Down
  <2>. QED
    BY <1>4, <1>5, <1>6, <2>1

LEMMA FaultFacts ==
    ASSUME Typed, Fault
    PROVE  faults' \in 0..MaxFaults
BY DEF Typed, Fault

LEMMA WriteFacts ==
    ASSUME Typed, Write
    PROVE  /\ \E m \in Message : posted' = Append(posted, m)
           /\ Len(posted) < MaxMsg
           /\ tries' = [tries EXCEPT ![Len(posted) + 1] = 1]
           /\ queue' = Append(queue, <<Len(posted) + 1, 1>>)
           /\ UNCHANGED <<kind, acked, faults, process, job, net, log, out>>
<1>1. PICK m \in IF kind = "mcp" THEN [plan : {HandleLine(l) : l \in Lines}, quiet : BOOLEAN]
                 ELSE [plan : {Dispatch(t, Agent) : t \in Texts}
                                \cup (IF kind = "stdio" THEN {} ELSE {Ignore}),
                       quiet : {FALSE}] : posted' = Append(posted, m)
  BY DEF Write
<1>2. m \in Message
  <2>1. CASE kind = "mcp"
    BY <1>1, <2>1 DEF Message, Plans
  <2>2. CASE kind # "mcp"
    BY <1>1, <2>2 DEF Message, Plans
  <2>. QED
    BY <2>1, <2>2
<1>. QED
  BY <1>1, <1>2 DEF Write

\* What a redelivery does for the message n.
Again(n) ==
    /\ n \in 1..Len(posted) /\ tries[n] < MaxTries
    /\ \A d \in ToSet(queue) : d[1] = n => kind = "slack" /\ Busy
    /\ tries' = [tries EXCEPT ![n] = @ + 1]
    /\ queue' = Append(queue, <<n, tries[n] + 1>>)
    /\ UNCHANGED <<kind, posted, acked, faults, process, job, net, log, out>>

LEMMA RedeliverFacts ==
    ASSUME Redeliver
    PROVE  \E n \in 1..Len(posted) : Again(n)
BY DEF Redeliver, Again, Late

-----------------------------------------------------------------------------
(* The type of the state *)

LEMMA SentRequest ==
    ASSUME Typed, NEW d \in Delivery, Next1(d) <= Len(job[d].uses)
    PROVE  [job |-> d, turn |-> job[d].turn, i |-> Next1(d), write |-> Reads(d).write, st |-> "sent"]
             \in NetType
<1>1. job[d] \in JobType
  BY DEF Typed
<1>2. Reads(d).write \in BOOLEAN
  BY CallWrites DEF Reads
<1>3. Len(job[d].results) \in Nat /\ job[d].turn \in 0..MaxTurns
  BY <1>1 DEF JobType
<1>. QED
  BY <1>2, <1>3 DEF NetType, Next1

LEMMA HandleTyped ==
    ASSUME Typed, Delivered, Rounds, NEW d \in Delivery, Handle(d)
    PROVE  Typed'
<1>1. CASE Messages(d)
  BY <1>1, MessagesFacts DEF Typed, Frame, process
<1>2. CASE StreamProgress(d)
  BY <1>2, StreamFacts DEF Typed, Frame, process
<1>3. CASE TurnEnds(d)
  BY <1>3, TurnEndsFacts DEF Typed, Frame, process
<1>4. CASE RunTool(d)
  <2>1. /\ Next1(d) <= Len(job[d].uses)
        /\ (net' = net \/ net' = net \cup {[job |-> d, turn |-> job[d].turn, i |-> Next1(d),
                                          write |-> Reads(d).write, st |-> "sent"]})
    BY <1>4 DEF RunTool, At, Result
  <2>2. net' \in SUBSET NetType
    BY <2>1, SentRequest DEF Typed
  <2>. QED
    BY <1>4, <2>2, RunToolFacts DEF Typed, Frame, process
<1>5. CASE Answered(d)
  <2>1. net' \in SUBSET NetType /\ job' \in [Delivery -> JobType]
    BY <1>5, AnsweredFacts, ResultFacts DEF Typed
  <2>. QED
    BY <1>5, <2>1, AnsweredFacts DEF Typed, Frame, process
<1>6. CASE Fails(d)
  <2>1. net' \in SUBSET NetType /\ job' \in [Delivery -> JobType]
    BY <1>6, FailsFacts, ResultFacts DEF Typed
  <2>. QED
    BY <1>6, <2>1, FailsFacts DEF Typed, Frame, process
<1>7. CASE Reply(d)
  <2>1. d[1] \in 1..Len(posted)
    BY <1>7, InQueue DEF Delivered, Reply
  <2>2. out' = Append(out, d) \/ out' = out
    BY <1>7, <2>1, ReplyFacts
  <2>3. out' \in Seq(Delivery)
    <3>1. out \in Seq(Delivery)
      BY DEF Typed
    <3>. QED
      BY <2>2, <3>1
  <2>. QED
    BY <1>7, <2>1, <2>3, ReplyFacts DEF Typed, Frame, process
<1>. QED
  BY <1>1, <1>2, <1>3, <1>4, <1>5, <1>6, <1>7 DEF Handle

LEMMA StepTyped ==
    ASSUME IInv, [Next]_vars
    PROVE  Typed'
<1>. USE DEF IInv
<1>1. CASE Write
  <2>1. PICK m \in Message : posted' = Append(posted, m)
    BY <1>1, WriteFacts
  <2>2. Len(posted) < MaxMsg /\ posted \in Seq(Message) /\ tries \in [1..MaxMsg -> 0..MaxTries]
        /\ queue \in Seq(Delivery) /\ MaxMsg \in Nat /\ MaxTries \in Nat \ {0}
    BY <1>1, WriteFacts DEF Typed
  <2>3. posted' \in Seq(Message) /\ Len(posted') = Len(posted) + 1 /\ Len(posted') <= MaxMsg
    BY <2>1, <2>2
  <2>. DEFINE n == Len(posted) + 1
  <2>0. tries' = [tries EXCEPT ![n] = 1] /\ queue' = Append(queue, <<n, 1>>)
        /\ acked' = acked /\ acked \in SUBSET (1..Len(posted))
    BY <1>1, WriteFacts DEF Typed
  <2>4. tries' \in [1..MaxMsg -> 0..MaxTries]
    BY <2>0, <2>2
  <2>5. <<Len(posted) + 1, 1>> \in Delivery
    BY <2>2 DEF Delivery
  <2>6. queue' \in Seq(Delivery)
    BY <2>0, <2>2, <2>5
  <2>7. acked' \in SUBSET (1..Len(posted'))
    BY <2>0, <2>2, <2>3
  <2>. QED
    BY <1>1, <2>3, <2>4, <2>6, <2>7, WriteFacts DEF Typed, process
<1>2. CASE Redeliver
  <2>1. PICK n \in 1..Len(posted) : Again(n)
    BY <1>2, RedeliverFacts
  <2>5. tries \in [1..MaxMsg -> 0..MaxTries] /\ Len(posted) \in Nat /\ Len(posted) <= MaxMsg
        /\ queue \in Seq(Delivery) /\ tries[n] < MaxTries
    BY <2>1 DEF Again, Typed
  <2>6. n \in 1..MaxMsg
    BY <2>5
  <2>2. n \in 1..MaxMsg /\ tries \in [1..MaxMsg -> 0..MaxTries] /\ tries[n] + 1 \in 1..MaxTries
        /\ queue \in Seq(Delivery)
    BY <2>5, <2>6
  <2>3. tries' \in [1..MaxMsg -> 0..MaxTries]
    BY <2>1, <2>2 DEF Again
  <2>4. queue' \in Seq(Delivery)
    BY <2>1, <2>2 DEF Again, Delivery
  <2>. QED
    BY <2>1, <2>3, <2>4 DEF Again, Typed, process
<1>3. CASE Take
  <2>1. PICK d \in Delivery : Takes(d)
    BY <1>3, TakeFacts
  <2>2. job' \in [Delivery -> JobType]
    BY <2>1, BeginsFacts DEF Takes
  <2>3. queue' \in Seq(Delivery)
    BY <2>1 DEF Takes, Typed
  <2>. QED
    BY <2>1, <2>2, <2>3 DEF Takes, Typed
<1>4. CASE CheckContext
  BY <1>4 DEF CheckContext, Typed, pipe
<1>5. CASE Dispatching
  BY <1>5, HandleTyped DEF Dispatching
<1>6. CASE Serving
  BY <1>6, ServeFacts DEF Serving, Typed, pipe, process
<1>7. CASE Start
  BY <1>7 DEF Start, Typed, pipe
<1>8. CASE Signal
  BY <1>8, FaultFacts DEF Signal, Typed
<1>9. CASE CloseStdin
  BY <1>9 DEF CloseStdin, Typed, pipe
<1>10. ASSUME Down, faults' \in 0..MaxFaults
       PROVE  Typed'
  <2>1. queue' \in Seq(Delivery) /\ net' \in SUBSET NetType
    <3>1. queue' = <<>> /\ net' \in SUBSET net /\ net \in SUBSET NetType
      BY <1>10, DownFacts DEF Typed
    <3>. QED
      BY <3>1
  <2>. QED
    BY <1>10, <2>1, DownFacts DEF Typed
<1>11. CASE Return
  BY <1>10, <1>11 DEF Return, Typed
<1>12. CASE EndOfInput
  BY <1>10, <1>12 DEF EndOfInput, Typed
<1>13. CASE Kill
  BY <1>10, <1>13, FaultFacts DEF Kill
<1>14. CASE UNCHANGED vars
  BY <1>14 DEF vars, pipe, process, Typed
<1>. QED
  BY <1>1, <1>2, <1>3, <1>4, <1>5, <1>6, <1>7, <1>8, <1>9, <1>11, <1>12, <1>13, <1>14 DEF Next

-----------------------------------------------------------------------------
(* Deliveries and rounds *)

\* What neither a delivery nor a dispatch is part of.
Quiet ==
    /\ UNCHANGED <<kind, posted, tries, queue, job, net, log, out>>
    /\ up => up'
    /\ reading' => reading \/ ~Busy

LEMMA StepCases ==
    ASSUME IInv, [Next]_vars
    PROVE  \/ Write \/ (\E n \in 1..Len(posted) : Again(n)) \/ (\E d \in Delivery : Takes(d))
           \/ (\E d \in Delivery : Handle(d)) \/ (\E q \in net : Serve(q)) \/ Quiet \/ Down
<1>1. CASE Redeliver
  BY <1>1, RedeliverFacts
<1>2. CASE Take
  BY <1>2, TakeFacts DEF IInv
<1>3. CASE CheckContext \/ Start \/ Signal \/ CloseStdin \/ UNCHANGED vars
  BY <1>3 DEF CheckContext, Start, Signal, CloseStdin, vars, pipe, process, Quiet
<1>4. CASE Return \/ EndOfInput \/ Kill
  BY <1>4 DEF Return, EndOfInput, Kill
<1>. QED
  BY <1>1, <1>2, <1>3, <1>4 DEF Next, Dispatching, Serving

LEMMA PlanKept ==
    ASSUME IInv, NEW m \in Message, posted' = Append(posted, m), NEW d \in Delivery, d \in Sent
    PROVE  PlanOf(d)' = PlanOf(d) /\ posted'[d[1]] = posted[d[1]]
<1>1. d[1] \in 1..Len(posted) /\ posted \in Seq(Message)
  BY InQueue DEF IInv, Typed
<1>. QED
  BY <1>1 DEF PlanOf

\* What every step of a dispatch has in common.
LEMMA HandleMoves ==
    ASSUME IInv, NEW d \in Delivery, Handle(d)
    PROVE  /\ Frame(d) /\ log' = log /\ Active(d) /\ job'[d].at # "none"
           /\ job[d].told <= job'[d].told
           /\ \A q \in net' : \/ q \in net
                             \/ /\ q.job = d /\ q.turn = job[d].turn /\ job[d].at = "work"
                                /\ q.i = Next1(d) /\ q.st = "sent" /\ q.write = Reads(d).write
                                /\ Next1(d) <= Len(job[d].uses)
                                /\ job'[d].at = "wait" /\ job'[d].turn = job[d].turn
                                /\ job'[d].uses = job[d].uses /\ job'[d].results = job[d].results
<1>. USE DEF IInv
<1>1. job[d] \in JobType /\ job[d].told \in Nat /\ job[d].turn \in Nat
  BY DEF Typed, JobType
<1>2. CASE Messages(d)
  <2>1. job'[d].told = job[d].told /\ job'[d].at # "none"
    BY <1>2, MessagesFacts, AtFacts DEF Place
  <2>. QED
    BY <1>1, <1>2, <2>1, MessagesFacts DEF Active
<1>3. CASE StreamProgress(d)
  <2>1. job[d].told <= job[d].turn
    BY <1>3, StreamFacts DEF Rounds, Active
  <2>. QED
    BY <1>1, <1>3, <2>1, StreamFacts DEF Active
<1>4. CASE TurnEnds(d)
  <2>1. job'[d].told = job[d].told /\ job'[d].at # "none"
    BY <1>4, TurnEndsFacts, AtFacts DEF Place
  <2>. QED
    BY <1>1, <1>4, <2>1, TurnEndsFacts DEF Active
<1>5. CASE RunTool(d)
  <2>. DEFINE q == [job |-> d, turn |-> job[d].turn, i |-> Next1(d), write |-> Reads(d).write,
                    st |-> "sent"]
  <2>1. Frame(d) /\ log' = log /\ job[d].at = "work" /\ Next1(d) <= Len(job[d].uses)
    BY <1>5, RunToolFacts
  <2>2. CASE net' = net /\ \E r \in Answer3 : Result(d, r)
    BY <1>1, <2>1, <2>2, ResultFacts DEF Active
  <2>3. CASE net' = net \cup {q} /\ At(d, "wait")
    <3>1. "wait" \in Place
      BY DEF Place
    <3>2. /\ job'[d].told = job[d].told /\ job'[d].at = "wait" /\ job'[d].turn = job[d].turn
          /\ job'[d].uses = job[d].uses /\ job'[d].results = job[d].results
      BY <2>3, <3>1, AtFacts
    <3>3. /\ q.job = d /\ q.turn = job[d].turn /\ q.i = Next1(d) /\ q.st = "sent"
          /\ q.write = Reads(d).write
      OBVIOUS
    <3>. HIDE DEF q
    <3>. QED
      BY <1>1, <2>1, <2>3, <3>2, <3>3 DEF Active
  <2>. QED
    <3>1. \/ net' = net /\ \E r \in Answer3 : Result(d, r)
          \/ net' = net \cup {q} /\ At(d, "wait")
      BY <1>5 DEF RunTool, Answer3
    <3>. HIDE DEF q
    <3>. QED
      BY <2>2, <2>3, <3>1
<1>6. CASE Answered(d)
  <2>1. job'[d].told = job[d].told /\ job'[d].at = "work" /\ net' \subseteq net
    BY <1>6, AnsweredFacts, ResultFacts
  <2>. QED
    BY <1>1, <1>6, <2>1, AnsweredFacts DEF Active
<1>7. CASE Fails(d)
  <2>1. job'[d].told = job[d].told /\ job'[d].at = "work" /\ net' \subseteq net
    BY <1>7, FailsFacts, ResultFacts
  <2>. QED
    BY <1>1, <1>7, <2>1, FailsFacts DEF Active
<1>8. CASE Reply(d)
  <2>1. job[d].at = "reply"
    BY <1>8 DEF Reply
  <2>2. d[1] \in 1..Len(posted)
    BY <2>1, InQueue DEF Delivered
  <2>3. job'[d] = Over(d, "done") /\ "done" \in Place
    BY <1>8, <2>2, ReplyFacts DEF Typed, Place
  <2>4. job'[d].told = job[d].told /\ job'[d].at = "done"
    BY <2>3, OverFacts
  <2>. QED
    BY <1>1, <1>8, <2>1, <2>2, <2>4, ReplyFacts DEF Active
<1>. QED
  BY <1>2, <1>3, <1>4, <1>5, <1>6, <1>7, <1>8 DEF Handle

LEMMA HandleRounds ==
    ASSUME IInv, NEW d \in Delivery, Handle(d)
    PROVE  Rounds'
<1>. USE DEF IInv
<1>. DEFINE R(j) == /\ j.at \in {"work", "wait", "model", "stream", "reply"} => up /\ j.told <= j.turn
                    /\ j.at = "model" => j.turn < MaxTurns /\ PlanOf(d).do = "ask"
                    /\ j.at = "stream" => j.turn > 0
                    /\ j.at \in {"work", "wait"} /\ PlanOf(d).do = "ask" => j.told = j.turn
<1>1. job[d] \in JobType /\ job[d].told \in Nat /\ job[d].turn \in Nat /\ R(job[d])
  BY DEF Typed, JobType, Rounds, Active
<1>2. R(job'[d])
  <2>1. CASE Messages(d)
    <3>1. job[d].at = "model"
      BY <2>1, MessagesFacts
    <3>2. CASE At(d, "reply")
      BY <1>1, <3>1, <3>2, AtFacts DEF Place
    <3>3. CASE /\ job'[d].at = "stream" /\ job'[d].turn = job[d].turn + 1
               /\ job'[d].told = job[d].told
      BY <1>1, <3>1, <3>3
    <3>. QED
      BY <2>1, <3>2, <3>3, MessagesFacts
  <2>2. CASE StreamProgress(d)
    BY <1>1, <2>2, StreamFacts
  <2>3. CASE TurnEnds(d)
    <3>1. job[d].at = "work" /\ "reply" \in Place /\ "model" \in Place
      BY <2>3, TurnEndsFacts DEF Place
    <3>2. CASE At(d, "reply")
      BY <1>1, <3>1, <3>2, AtFacts
    <3>3. CASE At(d, "model") /\ PlanOf(d).do = "ask" /\ job[d].turn < MaxTurns
      BY <1>1, <3>1, <3>3, AtFacts
    <3>. QED
      BY <2>3, <3>2, <3>3, TurnEndsFacts
  <2>4. ASSUME job[d].at \in {"work", "wait"}, job'[d].at \in {"work", "wait"},
               job'[d].turn = job[d].turn, job'[d].told = job[d].told
        PROVE  R(job'[d])
    BY <1>1, <2>4
  <2>5. CASE RunTool(d)
    <3>1. job[d].at = "work" /\ (At(d, "wait") \/ \E r \in Answer3 : Result(d, r))
      BY <2>5 DEF RunTool, Answer3
    <3>2. "wait" \in Place
      BY DEF Place
    <3>3. job'[d].at \in {"work", "wait"} /\ job'[d].turn = job[d].turn /\ job'[d].told = job[d].told
      BY <3>1, <3>2, AtFacts, ResultFacts
    <3>. QED
      BY <2>4, <3>1, <3>3
  <2>6. CASE Answered(d)
    <3>1. job[d].at = "wait" /\ \E r \in Answer3 : Result(d, r)
      BY <2>6, AnsweredFacts
    <3>. QED
      BY <2>4, <3>1, ResultFacts
  <2>7. CASE Fails(d)
    BY <2>4, <2>7, FailsFacts, ResultFacts
  <2>8. CASE Reply(d)
    <3>1. job'[d] = Over(d, "done") /\ "done" \in Place
      BY <2>8 DEF Reply, Place, Typed
    <3>. QED
      BY <3>1, OverFacts
  <2>. QED
    BY <2>1, <2>2, <2>3, <2>5, <2>6, <2>7, <2>8 DEF Handle
<1>3. Frame(d)
  BY HandleMoves
<1>4. ASSUME NEW e \in Delivery
      PROVE  /\ Active(e)' => up' /\ job'[e].told <= job'[e].turn
             /\ job'[e].at = "model" => job'[e].turn < MaxTurns /\ PlanOf(e)'.do = "ask"
             /\ job'[e].at = "stream" => job'[e].turn > 0
             /\ job'[e].at \in {"work", "wait"} /\ PlanOf(e)'.do = "ask" => job'[e].told = job'[e].turn
  <2>1. PlanOf(e)' = PlanOf(e) /\ up' = up
    BY <1>3 DEF Frame, PlanOf, process
  <2>2. CASE e = d
    BY <1>2, <2>1, <2>2 DEF Active
  <2>3. CASE e # d
    BY <1>3, <2>1, <2>3 DEF Frame, Active, Rounds
  <2>. QED
    BY <2>2, <2>3
<1>. QED
  BY <1>4 DEF Rounds

LEMMA StepRounds ==
    ASSUME IInv, [Next]_vars
    PROVE  Rounds'
<1>. USE DEF IInv
<1>1. CASE Write
  <2>1. PICK m \in Message : posted' = Append(posted, m)
    BY <1>1, WriteFacts
  <2>2. UNCHANGED <<up, job>>
    BY <1>1 DEF Write, process
  <2>3. ASSUME NEW d \in Delivery, job[d].at # "none"
        PROVE  PlanOf(d)' = PlanOf(d)
    BY <2>1, <2>3, PlanKept DEF Delivered
  <2>. QED
    BY <2>2, <2>3 DEF Rounds, Active
<1>2. CASE \E n \in 1..Len(posted) : Again(n)
  BY <1>2 DEF Again, Rounds, Active, PlanOf, process
<1>3. ASSUME NEW d \in Delivery, Takes(d)
      PROVE  Rounds'
  <2>1. posted' = posted /\ up' = up /\ up /\ MaxTurns \in Nat \ {0}
    BY <1>3 DEF Takes
  <2>2. /\ \A e \in Delivery : e # d => job'[e] = job[e]
        /\ job'[d].turn = 0 /\ job'[d].told = 0
        /\ job'[d].at \in {"done", "reply", "work", "model"}
        /\ job'[d].at = "model" => PlanOf(d).do = "ask"
        /\ job'[d].at = "work" => PlanOf(d).do = "call"
    BY <1>3, BeginsFacts DEF Takes
  <2>. QED
    BY <2>1, <2>2 DEF Rounds, Active, PlanOf
<1>4. CASE \E d \in Delivery : Handle(d)
  BY <1>4, HandleRounds
<1>5. ASSUME NEW q \in net, Serve(q)
      PROVE  Rounds'
  BY <1>5 DEF Serve, Rounds, Active, PlanOf, process, pipe
<1>6. CASE Quiet
  BY <1>6 DEF Quiet, Rounds, Active, PlanOf
<1>7. CASE Down
  <2>1. /\ \A d \in Delivery :
              (Active(d) /\ job'[d] = Over(d, "cut")) \/ (~Active(d) /\ job'[d] = job[d])
        /\ \A d \in Delivery : Over(d, "cut").at = "cut"
    BY <1>7, DownFacts, OverFacts DEF Place
  <2>. QED
    BY <2>1 DEF Rounds, Active
<1>. QED
  BY <1>1, <1>2, <1>3, <1>4, <1>5, <1>6, <1>7, StepCases

LEMMA Facts ==
    ASSUME IInv
    PROVE  /\ posted \in Seq(Message) /\ Len(posted) \in Nat /\ Len(posted) <= MaxMsg
           /\ queue \in Seq(Delivery) /\ \A j \in 1..Len(queue) : queue[j] \in Delivery
           /\ tries \in [1..MaxMsg -> 0..MaxTries] /\ MaxMsg \in Nat /\ MaxTries \in Nat \ {0}
           /\ \A q \in net : q \in NetType /\ q.job \in Delivery
           /\ log \in Seq(LogType) /\ \A k \in 1..Len(log) : log[k] \in LogType /\ log[k].job \in Delivery
<1>1. posted \in Seq(Message) /\ Len(posted) \in Nat /\ Len(posted) <= MaxMsg
  BY DEF IInv, Typed
<1>2. queue \in Seq(Delivery) /\ \A j \in 1..Len(queue) : queue[j] \in Delivery
  BY DEF IInv, Typed
<1>3. tries \in [1..MaxMsg -> 0..MaxTries] /\ MaxMsg \in Nat /\ MaxTries \in Nat \ {0}
  BY DEF IInv, Typed
<1>4. \A q \in net : q \in NetType /\ q.job \in Delivery
  BY DEF IInv, Typed, NetType
<1>5. log \in Seq(LogType)
  BY DEF IInv, Typed
<1>6. \A k \in 1..Len(log) : log[k] \in LogType
  BY <1>5
<1>7. \A k \in 1..Len(log) : log[k].job \in Delivery
  BY <1>6 DEF LogType
<1>. QED
  BY <1>1, <1>2, <1>3, <1>4, <1>5, <1>6, <1>7

\* A delivery the platform makes joins the queue.
LEMMA Enqueued ==
    ASSUME IInv, NEW n \in 1..MaxMsg, NEW k \in 1..MaxTries, k = tries[n] + 1,
           tries' = [tries EXCEPT ![n] = k], queue' = Append(queue, <<n, k>>),
           Len(posted') \in Nat, Len(posted) <= Len(posted'), n <= Len(posted'),
           UNCHANGED <<job, net, log>>
    PROVE  Delivered'
<1>. DEFINE new == <<n, k>>
<1>1. new \in Delivery /\ new[1] = n /\ new[2] = k
  BY DEF Delivery
<1>2. \A d \in Delivery : d[1] \in 1..MaxMsg /\ d[2] \in 1..MaxTries
  BY DEF Delivery
<1>3. tries'[n] = k /\ \A i \in 1..MaxMsg : i # n => tries'[i] = tries[i]
  BY Facts
<1>4. \A i \in 1..MaxMsg : tries[i] \in Int /\ tries'[i] \in Int /\ tries[i] <= tries'[i]
  BY <1>3, Facts
<1>5. new \notin Sent
  BY <1>1, Facts DEF Sent
<1>6. new \in Sent' /\ \A d \in Sent : d \in Sent'
  <2>1. new \in Sent'
    BY <1>1, <1>3 DEF Sent
  <2>2. ASSUME NEW d \in Delivery, d[2] <= tries[d[1]]
        PROVE  d[2] <= tries'[d[1]]
    BY <1>2, <1>4, <2>2
  <2>. QED
    BY <2>1, <2>2 DEF Sent
<1>7. job[new].at = "none"
  BY <1>1, <1>5 DEF IInv, Delivered
<1>8. \A j \in 1..Len(queue) : queue[j] \in Sent /\ job[queue[j]].at = "none"
  BY DEF IInv, Delivered
<1>9. \A j \in 1..Len(queue) : queue[j] # new
  BY <1>5, <1>8
<1>. HIDE DEF new
<1>10. /\ Len(queue') = Len(queue) + 1 /\ Len(queue) \in Nat
       /\ \A j \in 1..Len(queue) : queue'[j] = queue[j]
       /\ queue'[Len(queue) + 1] = new
  BY <1>1, Facts DEF new
<1>11. \A j \in 1..Len(queue') : j \in 1..Len(queue) \/ j = Len(queue) + 1
  BY <1>10
<1>12. \A j \in 1..Len(queue') : queue'[j] \in Sent' /\ job'[queue'[j]].at = "none"
  <2>1. ASSUME NEW j \in 1..Len(queue')
        PROVE  queue'[j] \in Sent' /\ job[queue'[j]].at = "none"
    <3>1. CASE j \in 1..Len(queue)
      BY <1>6, <1>8, <1>10, <3>1
    <3>2. CASE j = Len(queue) + 1
      BY <1>6, <1>7, <1>10, <3>2
    <3>. QED
      BY <1>11, <3>1, <3>2
  <2>. QED
    BY <2>1
<1>13. \A i, j \in 1..Len(queue') : queue'[i] = queue'[j] => i = j
  <2>1. \A i, j \in 1..Len(queue) : queue[i] = queue[j] => i = j
    BY DEF IInv, Delivered
  <2>2. ASSUME NEW i \in 1..Len(queue'), NEW j \in 1..Len(queue'), queue'[i] = queue'[j]
        PROVE  i = j
    <3>1. CASE i \in 1..Len(queue) /\ j \in 1..Len(queue)
      BY <1>10, <2>1, <2>2, <3>1
    <3>2. CASE i = Len(queue) + 1 \/ j = Len(queue) + 1
      BY <1>9, <1>10, <1>11, <2>2, <3>2
    <3>. QED
      BY <1>11, <3>1, <3>2
  <2>. QED
    BY <2>2
<1>14. \A i \in 1..MaxMsg : tries'[i] > 0 => i <= Len(posted')
  <2>1. \A i \in 1..MaxMsg : tries[i] > 0 => i <= Len(posted)
    BY DEF IInv, Delivered
  <2>. QED
    BY <1>3, <2>1, Facts
<1>15. \A d \in Delivery : job'[d].at # "none" => d \in Sent'
  BY <1>6 DEF IInv, Delivered
<1>16. (\A q \in net' : job'[q.job].at # "none") /\ \A i \in 1..Len(log') : job'[log'[i].job].at # "none"
  BY DEF IInv, Delivered
<1>. QED
  BY <1>12, <1>13, <1>14, <1>15, <1>16 DEF Delivered

LEMMA StepDelivered ==
    ASSUME IInv, [Next]_vars
    PROVE  Delivered'
<1>. USE DEF IInv
<1>. DEFINE Kept == /\ \A q \in net : job'[q.job].at # "none"
                    /\ \A k \in 1..Len(log) : job'[log[k].job].at # "none"
<1>1. /\ \A n \in 1..MaxMsg : tries[n] > 0 => n <= Len(posted)
      /\ \A j \in 1..Len(queue) : queue[j] \in Sent /\ job[queue[j]].at = "none"
      /\ \A j, k \in 1..Len(queue) : queue[j] = queue[k] => j = k
      /\ \A d \in Delivery : job[d].at # "none" => d \in Sent
      /\ \A q \in net : job[q.job].at # "none"
      /\ \A k \in 1..Len(log) : job[log[k].job].at # "none"
  BY DEF Delivered
<1>2. CASE Write
  <2>1. PICK m \in Message : posted' = Append(posted, m)
    BY <1>2, WriteFacts
  <2>. DEFINE n == Len(posted) + 1
  <2>2. /\ tries' = [tries EXCEPT ![n] = 1] /\ queue' = Append(queue, <<n, 1>>)
        /\ UNCHANGED <<job, net, log>> /\ Len(posted) < MaxMsg
    BY <1>2, WriteFacts
  <2>3. n \in 1..MaxMsg /\ Len(posted') = n /\ Len(posted) <= n /\ n > Len(posted)
    BY <2>1, <2>2, Facts
  <2>4. tries[n] = 0
    <3>1. ~(tries[n] > 0) /\ tries[n] \in Nat
      BY <1>1, <2>3, Facts
    <3>. QED
      BY <3>1
  <2>5. 1 \in 1..MaxTries /\ 1 = tries[n] + 1
    BY <2>4, Facts
  <2>6. Len(posted') \in Nat /\ Len(posted) <= Len(posted') /\ n <= Len(posted')
    BY <2>3, Facts
  <2>. HIDE DEF n
  <2>. QED
    BY <2>2, <2>3, <2>5, <2>6, Enqueued
<1>3. ASSUME NEW n \in 1..Len(posted), Again(n)
      PROVE  Delivered'
  <2>1. n \in 1..MaxMsg
    BY Facts
  <2>2. tries[n] + 1 \in 1..MaxTries
    BY <1>3, <2>1, Facts DEF Again
  <2>3. /\ tries' = [tries EXCEPT ![n] = tries[n] + 1] /\ queue' = Append(queue, <<n, tries[n] + 1>>)
        /\ UNCHANGED <<job, net, log, posted>>
    BY <1>3 DEF Again
  <2>4. Len(posted') \in Nat /\ Len(posted) <= Len(posted') /\ n <= Len(posted')
    BY <2>3, Facts
  <2>. QED
    BY <2>1, <2>2, <2>3, <2>4, Enqueued
<1>4. ASSUME NEW d \in Delivery, Takes(d)
      PROVE  Delivered'
  <2>1. /\ queue # <<>> /\ d = queue[1] /\ queue' = Tail(queue) /\ d \in Sent
        /\ UNCHANGED <<posted, tries, net, log>>
    BY <1>4 DEF Takes
  <2>2. /\ \A e \in Delivery : e # d => job'[e] = job[e]
        /\ job'[d].at \in {"done", "reply", "work", "model"}
    BY <1>4, BeginsFacts DEF Takes
  <2>3. Sent' = Sent
    BY <2>1 DEF Sent
  <2>4. /\ Len(queue) > 0 /\ Len(queue') = Len(queue) - 1
        /\ \A j \in 1..Len(queue') : j + 1 \in 1..Len(queue) /\ queue'[j] = queue[j + 1]
    BY <2>1, Facts
  <2>5. ASSUME NEW j \in 1..Len(queue')
        PROVE  queue'[j] # d /\ queue'[j] \in Delivery /\ queue'[j] \in Sent /\ job[queue'[j]].at = "none"
    <3>1. 1 \in 1..Len(queue) /\ j + 1 \in 1..Len(queue) /\ j + 1 # 1 /\ queue'[j] = queue[j + 1]
      BY <2>4, Facts
    <3>. QED
      BY <1>1, <2>1, <3>1, Facts
  <2>6. \A j \in 1..Len(queue') : queue'[j] \in Sent' /\ job'[queue'[j]].at = "none"
    BY <2>2, <2>3, <2>5
  <2>7. ASSUME NEW i \in 1..Len(queue'), NEW j \in 1..Len(queue'), queue'[i] = queue'[j]
        PROVE  i = j
    <3>1. i + 1 \in 1..Len(queue) /\ j + 1 \in 1..Len(queue) /\ queue[i + 1] = queue[j + 1]
      BY <2>4, <2>7
    <3>2. i + 1 = j + 1
      BY <1>1, <3>1
    <3>. QED
      BY <3>2
  <2>8. Kept
    BY <1>1, <2>2, Facts
  <2>9. \A e \in Delivery : job'[e].at # "none" => e \in Sent'
    BY <1>1, <2>1, <2>2, <2>3
  <2>. QED
    BY <1>1, <2>1, <2>6, <2>7, <2>8, <2>9 DEF Delivered
<1>5. ASSUME NEW d \in Delivery, Handle(d)
      PROVE  Delivered'
  <2>1. /\ \A e \in Delivery : e # d => job'[e] = job[e]
        /\ UNCHANGED <<posted, tries, queue, log>>
        /\ job[d].at # "none" /\ job'[d].at # "none"
        /\ \A q \in net' : q \in net \/ q.job = d
    BY <1>5, HandleMoves DEF Frame, Active
  <2>2. Sent' = Sent
    BY <2>1 DEF Sent
  <2>3. Kept
    BY <1>1, <2>1, Facts
  <2>4. \A j \in 1..Len(queue) : job'[queue[j]].at = "none"
    BY <1>1, <2>1, Facts
  <2>. QED
    BY <2>1, <2>2, <2>3, <2>4 DEF Delivered
<1>6. ASSUME NEW q \in net, Serve(q)
      PROVE  Delivered'
  <2>1. UNCHANGED <<posted, tries, queue, job>>
    BY <1>6 DEF Serve, pipe
  <2>2. \A p \in net' : p.job = q.job \/ p \in net
    <3>1. \A st : [q EXCEPT !.st = st].job = q.job
      BY DEF Typed, NetType
    <3>. QED
      BY <1>6, <3>1 DEF Serve
  <2>3. \A k \in 1..Len(log') : (k \in 1..Len(log) /\ log'[k] = log[k]) \/ log'[k].job = q.job
    BY <1>6, Facts DEF Serve
  <2>4. Sent' = Sent
    BY <2>1 DEF Sent
  <2>. QED
    BY <2>1, <2>2, <2>3, <2>4 DEF Delivered
<1>7. CASE Quiet
  BY <1>7 DEF Quiet, Delivered, Sent
<1>8. CASE Down
  <2>1. /\ \A d \in Delivery :
              (Active(d) /\ job'[d] = Over(d, "cut")) \/ (~Active(d) /\ job'[d] = job[d])
        /\ \A d \in Delivery : Over(d, "cut").at = "cut"
    BY <1>8, DownFacts, OverFacts DEF Place
  <2>2. \A d \in Delivery : (job'[d].at = "none") = (job[d].at = "none")
    BY <2>1 DEF Active
  <2>3. queue' = <<>> /\ net' \subseteq net /\ UNCHANGED <<posted, tries, log>>
    BY <1>8, DownFacts
  <2>4. Sent' = Sent
    BY <2>3 DEF Sent
  <2>5. Kept
    BY <1>1, <2>2, Facts
  <2>6. Len(queue') = 0
    BY <2>3
  <2>7. \A d \in Delivery : job'[d].at # "none" => d \in Sent'
    BY <1>1, <2>2, <2>4
  <2>. QED
    BY <1>1, <2>3, <2>5, <2>6, <2>7 DEF Delivered
<1>. QED
  BY <1>2, <1>3, <1>4, <1>5, <1>6, <1>7, <1>8, StepCases

LEMMA InitInv == Init => IInv
<1>. SUFFICES ASSUME Init PROVE IInv
  OBVIOUS
<1>. USE DEF Init
<1>1. NoJob \in JobType /\ NoJob.at = "none"
  BY DEF NoJob, JobType, UseSeqs, Place
<1>2. Typed
  <2>1. posted \in Seq(Message) /\ Len(posted) <= MaxMsg /\ queue \in Seq(Delivery)
        /\ log \in Seq(LogType) /\ out \in Seq(Delivery)
    OBVIOUS
  <2>2. tries \in [1..MaxMsg -> 0..MaxTries] /\ job \in [Delivery -> JobType]
    BY <1>1
  <2>3. acked \in SUBSET (1..Len(posted)) /\ net \in SUBSET NetType /\ faults \in 0..MaxFaults
    OBVIOUS
  <2>. QED
    BY <2>1, <2>2, <2>3 DEF Typed
<1>3. \A d \in Delivery : job[d].at = "none"
  BY <1>1
<1>4. Delivered
  BY <1>3 DEF Delivered
<1>5. Rounds
  BY <1>3 DEF Rounds, Active
<1>. QED
  BY <1>2, <1>4, <1>5 DEF IInv

LEMMA Invariance == Spec => []IInv
<1>1. IInv /\ [Next]_vars => IInv'
  BY StepTyped, StepDelivered, StepRounds DEF IInv
<1>. QED
  BY <1>1, InitInv, PTL DEF Spec

LEMMA TypesHold == IInv => TypeOK
<1>. SUFFICES ASSUME IInv PROVE TypeOK
  OBVIOUS
<1>1. ToSet(queue) \subseteq Delivery
  BY Facts DEF ToSet
<1>2. ASSUME NEW d \in Delivery
      PROVE  /\ job[d].at \in Place /\ job[d].turn \in 0..MaxTurns /\ job[d].told \in 0..MaxTurns
             /\ job[d].missed \subseteq 1..MaxTurns
             /\ ToSet(job[d].results) \subseteq {"ok", "refused", "failed"}
             /\ Active(d) => up
  <2>1. job[d] \in JobType
    BY DEF IInv, Typed
  <2>2. job[d].results \in Seq({"ok", "refused", "failed"})
    BY <2>1 DEF JobType, Answer3
  <2>3. ToSet(job[d].results) \subseteq {"ok", "refused", "failed"}
    BY <2>2 DEF ToSet
  <2>. QED
    BY <2>1, <2>3 DEF IInv, Rounds, JobType
<1>3. \A q \in net : q.job \in Delivery /\ q.turn \in 0..MaxTurns /\ q.st \in {"sent", "ok", "refused"}
  BY DEF IInv, Typed, NetType
<1>. QED
  BY <1>1, <1>2, <1>3 DEF IInv, Typed, TypeOK

\* The state is of its type; a dispatch makes no more rounds than maxIterations and does not
\* outlive the process (agent.go, the loop of Run).
THEOREM GatewayTypeCorrect == Spec => []TypeOK
BY Invariance, TypesHold, PTL

-----------------------------------------------------------------------------
(* Requests and effects *)

\* Where the entries of net and log come from.
LEMMA LogSteps ==
    ASSUME IInv, [Next]_vars, NEW k \in 1..Len(log')
    PROVE  \/ (k \in 1..Len(log) /\ log'[k] = log[k])
           \/ \E p \in net : /\ log'[k].job = p.job /\ log'[k].turn = p.turn /\ log'[k].i = p.i
                            /\ p.st = "sent" /\ p.write /\ Serve(p)
<1>1. CASE \E q \in net : Serve(q)
  <2>1. PICK q \in net : Serve(q)
    BY <1>1
  <2>. DEFINE entry == [job |-> q.job, turn |-> q.turn, i |-> q.i, late |-> ~Waits(q)]
  <2>2. q.st = "sent" /\ (log' = log \/ (log' = Append(log, entry) /\ q.write))
    BY <2>1 DEF Serve
  <2>3. entry.job = q.job /\ entry.turn = q.turn /\ entry.i = q.i
    OBVIOUS
  <2>. HIDE DEF entry
  <2>4. CASE log' = Append(log, entry) /\ q.write
    <3>1. (k \in 1..Len(log) /\ log'[k] = log[k]) \/ log'[k] = entry
      BY <2>4, Facts
    <3>. QED
      BY <2>1, <2>2, <2>3, <2>4, <3>1
  <2>. QED
    BY <2>2, <2>4
<1>2. CASE log' = log
  BY <1>2
<1>3. (\E q \in net : Serve(q)) \/ log' = log
  <2>1. Write => log' = log
    BY DEF Write
  <2>2. \A n : Again(n) => log' = log
    BY DEF Again
  <2>3. \A d : Takes(d) => log' = log
    BY DEF Takes
  <2>4. \A d \in Delivery : Handle(d) => log' = log
    BY HandleMoves
  <2>5. Quiet \/ Down => log' = log
    BY DEF Quiet, Down
  <2>. QED
    BY <2>1, <2>2, <2>3, <2>4, <2>5, StepCases
<1>. QED
  BY <1>1, <1>2, <1>3

\* What a delivery has been told is never taken back, and its plan stays.
LEMMA ToldGrows ==
    ASSUME IInv, [Next]_vars, NEW d \in Delivery, job[d].at # "none"
    PROVE  /\ job[d].told \in Nat /\ job'[d].told \in Nat /\ job[d].told <= job'[d].told
           /\ PlanOf(d)' = PlanOf(d)
<1>1. job[d].told \in Nat /\ job'[d].told \in Nat
  <2>1. job[d] \in JobType /\ job'[d] \in JobType
    BY StepTyped DEF IInv, Typed
  <2>. QED
    BY <2>1 DEF JobType
<1>2. job[d].told <= job'[d].told
  <2>1. CASE job' = job
    BY <1>1, <2>1
  <2>2. ASSUME NEW e \in Delivery, Takes(e)
        PROVE  job[d].told <= job'[d].told
    <3>1. d # e
      BY <2>2 DEF Takes
    <3>2. job'[d] = job[d]
      BY <2>2, <3>1, BeginsFacts DEF Takes, IInv
    <3>. QED
      BY <1>1, <3>2
  <2>3. ASSUME NEW e \in Delivery, Handle(e)
        PROVE  job[d].told <= job'[d].told
    <3>1. CASE d = e
      BY <2>3, <3>1, HandleMoves
    <3>2. CASE d # e
      BY <1>1, <2>3, <3>2, HandleMoves DEF Frame
    <3>. QED
      BY <3>1, <3>2
  <2>4. CASE Down
    BY <1>1, <2>4, DownFacts, OverFacts DEF Place, IInv
  <2>5. Write \/ Quiet \/ (\E n \in 1..Len(posted) : Again(n)) \/ (\E q \in net : Serve(q)) => job' = job
    BY DEF Write, Quiet, Again, Serve
  <2>. QED
    BY <2>1, <2>2, <2>3, <2>4, <2>5, StepCases
<1>3. PlanOf(d)' = PlanOf(d)
  <2>1. CASE Write
    <3>1. d \in Sent
      BY DEF IInv, Delivered
    <3>. QED
      BY <2>1, <3>1, WriteFacts, PlanKept DEF IInv
  <2>2. ~Write => posted' = posted
    <3>1. (\E n \in 1..Len(posted) : Again(n)) \/ (\E e \in Delivery : Takes(e)) => posted' = posted
      BY DEF Again, Takes
    <3>2. (\E q \in net : Serve(q)) \/ Quiet \/ Down => posted' = posted
      BY DEF Serve, Quiet, Down, pipe
    <3>3. (\E e \in Delivery : Handle(e)) => posted' = posted
      BY HandleMoves DEF Frame
    <3>. QED
      BY <3>1, <3>2, <3>3, StepCases
  <2>. QED
    BY <2>1, <2>2 DEF PlanOf
<1>. QED
  BY <1>1, <1>2, <1>3

\* Every request of an agent's, under way or applied, was announced before.
Announced ==
    /\ \A q \in net : PlanOf(q.job).do = "ask" => q.turn <= job[q.job].told
    /\ \A k \in 1..Len(log) : PlanOf(log[k].job).do = "ask" => log[k].turn <= job[log[k].job].told

LEMMA NetSteps ==
    ASSUME IInv, [Next]_vars, NEW q \in net'
    PROVE  \/ q \in net
           \/ \E p \in net : q.job = p.job /\ q.turn = p.turn
           \/ \E d \in Delivery : /\ q.job = d /\ q.turn = job[d].turn /\ job[d].at = "work"
                                /\ Handle(d)
<1>1. ASSUME NEW d \in Delivery, Handle(d)
      PROVE  q \in net \/ (q.job = d /\ q.turn = job[d].turn /\ job[d].at = "work" /\ Handle(d))
  BY <1>1, HandleMoves
<1>2. ASSUME NEW p \in net, Serve(p)
      PROVE  q \in net \/ (q.job = p.job /\ q.turn = p.turn)
  <2>1. \A st : [p EXCEPT !.st = st].job = p.job /\ [p EXCEPT !.st = st].turn = p.turn
    BY Facts DEF NetType
  <2>. QED
    BY <1>2, <2>1 DEF Serve
<1>3. Write \/ Quiet \/ Down \/ (\E n \in 1..Len(posted) : Again(n)) \/ (\E d \in Delivery : Takes(d))
        => q \in net
  BY DEF Write, Quiet, Down, Again, Takes
<1>. QED
  BY <1>1, <1>2, <1>3, StepCases

LEMMA StepAnnounced ==
    ASSUME IInv, Announced, [Next]_vars
    PROVE  Announced'
<1>1. ASSUME NEW d \in Delivery, job[d].at # "none", NEW t \in 0..MaxTurns,
             PlanOf(d).do = "ask" => t <= job[d].told
      PROVE  PlanOf(d)'.do = "ask" => t <= job'[d].told
  BY <1>1, ToldGrows
<1>2. /\ \A q \in net : q.job \in Delivery /\ job[q.job].at # "none" /\ q.turn \in 0..MaxTurns
      /\ \A k \in 1..Len(log) : /\ log[k].job \in Delivery /\ job[log[k].job].at # "none"
                              /\ log[k].turn \in 0..MaxTurns
  BY Facts DEF IInv, Delivered, NetType, LogType
<1>3. ASSUME NEW q \in net
      PROVE  PlanOf(q.job)'.do = "ask" => q.turn <= job'[q.job].told
  BY <1>1, <1>2 DEF Announced
<1>4. ASSUME NEW q \in net'
      PROVE  PlanOf(q.job)'.do = "ask" => q.turn <= job'[q.job].told
  <2>1. CASE q \in net
    BY <1>3, <2>1
  <2>2. CASE \E p \in net : q.job = p.job /\ q.turn = p.turn
    BY <1>3, <2>2
  <2>3. ASSUME NEW d \in Delivery, q.job = d, q.turn = job[d].turn, job[d].at = "work"
        PROVE  PlanOf(q.job)'.do = "ask" => q.turn <= job'[q.job].told
    <3>1. job[d].turn \in 0..MaxTurns /\ job[d].turn \in Nat
      BY DEF IInv, Typed, JobType
    <3>2. PlanOf(d).do = "ask" => job[d].told = job[d].turn
      BY <2>3 DEF IInv, Rounds
    <3>. QED
      BY <1>1, <2>3, <3>1, <3>2
  <2>. QED
    BY <2>1, <2>2, <2>3, NetSteps
<1>5. ASSUME NEW k \in 1..Len(log')
      PROVE  PlanOf(log[k].job)'.do = "ask" => log'[k].turn <= job'[log'[k].job].told
  <2>1. CASE k \in 1..Len(log) /\ log'[k] = log[k]
    BY <1>1, <1>2, <2>1 DEF Announced, PlanOf
  <2>2. CASE \E p \in net : log'[k].job = p.job /\ log'[k].turn = p.turn
    BY <1>3, <2>2 DEF PlanOf
  <2>. QED
    BY <2>1, <2>2, LogSteps
<1>. QED
  BY <1>4, <1>5 DEF Announced, PlanOf

LEMMA InitTraces == Init => net = {} /\ log = <<>>
BY DEF Init

\* Nothing fails to get to the chat by itself: some line is lost, or the context cancelled.
NothingMissed == faults = 0 => ~cancelled /\ \A d \in Delivery : job[d].missed = {}

LEMMA HandleMisses ==
    ASSUME IInv, NothingMissed, NEW d \in Delivery, Handle(d)
    PROVE  NothingMissed'
<1>1. /\ job \in [Delivery -> JobType] /\ job[d] \in JobType
      /\ faults \in 0..MaxFaults /\ Typed /\ Rounds
  BY DEF IInv, Typed
<1>2. ASSUME \A e \in Delivery : job'[e].missed \in {job[e].missed, {}},
             UNCHANGED cancelled, faults <= faults', faults' \in Nat
      PROVE  NothingMissed'
  BY <1>1, <1>2 DEF NothingMissed
<1>3. CASE StreamProgress(d)
  <2>1. /\ \A e \in Delivery : e # d => job'[e] = job[e]
        /\ faults' \in 0..MaxFaults /\ faults <= faults' /\ cancelled' = cancelled
        /\ job'[d].missed = job[d].missed \/ cancelled \/ faults' > 0
    BY <1>1, <1>3, StreamFacts DEF Frame, process
  <2>. QED
    BY <1>1, <2>1 DEF NothingMissed
<1>4. CASE Messages(d) \/ TurnEnds(d) \/ RunTool(d) \/ Answered(d)
  <2>1. UNCHANGED <<cancelled, faults>>
    BY <1>4 DEF Messages, TurnEnds, RunTool, Answered, pipe, process
  <2>2. \A e \in Delivery : job'[e].missed = job[e].missed
    <3>1. ASSUME NEW p, At(d, p) PROVE \A e \in Delivery : job'[e].missed = job[e].missed
      BY <1>1, <3>1 DEF At, JobType
    <3>2. ASSUME NEW r, Result(d, r) PROVE \A e \in Delivery : job'[e].missed = job[e].missed
      BY <1>1, <3>2 DEF Result, JobType
    <3>3. ASSUME NEW uses,
                 job' = [job EXCEPT ![d].at = "stream", ![d].uses = uses, ![d].results = <<>>,
                                    ![d].turn = @ + 1]
          PROVE  \A e \in Delivery : job'[e].missed = job[e].missed
      BY <1>1, <3>3 DEF JobType
    <3>. QED
      BY <1>4, <3>1, <3>2, <3>3 DEF Messages, TurnEnds, RunTool, Answered
  <2>. QED
    BY <1>1, <1>2, <2>1, <2>2
<1>5. CASE Fails(d)
  <2>1. \A e \in Delivery : job'[e].missed = job[e].missed
    BY <1>1, <1>5 DEF Fails, Result, JobType
  <2>2. UNCHANGED cancelled /\ faults <= faults' /\ faults' \in Nat
    BY <1>1, <1>5 DEF Fails, Fault, process
  <2>. QED
    BY <1>2, <2>1, <2>2
<1>6. CASE Reply(d)
  <2>1. \A e \in Delivery : job'[e].missed = job[e].missed
    BY <1>1, <1>6 DEF Reply, Over, NoJob, JobType
  <2>2. UNCHANGED cancelled /\ faults <= faults' /\ faults' \in Nat
    BY <1>1, <1>6 DEF Reply, Ack, Fault, process
  <2>. QED
    BY <1>2, <2>1, <2>2
<1>. QED
  BY <1>3, <1>4, <1>5, <1>6 DEF Handle

LEMMA StepMisses ==
    ASSUME IInv, NothingMissed, [Next]_vars
    PROVE  NothingMissed'
<1>1. job \in [Delivery -> JobType] /\ faults \in 0..MaxFaults
  BY DEF IInv, Typed
<1>2. CASE Dispatching
  BY <1>2, HandleMisses DEF Dispatching
<1>3. CASE Write \/ Redeliver \/ CheckContext \/ Serving \/ CloseStdin \/ UNCHANGED vars
  <2>1. UNCHANGED <<job, faults, cancelled>>
    BY <1>3 DEF Write, Redeliver, CheckContext, Serving, Serve, CloseStdin, vars, pipe, process
  <2>. QED
    BY <2>1 DEF NothingMissed
<1>4. CASE Start \/ Signal
  <2>1. UNCHANGED job /\ ((UNCHANGED faults /\ ~cancelled') \/ faults' = faults + 1)
    BY <1>4 DEF Start, Signal, Fault, pipe
  <2>. QED
    BY <1>1, <2>1 DEF NothingMissed
<1>5. CASE Take
  <2>1. PICK d : Begins(d) /\ UNCHANGED cancelled /\ (UNCHANGED faults \/ faults' = faults + 1)
    BY <1>5 DEF Take, TakeSlack, TakeHook, TakeWs, TakeLine, Ack, Fault, process
  <2>2. \A e \in Delivery : job'[e].missed \in {job[e].missed, {}}
    BY <1>1, <2>1 DEF Begins, NoJob
  <2>. QED
    BY <1>1, <2>1, <2>2 DEF NothingMissed
<1>6. CASE Return \/ EndOfInput \/ Kill
  <2>1. Down /\ (UNCHANGED faults \/ faults' = faults + 1)
    BY <1>6 DEF Return, EndOfInput, Kill, Fault
  <2>2. \A e \in Delivery : job'[e].missed = job[e].missed
    BY <1>1, <2>1 DEF Down, Over, NoJob, JobType
  <2>. QED
    BY <1>1, <2>1, <2>2 DEF NothingMissed, Down
<1>. QED
  BY <1>2, <1>3, <1>4, <1>5, <1>6 DEF Next

\* What an agent has done on the shipd server was announced before (streamProgress in
\* agent.go), and the announcement is in the chat unless something failed, whatever the model
\* asks for and whatever is given up, delivered again or cut off.
THEOREM GatewayAnnounces == Spec => []EffectsAnnounced
<1>1. Init => IInv /\ Announced /\ NothingMissed
  BY InitInv, InitTraces DEF Announced, NothingMissed, Init, NoJob
<1>2. IInv /\ Announced /\ NothingMissed /\ [Next]_vars => (IInv /\ Announced /\ NothingMissed)'
  BY StepTyped, StepDelivered, StepRounds, StepAnnounced, StepMisses DEF IInv
<1>3. IInv /\ Announced /\ NothingMissed => EffectsAnnounced
  BY Facts DEF Announced, NothingMissed, EffectsAnnounced
<1>. QED
  BY <1>1, <1>2, <1>3, PTL DEF Spec

-----------------------------------------------------------------------------
(* Calls and their results *)

Asked(d, t, i) == \E q \in net : q.job = d /\ q.turn = t /\ q.i = i
Logged(d, t, i) == \E k \in 1..Len(log) : log[k].job = d /\ log[k].turn = t /\ log[k].i = i

\* The calls of the round that have been begun.
Begun(j) == Len(j.results) + (IF j.at = "wait" THEN 1 ELSE 0)

Counted(d) ==
    /\ Len(job[d].results) <= Len(job[d].uses)
    /\ job[d].at = "wait" => Len(job[d].results) < Len(job[d].uses)
    /\ job[d].at = "model" => Len(job[d].results) = Len(job[d].uses)

\* No request and no effect is ahead of its dispatch.
Bounded(d) ==
    Active(d) =>
        \A t \in 0..MaxTurns, i \in Nat :
            Asked(d, t, i) \/ Logged(d, t, i) =>
                t <= job[d].turn /\ (t = job[d].turn => i <= Begun(job[d]))

\* What a result says is so, and stays so.
Truthful(d) ==
    \A i \in 1..Len(job[d].results) :
        /\ job[d].results[i] = "ok" /\ Call(job[d].uses[i].tool, job[d].uses[i].args).write
              => Logged(d, job[d].turn, i)
        /\ job[d].results[i] = "refused"
              => ~Logged(d, job[d].turn, i) /\ ~Asked(d, job[d].turn, i)

\* The request that is waited for is the call's.
Matched(d) == job[d].at = "wait" => \A q \in net : Mine(q, d) => q.write = Reads(d).write

Paired(d) == Counted(d) /\ Bounded(d) /\ Truthful(d) /\ Matched(d)

Unique == \A p, q \in net : p.job = q.job /\ p.turn = q.turn /\ p.i = q.i => p = q
Outcome ==
    \A q \in net :
        /\ q.st # "ok" => ~Logged(q.job, q.turn, q.i)
        /\ q.st = "ok" /\ q.write => Logged(q.job, q.turn, q.i)

Pairs == (\A d \in Delivery : Paired(d)) /\ Unique /\ Outcome

LEMMA PairsShow == Pairs => ResultsTrue
BY DEF Pairs, Paired, Counted, Truthful, Logged, Applied, ResultsTrue

\* Steps that send nothing and apply nothing.
LEMMA ShrinksRequests ==
    ASSUME Unique, Outcome, net' \subseteq net, log' = log
    PROVE  Unique' /\ Outcome'
BY DEF Unique, Outcome, Logged

LEMMA OthersPaired ==
    ASSUME NEW d \in Delivery, Paired(d), log' = log, job'[d] = job[d],
           \A q \in net' : q.job = d => q \in net
    PROVE  Paired(d)'
<1>1. \A t, i : (Asked(d, t, i)' => Asked(d, t, i)) /\ (Logged(d, t, i)' = Logged(d, t, i))
  BY DEF Asked, Logged
<1>2. Counted(d)'
  BY DEF Paired, Counted
<1>3. Bounded(d)'
  BY <1>1 DEF Paired, Bounded, Active
<1>4. Truthful(d)'
  BY <1>1 DEF Paired, Truthful
<1>5. Matched(d)'
  BY DEF Paired, Matched, Mine, Reads, Next1
<1>. QED
  BY <1>2, <1>3, <1>4, <1>5 DEF Paired

LEMMA ShrinksPairs ==
    ASSUME Pairs, net' \subseteq net, log' = log, NEW d \in Delivery,
           \A e \in Delivery : e # d => job'[e] = job[e], Paired(d)'
    PROVE  Pairs'
<1>1. ASSUME NEW e \in Delivery
      PROVE  Paired(e)'
  <2>1. CASE e = d
    BY <2>1
  <2>2. CASE e # d
    BY <2>2, OthersPaired DEF Pairs
  <2>. QED
    BY <2>1, <2>2
<1>. QED
  BY <1>1, ShrinksRequests DEF Pairs

\* A dispatch that is over, or at its start, without results.
LEMMA NothingYet ==
    ASSUME NEW d \in Delivery, job'[d].results = <<>>, Len(job'[d].uses) \in Nat, job'[d].at # "wait",
           job'[d].at = "model" => job'[d].uses = <<>>, Bounded(d)'
    PROVE  Paired(d)'
<1>1. Len(job'[d].results) = 0
  OBVIOUS
<1>2. Counted(d)'
  BY <1>1 DEF Counted
<1>3. Truthful(d)'
  BY <1>1 DEF Truthful
<1>. QED
  BY <1>2, <1>3 DEF Matched, Paired

\* The dispatch goes on with the calls and results it has.
LEMMA SameRound ==
    ASSUME IInv, NEW d \in Delivery, Paired(d), net' \subseteq net, log' = log, Active(d),
           job[d].at # "wait", job'[d].turn = job[d].turn, job'[d].uses = job[d].uses,
           job'[d].results = job[d].results, job'[d].at \in {"reply", "work", "model"},
           job'[d].at = "model" => Next1(d) > Len(job[d].uses)
    PROVE  Paired(d)'
<1>1. Len(job[d].results) \in Nat /\ Len(job[d].uses) \in Nat
  BY UseLengths DEF IInv, Typed, JobType
<1>2. \A t, i : (Asked(d, t, i)' => Asked(d, t, i)) /\ (Logged(d, t, i)' = Logged(d, t, i))
  BY DEF Asked, Logged
<1>3. Counted(d)'
  BY <1>1 DEF Paired, Counted, Next1
<1>4. Bounded(d)'
  BY <1>2 DEF Paired, Bounded, Begun
<1>5. Truthful(d)'
  BY <1>2 DEF Paired, Truthful
<1>6. Matched(d)'
  BY DEF Matched
<1>. QED
  BY <1>3, <1>4, <1>5, <1>6 DEF Paired

\* One more result.
LEMMA OneMore ==
    ASSUME IInv, NEW d \in Delivery, Paired(d), NEW r \in Answer3, Result(d, r),
           net' \subseteq net, log' = log, Active(d), Next1(d) <= Len(job[d].uses),
           r = "ok" /\ Reads(d).write => Logged(d, job[d].turn, Next1(d)),
           r = "refused" => /\ ~Logged(d, job[d].turn, Next1(d))
                            /\ \A q \in net' : ~Mine(q, d)
    PROVE  Paired(d)'
<1>1. /\ Len(job[d].results) \in Nat /\ Len(job[d].uses) \in Nat
      /\ job[d].results \in Seq(Answer3)
  BY UseLengths DEF IInv, Typed, JobType
<1>2. /\ job'[d].at = "work" /\ job'[d].uses = job[d].uses /\ job'[d].turn = job[d].turn
      /\ job'[d].results = Append(job[d].results, r)
  BY ResultFacts DEF IInv
<1>3. /\ Len(job'[d].results) = Next1(d) /\ job'[d].results[Next1(d)] = r
      /\ \A i \in 1..Len(job[d].results) : job'[d].results[i] = job[d].results[i]
  BY <1>1, <1>2 DEF Next1
<1>4. \A t, i : (Asked(d, t, i)' => Asked(d, t, i)) /\ (Logged(d, t, i)' = Logged(d, t, i))
  BY DEF Asked, Logged
<1>5. Counted(d)'
  BY <1>1, <1>2, <1>3 DEF Counted
<1>6. Bounded(d)'
  <2>1. Begun(job[d]) \in Nat /\ Begun(job'[d]) \in Nat /\ Begun(job[d]) <= Begun(job'[d])
    <3>1. Begun(job'[d]) = Len(job[d].results) + 1
      BY <1>1, <1>2, <1>3 DEF Begun, Next1
    <3>2. Begun(job[d]) \in Nat /\ Begun(job[d]) <= Len(job[d].results) + 1
      <4>1. Begun(job[d]) = Len(job[d].results) \/ Begun(job[d]) = Len(job[d].results) + 1
        <5>1. CASE job[d].at = "wait"
          BY <5>1 DEF Begun
        <5>2. CASE job[d].at # "wait"
          BY <1>1, <5>2 DEF Begun
        <5>. QED
          BY <5>1, <5>2
      <4>. QED
        BY <1>1, <4>1
    <3>. QED
      BY <1>1, <3>1, <3>2
  <2>2. PICK b, c \in Nat : b = Begun(job[d]) /\ c = Begun(job'[d]) /\ b <= c
    BY <2>1
  <2>3. \A t \in 0..MaxTurns, i \in Nat : Asked(d, t, i)' \/ Logged(d, t, i)' =>
            t <= job'[d].turn /\ (t = job'[d].turn => i <= c)
    BY <1>2, <1>4, <2>2 DEF Paired, Bounded
  <2>. QED
    BY <2>2, <2>3 DEF Bounded
<1>7. Truthful(d)'
  <2>1. PICK t : t = job[d].turn
    OBVIOUS
  <2>2. t = job'[d].turn
    BY <1>2, <2>1
  <2>3. ASSUME NEW i \in 1..Len(job'[d].results)
        PROVE  /\ job'[d].results[i] = "ok" /\ Call(job[d].uses[i].tool, job[d].uses[i].args).write
                     => Logged(d, t, i)
               /\ job'[d].results[i] = "refused" => ~Logged(d, t, i) /\ ~Asked(d, t, i)'
    <3>1. CASE i \in 1..Len(job[d].results)
      BY <1>3, <1>4, <2>1, <3>1 DEF Paired, Truthful
    <3>2. CASE i = Next1(d)
      <4>1. r = "refused" => ~Asked(d, t, i)'
        BY <2>1, <3>2 DEF Asked, Mine
      <4>. QED
        BY <1>3, <2>1, <3>2, <4>1 DEF Reads
    <3>3. i \in 1..Len(job[d].results) \/ i = Next1(d)
      BY <1>1, <1>3 DEF Next1
    <3>. QED
      BY <3>1, <3>2, <3>3
  <2>4. \A i \in 1..Len(job'[d].results) :
          /\ job'[d].results[i] = "ok" /\ Call(job'[d].uses[i].tool, job'[d].uses[i].args).write
                => Logged(d, t, i)'
          /\ job'[d].results[i] = "refused" => ~Logged(d, t, i)' /\ ~Asked(d, t, i)'
    BY <1>2, <1>4, <2>3
  <2>. QED
    BY <2>2, <2>4 DEF Truthful, Logged, Asked
<1>8. Matched(d)'
  BY <1>2 DEF Matched
<1>. QED
  BY <1>5, <1>6, <1>7, <1>8 DEF Paired

\* At work, the next call has left no trace.
LEMMA NextUntouched ==
    ASSUME IInv, NEW d \in Delivery, Paired(d), job[d].at = "work", Next1(d) <= Len(job[d].uses)
    PROVE  ~Asked(d, job[d].turn, Next1(d)) /\ ~Logged(d, job[d].turn, Next1(d))
<1>1. Len(job[d].results) \in Nat /\ job[d].turn \in 0..MaxTurns
  BY DEF IInv, Typed, JobType
<1>2. Next1(d) \in Nat /\ Begun(job[d]) = Len(job[d].results) /\ ~(Next1(d) <= Begun(job[d]))
  BY <1>1 DEF Next1, Begun
<1>. QED
  BY <1>1, <1>2 DEF Paired, Bounded, Active

\* A request goes out.
LEMMA SendPairs ==
    ASSUME IInv, Pairs, NEW d \in Delivery, RunTool(d), At(d, "wait"),
           net' = net \cup {[job |-> d, turn |-> job[d].turn, i |-> Next1(d),
                             write |-> Reads(d).write, st |-> "sent"]}
    PROVE  Pairs'
<1>. DEFINE new == [job |-> d, turn |-> job[d].turn, i |-> Next1(d), write |-> Reads(d).write,
                    st |-> "sent"]
<1>1. /\ new.job = d /\ new.turn = job[d].turn /\ new.i = Next1(d)
      /\ new.write = Reads(d).write /\ new.st = "sent"
  OBVIOUS
<1>2. net' = net \cup {new}
  OBVIOUS
<1>. HIDE DEF new
<1>3. job[d].at = "work" /\ Next1(d) <= Len(job[d].uses) /\ log' = log
  BY DEF RunTool
<1>4. /\ job'[d].at = "wait" /\ job'[d].uses = job[d].uses /\ job'[d].results = job[d].results
      /\ job'[d].turn = job[d].turn /\ \A e \in Delivery : e # d => job'[e] = job[e]
  BY AtFacts DEF IInv, Place
<1>5. Len(job[d].results) \in Nat /\ Len(job[d].uses) \in Nat /\ job[d].turn \in 0..MaxTurns
  BY UseLengths DEF IInv, Typed, JobType
<1>6. ~Asked(d, job[d].turn, Next1(d)) /\ ~Logged(d, job[d].turn, Next1(d))
  BY <1>3, NextUntouched DEF Pairs
<1>7. \A e, t, i : Logged(e, t, i)' = Logged(e, t, i)
  BY <1>3 DEF Logged
<1>8. \A t, i : Asked(d, t, i)' => Asked(d, t, i) \/ (t = job[d].turn /\ i = Next1(d))
  BY <1>1, <1>2 DEF Asked
<1>9. Paired(d)'
  <2>1. Counted(d)'
    BY <1>3, <1>4, <1>5 DEF Counted, Next1
  <2>2. Bounded(d)'
    <3>1. Begun(job[d]) = Len(job[d].results) /\ Begun(job'[d]) = Next1(d)
      BY <1>3, <1>4 DEF Begun, Next1
    <3>2. ASSUME NEW t \in 0..MaxTurns, NEW i \in Nat, Asked(d, t, i)' \/ Logged(d, t, i)'
          PROVE  t <= job'[d].turn /\ (t = job'[d].turn => i <= Begun(job'[d]))
      <4>1. CASE Asked(d, t, i) \/ Logged(d, t, i)
        <5>1. t <= job[d].turn /\ (t = job[d].turn => i <= Len(job[d].results))
          BY <1>3, <3>1, <4>1 DEF Pairs, Paired, Bounded, Active
        <5>. QED
          BY <1>4, <1>5, <3>1, <5>1 DEF Next1
      <4>2. CASE t = job[d].turn /\ i = Next1(d)
        BY <1>4, <1>5, <3>1, <4>2
      <4>. QED
        BY <1>7, <1>8, <3>2, <4>1, <4>2
    <3>. QED
      BY <3>2 DEF Bounded
  <2>3. Truthful(d)'
    <3>1. PICK t : t = job[d].turn /\ t = job'[d].turn
      BY <1>4
    <3>2. ASSUME NEW i \in 1..Len(job[d].results)
          PROVE  (Asked(d, t, i)' => Asked(d, t, i)) /\ Logged(d, t, i)' = Logged(d, t, i)
      BY <1>5, <1>7, <1>8, <3>1 DEF Next1
    <3>3. \A i \in 1..Len(job'[d].results) :
            /\ job'[d].results[i] = "ok" /\ Call(job'[d].uses[i].tool, job'[d].uses[i].args).write
                  => Logged(d, t, i)'
            /\ job'[d].results[i] = "refused" => ~Logged(d, t, i)' /\ ~Asked(d, t, i)'
      BY <1>4, <3>1, <3>2 DEF Pairs, Paired, Truthful
    <3>. QED
      BY <3>1, <3>3 DEF Truthful, Logged, Asked
  <2>4. Matched(d)'
    <3>1. ASSUME NEW q \in net', Mine(q, d)'
          PROVE  q.write = Reads(d)'.write
      <4>1. q.job = d /\ q.turn = job[d].turn /\ q.i = Next1(d) /\ Reads(d)' = Reads(d)
        BY <1>4, <3>1 DEF Mine, Next1, Reads
      <4>2. q = new
        BY <1>2, <1>6, <4>1 DEF Asked
      <4>. QED
        BY <1>1, <4>1, <4>2
    <3>. QED
      BY <3>1 DEF Matched
  <2>. QED
    BY <2>1, <2>2, <2>3, <2>4 DEF Paired
<1>10. ASSUME NEW e \in Delivery
       PROVE  Paired(e)'
  <2>1. CASE e = d
    BY <1>9, <2>1
  <2>2. CASE e # d
    BY <1>1, <1>2, <1>3, <1>4, <2>2, OthersPaired DEF Pairs
  <2>. QED
    BY <2>1, <2>2
<1>11. Unique'
  <2>1. \A p \in net : ~(p.job = d /\ p.turn = job[d].turn /\ p.i = Next1(d))
    BY <1>6 DEF Asked
  <2>. QED
    BY <1>1, <1>2, <2>1 DEF Pairs, Unique
<1>12. Outcome'
  BY <1>1, <1>2, <1>6, <1>7 DEF Pairs, Outcome
<1>. QED
  BY <1>10, <1>11, <1>12 DEF Pairs

LEMMA MessagesPairs ==
    ASSUME IInv, Pairs, NEW d \in Delivery, Messages(d)
    PROVE  Pairs'
<1>1. Frame(d) /\ UNCHANGED <<net, log>> /\ job[d].at = "model" /\ Paired(d)
  BY MessagesFacts DEF IInv, Pairs
<1>2. CASE At(d, "reply")
  <2>1. Paired(d)'
    BY <1>1, <1>2, AtFacts, SameRound DEF IInv, Place, Active
  <2>. QED
    BY <1>1, <2>1, ShrinksPairs DEF Frame
<1>3. CASE /\ job'[d].at = "stream" /\ job'[d].results = <<>>
           /\ job'[d].turn = job[d].turn + 1 /\ job'[d].told = job[d].told
  <2>1. job[d].turn \in Nat
    BY DEF IInv, Typed, JobType
  <2>2. \A t, i : Asked(d, t, i)' = Asked(d, t, i) /\ Logged(d, t, i)' = Logged(d, t, i)
    BY <1>1 DEF Asked, Logged
  <2>3. \A t \in 0..MaxTurns, i \in Nat : Asked(d, t, i) \/ Logged(d, t, i) => t <= job[d].turn
    BY <1>1 DEF Paired, Bounded, Active
  <2>4. Bounded(d)'
    BY <1>3, <2>1, <2>2, <2>3 DEF Bounded
  <2>5. Len(job'[d].uses) \in Nat
    BY MessagesFacts, UseLengths DEF IInv, JobType
  <2>6. Paired(d)'
    BY <1>3, <2>4, <2>5, NothingYet
  <2>. QED
    BY <1>1, <2>6, ShrinksPairs DEF Frame
<1>. QED
  BY <1>2, <1>3, MessagesFacts DEF IInv

LEMMA AnsweredPairs ==
    ASSUME IInv, Pairs, NEW d \in Delivery, Answered(d)
    PROVE  Pairs'
<1>1. Frame(d) /\ log' = log /\ job[d].at = "wait" /\ Paired(d)
  BY AnsweredFacts DEF IInv, Pairs
<1>2. PICK q \in net : /\ Mine(q, d) /\ q.st # "sent" /\ q.st \in Answer3
                       /\ net' = net \ {q} /\ Result(d, q.st)
  BY AnsweredFacts DEF IInv
<1>3. q.job = d /\ q.turn = job[d].turn /\ q.i = Next1(d) /\ q.write = Reads(d).write
  BY <1>1, <1>2 DEF Mine, Paired, Matched
<1>4. q.st = "ok" /\ Reads(d).write => Logged(d, job[d].turn, Next1(d))
  BY <1>3 DEF Pairs, Outcome
<1>5. q.st = "refused" => ~Logged(d, job[d].turn, Next1(d))
  BY <1>3 DEF Pairs, Outcome
<1>6. \A p \in net' : ~Mine(p, d)
  BY <1>2, <1>3 DEF Pairs, Unique, Mine
<1>7. Next1(d) <= Len(job[d].uses)
  <2>1. Len(job[d].results) \in Nat /\ Len(job[d].uses) \in Nat
    BY UseLengths DEF IInv, Typed, JobType
  <2>. QED
    BY <1>1, <2>1 DEF Paired, Counted, Next1
<1>8. net' \subseteq net /\ Active(d)
  BY <1>1, <1>2 DEF Active
<1>9. Paired(d)'
  BY <1>1, <1>2, <1>4, <1>5, <1>6, <1>7, <1>8, OneMore
<1>. QED
  BY <1>1, <1>8, <1>9, ShrinksPairs DEF Frame

LEMMA FailsPairs ==
    ASSUME IInv, Pairs, NEW d \in Delivery, Fails(d)
    PROVE  Pairs'
<1>1. /\ Frame(d) /\ log' = log /\ job[d].at = "wait" /\ Paired(d) /\ Result(d, "failed")
      /\ "failed" \in Answer3 /\ net' \subseteq net /\ Active(d)
  BY FailsFacts DEF IInv, Pairs, Active
<1>2. Next1(d) <= Len(job[d].uses)
  <2>1. Len(job[d].results) \in Nat /\ Len(job[d].uses) \in Nat
    BY UseLengths DEF IInv, Typed, JobType
  <2>. QED
    BY <1>1, <2>1 DEF Paired, Counted, Next1
<1>3. Paired(d)'
  BY <1>1, <1>2, OneMore
<1>. QED
  BY <1>1, <1>3, ShrinksPairs DEF Frame

LEMMA RunToolPairs ==
    ASSUME IInv, Pairs, NEW d \in Delivery, RunTool(d)
    PROVE  Pairs'
<1>1. /\ Frame(d) /\ log' = log /\ job[d].at = "work" /\ Next1(d) <= Len(job[d].uses)
      /\ Paired(d) /\ Active(d)
  BY RunToolFacts DEF IInv, Pairs, Active
<1>2. ASSUME NEW r \in Answer3, Result(d, r), net' = net, r = "ok" => ~Reads(d).write
      PROVE  Pairs'
  <2>1. ~Logged(d, job[d].turn, Next1(d)) /\ \A q \in net' : ~Mine(q, d)
    BY <1>1, <1>2, NextUntouched DEF Asked, Mine
  <2>2. Paired(d)'
    BY <1>1, <1>2, <2>1, OneMore
  <2>. QED
    BY <1>1, <1>2, <2>2, ShrinksPairs DEF Frame
<1>3. \/ \E r \in Answer3 : Result(d, r) /\ net' = net /\ (r = "ok" => ~Reads(d).write)
      \/ /\ At(d, "wait")
         /\ net' = net \cup {[job |-> d, turn |-> job[d].turn, i |-> Next1(d),
                              write |-> Reads(d).write, st |-> "sent"]}
  <2>1. ~Local.write
    BY DEF Local, Get
  <2>2. "ok" \in Answer3 /\ "refused" \in Answer3 /\ "failed" \in Answer3
    BY DEF Answer3
  <2>3. CASE ~Sends(Reads(d)) /\ Reads(d) = Local
    BY <2>1, <2>2, <2>3 DEF RunTool
  <2>4. CASE ~Sends(Reads(d)) /\ Reads(d) # Local
    BY <2>2, <2>4 DEF RunTool
  <2>5. CASE Sends(Reads(d))
    BY <2>2, <2>5 DEF RunTool
  <2>. QED
    BY <2>3, <2>4, <2>5
<1>. QED
  BY <1>2, <1>3, SendPairs

LEMMA ReplyPairs ==
    ASSUME IInv, Pairs, NEW d \in Delivery, Reply(d)
    PROVE  Pairs'
<1>1. d[1] \in 1..Len(posted)
  <2>1. job[d].at = "reply"
    BY DEF Reply
  <2>. QED
    BY <2>1, InQueue DEF IInv, Delivered
<1>2. Frame(d) /\ UNCHANGED <<net, log>> /\ job'[d] = Over(d, "done")
  BY <1>1, ReplyFacts DEF IInv, Typed
<1>3. job'[d].at = "done" /\ job'[d].results = <<>> /\ job'[d].uses = <<>>
  BY <1>2, OverFacts DEF IInv, Place
<1>4. Paired(d)'
  BY <1>3, NothingYet DEF Bounded, Active
<1>. QED
  BY <1>2, <1>4, ShrinksPairs DEF Frame

LEMMA HandlePairs ==
    ASSUME IInv, Pairs, NEW d \in Delivery, Handle(d)
    PROVE  Pairs'
<1>1. CASE StreamProgress(d)
  <2>1. Frame(d) /\ UNCHANGED <<net, log>> /\ Paired(d) /\ job[d].at = "stream"
    BY <1>1, StreamFacts DEF IInv, Pairs
  <2>2. Paired(d)'
    BY <1>1, <2>1, StreamFacts, SameRound DEF IInv, Active
  <2>. QED
    BY <2>1, <2>2, ShrinksPairs DEF Frame
<1>2. CASE TurnEnds(d)
  <2>1. /\ Frame(d) /\ UNCHANGED <<net, log>> /\ Paired(d) /\ job[d].at = "work"
        /\ Next1(d) > Len(job[d].uses) /\ (At(d, "reply") \/ At(d, "model"))
    BY <1>2, TurnEndsFacts DEF IInv, Pairs
  <2>2. Paired(d)'
    BY <2>1, AtFacts, SameRound DEF IInv, Active, Place
  <2>. QED
    BY <2>1, <2>2, ShrinksPairs DEF Frame
<1>. QED
  BY <1>1, <1>2, MessagesPairs, RunToolPairs, AnsweredPairs, FailsPairs, ReplyPairs DEF Handle

LEMMA ServePairs ==
    ASSUME IInv, Pairs, NEW q \in net, Serve(q)
    PROVE  Pairs'
<1>1. q.st = "sent" /\ job' = job
  BY DEF Serve
<1>2. PICK st \in {"ok", "refused"} :
        /\ net' = (net \ {q}) \cup (IF Waits(q) THEN {[q EXCEPT !.st = st]} ELSE {})
        /\ log' = IF st = "ok" /\ q.write
                  THEN Append(log, [job |-> q.job, turn |-> q.turn, i |-> q.i, late |-> ~Waits(q)])
                  ELSE log
  BY DEF Serve
<1>. DEFINE new == [q EXCEPT !.st = st]
            entry == [job |-> q.job, turn |-> q.turn, i |-> q.i, late |-> ~Waits(q)]
<1>3. /\ new.job = q.job /\ new.turn = q.turn /\ new.i = q.i /\ new.write = q.write /\ new.st = st
  BY Facts DEF NetType
<1>4. entry.job = q.job /\ entry.turn = q.turn /\ entry.i = q.i
  OBVIOUS
<1>5. \A p \in net' : (p \in net /\ p # q) \/ p = new
  BY <1>2
<1>6. \/ st = "ok" /\ q.write /\ log' = Append(log, entry)
      \/ ~(st = "ok" /\ q.write) /\ log' = log
  BY <1>2
<1>. HIDE DEF new, entry
<1>7. \A d, t, i : Logged(d, t, i) => Logged(d, t, i)'
  <2>1. \A k \in 1..Len(log) : k \in 1..Len(log') /\ log'[k] = log[k]
    <3>1. CASE log' = Append(log, entry)
      BY <3>1, Facts
    <3>. QED
      BY <1>6, <3>1
  <2>. QED
    BY <2>1 DEF Logged
<1>8. st = "ok" /\ q.write => Logged(q.job, q.turn, q.i)'
  <2>1. CASE st = "ok" /\ q.write
    <3>1. Len(log) + 1 \in 1..Len(log') /\ log'[Len(log) + 1] = entry
      BY <1>6, <2>1, Facts
    <3>. QED
      BY <1>4, <3>1 DEF Logged
  <2>. QED
    BY <2>1
<1>9. \A d, t, i : Logged(d, t, i)' => Logged(d, t, i)
                     \/ (st = "ok" /\ d = q.job /\ t = q.turn /\ i = q.i)
  <2>1. \A k \in 1..Len(log') : (k \in 1..Len(log) /\ log'[k] = log[k]) \/ (st = "ok" /\ log'[k] = entry)
    <3>1. CASE st = "ok" /\ log' = Append(log, entry)
      BY <3>1, Facts
    <3>. QED
      BY <1>6, <3>1
  <2>. QED
    BY <1>4, <2>1 DEF Logged
<1>10. \A d, t, i : Asked(d, t, i)' => Asked(d, t, i)
  BY <1>3, <1>5 DEF Asked
<1>11. Asked(q.job, q.turn, q.i)
  BY DEF Asked
<1>12. ASSUME NEW d \in Delivery
       PROVE  Paired(d)'
  <2>1. Counted(d)'
    BY <1>1 DEF Pairs, Paired, Counted
  <2>2. Bounded(d)'
    BY <1>1, <1>9, <1>10, <1>11 DEF Pairs, Paired, Bounded, Active
  <2>3. Truthful(d)'
    <3>1. \A t, i : Logged(d, t, i)' => Logged(d, t, i) \/ Asked(d, t, i)
      BY <1>9, <1>11
    <3>. QED
      BY <1>1, <1>7, <1>10, <3>1 DEF Pairs, Paired, Truthful
  <2>4. Matched(d)'
    <3>1. ASSUME NEW p \in net', job[d].at = "wait", Mine(p, d)
          PROVE  p.write = Reads(d).write
      <4>1. CASE p \in net
        BY <3>1, <4>1 DEF Pairs, Paired, Matched
      <4>2. CASE p = new
        BY <1>3, <3>1, <4>2 DEF Pairs, Paired, Matched, Mine
      <4>. QED
        BY <1>5, <4>1, <4>2
    <3>. QED
      BY <1>1, <3>1 DEF Matched, Mine, Reads, Next1
  <2>. QED
    BY <2>1, <2>2, <2>3, <2>4 DEF Paired
<1>13. Unique'
  BY <1>3, <1>5 DEF Pairs, Unique
<1>14. ASSUME NEW p \in net'
       PROVE  /\ p.st # "ok" => ~Logged(p.job, p.turn, p.i)'
              /\ p.st = "ok" /\ p.write => Logged(p.job, p.turn, p.i)'
  <2>1. CASE p \in net /\ p # q
    <3>1. ~(p.job = q.job /\ p.turn = q.turn /\ p.i = q.i)
      BY <2>1 DEF Pairs, Unique
    <3>. QED
      BY <1>7, <1>9, <2>1, <3>1 DEF Pairs, Outcome
  <2>2. CASE p = new
    BY <1>1, <1>3, <1>8, <1>9, <2>2 DEF Pairs, Outcome
  <2>. QED
    BY <1>5, <2>1, <2>2
<1>. QED
  BY <1>12, <1>13, <1>14 DEF Pairs, Outcome

LEMMA StepPairs ==
    ASSUME IInv, Pairs, [Next]_vars
    PROVE  Pairs'
<1>1. CASE UNCHANGED <<job, net, log>>
  <2>1. \A d \in Delivery : Paired(d)'
    BY <1>1, OthersPaired DEF Pairs
  <2>. QED
    BY <1>1, <2>1, ShrinksRequests DEF Pairs
<1>2. ASSUME NEW d \in Delivery, Takes(d)
      PROVE  Pairs'
  <2>1. UNCHANGED <<net, log>> /\ job[d].at = "none"
    BY <1>2 DEF Takes
  <2>2. /\ \A e \in Delivery : e # d => job'[e] = job[e]
        /\ job'[d].results = <<>> /\ job'[d] \in JobType /\ job'[d].uses = PlanOf(d).uses
        /\ job'[d].at \in {"done", "reply", "work", "model"}
        /\ job'[d].at = "model" => PlanOf(d).uses = <<>>
    BY <1>2, BeginsFacts DEF Takes, IInv
  <2>3. \A t, i : ~Asked(d, t, i)' /\ ~Logged(d, t, i)'
    BY <2>1 DEF IInv, Delivered, Asked, Logged
  <2>4. Bounded(d)'
    BY <2>3 DEF Bounded
  <2>5. Len(job'[d].uses) \in Nat
    BY <2>2, UseLengths DEF JobType
  <2>6. Paired(d)'
    BY <2>2, <2>4, <2>5, NothingYet
  <2>. QED
    BY <2>1, <2>2, <2>6, ShrinksPairs
<1>3. CASE Down
  <2>1. net' \subseteq net /\ log' = log
    BY <1>3, DownFacts DEF IInv
  <2>2. ASSUME NEW d \in Delivery
        PROVE  Paired(d)'
    <3>1. CASE job'[d] = job[d]
      BY <2>1, <3>1, OthersPaired DEF Pairs
    <3>2. CASE job'[d] = Over(d, "cut")
      <4>1. job'[d].at = "cut" /\ job'[d].results = <<>> /\ job'[d].uses = <<>>
        BY <3>2, OverFacts DEF IInv, Place
      <4>. QED
        BY <4>1, NothingYet DEF Bounded, Active
    <3>. QED
      BY <1>3, <3>1, <3>2, DownFacts DEF IInv
  <2>. QED
    BY <2>1, <2>2, ShrinksRequests DEF Pairs
<1>4. Write \/ Quiet \/ (\E n \in 1..Len(posted) : Again(n)) => UNCHANGED <<job, net, log>>
  BY DEF Write, Quiet, Again
<1>. QED
  BY <1>1, <1>2, <1>3, <1>4, HandlePairs, ServePairs, StepCases

LEMMA InitPairs == Init => Pairs
<1>. SUFFICES ASSUME Init PROVE Pairs
  OBVIOUS
<1>1. net = {} /\ \A d \in Delivery : job[d].at = "none" /\ job[d].results = <<>> /\ job[d].uses = <<>>
  BY DEF Init, NoJob
<1>2. \A d \in Delivery : Paired(d)
  BY <1>1 DEF Paired, Counted, Bounded, Truthful, Matched, Active
<1>. QED
  BY <1>1, <1>2 DEF Pairs, Unique, Outcome

\* The result of a call, as the model and the chat get it, is the call's own and true: what is
\* reported as done was applied, what is reported as refused was not and never will be
\* (tools.go, client.go and the tool loop of agent.go).
THEOREM GatewayReportsTrue == Spec => []ResultsTrue
<1>1. Init => IInv /\ Pairs
  BY InitInv, InitPairs
<1>2. IInv /\ Pairs /\ [Next]_vars => (IInv /\ Pairs)'
  BY StepTyped, StepDelivered, StepRounds, StepPairs DEF IInv
<1>. QED
  BY <1>1, <1>2, PairsShow, PTL DEF Spec

-----------------------------------------------------------------------------
(* The order of deliveries *)

First(d) == d[2] = 1
Known(d) == job[d].at # "none"

\* Where messages are taken one at a time, what was written later is taken later.
Ordered ==
    /\ \A n \in 1..Len(posted) : tries[n] > 0
    /\ Line /\ reading => ~Busy
    /\ Inline => /\ \A d, e \in Delivery : Active(d) /\ Active(e) => d = e
                 /\ \A d, e \in Delivery :
                        First(d) /\ First(e) /\ Active(d) /\ Known(e) => e[1] <= d[1]
                 /\ \A j \in 1..Len(queue), e \in Delivery :
                        First(queue[j]) /\ First(e) /\ Known(e) => e[1] < queue[j][1]
                 /\ \A j, k \in 1..Len(queue) :
                        j < k /\ First(queue[j]) /\ First(queue[k]) => queue[j][1] < queue[k][1]

\* A step that begins no dispatch and delivers nothing.
LEMMA OrderedStays ==
    ASSUME Ordered, UNCHANGED <<kind, posted, tries>>, queue' = queue \/ queue' = <<>>,
           reading' => reading \/ ~Busy,
           \A d \in Delivery : (Known(d)' => Known(d)) /\ (Active(d)' => Active(d))
    PROVE  Ordered'
<1>1. Inline' = Inline /\ Line' = Line /\ (Busy' => Busy)
  BY DEF Inline, Line, Busy
<1>2. CASE queue' = queue
  BY <1>1, <1>2 DEF Ordered
<1>3. CASE queue' = <<>>
  <2>1. Len(queue') = 0
    BY <1>3
  <2>. QED
    BY <1>1, <2>1 DEF Ordered
<1>. QED
  BY <1>2, <1>3

\* Something is written, or delivered again.
LEMMA OrderedGrows ==
    ASSUME IInv, Ordered, UNCHANGED <<kind, reading, job>>, NEW d \in Delivery, queue' = Append(queue, d),
           First(d) => d[1] = Len(posted) + 1,
           \A n \in 1..Len(posted') : tries'[n] > 0
    PROVE  Ordered'
<1>1. Inline' = Inline /\ Line' = Line /\ Busy' = Busy
      /\ \A e \in Delivery : Known(e)' = Known(e) /\ Active(e)' = Active(e)
  BY DEF Inline, Line, Busy, Known, Active
<1>2. /\ Len(queue') = Len(queue) + 1 /\ Len(queue) \in Nat /\ queue'[Len(queue) + 1] = d
      /\ \A j \in 1..Len(queue) : queue'[j] = queue[j]
      /\ \A j \in 1..Len(queue') : j \in 1..Len(queue) \/ j = Len(queue) + 1
  BY Facts
<1>3. ASSUME NEW e \in Delivery, e \in Sent, First(d)
      PROVE  e[1] < d[1]
  BY <1>3, InQueue, Facts DEF IInv
<1>4. \A e \in Delivery : Known(e) => e \in Sent
  BY DEF IInv, Delivered, Known
<1>5. \A j \in 1..Len(queue) : queue[j] \in Delivery /\ queue[j] \in Sent
  BY Facts DEF IInv, Delivered
<1>6. ASSUME Inline, NEW j \in 1..Len(queue'), NEW e \in Delivery, First(queue'[j]), First(e), Known(e)
      PROVE  e[1] < queue'[j][1]
  <2>1. CASE j \in 1..Len(queue)
    BY <1>2, <1>6, <2>1 DEF Ordered
  <2>2. CASE j = Len(queue) + 1
    BY <1>2, <1>3, <1>4, <1>6, <2>2
  <2>. QED
    BY <1>2, <2>1, <2>2
<1>7. ASSUME Inline, NEW j \in 1..Len(queue'), NEW k \in 1..Len(queue'), j < k,
             First(queue'[j]), First(queue'[k])
      PROVE  queue'[j][1] < queue'[k][1]
  <2>1. j \in 1..Len(queue)
    BY <1>2, <1>7
  <2>2. CASE k \in 1..Len(queue)
    BY <1>2, <1>7, <2>1, <2>2 DEF Ordered
  <2>3. CASE k = Len(queue) + 1
    BY <1>2, <1>3, <1>5, <1>7, <2>1, <2>3
  <2>. QED
    BY <1>2, <2>2, <2>3
<1>. QED
  BY <1>1, <1>6, <1>7 DEF Ordered

LEMMA StepOrdered ==
    ASSUME IInv, Ordered, [Next]_vars
    PROVE  Ordered'
<1>1. CASE Write
  <2>1. PICK m \in Message : posted' = Append(posted, m)
    BY <1>1, WriteFacts DEF IInv
  <2>. DEFINE n == Len(posted) + 1
  <2>2. /\ UNCHANGED <<kind, reading, job>> /\ queue' = Append(queue, <<n, 1>>)
        /\ tries' = [tries EXCEPT ![n] = 1] /\ Len(posted) < MaxMsg
    BY <1>1, WriteFacts DEF IInv, process
  <2>3. n \in 1..MaxMsg /\ Len(posted') = n /\ \A i \in 1..n : i \in 1..Len(posted) \/ i = n
    BY <2>1, <2>2, Facts
  <2>4. <<n, 1>> \in Delivery /\ <<n, 1>>[1] = n
    BY <2>3, Facts DEF Delivery
  <2>5. \A i \in 1..Len(posted') : tries'[i] > 0
    <3>1. tries'[n] = 1 /\ \A i \in 1..MaxMsg : i # n => tries'[i] = tries[i]
      BY <2>2, <2>3, Facts
    <3>2. \A i \in 1..Len(posted) : tries[i] > 0 /\ i \in 1..MaxMsg /\ i # n
      BY Facts DEF Ordered
    <3>3. ASSUME NEW i \in 1..Len(posted')
          PROVE  tries'[i] > 0
      <4>1. CASE i = n
        BY <3>1, <4>1
      <4>2. CASE i \in 1..Len(posted)
        BY <3>1, <3>2, <4>2
      <4>. QED
        BY <2>3, <4>1, <4>2
    <3>. QED
      BY <3>3
  <2>. HIDE DEF n
  <2>6. First(<<n, 1>>) => <<n, 1>>[1] = Len(posted) + 1
    BY <2>4 DEF n
  <2>. QED
    BY <2>2, <2>4, <2>5, <2>6, OrderedGrows
<1>2. ASSUME NEW n \in 1..Len(posted), Again(n)
      PROVE  Ordered'
  <2>1. /\ UNCHANGED <<kind, reading, job, posted>> /\ queue' = Append(queue, <<n, tries[n] + 1>>)
        /\ tries' = [tries EXCEPT ![n] = tries[n] + 1] /\ tries[n] < MaxTries
    BY <1>2 DEF Again, process
  <2>2. n \in 1..MaxMsg /\ tries[n] > 0 /\ tries[n] \in Nat
    BY Facts DEF Ordered
  <2>3. <<n, tries[n] + 1>> \in Delivery /\ ~First(<<n, tries[n] + 1>>)
    BY <2>1, <2>2, Facts DEF Delivery, First
  <2>4. \A i \in 1..Len(posted') : tries'[i] > 0
    BY <2>1, <2>2, Facts DEF Ordered
  <2>. QED
    BY <2>1, <2>3, <2>4, OrderedGrows
<1>3. ASSUME NEW d \in Delivery, Takes(d)
      PROVE  Ordered'
  <2>1. /\ queue # <<>> /\ d = queue[1] /\ queue' = Tail(queue) /\ UNCHANGED <<kind, posted, tries>>
        /\ (kind = "slack" => ~Busy) /\ (Line => reading /\ ~reading') /\ Begins(d)
    BY <1>3 DEF Takes
  <2>2. \A e \in Delivery : e # d => job'[e] = job[e]
    BY <1>3, BeginsFacts DEF Takes, IInv
  <2>3. Inline' = Inline /\ Line' = Line
    BY <2>1 DEF Inline, Line
  <2>4. Inline => ~Busy
    BY <2>1 DEF Inline, Line, Ordered
  <2>5. /\ Len(queue) \in Nat /\ 1 \in 1..Len(queue) /\ Len(queue') = Len(queue) - 1
        /\ \A j \in 1..Len(queue') : j + 1 \in 1..Len(queue) /\ queue'[j] = queue[j + 1]
    BY <2>1, Facts
  <2>6. \A e \in Delivery : (e # d /\ Known(e)' => Known(e)) /\ (e # d /\ Active(e)' => Active(e))
    BY <2>2 DEF Known, Active
  <2>7. \A e \in Delivery : d[1] \in Int /\ e[1] \in Int
    BY DEF Delivery
  <2>8. ASSUME Inline, NEW b \in Delivery, NEW e \in Delivery, Active(b)'
        PROVE  b = d
    BY <2>4, <2>6, <2>8 DEF Busy
  <2>9. ASSUME Inline, NEW e \in Delivery, First(d), First(e), Known(e)'
        PROVE  e[1] <= d[1]
    <3>1. CASE e = d
      BY <2>7, <3>1
    <3>2. CASE e # d
      BY <2>1, <2>5, <2>6, <2>7, <2>9, <3>2 DEF Ordered
    <3>. QED
      BY <3>1, <3>2
  <2>10. ASSUME Inline, NEW j \in 1..Len(queue'), NEW e \in Delivery, First(queue'[j]), First(e), Known(e)'
         PROVE  e[1] < queue'[j][1]
    <3>1. j + 1 \in 1..Len(queue) /\ 1 < j + 1 /\ queue'[j] = queue[j + 1]
      BY <2>5
    <3>2. CASE e = d
      BY <2>1, <2>5, <2>10, <3>1, <3>2 DEF Ordered
    <3>3. CASE e # d
      BY <2>6, <2>10, <3>1, <3>3 DEF Ordered
    <3>. QED
      BY <3>2, <3>3
  <2>11. ASSUME Inline, NEW j \in 1..Len(queue'), NEW k \in 1..Len(queue'), j < k,
                First(queue'[j]), First(queue'[k])
         PROVE  queue'[j][1] < queue'[k][1]
    <3>1. /\ j + 1 \in 1..Len(queue) /\ k + 1 \in 1..Len(queue) /\ j + 1 < k + 1
          /\ queue'[j] = queue[j + 1] /\ queue'[k] = queue[k + 1]
      BY <2>5, <2>11
    <3>. QED
      BY <2>11, <3>1 DEF Ordered
  <2>12. \A n \in 1..Len(posted') : tries'[n] > 0
    BY <2>1 DEF Ordered
  <2>13. Line' => ~reading'
    BY <2>1, <2>3
  <2>14. Inline' => /\ \A b, e \in Delivery : Active(b)' /\ Active(e)' => b = e
                    /\ \A b, e \in Delivery : First(b) /\ First(e) /\ Active(b)' /\ Known(e)' => e[1] <= b[1]
    BY <2>3, <2>8, <2>9
  <2>. QED
    BY <2>3, <2>10, <2>11, <2>12, <2>13, <2>14 DEF Ordered
<1>4. ASSUME NEW d \in Delivery, Handle(d)
      PROVE  Ordered'
  <2>1. /\ \A e \in Delivery : e # d => job'[e] = job[e]
        /\ UNCHANGED <<kind, posted, tries, queue, reading>> /\ Active(d) /\ Known(d)
    BY <1>4, HandleMoves DEF Frame, process, Active, Known
  <2>2. \A e \in Delivery : (Known(e)' => Known(e)) /\ (Active(e)' => Active(e))
    BY <2>1 DEF Known, Active
  <2>. QED
    BY <2>1, <2>2, OrderedStays
<1>5. ASSUME NEW q \in net, Serve(q)
      PROVE  Ordered'
  <2>1. UNCHANGED <<kind, posted, tries, queue, reading, job>>
    BY <1>5 DEF Serve, pipe, process
  <2>2. \A e \in Delivery : (Known(e)' => Known(e)) /\ (Active(e)' => Active(e))
    BY <2>1 DEF Known, Active
  <2>. QED
    BY <2>1, <2>2, OrderedStays
<1>6. CASE Quiet
  <2>1. \A e \in Delivery : (Known(e)' => Known(e)) /\ (Active(e)' => Active(e))
    BY <1>6 DEF Quiet, Known, Active
  <2>. QED
    BY <1>6, <2>1, OrderedStays DEF Quiet
<1>7. CASE Down
  <2>1. /\ UNCHANGED <<kind, posted, tries>> /\ queue' = <<>> /\ ~reading'
        /\ \A d \in Delivery :
              (Active(d) /\ job'[d] = Over(d, "cut")) \/ (~Active(d) /\ job'[d] = job[d])
        /\ \A d \in Delivery : Over(d, "cut").at = "cut"
    BY <1>7, DownFacts, OverFacts DEF Place, IInv
  <2>2. \A e \in Delivery : (Known(e)' => Known(e)) /\ (Active(e)' => Active(e))
    BY <2>1 DEF Known, Active
  <2>. QED
    BY <2>1, <2>2, OrderedStays
<1>. QED
  BY <1>1, <1>2, <1>3, <1>4, <1>5, <1>6, <1>7, StepCases

LEMMA InitOrdered == Init => Ordered
<1>. SUFFICES ASSUME Init PROVE Ordered
  OBVIOUS
<1>1. queue = <<>> /\ posted = <<>> /\ \A d \in Delivery : job[d].at = "none"
  BY DEF Init, NoJob
<1>. QED
  BY <1>1 DEF Init, Ordered, Active, Busy

\* The rest of a dispatch's step: what is answered.
LEMMA HandleAnswers ==
    ASSUME IInv, NEW d \in Delivery, Handle(d)
    PROVE  out' = out \/ (out' = Append(out, d) /\ ~posted[d[1]].quiet /\ job'[d].at = "done")
<1>1. CASE Reply(d)
  <2>1. job[d].at = "reply" /\ job' = [job EXCEPT ![d] = Over(d, "done")]
    BY <1>1 DEF Reply
  <2>2. job'[d].at = "done"
    BY <2>1, OverFacts DEF IInv, Typed, Place
  <2>. QED
    BY <1>1, <2>2 DEF Reply
<1>2. CASE ~Reply(d)
  BY <1>2 DEF Handle, Messages, StreamProgress, TurnEnds, RunTool, Answered, Fails
<1>. QED
  BY <1>1, <1>2

\* What is answered is over, and was meant to be answered.
Ended ==
    /\ \A d \in Delivery : Active(d) => PlanOf(d).do # "ignore"
    /\ \A k \in 1..Len(out) : /\ job[out[k]].at = "done"
                             /\ ~posted[out[k][1]].quiet /\ PlanOf(out[k]).do # "ignore"

LEMMA OutFacts ==
    ASSUME IInv
    PROVE  out \in Seq(Delivery) /\ \A k \in 1..Len(out) : out[k] \in Delivery
<1>1. out \in Seq(Delivery)
  BY DEF IInv, Typed
<1>. QED
  BY <1>1

LEMMA StepEnded ==
    ASSUME IInv, Ended, AnswersOnce, Ordered, [Next]_vars
    PROVE  Ended' /\ AnswersOnce'
<1>. DEFINE Same(d) == PlanOf(d)' = PlanOf(d) /\ posted'[d[1]] = posted[d[1]]
<1>1. ASSUME out' = out, \A d \in Delivery : Known(d) => Same(d), kind' = kind,
             \A d \in Delivery : Active(d)' => PlanOf(d)'.do # "ignore",
             \A d \in Delivery : job[d].at = "done" => job'[d].at = "done"
      PROVE  Ended' /\ AnswersOnce'
  <2>1. \A k \in 1..Len(out) : out[k] \in Delivery /\ Known(out[k]) /\ job[out[k]].at = "done"
    BY OutFacts DEF Ended, Known
  <2>2. Ended'
    BY <1>1, <2>1 DEF Ended
  <2>3. Inline' = Inline
    BY <1>1 DEF Inline
  <2>4. AnswersOnce'
    BY <1>1, <2>2, <2>3 DEF AnswersOnce, Ended
  <2>. QED
    BY <2>2, <2>4
<1>2. CASE Write
  <2>1. PICK m \in Message : posted' = Append(posted, m)
    BY <1>2, WriteFacts DEF IInv
  <2>2. UNCHANGED <<kind, job, out>>
    BY <1>2 DEF Write
  <2>3. \A d \in Delivery : Known(d) => Same(d)
    BY <2>1, PlanKept DEF IInv, Delivered, Known
  <2>4. \A d \in Delivery : Active(d)' = Active(d) /\ (Active(d) => Known(d))
    BY <2>2 DEF Active, Known
  <2>. QED
    BY <1>1, <2>2, <2>3, <2>4 DEF Ended
<1>3. CASE UNCHANGED <<kind, posted, job, out>>
  BY <1>1, <1>3 DEF Ended, PlanOf, Active
<1>4. ASSUME NEW d \in Delivery, Takes(d)
      PROVE  Ended' /\ AnswersOnce'
  <2>1. UNCHANGED <<kind, posted, out>> /\ job[d].at = "none"
    BY <1>4 DEF Takes
  <2>2. /\ \A e \in Delivery : e # d => job'[e] = job[e]
        /\ job'[d].at \in {"done", "reply", "work", "model"}
        /\ job'[d].at = "model" => PlanOf(d).do = "ask"
        /\ job'[d].at = "work" => PlanOf(d).do = "call"
        /\ job'[d].at = "reply" => PlanOf(d).do = "answer"
    BY <1>4, BeginsFacts DEF Takes, IInv
  <2>3. \A e \in Delivery : Active(e)' => PlanOf(e).do # "ignore"
    BY <2>2 DEF Ended, Active
  <2>4. \A e \in Delivery : Same(e)
    BY <2>1 DEF PlanOf
  <2>. QED
    BY <1>1, <2>1, <2>2, <2>3, <2>4
<1>5. CASE Down
  <2>1. /\ UNCHANGED <<kind, posted, out>>
        /\ \A d \in Delivery :
              (Active(d) /\ job'[d] = Over(d, "cut")) \/ (~Active(d) /\ job'[d] = job[d])
        /\ \A d \in Delivery : Over(d, "cut").at = "cut"
    BY <1>5, DownFacts, OverFacts DEF Place, IInv
  <2>2. \A d \in Delivery : ~Active(d)' /\ (job[d].at = "done" => job'[d].at = "done")
    BY <2>1 DEF Active
  <2>3. \A d \in Delivery : Same(d)
    BY <2>1 DEF PlanOf
  <2>. QED
    BY <1>1, <2>1, <2>2, <2>3
<1>6. ASSUME NEW d \in Delivery, Handle(d)
      PROVE  Ended' /\ AnswersOnce'
  <2>1. /\ \A e \in Delivery : e # d => job'[e] = job[e]
        /\ UNCHANGED <<kind, posted>> /\ Active(d)
    BY <1>6, HandleMoves DEF Frame
  <2>2. \A e \in Delivery : Same(e)
    BY <2>1 DEF PlanOf
  <2>3. \A e \in Delivery : Active(e)' => Active(e)
    BY <2>1 DEF Active
  <2>4. \A e \in Delivery : Active(e)' => PlanOf(e)'.do # "ignore"
    BY <2>2, <2>3 DEF Ended
  <2>5. \A e \in Delivery : job[e].at = "done" => job'[e].at = "done"
    BY <2>1 DEF Active
  <2>6. CASE out' = out
    BY <1>1, <2>1, <2>2, <2>4, <2>5, <2>6
  <2>7. CASE out' = Append(out, d) /\ ~posted[d[1]].quiet /\ job'[d].at = "done"
    <3>1. /\ Len(out') = Len(out) + 1 /\ Len(out) \in Nat /\ out'[Len(out) + 1] = d
          /\ \A k \in 1..Len(out) : out'[k] = out[k]
          /\ \A k \in 1..Len(out') : k \in 1..Len(out) \/ k = Len(out) + 1
      BY <2>7, OutFacts
    <3>2. \A k \in 1..Len(out) : /\ out[k] \in Delivery /\ job[out[k]].at = "done" /\ out[k] # d
                                /\ ~posted[out[k][1]].quiet /\ PlanOf(out[k]).do # "ignore"
      BY <2>1, OutFacts DEF Ended, Active
    <3>3. PlanOf(d).do # "ignore"
      BY <2>1 DEF Ended
    <3>4. ASSUME NEW k \in 1..Len(out')
          PROVE  /\ job'[out'[k]].at = "done"
                 /\ ~posted'[out'[k][1]].quiet /\ PlanOf(out'[k]).do # "ignore"
      BY <2>1, <2>5, <2>7, <3>1, <3>2, <3>3
    <3>5. Ended'
      BY <2>1, <2>4, <3>4 DEF Ended, PlanOf
    <3>6. ASSUME NEW k \in 1..Len(out'), NEW l \in 1..Len(out'), k < l
          PROVE  out'[k] # out'[l]
      BY <3>1, <3>2, <3>6 DEF AnswersOnce
    <3>7. ASSUME Inline, NEW k \in 1..Len(out), out[k][2] = 1, d[2] = 1
          PROVE  out[k][1] < d[1]
      <4>1. out[k][1] <= d[1]
        BY <2>1, <3>2, <3>7 DEF Ordered, First, Known
      <4>2. out[k][1] # d[1] /\ out[k][1] \in Int /\ d[1] \in Int
        BY <3>2, <3>7 DEF Delivery
      <4>. QED
        BY <4>1, <4>2
    <3>8. ASSUME Inline, NEW k \in 1..Len(out'), NEW l \in 1..Len(out'), k < l,
                 out'[k][2] = 1, out'[l][2] = 1
          PROVE  out'[k][1] < out'[l][1]
      <4>1. k \in 1..Len(out)
        BY <3>1, <3>8
      <4>2. CASE l \in 1..Len(out)
        BY <3>1, <3>8, <4>1, <4>2 DEF AnswersOnce
      <4>3. CASE l = Len(out) + 1
        BY <3>1, <3>7, <3>8, <4>1, <4>3
      <4>. QED
        BY <3>1, <4>2, <4>3
    <3>9. Inline' = Inline
      BY <2>1 DEF Inline
    <3>10. AnswersOnce'
      BY <3>5, <3>6, <3>8, <3>9 DEF AnswersOnce, Ended
    <3>. QED
      BY <3>5, <3>10
  <2>. QED
    BY <1>6, <2>6, <2>7, HandleAnswers
<1>7. Quiet \/ (\E n \in 1..Len(posted) : Again(n)) \/ (\E q \in net : Serve(q))
        => UNCHANGED <<kind, posted, job, out>>
  BY DEF Quiet, Again, Serve, pipe
<1>. QED
  BY <1>2, <1>3, <1>4, <1>5, <1>6, <1>7, StepCases

\* A message delivered once is answered at most once, in order where the loop takes messages
\* one at a time, and not at all if it was a notification or nothing for the bot (server.go of
\* internal/mcp, the adapters' loops).
THEOREM GatewayAnswersOnce == Spec => []AnswersOnce
<1>1. Init => IInv /\ Ordered /\ Ended /\ AnswersOnce
  <2>1. Init => out = <<>> /\ \A d \in Delivery : ~Active(d)
    BY DEF Init, NoJob, Active
  <2>2. Init => Ended /\ AnswersOnce
    BY <2>1 DEF Ended, AnswersOnce
  <2>. QED
    BY <2>2, InitInv, InitOrdered
<1>2. IInv /\ Ordered /\ Ended /\ AnswersOnce /\ [Next]_vars
        => (IInv /\ Ordered /\ Ended /\ AnswersOnce)'
  BY StepTyped, StepDelivered, StepRounds, StepOrdered, StepEnded DEF IInv
<1>. QED
  BY <1>1, <1>2, PTL DEF Spec

LEMMA KindStays ==
    ASSUME IInv, [Next]_vars
    PROVE  kind' = kind
<1>1. Write \/ (\E n \in 1..Len(posted) : Again(n)) \/ (\E d \in Delivery : Takes(d)) => kind' = kind
  BY DEF Write, Again, Takes
<1>2. (\E q \in net : Serve(q)) \/ Quiet \/ Down => kind' = kind
  BY DEF Serve, Quiet, Down, pipe
<1>3. (\E d \in Delivery : Handle(d)) => kind' = kind
  BY HandleMoves DEF Frame
<1>. QED
  BY <1>1, <1>2, <1>3, StepCases

LEMMA StepOrderKept ==
    ASSUME IInv, Ordered, OrderKept, [Next]_vars
    PROVE  OrderKept'
<1>1. kind' = kind
  BY KindStays
<1>2. Inline' = Inline
  BY <1>1 DEF Inline
<1>3. CASE log' = log
  BY <1>2, <1>3 DEF OrderKept
<1>4. ASSUME NEW q \in net, Serve(q)
      PROVE  OrderKept'
  <2>. DEFINE entry == [job |-> q.job, turn |-> q.turn, i |-> q.i, late |-> ~Waits(q)]
  <2>1. log' = log \/ log' = Append(log, entry)
    BY <1>4 DEF Serve
  <2>2. entry.job = q.job /\ (~entry.late => Waits(q))
    OBVIOUS
  <2>. HIDE DEF entry
  <2>3. CASE log' = Append(log, entry)
    <3>1. /\ Len(log') = Len(log) + 1 /\ Len(log) \in Nat /\ log'[Len(log) + 1] = entry
          /\ \A k \in 1..Len(log) : log'[k] = log[k]
          /\ \A k \in 1..Len(log') : k \in 1..Len(log) \/ k = Len(log) + 1
      BY <2>3, Facts
    <3>2. \A k \in 1..Len(log) : log[k].job \in Delivery /\ Known(log[k].job)
      BY Facts DEF IInv, Delivered, Known
    <3>3. q.job \in Delivery /\ (Waits(q) => Active(q.job))
      BY Facts DEF Waits, Active
    <3>4. ASSUME Inline, NEW k \in 1..Len(log'), NEW l \in 1..Len(log'), k < l, ~log'[l].late,
                 log'[k].job[2] = 1, log'[l].job[2] = 1
          PROVE  log'[k].job[1] <= log'[l].job[1]
      <4>1. k \in 1..Len(log)
        BY <3>1, <3>4
      <4>2. CASE l \in 1..Len(log)
        BY <3>1, <3>4, <4>1, <4>2 DEF OrderKept
      <4>3. CASE l = Len(log) + 1
        <5>1. Active(q.job) /\ First(q.job) /\ log'[l].job = q.job
          BY <2>2, <3>1, <3>3, <3>4, <4>3 DEF First
        <5>2. Known(log[k].job) /\ First(log[k].job) /\ log'[k] = log[k] /\ log[k].job \in Delivery
          BY <3>1, <3>2, <3>4, <4>1 DEF First
        <5>. QED
          BY <3>3, <3>4, <5>1, <5>2 DEF Ordered
      <4>. QED
        BY <3>1, <4>2, <4>3
    <3>. QED
      BY <1>2, <3>4 DEF OrderKept
  <2>. QED
    BY <1>3, <2>1, <2>3
<1>5. (\E q \in net : Serve(q)) \/ log' = log
  <2>1. Write \/ (\E n \in 1..Len(posted) : Again(n)) \/ (\E d \in Delivery : Takes(d)) => log' = log
    BY DEF Write, Again, Takes
  <2>2. Quiet \/ Down \/ (\E d \in Delivery : Handle(d)) => log' = log
    BY HandleMoves DEF Quiet, Down
  <2>. QED
    BY <2>1, <2>2, StepCases
<1>. QED
  BY <1>3, <1>4, <1>5

\* Where messages are taken one at a time, the shipd server applies what they ask for in the
\* order in which they were written, but for requests that were given up (the loop of Run in
\* slack.go, the loops over stdin).
THEOREM GatewayKeepsOrder == Spec => []OrderKept
<1>1. Init => IInv /\ Ordered /\ OrderKept
  <2>1. Init => OrderKept
    BY InitTraces DEF OrderKept
  <2>. QED
    BY <2>1, InitInv, InitOrdered
<1>2. IInv /\ Ordered /\ OrderKept /\ [Next]_vars => (IInv /\ Ordered /\ OrderKept)'
  BY StepTyped, StepDelivered, StepRounds, StepOrdered, StepOrderKept DEF IInv
<1>. QED
  BY <1>1, <1>2, PTL DEF Spec

-----------------------------------------------------------------------------
(* What is applied, and how often *)

\* The shipd server applies a call once at most.
AppliedOnce ==
    \A k, l \in 1..Len(log) :
        log[k].job = log[l].job /\ log[k].turn = log[l].turn /\ log[k].i = log[l].i => k = l

\* The log grows by what is served, at its end.
LEMMA LogGrows ==
    ASSUME IInv, [Next]_vars
    PROVE  \/ log' = log
           \/ \E q \in net, e \in LogType :
                /\ Serve(q) /\ q.st = "sent" /\ q.write
                /\ e.job = q.job /\ e.turn = q.turn /\ e.i = q.i
                /\ Len(log') = Len(log) + 1 /\ Len(log) \in Nat /\ log'[Len(log) + 1] = e
                /\ \A k \in 1..Len(log) : log'[k] = log[k]
                /\ \A k \in 1..Len(log') : k \in 1..Len(log) \/ k = Len(log) + 1
<1>1. ASSUME NEW q \in net, Serve(q), log' # log
      PROVE  \E e \in LogType :
                /\ q.st = "sent" /\ q.write
                /\ e.job = q.job /\ e.turn = q.turn /\ e.i = q.i
                /\ Len(log') = Len(log) + 1 /\ Len(log) \in Nat /\ log'[Len(log) + 1] = e
                /\ \A k \in 1..Len(log) : log'[k] = log[k]
                /\ \A k \in 1..Len(log') : k \in 1..Len(log) \/ k = Len(log) + 1
  <2>. DEFINE e == [job |-> q.job, turn |-> q.turn, i |-> q.i, late |-> ~Waits(q)]
  <2>1. log' = Append(log, e) /\ q.st = "sent" /\ q.write
    BY <1>1 DEF Serve
  <2>2. e.job = q.job /\ e.turn = q.turn /\ e.i = q.i
    OBVIOUS
  <2>. HIDE DEF e
  <2>3. log \in Seq(LogType) /\ log' \in Seq(LogType)
    BY Facts, <1>1, ServeFacts DEF IInv
  <2>4. /\ Len(log') = Len(log) + 1 /\ Len(log) \in Nat /\ log'[Len(log) + 1] = e
        /\ \A k \in 1..Len(log) : log'[k] = log[k]
        /\ \A k \in 1..Len(log') : k \in 1..Len(log) \/ k = Len(log) + 1
    BY <2>1, <2>3
  <2>5. e \in LogType
    BY <2>3, <2>4
  <2>. QED
    BY <2>1, <2>2, <2>4, <2>5
<1>2. (\E q \in net : Serve(q)) \/ log' = log
  <2>1. Write \/ (\E n \in 1..Len(posted) : Again(n)) \/ (\E d \in Delivery : Takes(d)) => log' = log
    BY DEF Write, Again, Takes
  <2>2. Quiet \/ Down \/ (\E d \in Delivery : Handle(d)) => log' = log
    BY HandleMoves DEF Quiet, Down
  <2>. QED
    BY <2>1, <2>2, StepCases
<1>. QED
  BY <1>1, <1>2

LEMMA StepAppliedOnce ==
    ASSUME IInv, Pairs, AppliedOnce, [Next]_vars
    PROVE  AppliedOnce'
<1>1. CASE log' = log
  BY <1>1 DEF AppliedOnce
<1>2. ASSUME NEW q \in net, NEW e \in LogType,
             q.st = "sent", e.job = q.job, e.turn = q.turn, e.i = q.i,
             Len(log') = Len(log) + 1, Len(log) \in Nat, log'[Len(log) + 1] = e,
             \A k \in 1..Len(log) : log'[k] = log[k],
             \A k \in 1..Len(log') : k \in 1..Len(log) \/ k = Len(log) + 1
      PROVE  AppliedOnce'
  <2>1. ~Logged(q.job, q.turn, q.i)
    BY <1>2 DEF Pairs, Outcome
  <2>2. \A k \in 1..Len(log) :
            ~(log[k].job = e.job /\ log[k].turn = e.turn /\ log[k].i = e.i)
    BY <1>2, <2>1 DEF Logged
  <2>. QED
    BY <1>2, <2>2 DEF AppliedOnce
<1>. QED
  BY <1>1, <1>2, LogGrows

\* No call takes effect twice, however late its request arrives, whoever gave it up and
\* however often the process goes down: do in client.go sends a request once and neither
\* the tools nor the agent's loop repeat it.
THEOREM GatewayAppliesOnce == Spec => []AppliedOnce
<1>1. Init => IInv /\ Pairs /\ AppliedOnce
  <2>1. Init => AppliedOnce
    BY InitTraces DEF AppliedOnce
  <2>. QED
    BY <2>1, InitInv, InitPairs
<1>2. IInv /\ Pairs /\ AppliedOnce /\ [Next]_vars => (IInv /\ Pairs /\ AppliedOnce)'
  BY StepTyped, StepDelivered, StepRounds, StepPairs, StepAppliedOnce DEF IInv
<1>. QED
  BY <1>1, <1>2, PTL DEF Spec

\* A dispatch calls what its plan or the model says: nothing for an answer, its one call for a
\* command, and for a question only in a round of the model's.
Dispatched(d) ==
    /\ PlanOf(d).do = "answer" => job[d].at \notin {"work", "wait", "model", "stream"}
    /\ PlanOf(d).do = "ignore" => ~Active(d)
    /\ PlanOf(d).do = "call" /\ Active(d) =>
           /\ job[d].at \notin {"model", "stream"} /\ job[d].turn = 0
           /\ job[d].at \in {"work", "wait"} => job[d].uses = PlanOf(d).uses
    /\ PlanOf(d).do = "ask" /\ job[d].at \in {"work", "wait", "stream"} => job[d].turn > 0

\* The call number i of a round t is one that the delivery d asks for, and changes something.
AsksFor(d, t, i) ==
    \/ PlanOf(d).do = "ask" /\ t > 0
    \/ /\ PlanOf(d).do = "call" /\ t = 0 /\ i = 1
       /\ Call(PlanOf(d).uses[1].tool, PlanOf(d).uses[1].args).write

AskedFor ==
    /\ \A q \in net : q.write => AsksFor(q.job, q.turn, q.i)
    /\ \A k \in 1..Len(log) : AsksFor(log[k].job, log[k].turn, log[k].i)

\* Only what was asked for takes effect: a command does its one call, a question to the agent
\* the calls of the model's rounds, and anything else nothing.
EffectsAskedFor == \A k \in 1..Len(log) : AsksFor(log[k].job, log[k].turn, log[k].i)

LEMMA CallPlan ==
    ASSUME NEW p \in Plans, p.do = "call"
    PROVE  Len(p.uses) = 1
<1>1. p \in {Answer, Ask, Ignore} \/ \E tool, args : p = Run(tool, args)
  BY DispatchPlans, LinePlans DEF Plans
<1>2. p \notin {Answer, Ask, Ignore}
  BY DEF Answer, Ask, Ignore, Plan
<1>3. PICK tool, args : p = Run(tool, args)
  BY <1>1, <1>2
<1>. QED
  BY <1>3 DEF Run, Plan

LEMMA PlansStay ==
    ASSUME IInv, [Next]_vars, NEW d \in Delivery, job[d].at # "none"
    PROVE  PlanOf(d)' = PlanOf(d) /\ PlanOf(d) \in Plans
<1>1. d \in Sent
  BY DEF IInv, Delivered
<1>. QED
  BY <1>1, ToldGrows, InQueue DEF IInv

LEMMA HandleDispatched ==
    ASSUME IInv, NEW d \in Delivery, Dispatched(d), Handle(d), PlanOf(d)' = PlanOf(d),
           PlanOf(d).do \in {"ignore", "answer", "call", "ask"}
    PROVE  Dispatched(d)'
<1>. USE DEF IInv
<1>1. Active(d) /\ job[d].turn \in Nat
  BY HandleMoves DEF Typed, JobType
<1>2. CASE Messages(d)
  <2>1. PlanOf(d).do = "ask" /\ job[d].at = "model"
    BY <1>2, MessagesFacts DEF Rounds
  <2>2. job'[d].at = "reply" \/ (job'[d].at = "stream" /\ job'[d].turn = job[d].turn + 1)
    BY <1>2, MessagesFacts, AtFacts DEF Place
  <2>. QED
    BY <1>1, <2>1, <2>2 DEF Dispatched, Active
<1>3. CASE StreamProgress(d)
  BY <1>1, <1>3, StreamFacts DEF Dispatched, Active
<1>4. CASE TurnEnds(d)
  <2>1. job[d].at = "work" /\ job'[d].turn = job[d].turn
        /\ (job'[d].at = "reply" \/ (job'[d].at = "model" /\ PlanOf(d).do = "ask"))
    BY <1>4, TurnEndsFacts, AtFacts DEF Place
  <2>. QED
    BY <1>1, <2>1 DEF Dispatched, Active
<1>5. ASSUME job[d].at \in {"work", "wait"}, job'[d].at \in {"work", "wait"},
             job'[d].turn = job[d].turn, job'[d].uses = job[d].uses
      PROVE  Dispatched(d)'
  BY <1>1, <1>5 DEF Dispatched, Active
<1>6. CASE RunTool(d)
  <2>1. job[d].at = "work" /\ ((\E r \in Answer3 : Result(d, r)) \/ At(d, "wait"))
    BY <1>6 DEF RunTool, Answer3
  <2>2. CASE At(d, "wait")
    <3>1. "wait" \in Place
      BY DEF Place
    <3>. QED
      BY <1>5, <2>1, <2>2, <3>1, AtFacts
  <2>. QED
    BY <1>5, <2>1, <2>2, ResultFacts
<1>7. CASE Answered(d)
  BY <1>5, <1>7, AnsweredFacts, ResultFacts
<1>8. CASE Fails(d)
  BY <1>5, <1>8, FailsFacts, ResultFacts
<1>9. CASE Reply(d)
  <2>1. job'[d].at = "done"
    <3>1. d[1] \in 1..Len(posted)
      BY <1>1, InQueue DEF Delivered, Active
    <3>. QED
      BY <1>9, <3>1, ReplyFacts, OverFacts DEF Place
  <2>. QED
    BY <2>1 DEF Dispatched, Active
<1>. QED
  BY <1>2, <1>3, <1>4, <1>6, <1>7, <1>8, <1>9 DEF Handle

LEMMA StepDispatched ==
    ASSUME IInv, \A d \in Delivery : Dispatched(d), [Next]_vars
    PROVE  (\A d \in Delivery : Dispatched(d))'
<1>1. ASSUME NEW d \in Delivery, job'[d] = job[d]
      PROVE  Dispatched(d)'
  <2>1. CASE job[d].at = "none"
    BY <1>1, <2>1 DEF Dispatched, Active
  <2>2. CASE job[d].at # "none"
    BY <1>1, <2>2, PlansStay DEF Dispatched, Active
  <2>. QED
    BY <2>1, <2>2
<1>2. ASSUME NEW e \in Delivery, Takes(e), NEW d \in Delivery
      PROVE  Dispatched(d)'
  <2>1. CASE d = e
    <3>1. /\ job'[d].turn = 0 /\ job'[d].uses = PlanOf(d).uses
          /\ job'[d].at \in {"done", "reply", "work", "model"}
          /\ job'[d].at = "model" => PlanOf(d).do = "ask"
          /\ job'[d].at = "work" => PlanOf(d).do = "call"
          /\ job'[d].at = "reply" => PlanOf(d).do = "answer"
      BY <1>2, <2>1, BeginsFacts DEF Takes, IInv
    <3>2. PlanOf(d)' = PlanOf(d)
      BY <1>2 DEF Takes, PlanOf
    <3>. QED
      BY <3>1, <3>2 DEF Dispatched, Active
  <2>2. CASE d # e
    BY <1>1, <1>2, <2>2, BeginsFacts DEF Takes, IInv
  <2>. QED
    BY <2>1, <2>2
<1>3. ASSUME NEW e \in Delivery, Handle(e), NEW d \in Delivery
      PROVE  Dispatched(d)'
  <2>1. CASE d = e
    <3>1. job[d].at # "none"
      BY <1>3, <2>1, HandleMoves DEF Active
    <3>2. PlanOf(d)' = PlanOf(d) /\ PlanOf(d).do \in {"ignore", "answer", "call", "ask"}
      BY <3>1, PlansStay, PlanShape
    <3>. QED
      BY <1>3, <2>1, <3>2, HandleDispatched
  <2>2. CASE d # e
    BY <1>1, <1>3, <2>2, HandleMoves DEF Frame
  <2>. QED
    BY <2>1, <2>2
<1>4. CASE Down
  <2>1. ASSUME NEW d \in Delivery
        PROVE  Dispatched(d)'
    <3>1. CASE job'[d] = job[d]
      BY <1>1, <3>1
    <3>2. CASE job'[d] = Over(d, "cut")
      <4>1. job'[d].at = "cut"
        BY <3>2, OverFacts DEF IInv, Place
      <4>. QED
        BY <4>1 DEF Dispatched, Active
    <3>. QED
      BY <1>4, <3>1, <3>2, DownFacts DEF IInv
  <2>. QED
    BY <2>1
<1>5. Write \/ Quiet \/ (\E n \in 1..Len(posted) : Again(n)) \/ (\E q \in net : Serve(q)) => job' = job
  BY DEF Write, Quiet, Again, Serve
<1>. QED
  BY <1>1, <1>2, <1>3, <1>4, <1>5, StepCases

LEMMA StepAskedFor ==
    ASSUME IInv, AskedFor, \A d \in Delivery : Dispatched(d), [Next]_vars
    PROVE  AskedFor'
<1>1. ASSUME NEW d \in Delivery, job[d].at # "none", NEW t, NEW i, AsksFor(d, t, i)
      PROVE  AsksFor(d, t, i)'
  BY <1>1, PlansStay DEF AsksFor
<1>2. /\ \A q \in net : q.job \in Delivery /\ job[q.job].at # "none"
      /\ \A k \in 1..Len(log) : log[k].job \in Delivery /\ job[log[k].job].at # "none"
  BY Facts DEF IInv, Delivered
<1>3. ASSUME NEW q \in net, q.write
      PROVE  AsksFor(q.job, q.turn, q.i)'
  <2>1. AsksFor(q.job, q.turn, q.i) /\ q.job \in Delivery /\ job[q.job].at # "none"
    BY <1>2, <1>3 DEF AskedFor
  <2>. QED
    BY <1>1, <2>1
<1>4. ASSUME NEW q \in net', q.write
      PROVE  AsksFor(q.job, q.turn, q.i)'
  <2>1. CASE q \in net
    BY <1>3, <1>4, <2>1
  <2>2. ASSUME NEW p \in net, q.job = p.job, q.turn = p.turn, q.i = p.i, q.write = p.write
        PROVE  AsksFor(q.job, q.turn, q.i)'
    BY <1>3, <1>4, <2>2 DEF AsksFor, PlanOf
  <2>3. ASSUME NEW d \in Delivery, q.job = d, q.turn = job[d].turn, job[d].at = "work",
               q.i = Next1(d), q.write = Reads(d).write, Next1(d) <= Len(job[d].uses)
        PROVE  AsksFor(q.job, q.turn, q.i)'
    <3>1. job[d].at # "none" /\ Active(d) /\ Dispatched(d)
      BY <2>3 DEF Active
    <3>2. PlanOf(d) \in Plans /\ PlanOf(d).do \in {"ignore", "answer", "call", "ask"}
      BY <3>1, PlansStay, PlanShape
    <3>3. CASE PlanOf(d).do = "call"
      <4>1. job[d].turn = 0 /\ job[d].uses = PlanOf(d).uses /\ Len(job[d].uses) = 1
        BY <2>3, <3>1, <3>2, <3>3, CallPlan DEF Dispatched
      <4>2. Next1(d) = 1
        <5>1. Len(job[d].results) \in Nat
          BY DEF IInv, Typed, JobType
        <5>. QED
          BY <2>3, <4>1, <5>1 DEF Next1
      <4>. QED
        <5>1. AsksFor(d, q.turn, q.i)
          BY <1>4, <2>3, <3>3, <4>1, <4>2 DEF AsksFor, Reads
        <5>. QED
          BY <1>1, <2>3, <3>1, <5>1
    <3>4. CASE PlanOf(d).do = "ask"
      <4>1. AsksFor(d, q.turn, q.i)
        BY <2>3, <3>1, <3>4 DEF AsksFor, Dispatched
      <4>. QED
        BY <1>1, <2>3, <3>1, <4>1
    <3>. QED
      BY <2>3, <3>1, <3>2, <3>3, <3>4 DEF Dispatched
  <2>4. ASSUME NEW p \in net, Serve(p), q \notin net
        PROVE  q.job = p.job /\ q.turn = p.turn /\ q.i = p.i /\ q.write = p.write
    <3>1. \A st : /\ [p EXCEPT !.st = st].job = p.job /\ [p EXCEPT !.st = st].turn = p.turn
                  /\ [p EXCEPT !.st = st].i = p.i /\ [p EXCEPT !.st = st].write = p.write
      BY Facts DEF NetType
    <3>2. \E st \in {"ok", "refused"} : q = [p EXCEPT !.st = st]
      BY <2>4 DEF Serve
    <3>. QED
      BY <3>1, <3>2
  <2>5. Write \/ Quiet \/ Down \/ (\E n \in 1..Len(posted) : Again(n)) \/ (\E d \in Delivery : Takes(d))
          => q \in net
    BY DEF Write, Quiet, Down, Again, Takes
  <2>6. ASSUME NEW d \in Delivery, Handle(d)
        PROVE  AsksFor(q.job, q.turn, q.i)'
    BY <2>1, <2>3, <2>6, HandleMoves
  <2>7. ASSUME NEW p \in net, Serve(p)
        PROVE  AsksFor(q.job, q.turn, q.i)'
    BY <2>1, <2>2, <2>4, <2>7
  <2>. QED
    BY <2>1, <2>5, <2>6, <2>7, StepCases
<1>5. ASSUME NEW k \in 1..Len(log')
      PROVE  AsksFor(log[k].job, log[k].turn, log[k].i)'
  <2>1. CASE k \in 1..Len(log) /\ log'[k] = log[k]
    <3>1. PICK e \in LogType : e = log[k]
      BY <2>1, Facts
    <3>2. AsksFor(e.job, e.turn, e.i) /\ e.job \in Delivery /\ job[e.job].at # "none"
      BY <1>2, <2>1, <3>1 DEF AskedFor
    <3>3. AsksFor(e.job, e.turn, e.i)'
      BY <1>1, <3>2
    <3>4. log'[k] = e
      BY <2>1, <3>1
    <3>. QED
      BY <3>3, <3>4 DEF AsksFor, PlanOf
  <2>2. CASE \E p \in net : log'[k].job = p.job /\ log'[k].turn = p.turn /\ log'[k].i = p.i /\ p.write
    BY <1>3, <2>2 DEF AsksFor, PlanOf
  <2>. QED
    BY <2>1, <2>2, LogSteps
<1>. QED
  BY <1>4, <1>5 DEF AskedFor

LEMMA InitDispatched == Init => \A d \in Delivery : Dispatched(d)
BY DEF Init, NoJob, Dispatched, Active

\* Nobody gets more than was asked for: a command takes effect through its one call and only
\* if that is one that changes something, chat without a command never does, and a question
\* only through what the model calls in its rounds (Dispatch in gateway.go, handleLine in
\* server.go, Run in agent.go).
THEOREM GatewayDoesAsAsked == Spec => []EffectsAskedFor
<1>1. Init => IInv /\ AskedFor /\ \A d \in Delivery : Dispatched(d)
  BY InitInv, InitTraces, InitDispatched DEF AskedFor
<1>2. IInv /\ AskedFor /\ (\A d \in Delivery : Dispatched(d)) /\ [Next]_vars
        => (IInv /\ AskedFor /\ \A d \in Delivery : Dispatched(d))'
  BY StepTyped, StepDelivered, StepRounds, StepAskedFor, StepDispatched DEF IInv
<1>3. AskedFor => EffectsAskedFor
  BY DEF AskedFor, EffectsAskedFor
<1>. QED
  BY <1>1, <1>2, <1>3, PTL DEF Spec

-----------------------------------------------------------------------------
(* What is delivered again *)

LEMMA FaultsGrow ==
    ASSUME IInv, [Next]_vars
    PROVE  faults \in Nat /\ faults' \in Nat /\ (faults' = faults \/ faults' = faults + 1)
<1>1. faults \in Nat /\ (Fault => faults' = faults + 1) /\ \A n : Ack(n) => faults' = faults \/ Fault
  BY DEF IInv, Typed, Fault, Ack
<1>2. faults' = faults \/ Fault
  <2>1. Write \/ Redeliver \/ CheckContext \/ Start \/ CloseStdin \/ Return \/ EndOfInput \/ UNCHANGED vars
          => faults' = faults
    BY DEF Write, Redeliver, CheckContext, Start, CloseStdin, Return, EndOfInput, vars, pipe
  <2>2. Signal \/ Kill => Fault
    BY DEF Signal, Kill
  <2>3. Take => faults' = faults \/ Fault
    BY <1>1 DEF Take, TakeSlack, TakeHook, TakeWs, TakeLine
  <2>4. ASSUME NEW d \in Delivery, Handle(d)
        PROVE  faults' = faults \/ Fault
    BY <1>1, <2>4 DEF Handle, Messages, StreamProgress, TurnEnds, RunTool, Answered, Fails, Reply, pipe
  <2>5. (\E q \in net : Serve(q)) => faults' = faults
    BY DEF Serve, pipe
  <2>. QED
    BY <2>1, <2>2, <2>3, <2>4, <2>5 DEF Next, Dispatching, Serving
<1>. QED
  BY <1>1, <1>2

LEMMA HandleLives ==
    ASSUME IInv, NEW d \in Delivery, Handle(d), ~Reply(d)
    PROVE  Active(d)'
<1>. USE DEF IInv
<1>1. "reply" \in Place /\ "wait" \in Place /\ "model" \in Place
  BY DEF Place
<1>2. CASE Messages(d)
  BY <1>1, <1>2, MessagesFacts, AtFacts DEF Active
<1>3. CASE StreamProgress(d)
  BY <1>3, StreamFacts DEF Active
<1>4. CASE TurnEnds(d)
  BY <1>1, <1>4, TurnEndsFacts, AtFacts DEF Active
<1>5. CASE RunTool(d)
  <2>1. (\E r \in Answer3 : Result(d, r)) \/ At(d, "wait")
    BY <1>5 DEF RunTool, Answer3
  <2>. QED
    BY <1>1, <2>1, ResultFacts, AtFacts DEF Active
<1>6. CASE Answered(d)
  BY <1>6, AnsweredFacts, ResultFacts DEF Active
<1>7. CASE Fails(d)
  BY <1>7, FailsFacts, ResultFacts DEF Active
<1>. QED
  BY <1>2, <1>3, <1>4, <1>5, <1>6, <1>7 DEF Handle

\* A delivery of the message waits, or the handler that will acknowledge it is running.
Held(n) ==
    \/ \E j \in 1..Len(queue) : queue[j][1] = n
    \/ kind = "ws" /\ \E d \in Delivery : d[1] = n /\ Active(d)

\* As long as nothing goes wrong, a message the platform has sent is held or acknowledged.
Watched ==
    /\ ~Line => ~reading
    /\ ~Line /\ faults = 0 =>
           up /\ ~cancelled /\ \A n \in 1..Len(posted) : n \in acked \/ Held(n)

LEMMA StepWatched ==
    ASSUME IInv, Watched, [Next]_vars
    PROVE  Watched'
<1>1. kind' = kind /\ Line' = Line
  BY KindStays DEF Line
<1>. SUFFICES ASSUME ~Line
              PROVE  /\ ~reading'
                     /\ faults' = 0 => /\ up' /\ ~cancelled'
                                       /\ \A n \in 1..Len(posted') : n \in acked' \/ Held(n)'
  BY <1>1 DEF Watched
<1>2. ~reading /\ (faults = 0 => up /\ ~cancelled /\ \A n \in 1..Len(posted) : n \in acked \/ Held(n))
  BY DEF Watched
<1>3. faults' = 0 => faults = 0 /\ ~Fault
  BY FaultsGrow DEF Fault
<1>4. \A n : faults' = 0 /\ Ack(n) => n \in acked' /\ acked \subseteq acked'
  BY <1>3 DEF Ack
<1>. DEFINE Goal == /\ ~reading'
                    /\ faults' = 0 => /\ up' /\ ~cancelled'
                                      /\ \A n \in 1..Len(posted') : n \in acked' \/ Held(n)'
<1>5. CASE Write
  <2>1. PICK m \in Message : posted' = Append(posted, m)
    BY <1>5, WriteFacts DEF IInv
  <2>2. /\ queue' = Append(queue, <<Len(posted) + 1, 1>>)
        /\ UNCHANGED <<kind, acked, faults, process, job>>
    BY <1>5, WriteFacts DEF IInv
  <2>3. \A n \in 1..Len(posted') : n \in 1..Len(posted) \/ n = Len(posted) + 1
    BY <2>1, Facts
  <2>4. /\ \A j \in 1..Len(queue) : j \in 1..Len(queue') /\ queue'[j] = queue[j]
        /\ Len(queue) + 1 \in 1..Len(queue') /\ queue'[Len(queue) + 1][1] = Len(posted) + 1
    BY <2>2, Facts
  <2>5. \A n : Held(n) => Held(n)'
    BY <2>2, <2>4 DEF Held, Active
  <2>6. ASSUME NEW n, n = Len(posted) + 1
        PROVE  Held(n)'
    BY <2>4, <2>6 DEF Held
  <2>. QED
    BY <1>2, <2>2, <2>3, <2>5, <2>6 DEF process
<1>6. CASE Redeliver
  <2>1. PICK n \in 1..Len(posted) : queue' = Append(queue, <<n, tries[n] + 1>>)
    BY <1>6 DEF Redeliver
  <2>2. UNCHANGED <<kind, posted, acked, faults, process, job>>
    BY <1>6 DEF Redeliver
  <2>3. \A j \in 1..Len(queue) : j \in 1..Len(queue') /\ queue'[j] = queue[j]
    BY <2>1, Facts
  <2>4. \A k : Held(k) => Held(k)'
    BY <2>2, <2>3 DEF Held, Active
  <2>. QED
    BY <1>2, <2>2, <2>4 DEF process
<1>7. CASE Take
  <2>1. TakeSlack \/ TakeHook \/ TakeWs
    BY <1>7 DEF Take, TakeLine
  <2>2. PICK d \in Delivery : Takes(d)
    BY <1>7, TakeFacts DEF IInv
  <2>3. /\ d = queue[1] /\ queue # <<>> /\ queue' = Tail(queue)
        /\ UNCHANGED <<kind, posted, up, cancelled>> /\ PlanOf(d) \in Plans
    BY <2>2 DEF Takes
  <2>4. UNCHANGED reading
    BY <2>1 DEF TakeSlack, TakeHook, TakeWs, process
  <2>5. /\ \A e \in Delivery : e # d => job'[e] = job[e]
        /\ PlanOf(d).do # "ignore" => job'[d].at \in {"reply", "work", "model"}
    <3>1. \A e \in Delivery : e # d => job'[e] = job[e]
      BY <2>2, BeginsFacts DEF Takes, IInv
    <3>2. PlanOf(d).do \in {"ignore", "answer", "call", "ask"}
      BY <2>3, PlanShape
    <3>3. job'[d].at = CASE PlanOf(d).do = "ignore" -> "done"
                         [] PlanOf(d).do = "answer" -> "reply"
                         [] PlanOf(d).do = "call"   -> "work"
                         [] PlanOf(d).do = "ask"    -> "model"
      BY <2>2 DEF Takes, Begins, NoJob, IInv, Typed
    <3>. QED
      BY <3>1, <3>2, <3>3
  <2>6. Head(queue) = d
    BY <2>3
  <2>7. ASSUME faults' = 0
        PROVE  acked \subseteq acked' /\ (d[1] \in acked' \/ (kind = "ws" /\ Active(d)'))
    <3>1. CASE TakeSlack \/ TakeHook
      BY <1>4, <2>6, <2>7, <3>1 DEF TakeSlack, TakeHook
    <3>2. CASE TakeWs /\ PlanOf(d).do = "ignore"
      BY <1>4, <2>6, <2>7, <3>2 DEF TakeWs
    <3>3. CASE TakeWs /\ PlanOf(d).do # "ignore"
      BY <2>5, <2>6, <3>3 DEF TakeWs, Active
    <3>. QED
      BY <2>1, <3>1, <3>2, <3>3
  <2>8. ASSUME NEW n, Held(n)
        PROVE  n = d[1] \/ Held(n)'
    <3>1. CASE \E j \in 1..Len(queue) : queue[j][1] = n
      <4>1. PICK j \in 1..Len(queue) : queue[j][1] = n
        BY <3>1
      <4>2. CASE j = 1
        BY <2>3, <4>1, <4>2
      <4>3. CASE j # 1
        <5>1. j - 1 \in 1..Len(queue') /\ queue'[j - 1] = queue[j]
          BY <2>3, <4>3, Facts
        <5>. QED
          BY <4>1, <5>1 DEF Held
      <4>. QED
        BY <4>2, <4>3
    <3>2. CASE kind = "ws" /\ \E e \in Delivery : e[1] = n /\ Active(e)
      BY <2>3, <2>5, <3>2 DEF Held, Active
    <3>. QED
      BY <2>8, <3>1, <3>2 DEF Held
  <2>9. kind = "ws" /\ Active(d)' => Held(d[1])'
    BY <2>3 DEF Held
  <2>. QED
    BY <1>2, <1>3, <2>3, <2>4, <2>7, <2>8, <2>9
<1>8. ASSUME NEW d \in Delivery, Handle(d)
      PROVE  Goal
  <2>1. Frame(d)
    BY <1>8, HandleMoves
  <2>2. \A n : Held(n) => Held(n)' \/ (kind = "ws" /\ n = d[1] /\ Reply(d))
    BY <1>8, <2>1, HandleLives DEF Frame, Held, Active
  <2>3. faults' = 0 => acked \subseteq acked' /\ (kind = "ws" /\ Reply(d) => d[1] \in acked')
    <3>1. CASE Reply(d)
      BY <1>4, <3>1 DEF Reply
    <3>2. CASE ~Reply(d)
      BY <1>8, <3>2 DEF Handle, Messages, StreamProgress, TurnEnds, RunTool, Answered, Fails, pipe
    <3>. QED
      BY <3>1, <3>2
  <2>. QED
    BY <1>2, <1>3, <2>1, <2>2, <2>3 DEF Frame, process
<1>9. CASE (\E q \in net : Serve(q)) \/ UNCHANGED vars
  <2>1. UNCHANGED <<pipe, process, job>>
    BY <1>9 DEF Serve, vars
  <2>2. \A n : Held(n) => Held(n)'
    BY <2>1 DEF Held, Active, pipe
  <2>. QED
    BY <1>2, <2>1, <2>2 DEF pipe, process
<1>10. CASE Start
  <2>1. UNCHANGED <<pipe, job, reading>> /\ up' = TRUE /\ cancelled' = FALSE
    BY <1>10 DEF Start
  <2>2. \A n : Held(n) => Held(n)'
    BY <2>1 DEF Held, Active, pipe
  <2>. QED
    BY <1>2, <2>1, <2>2 DEF pipe
<1>11. CASE Signal
  BY <1>2, <1>3, <1>11 DEF Signal
<1>12. CASE Return \/ EndOfInput \/ Kill
  BY <1>2, <1>3, <1>12 DEF Return, EndOfInput, Kill, Down
<1>13. ~CheckContext /\ ~CloseStdin
  BY DEF CheckContext, CloseStdin
<1>. QED
  BY <1>5, <1>6, <1>7, <1>8, <1>9, <1>10, <1>11, <1>12, <1>13 DEF Next, Dispatching, Serving

\* A message is delivered again while a delivery of it waits or is being handled.
Hasty == \E n \in 1..Len(posted) : tries'[n] # tries[n] /\ Pending(n)

Once == \A n \in 1..MaxMsg : tries[n] <= 1

LEMMA OnceShows ==
    ASSUME IInv, Once
    PROVE  NoReplay
<1>1. ASSUME NEW d \in Delivery, job[d].at # "none"
      PROVE  d = <<d[1], 1>>
  <2>1. d \in Sent /\ d[1] \in 1..MaxMsg /\ d[2] \in 1..MaxTries /\ d = <<d[1], d[2]>>
    BY <1>1 DEF IInv, Delivered, Delivery
  <2>2. d[2] <= tries[d[1]] /\ tries[d[1]] <= 1 /\ tries[d[1]] \in Nat
    BY <2>1, Facts DEF Sent, Once
  <2>. QED
    BY <2>1, <2>2
<1>. QED
  BY <1>1 DEF NoReplay

\* The tries change only through a first delivery or one more.
LEMMA TriesSteps ==
    ASSUME IInv, [Next]_vars, Once
    PROVE  \/ Once'
           \/ /\ ~Line /\ UNCHANGED <<kind, faults>>
              /\ \E n \in 1..Len(posted) : n \notin acked /\ Late(n) /\ tries'[n] # tries[n]
<1>1. CASE Write
  <2>1. tries' = [tries EXCEPT ![Len(posted) + 1] = 1]
    BY <1>1 DEF Write
  <2>. QED
    BY <2>1, Facts DEF Once
<1>2. CASE Redeliver
  <2>1. PICK n \in 1..Len(posted) : n \notin acked /\ Late(n) /\ tries' = [tries EXCEPT ![n] = @ + 1]
    BY <1>2 DEF Redeliver
  <2>2. tries'[n] # tries[n]
    BY <2>1, Facts
  <2>. QED
    BY <1>2, <2>1, <2>2 DEF Redeliver
<1>3. CASE ~Write /\ ~Redeliver
  <2>1. tries' = tries
    <3>1. Take \/ CheckContext \/ Start \/ Signal \/ CloseStdin \/ UNCHANGED vars => tries' = tries
      BY DEF Take, TakeSlack, TakeHook, TakeWs, TakeLine, CheckContext, Start, Signal, CloseStdin, vars, pipe
    <3>2. Return \/ EndOfInput \/ Kill => tries' = tries
      BY DEF Return, EndOfInput, Kill, Down
    <3>3. (\E q \in net : Serve(q)) => tries' = tries
      BY DEF Serve, pipe
    <3>4. (\E d \in Delivery : Handle(d)) => tries' = tries
      BY HandleMoves DEF Frame
    <3>. QED
      BY <1>3, <3>1, <3>2, <3>3, <3>4 DEF Next, Dispatching, Serving
  <2>. QED
    BY <2>1 DEF Once
<1>. QED
  BY <1>1, <1>2, <1>3

LEMMA HeldPending ==
    ASSUME IInv, NEW n \in 1..Len(posted), Held(n)
    PROVE  Pending(n)
<1>1. CASE \E j \in 1..Len(queue) : queue[j][1] = n
  BY <1>1, Facts DEF Pending, ToSet
<1>2. CASE kind = "ws" /\ \E d \in Delivery : d[1] = n /\ Active(d)
  BY <1>2 DEF Pending
<1>. QED
  BY <1>1, <1>2 DEF Held

\* Lines of stdin, and callbacks that are acknowledged before they are handled.
Prompt == Line \/ (kind = "hook" /\ faults = 0)

LEMMA StepPrompt ==
    ASSUME IInv, Watched, Prompt => Once, [Next]_vars
    PROVE  (Prompt => Once)'
<1>. SUFFICES ASSUME Prompt' PROVE Once'
  OBVIOUS
<1>1. Prompt /\ Once /\ kind' = kind
  BY KindStays, FaultsGrow DEF Prompt, Line
<1>2. CASE \E n \in 1..Len(posted) : ~Line /\ n \notin acked /\ Late(n)
  <2>1. PICK n \in 1..Len(posted) : ~Line /\ n \notin acked /\ Late(n)
    BY <1>2
  <2>2. kind = "hook" /\ faults = 0 /\ Held(n)
    BY <1>1, <2>1 DEF Prompt, Watched
  <2>3. \E j \in 1..Len(queue) : queue[j][1] = n
    BY <2>2 DEF Held
  <2>4. \A j \in 1..Len(queue) : queue[j] \in ToSet(queue)
    BY Facts DEF ToSet
  <2>. QED
    BY <2>1, <2>2, <2>3, <2>4 DEF Late
<1>. QED
  BY <1>1, <1>2, TriesSteps

LEMMA StepPatient ==
    ASSUME IInv, Watched, Line \/ faults = 0 => Once, [Next]_vars, [~Hasty]_vars
    PROVE  (Line \/ faults = 0 => Once)'
<1>. SUFFICES ASSUME (Line \/ faults = 0)' PROVE Once'
  OBVIOUS
<1>1. (Line \/ faults = 0) /\ Once
  BY KindStays, FaultsGrow DEF Line
<1>2. ASSUME NEW n \in 1..Len(posted), ~Line, n \notin acked, tries'[n] # tries[n]
      PROVE  FALSE
  <2>1. Held(n)
    BY <1>1, <1>2 DEF Watched
  <2>2. Hasty
    BY <1>2, <2>1, HeldPending DEF Hasty
  <2>. QED
    BY <1>2, <2>2 DEF vars, pipe
<1>. QED
  BY <1>1, <1>2, TriesSteps

LEMMA InitWatched == Init => Watched /\ Once
BY DEF Init, Watched, Once

\* Commands written to the REPL or to `shipd mcp serve` are never carried out twice, and a
\* webhook's are not either as long as no acknowledgement is lost and no process goes down:
\* the callbacks of feishu.go and wechat_work.go answer before the dispatch begins.
THEOREM PromptFrontEndsNeverReplay == Spec => [](Prompt => NoReplay)
<1>1. Init => IInv /\ Watched /\ (Prompt => Once)
  BY InitInv, InitWatched
<1>2. IInv /\ Watched /\ (Prompt => Once) /\ [Next]_vars => (IInv /\ Watched /\ (Prompt => Once))'
  BY StepTyped, StepDelivered, StepRounds, StepWatched, StepPrompt DEF IInv
<1>3. IInv /\ (Prompt => Once) => (Prompt => NoReplay)
  BY OnceShows
<1>. QED
  BY <1>1, <1>2, <1>3, PTL DEF Spec

\* What slack.go:122-123 says of acknowledging first holds under one condition that a busy loop
\* cannot meet: as long as nothing is lost or stopped, a message is handled once on any front end
\* unless the platform delivers it again while it waits or is being handled.
THEOREM OnlyHasteReplays == Spec /\ [][~Hasty]_vars => [](Line \/ faults = 0 => NoReplay)
<1>1. Init => IInv /\ Watched /\ (Line \/ faults = 0 => Once)
  BY InitInv, InitWatched
<1>2. IInv /\ Watched /\ (Line \/ faults = 0 => Once) /\ [Next]_vars /\ [~Hasty]_vars
        => (IInv /\ Watched /\ (Line \/ faults = 0 => Once))'
  BY StepTyped, StepDelivered, StepRounds, StepWatched, StepPatient DEF IInv
<1>3. IInv /\ (Line \/ faults = 0 => Once) => (Line \/ faults = 0 => NoReplay)
  BY OnceShows
<1>. QED
  BY <1>1, <1>2, <1>3, PTL DEF Spec

\* A command takes effect at most once.
CommandsOnce ==
    \A k, l \in 1..Len(log) :
        log[k].job[1] = log[l].job[1] /\ PlanOf(log[k].job).do = "call" => k = l

\* As long as no message is replayed, no command takes effect twice: replays are the only way
\* from one message to two effects.
THEOREM OnlyReplaysRepeat == Spec => [](NoReplay => CommandsOnce)
<1>1. IInv /\ AppliedOnce /\ EffectsAskedFor => (NoReplay => CommandsOnce)
  <2>. SUFFICES ASSUME IInv, AppliedOnce, EffectsAskedFor, NoReplay,
                       NEW k \in 1..Len(log), NEW l \in 1..Len(log),
                       log[k].job[1] = log[l].job[1], PlanOf(log[k].job).do = "call"
                PROVE  k = l
    BY DEF CommandsOnce
  <2>1. /\ log[k].job \in Delivery /\ log[l].job \in Delivery
        /\ job[log[k].job].at # "none" /\ job[log[l].job].at # "none"
    BY Facts DEF IInv, Delivered
  <2>2. log[k].job = log[l].job
    BY <2>1 DEF NoReplay
  <2>3. log[k].turn = 0 /\ log[k].i = 1 /\ log[l].turn = 0 /\ log[l].i = 1
    BY <2>2 DEF EffectsAskedFor, AsksFor
  <2>. QED
    BY <2>2, <2>3 DEF AppliedOnce
<1>. QED
  BY <1>1, Invariance, GatewayAppliesOnce, GatewayDoesAsAsked, PTL
=============================================================================
