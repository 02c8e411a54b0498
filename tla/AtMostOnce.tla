------------------------------ MODULE AtMostOnce ------------------------------
(***************************************************************************)
(* What a chat adapter that moves its cursor before it acts promises its   *)
(* users: a command runs at most once, commands run in the order they were *)
(* sent, and one that is passed over never runs later.                     *)
(***************************************************************************)
EXTENDS Naturals

CONSTANTS MaxMsg

Message == 1..MaxMsg
Status == {"unsent", "waiting", "done", "lost"}

VARIABLE status

Settled(i) == status[i] \in {"done", "lost"}

Init == status = [i \in Message |-> "unsent"]

Send(i) ==
    /\ status[i] = "unsent"
    /\ \A j \in 1..(i - 1) : status[j] # "unsent"
    /\ status' = [status EXCEPT ![i] = "waiting"]

\* Run the next command that is neither done nor lost.
Run(i) ==
    /\ status[i] = "waiting"
    /\ \A j \in 1..(i - 1) : Settled(j)
    /\ status' = [status EXCEPT ![i] = "done"]

\* Pass over the next commands, or find that they were no commands at all.
PassOver(n) ==
    /\ \A i \in 1..n : status[i] # "unsent"
    /\ status' \in [Message -> Status]
    /\ \A i \in Message :
         IF i <= n /\ status[i] = "waiting"
         THEN status'[i] \in {"done", "lost"}
         ELSE status'[i] = status[i]

Next == \E i \in Message : Send(i) \/ Run(i) \/ PassOver(i)

Spec == Init /\ [][Next]_status
===============================================================================
