------------------------------- MODULE TaskOnce -------------------------------
(***************************************************************************)
(* What submitting a task buys: its agent is started at most once, and     *)
(* never after the task was given up unstarted (cancelled, refused, or     *)
(* recovered after a claim whose answer was lost).                         *)
(***************************************************************************)
CONSTANT Tasks
VARIABLE ticket

Start(t) == ticket[t] = "queued" /\ ticket' = [ticket EXCEPT ![t] = "taken"]
GiveUp(t) == ticket[t] = "queued" /\ ticket' = [ticket EXCEPT ![t] = "void"]

Init == ticket = [t \in Tasks |-> "queued"]
Next == \E t \in Tasks : Start(t) \/ GiveUp(t)
Spec == Init /\ [][Next]_ticket
=============================================================================
