------------------------------ MODULE AtomicJoin ------------------------------
(***************************************************************************)
(* What a dependency join promises: at one instant, judged on the states   *)
(* its dependencies have at that instant, a blocked task becomes pending   *)
(* or fails.                                                               *)
(***************************************************************************)
EXTENDS Naturals, FiniteSets
CONSTANTS
    Tasks, Ghosts,  \* tasks; names in depends-on that no task ever has
    Dep,            \* the dependencies of each task
    MaxDeps,        \* a task with more dependencies is refused
    Lenient         \* tasks tagged on-dep-failure:continue
VARIABLE life

Bad == {"failed", "cancelled"}
Done == Bad \cup {"completed"}
Of(d) == IF d \in Ghosts THEN "missing" ELSE life[d]

Refused(t) ==
    \/ Cardinality(Dep[t]) > MaxDeps
    \/ t \notin Lenient /\ \E d \in Dep[t] : Of(d) \in Bad \cup {"missing"}
Ready(t) ==
    /\ Cardinality(Dep[t]) <= MaxDeps
    /\ \A d \in Dep[t] : Of(d) \in (IF t \in Lenient THEN Done \cup {"missing"} ELSE {"completed"})

Become(t, from, to) == life[t] = from /\ life' = [life EXCEPT ![t] = to]

Submit(t) == \E l \in {"blocked", "pending"} : Become(t, "absent", l)
Promote(t) == Ready(t) /\ Become(t, "blocked", "pending")
Refuse(t) == Refused(t) /\ Become(t, "blocked", "failed")
Cancel(t) == Become(t, "blocked", "cancelled")
End(t) == \E l \in Done : Become(t, "pending", l)

Init == life = [t \in Tasks |-> "absent"]
Next == \E t \in Tasks : Submit(t) \/ Promote(t) \/ Refuse(t) \/ Cancel(t) \/ End(t)
Spec == Init /\ [][Next]_life
=============================================================================
