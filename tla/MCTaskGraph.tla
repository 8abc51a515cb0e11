----------------------------- MODULE MCTaskGraph -----------------------------
(* The two ways in which a task waits for others: dependency joins, and the *)
(* phases of a pipeline.  A behaviour is one of the one system or of the    *)
(* other, chosen at the start; the other one rests.                         *)
EXTENDS Pipeline, DependencyJoin, TLC

CONSTANTS gather, deploy, report, a, b, c, d, ghost

(* deploy is gated and report goes on without it; the definition lists     *)
(* report before what it depends on.                                       *)
MCOrder == <<gather, report, deploy>>
MCDep == [p \in {gather, report, deploy} |->
            IF p = gather THEN {} ELSE IF p = deploy THEN {gather} ELSE {deploy}]
MCGated == {deploy}
MCLenient == {report}

(* A root, one that tolerates failures and waits for a missing name too,   *)
(* one that waits for both, and one with too many dependencies.            *)
MCTasks == {a, b, c, d}
MCDependsOn == a :> {} @@ b :> {a, ghost} @@ c :> {a, b} @@ d :> {a, b, c}
MCTolerant == {b}

VARIABLE part

mcvars == <<part, vars, joinVars>>

(* A pipeline that is over. *)
Over ==
    /\ life = [x \in Items |-> IF x = Parent THEN "completed" ELSE "absent"]
    /\ asks = {} /\ spec = FALSE /\ fresh = {}
    /\ decision = [p \in Phases |-> "none"]
    /\ proc = [w \in Workers |-> Rest]
    /\ bounds = [faults |-> 0, asks |-> 0]
    /\ restarted = {}

MCInit ==
    /\ JoinInit
    /\ \/ part = "pipeline" /\ Init
       \/ part = "joins" /\ Over

MCNext ==
    \/ part = "pipeline" /\ Next /\ UNCHANGED <<part, joinVars>>
    \/ part = "joins" /\ JoinNext /\ UNCHANGED <<part, vars>>

(* Fairness of Pipeline and of DependencyJoin, of the part that runs. *)
MCSpec ==
    /\ MCInit /\ [][MCNext]_mcvars
    /\ SF_vars(part = "pipeline" /\ \E p \in Phases : Join(p))
    /\ WF_vars(part = "pipeline" /\ \E x \in Items : Reap(x))
    /\ \A w \in Workers : WF_vars(part = "pipeline" /\ GoOn(w))
    /\ WF_joinVars(part = "joins" /\ CancelAsked)
    /\ WF_joinVars(part = "joins" /\ QueryBlocked)
    /\ \A k \in Clients :
          /\ WF_joinVars(part = "joins" /\ QueryDependents(k))
          /\ WF_joinVars(part = "joins" /\ ReadDeps(k))
          /\ WF_joinVars(part = "joins" /\ Act(k))
          /\ WF_joinVars(part = "joins" /\ ScanEnds(k))
          /\ WF_joinVars(part = "joins" /\ \E t \in Tasks : ReadTask(k, t))
    /\ SF_joinVars(part = "joins" /\ \E t \in Tasks : EndTask("munin", t))

==============================================================================
