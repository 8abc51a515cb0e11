---------------------------- MODULE DependencyJoin ----------------------------
(***************************************************************************)
(* Dependency joins (src/index.ts, src/task-graph.ts): a task submitted    *)
(* with depends-on tags is blocked until a scan reads its dependencies.    *)
(* Two Munin clients scan side by side: the poller's, after each task it   *)
(* ends and every fifth poll over all blocked tasks, and the lease         *)
(* reaper's, after each task it ends.  A scan reads the blocked status,    *)
(* then in one batch those of the dependencies, then swaps the status.     *)
(* How a pending task is run to its end is TaskLifecycle's subject.        *)
(***************************************************************************)
EXTENDS Naturals, FiniteSets

CONSTANTS
    Tasks, Ghosts,  \* tasks; names in depends-on that no task ever has
    DependsOn,      \* [Tasks -> SUBSET (Tasks \cup Ghosts)]
    Tolerant,       \* tasks tagged on-dep-failure:continue
    MaxDeps,        \* MAX_DEPENDENCIES
    MaxCrashes,     \* bound on crashes
    MaxCancels,     \* bound on the tasks an operator cancels while blocked
    NoJob

ASSUME DependsOnAssumption ==
    /\ DependsOn \in [Tasks -> SUBSET (Tasks \cup Ghosts)]
    /\ \A t \in Tasks : IsFiniteSet(DependsOn[t])
ASSUME LimitAssumption == MaxDeps \in Nat
ASSUME GhostAssumption == Ghosts \cap Tasks = {} /\ NoJob \notin Tasks
ASSUME FaultAssumption == MaxCrashes \in Nat /\ MaxCancels \in Nat

Clients == {"munin", "reaper"}
Done == {"completed", "failed", "cancelled"}

VARIABLES
    status,     \* lifecycle tag of tasks/<id>/status; "absent" before submission
    asked,      \* tasks tagged cancel-requested
    pc, job,    \* where a client is, and on which task
    todo,       \* blocked tasks its query returned and it has not come to
    view,       \* the dependency states it read
    current,    \* clients whose read of job's status is current
    faults

joinVars == <<status, asked, pc, job, todo, view, current, faults>>

(* dependencyStateFromEntry *)
CancelWaits(d) ==   \* mutant: cancelled is not a failure
    CASE d \in Ghosts \/ (d \in Tasks /\ status[d] = "absent") -> "missing"
      [] d \in Tasks /\ status[d] \in {"completed", "failed"} -> status[d]
      [] OTHER -> "pending"
StateOf(d) ==
    CASE d \in Ghosts \/ (d \in Tasks /\ status[d] = "absent") -> "missing"
      [] d \in Tasks /\ status[d] = "completed" -> "completed"
      [] d \in Tasks /\ status[d] \in {"failed", "cancelled"} -> "failed"
      [] OTHER -> "pending"

(* evaluateBlockedTask: failing is decided before promoting.               *)
TooMany(t) == Cardinality(DependsOn[t]) > MaxDeps
ShouldFail(t, v) ==
    TooMany(t) \/ (t \notin Tolerant /\ \E d \in DependsOn[t] : v[d] \in {"failed", "missing"})
ShouldPromote(t, v) ==
    ~TooMany(t) /\ \A d \in DependsOn[t] : v[d] = "completed" \/ (t \in Tolerant /\ v[d] # "pending")

WriteBlind(t, l) == status' = [status EXCEPT ![t] = l] /\ UNCHANGED current   \* mutant: no swap
Write(t, l) == /\ status' = [status EXCEPT ![t] = l]
               /\ current' = {c \in current : job[c] # t}
Move(c, l) == pc' = [pc EXCEPT ![c] = l]
Take(c, t, l) == pc' = [pc EXCEPT ![c] = l] /\ job' = [job EXCEPT ![c] = t]

-----------------------------------------------------------------------------
(* A submitter, or a pipeline's decomposition, names only tasks it has     *)
(* already submitted, or ghosts.                                           *)
Submit(t) ==
    /\ status[t] = "absent"
    /\ \A d \in DependsOn[t] \cap Tasks : status[d] # "absent"
    /\ Write(t, IF DependsOn[t] = {} THEN "pending" ELSE "blocked")
    /\ UNCHANGED <<asked, pc, job, todo, view, faults>>

(* (A pending task that is cancelled is one of EndTask's.)                 *)
RequestCancel(t) ==
    /\ status[t] = "blocked" /\ t \notin asked /\ Cardinality(asked) < MaxCancels
    /\ asked' = asked \cup {t}
    /\ Write(t, status[t])
    /\ UNCHANGED <<pc, job, todo, view, faults>>

(* A pending task ends; a completion scan of its dependents follows, except *)
(* for one that markTaskCancelled or a lost finalization ended.             *)
EndTask(c, t) ==
    /\ pc[c] = "idle" /\ status[t] = "pending"
    /\ \E l \in Done : Write(t, l)
    /\ \/ Take(c, t, "query")
       \/ UNCHANGED <<pc, job>>
    /\ UNCHANGED <<asked, todo, view, faults>>

(* processCancellationRequests on a blocked task: read, then swap; its     *)
(* dependents are not looked at.                                           *)
ReadAsked(t) ==
    /\ pc["munin"] = "idle" /\ t \in asked /\ status[t] = "blocked"
    /\ Take("munin", t, "cancel")
    /\ current' = current \cup {"munin"}
    /\ UNCHANGED <<status, asked, todo, view, faults>>

CancelAsked ==
    /\ pc["munin"] = "cancel"
    /\ IF "munin" \in current THEN Write(job["munin"], "cancelled") ELSE UNCHANGED <<status, current>>
    /\ Take("munin", NoJob, "idle")
    /\ UNCHANGED <<asked, todo, view, faults>>

-----------------------------------------------------------------------------
(* promoteDependents: the blocked tasks that depend on the one that ended. *)
QueryDependents(c) ==
    /\ pc[c] = "query"
    /\ todo' = [todo EXCEPT ![c] = {t \in Tasks : status[t] = "blocked" /\ job[c] \in DependsOn[t]}]
    /\ Take(c, NoJob, "scan")
    /\ UNCHANGED <<status, asked, view, current, faults>>

(* reconcileBlockedTasks: all blocked tasks, on the poller's client.       *)
QueryBlocked ==
    /\ pc["munin"] = "idle"
    /\ LET q == {t \in Tasks : status[t] = "blocked"}
       IN q # {} /\ todo' = [todo EXCEPT !["munin"] = q]
    /\ Move("munin", "scan")
    /\ UNCHANGED <<status, asked, job, view, current, faults>>

(* evaluateBlockedTaskState *)
ReadTask(c, t) ==
    /\ pc[c] = "scan" /\ t \in todo[c]
    /\ todo' = [todo EXCEPT ![c] = @ \ {t}]
    /\ IF status[t] = "blocked"
       THEN Take(c, t, "deps") /\ current' = current \cup {c}
       ELSE UNCHANGED <<pc, job, current>>
    /\ UNCHANGED <<status, asked, view, faults>>

ReadDeps(c) ==
    /\ pc[c] = "deps"
    /\ view' = [view EXCEPT ![c] = [d \in Tasks \cup Ghosts |->
                    IF d \in DependsOn[job[c]] THEN StateOf(d) ELSE "pending"]]
    /\ Move(c, "act")
    /\ UNCHANGED <<status, asked, job, todo, current, faults>>

(* failBlockedTask, or the promotion, or nothing yet.  A lost swap throws; *)
(* the scan catches it and goes on with the next task.                     *)
Act(c) ==
    LET t == job[c]
        v == view[c]
    IN
    /\ pc[c] = "act"
    /\ IF c \in current /\ (ShouldFail(t, v) \/ ShouldPromote(t, v))
       THEN Write(t, IF ShouldFail(t, v) THEN "failed" ELSE "pending")
       ELSE status' = status /\ current' = current \ {c}
    /\ Take(c, NoJob, "scan")
    /\ view' = [view EXCEPT ![c] = [d \in Tasks \cup Ghosts |-> "pending"]]
    /\ UNCHANGED <<asked, todo, faults>>

ScanEnds(c) ==
    /\ pc[c] = "scan" /\ todo[c] = {}
    /\ Move(c, "idle")
    /\ UNCHANGED <<status, asked, job, todo, view, current, faults>>

(* The process dies and its restart begins with reconcileBlockedTasks.     *)
Die ==
    /\ faults < MaxCrashes /\ faults' = faults + 1
    /\ pc' = [c \in Clients |-> "idle"]
    /\ job' = [c \in Clients |-> NoJob]
    /\ todo' = [c \in Clients |-> {}]
    /\ view' = [c \in Clients |-> [d \in Tasks \cup Ghosts |-> "pending"]]
    /\ current' = {}
    /\ UNCHANGED <<status, asked>>

JoinInit ==
    /\ status = [t \in Tasks |-> "absent"]
    /\ asked = {} /\ current = {} /\ faults = 0
    /\ pc = [c \in Clients |-> "idle"]
    /\ job = [c \in Clients |-> NoJob]
    /\ todo = [c \in Clients |-> {}]
    /\ view = [c \in Clients |-> [d \in Tasks \cup Ghosts |-> "pending"]]

JoinNext ==
    \/ \E t \in Tasks : Submit(t) \/ RequestCancel(t) \/ ReadAsked(t)
    \/ CancelAsked \/ QueryBlocked \/ Die
    \/ \E c \in Clients :
          \/ QueryDependents(c) \/ ReadDeps(c) \/ Act(c) \/ ScanEnds(c)
          \/ \E t \in Tasks : EndTask(c, t) \/ ReadTask(c, t)

JoinSpec == JoinInit /\ [][JoinNext]_joinVars

(* The poll loop comes round, and a claimed task comes to an end.          *)
JoinFairness ==
    /\ WF_joinVars(CancelAsked) /\ WF_joinVars(QueryBlocked)
    /\ \A c \in Clients :
          /\ WF_joinVars(QueryDependents(c)) /\ WF_joinVars(ReadDeps(c))
          /\ WF_joinVars(Act(c)) /\ WF_joinVars(ScanEnds(c))
          /\ WF_joinVars(\E t \in Tasks : ReadTask(c, t))
    /\ SF_joinVars(\E t \in Tasks : EndTask("munin", t))

FairJoinSpec == JoinSpec /\ JoinFairness

-----------------------------------------------------------------------------
JoinTypeOK ==
    /\ status \in [Tasks -> {"absent", "blocked", "pending"} \cup Done]
    /\ asked \in SUBSET Tasks
    /\ pc \in [Clients -> {"idle", "cancel", "query", "scan", "deps", "act"}]
    /\ job \in [Clients -> Tasks \cup {NoJob}]
    /\ todo \in [Clients -> SUBSET Tasks]
    /\ view \in [Clients -> [Tasks \cup Ghosts -> {"missing", "completed", "failed", "pending"}]]
    /\ current \in SUBSET Clients
    /\ faults \in 0..MaxCrashes

(* Although it is read before and written after, with another scan, a      *)
(* cancellation and the ends of dependencies in between, a blocked task    *)
(* is released or refused exactly as its dependencies stand at the write.  *)
Atomic == INSTANCE AtomicJoin WITH Dep <- DependsOn, Lenient <- Tolerant, life <- status
JoinsAtomically == Atomic!Spec

(* No task stays blocked: with its dependencies ended, even by a path that *)
(* scans no dependents, or in a crash, some scan comes to it.              *)
JoinsResolve == <>[](\A t \in Tasks : status[t] # "blocked")
=============================================================================
