------------------------------- MODULE Pipeline -------------------------------
(***************************************************************************)
(* Pipelines (src/pipeline-dispatch.ts, src/pipeline-control.ts,           *)
(* src/pipeline-ops.ts, the approval gates of src/index.ts).  A pipeline's *)
(* parent task is decomposed into phases, tasks of their own that depend   *)
(* on one another.  An operator may ask to cancel or to resume the         *)
(* pipeline, by a tag on the parent, and decides on gated phases.  No      *)
(* write is atomic with another one, and any of them may be the last.      *)
(* How a claimed task is run is TaskLifecycle's subject; that a dependency *)
(* join is one step is DependencyJoin's.                                   *)
(***************************************************************************)
EXTENDS Naturals, Sequences, FiniteSets

CONSTANTS
    Workers,        \* dispatcher processes
    Parent,         \* the pipeline's own task
    Order,          \* its phases, as its definition lists them
    Dep,            \* the phases a phase depends on
    Gated,          \* phases of authority gated
    Lenient,        \* phases with on-dep-failure:continue
    MaxFaults,      \* bound on crashes, failed writes, lost answers, renewals
    MaxAsks,        \* bound on the operator's requests
    None

Phases == {Order[i] : i \in 1..Len(Order)}
Items == Phases \cup {Parent}

ASSUME OrderAssumption ==
    /\ Order \in Seq(Phases)
    /\ \A i, j \in 1..Len(Order) : Order[i] = Order[j] => i = j
ASSUME ParentAssumption == Parent \notin Phases /\ None \notin Items
ASSUME DepAssumption == Dep \in [Phases -> SUBSET Phases]
ASSUME PolicyAssumption == Gated \subseteq Phases /\ Lenient \subseteq Phases
ASSUME BoundAssumption == MaxFaults \in Nat /\ MaxAsks \in Nat

Ended == {"completed", "failed", "cancelled"}
Waiting == {"blocked", "pending", "awaiting"}
Lifecycles == {"absent", "running"} \cup Waiting \cup Ended
Requests == {"cancel", "resume"}

VARIABLES
    life,       \* lifecycle tags; a phase that was never written is absent
    asks,       \* cancel-requested, resume-requested on the parent
    spec,       \* whether the parent's spec is written
    decision,   \* approval-request and approval-decision of a phase
    proc,       \* where each dispatcher is, and what it has read
    fresh,      \* <<w, x>>: x's status is as w last read it
    bounds,     \* what is used of MaxFaults and MaxAsks
    restarted   \* observed only: the phases a resume has put back to run again
                \* since they were decided on

vars == <<life, asks, spec, decision, proc, fresh, bounds, restarted>>
munin == <<life, asks, spec, decision>>

(* proc[w].pc is a stage of the poll loop, or a point within a handler;    *)
(* .back is the stage that comes after it.                                 *)
(* proc[w].at is the task at hand, .k the position in Order, .view the     *)
(* phases' lifecycles of its last batch read, .saw the parent's status of  *)
(* its last read and .made its createdDrafts.                              *)
Unread == [p \in Phases |-> "absent"]
Stages == {"cancels", "resumes", "approvals", "poll"}
After == [cancels |-> "resumes", resumes |-> "approvals", approvals |-> "approvals",
          poll |-> "cancels"]
Rest == [pc |-> "cancels", back |-> "cancels", at |-> None, k |-> 1, view |-> Unread,
         saw |-> [life |-> "pending", asks |-> {}], made |-> {}]

Goto(w, l) == proc' = [proc EXCEPT ![w].pc = l]
Start(w, x, l) ==
    proc' = [proc EXCEPT ![w] = [Rest EXCEPT !.pc = l, !.at = x, !.back = After[proc[w].pc]]]
Walk(w, l) == proc' = [proc EXCEPT ![w] = [proc[w] EXCEPT !.pc = l, !.k = 1]]
View(w, l) == proc' = [proc EXCEPT ![w] =
    [proc[w] EXCEPT !.pc = l, !.k = 1, !.view = [p \in Phases |-> life[p]]]]

(* The phase the worker's loop has come to.                                *)
More(w) == proc[w].k <= Len(Order)
Here(w) == Order[proc[w].k]

Fault == bounds.faults < MaxFaults /\ bounds' = [bounds EXCEPT !.faults = @ + 1]

(* Reads, plain writes and conditional writes of statuses.  A write makes  *)
(* every earlier read of that status stale.                                *)
Reads(w, X) == fresh' = fresh \cup ({w} \X X)
Put(x, l) ==
    /\ life' = [life EXCEPT ![x] = l]
    /\ fresh' = {f \in fresh : f[2] # x}
Current(w, x) == <<w, x>> \in fresh
Unwritten == UNCHANGED <<life, asks, fresh>>

(* Back to the poll loop, after a last write or without one; an exception  *)
(* begins the loop again.                                                  *)
Rests(w) == proc' = [proc EXCEPT ![w] = [Rest EXCEPT !.pc = proc[w].back]]
Finish(w, x, l) ==
    /\ life' = [life EXCEPT ![x] = l]
    /\ fresh' = {f \in fresh : f[1] # w /\ f[2] # x}
    /\ Rests(w)
Leave(w) ==
    /\ fresh' = {f \in fresh : f[1] # w}
    /\ Rests(w)
    /\ UNCHANGED <<life, asks>>
Throw(w) ==
    /\ fresh' = {f \in fresh : f[1] # w}
    /\ proc' = [proc EXCEPT ![w] = Rest]
    /\ UNCHANGED <<life, asks>>

(* Nothing (more) to do at this stage.                                     *)
Pass(w) ==
    /\ \/ proc[w].pc = "cancels" /\ "cancel" \notin asks /\ Goto(w, "resumes")
       \/ proc[w].pc = "resumes" /\ "resume" \notin asks /\ Goto(w, "approvals")
       \/ /\ proc[w].pc = "approvals"
          /\ \A p \in Phases : life[p] = "awaiting" => decision[p] = "requested"
          /\ Goto(w, "poll")
       \/ proc[w].pc = "poll" /\ (\A x \in Items : life[x] # "pending") /\ Goto(w, "cancels")
    /\ Unwritten /\ UNCHANGED <<spec, decision, bounds, restarted>>

-----------------------------------------------------------------------------
(* Operators *)

Ask(r) ==
    /\ r \notin asks
    /\ bounds.asks < MaxAsks /\ bounds' = [bounds EXCEPT !.asks = @ + 1]
    /\ asks' = asks \cup {r}
    /\ Put(Parent, life[Parent])
    /\ UNCHANGED <<spec, decision, proc, restarted>>

(* The decision on a request, whenever it comes; it stays in the namespace *)
(* of the phase.                                                           *)
Decide(p) ==
    /\ decision[p] = "requested"
    /\ \E d \in {"approved", "rejected"} : decision' = [decision EXCEPT ![p] = d]
    /\ restarted' = restarted \ {p}
    /\ UNCHANGED <<life, asks, spec, proc, fresh, bounds>>

-----------------------------------------------------------------------------
(* pollOnce: a pending status is read, gated, claimed.                     *)

PollRead(w, x) ==
    /\ proc[w].pc = "poll" /\ life[x] = "pending"
    /\ Reads(w, {x})
    /\ \/ x = Parent /\ "cancel" \in asks /\ Start(w, None, "cancel")
       \/ x = Parent /\ "cancel" \notin asks /\ Start(w, x, "claim")
       \/ x \in Gated /\ Start(w, x, "gate")
       \/ x \in Phases \ Gated /\ Start(w, x, "claim")
    /\ UNCHANGED <<munin, bounds, restarted>>

(* gatePendingTaskForApproval *)
Ungated(w) ==   \* mutant: an answered request is taken for an approval
    /\ proc[w].pc = "gate"
    /\ LET p == proc[w].at
       IN IF decision[p] \in {"none", "requested"}
          THEN decision' = [decision EXCEPT ![p] = "requested"] /\ Goto(w, "hold")
          ELSE Goto(w, "claim") /\ UNCHANGED decision
    /\ UNCHANGED <<life, asks, spec, fresh, bounds, restarted>>

Gate(w) ==
    LET p == proc[w].at
    IN
    /\ proc[w].pc = "gate"
    /\ \/ decision[p] = "approved" /\ Goto(w, "claim") /\ UNCHANGED decision
       \/ decision[p] = "rejected" /\ Goto(w, "refuse") /\ UNCHANGED decision
       \/ /\ decision[p] \in {"none", "requested"}
          /\ decision' = [decision EXCEPT ![p] = "requested"]
          /\ Goto(w, "hold")
    /\ UNCHANGED <<life, asks, spec, fresh, bounds, restarted>>

(* A swap that ends the handler; a lost one throws.                        *)
Swap(w, l) ==
    /\ IF Current(w, proc[w].at)
       THEN Finish(w, proc[w].at, l) /\ UNCHANGED asks
       ELSE Throw(w)
    /\ UNCHANGED <<spec, decision, bounds, restarted>>

Hold(w) == proc[w].pc = "hold" /\ Swap(w, "awaiting")
Refuse(w) == proc[w].pc = "refuse" /\ Swap(w, "failed")

(* processApprovalDecisions: a waiting phase without a decision is passed  *)
(* over.                                                                   *)
AwaitRead(w, p) ==
    /\ proc[w].pc = "approvals" /\ life[p] = "awaiting"
    /\ \/ decision[p] = "approved" /\ Start(w, p, "approve")
       \/ decision[p] = "rejected" /\ Start(w, p, "refuse")
    /\ Reads(w, {p})
    /\ UNCHANGED <<munin, bounds, restarted>>

Approve(w) == proc[w].pc = "approve" /\ Swap(w, "pending")

(* The claim's tags keep no request of the operator.                       *)
Claim(w) ==
    LET x == proc[w].at
    IN
    /\ proc[w].pc = "claim"
    /\ IF Current(w, x)
       THEN /\ life' = [life EXCEPT ![x] = "running"]
            /\ fresh' = {f \in fresh : f[2] # x} \cup {<<w, x>>}
            /\ asks' = IF x = Parent THEN {} ELSE asks
            /\ Goto(w, IF x = Parent THEN "compile" ELSE "exec")
       ELSE Leave(w)
    /\ UNCHANGED <<spec, decision, bounds, restarted>>

(* A phase ends; cancelled when the watch finds the parent's tag.  Its     *)
(* last write names no version.                                            *)
EndPhase(w) ==
    /\ proc[w].pc = "exec"
    /\ \E l \in {"completed", "failed"} \cup (IF "cancel" \in asks THEN {"cancelled"} ELSE {}) :
          Finish(w, proc[w].at, l)
    /\ UNCHANGED <<asks, spec, decision, bounds, restarted>>

-----------------------------------------------------------------------------
(* handlePipelineTask *)

Compile(w) ==
    /\ proc[w].pc = "compile"
    /\ \/ Goto(w, "fail")           \* compile error
       \/ Goto(w, IF \E p \in Phases : life[p] # "absent" THEN "fail" ELSE "spec")
    /\ UNCHANGED <<munin, fresh, bounds, restarted>>

WriteSpec(w) ==
    /\ proc[w].pc = "spec"
    /\ spec' = TRUE
    /\ Walk(w, "phases")
    /\ UNCHANGED <<life, asks, decision, fresh, bounds, restarted>>

Roots(p) == IF Dep[p] = {} THEN "pending" ELSE "blocked"

WritePhase(w) ==
    /\ proc[w].pc = "phases" /\ More(w)
    /\ Put(Here(w), Roots(Here(w)))
    /\ proc' = [proc EXCEPT ![w] = [proc[w] EXCEPT !.k = @ + 1, !.made = @ \cup {Here(w)}]]
    /\ UNCHANGED <<asks, spec, decision, bounds, restarted>>

Commit(w) ==
    /\ proc[w].pc = "phases" /\ ~More(w)
    /\ IF Current(w, Parent)
       THEN Put(Parent, "completed") /\ asks' = {} /\ Goto(w, "result")
       ELSE Unwritten /\ Walk(w, "abort")
    /\ UNCHANGED <<spec, decision, bounds, restarted>>

WriteResult(w) ==
    /\ proc[w].pc = "result"
    /\ Leave(w)
    /\ UNCHANGED <<spec, decision, bounds, restarted>>

(* A write of the decomposition fails, or was applied and its answer lost: *)
(* its phase is then not in createdDrafts.                                 *)
DecompositionThrows(w) ==
    /\ proc[w].pc \in {"spec", "phases", "result"}
    /\ Fault
    /\ \/ Unwritten
       \/ /\ proc[w].pc = "phases" /\ More(w)
          /\ Put(Here(w), Roots(Here(w))) /\ UNCHANGED asks
       \/ /\ proc[w].pc = "phases" /\ ~More(w) /\ Current(w, Parent)
          /\ Put(Parent, "completed") /\ asks' = {}
    /\ Walk(w, IF proc[w].made = {} THEN "fail" ELSE "abort")
    /\ UNCHANGED <<spec, decision, restarted>>

(* cancelCreatedChildren, best effort; then failTaskWithMessage, with the  *)
(* version of the claim.                                                   *)
Abort(w) ==
    /\ proc[w].pc = "abort" /\ More(w)
    /\ \/ Here(w) \in proc[w].made /\ Put(Here(w), "cancelled") /\ UNCHANGED <<asks, bounds>>
       \/ Here(w) \in proc[w].made /\ Fault /\ Unwritten
       \/ Here(w) \notin proc[w].made /\ Unwritten /\ UNCHANGED bounds
    /\ proc' = [proc EXCEPT ![w].k = @ + 1]
    /\ UNCHANGED <<spec, decision, restarted>>

Fail(w) ==
    /\ proc[w].pc = "fail" \/ (proc[w].pc = "abort" /\ ~More(w))
    /\ IF Current(w, Parent)
       THEN Finish(w, Parent, "failed") /\ asks' = {}
       ELSE Throw(w)
    /\ UNCHANGED <<spec, decision, bounds, restarted>>

Decomposing == {"compile", "spec", "phases", "result", "abort", "fail"}

(* The lease of the parent is renewed until handlePipelineTask returns, by *)
(* a write that names no version and has the claim's tags.                 *)
Renew(w) ==
    /\ proc[w].pc \in Decomposing
    /\ Fault
    /\ Put(Parent, "running")
    /\ asks' = {}
    /\ UNCHANGED <<spec, decision, proc, restarted>>

-----------------------------------------------------------------------------
(* processPipelineCancellationRequest *)

CancelRead(w) ==
    /\ proc[w].pc = "cancels" /\ "cancel" \in asks
    /\ Reads(w, {Parent})
    /\ Start(w, None, "cancel")
    /\ UNCHANGED <<munin, bounds, restarted>>

CancelPhases(w) ==
    /\ proc[w].pc = "cancel"
    /\ IF spec
       THEN /\ Reads(w, Phases)
            /\ View(w, "sweep")
       ELSE Goto(w, "cancelled") /\ UNCHANGED fresh
    /\ UNCHANGED <<munin, bounds, restarted>>

(* markTaskCancelled on a phase that is waiting; a lost swap is passed     *)
(* over.                                                                   *)
CancelPhase(w) ==
    /\ proc[w].pc = "sweep" /\ More(w)
    /\ IF proc[w].view[Here(w)] \in Waiting /\ Current(w, Here(w))
       THEN Put(Here(w), "cancelled") /\ UNCHANGED asks
       ELSE Unwritten
    /\ proc' = [proc EXCEPT ![w].k = @ + 1]
    /\ UNCHANGED <<spec, decision, bounds, restarted>>

ViewHas(w, L) == \E p \in Phases : proc[w].view[p] \in L

SweptUnanswered(w) ==   \* mutant: a request that comes too late is left there
    /\ proc[w].pc = "sweep" /\ ~More(w)
    /\ IF ViewHas(w, Waiting \cup {"cancelled"}) /\ ~ViewHas(w, {"running"})
       THEN Goto(w, "finalize") /\ Unwritten
       ELSE Leave(w)
    /\ UNCHANGED <<spec, decision, bounds, restarted>>
CancelSwept(w) ==
    /\ proc[w].pc = "sweep" /\ ~More(w)
    /\ IF ViewHas(w, {"running"})
       THEN Leave(w)
       ELSE /\ Goto(w, IF ViewHas(w, Waiting \cup {"cancelled"}) THEN "finalize" ELSE "unask")
            /\ Unwritten
    /\ UNCHANGED <<spec, decision, bounds, restarted>>

(* finalizePipelineCancellationIfReady: the phases are read, then the      *)
(* parent again.                                                           *)
FinalizeEarly(w) ==     \* mutant: the phases are not read again
    /\ proc[w].pc = "finalize"
    /\ IF "cancel" \in asks
       THEN Goto(w, "reread") /\ Unwritten
       ELSE Leave(w)
    /\ UNCHANGED <<spec, decision, bounds, restarted>>
Finalize(w) ==
    /\ proc[w].pc = "finalize"
    /\ IF "cancel" \in asks /\ \A p \in Phases : life[p] \in Ended \cup {"absent"}
       THEN Goto(w, "reread") /\ Unwritten
       ELSE Leave(w)
    /\ UNCHANGED <<spec, decision, bounds, restarted>>

Reread(w) ==
    /\ proc[w].pc = "reread"
    /\ IF "cancel" \in asks
       THEN Reads(w, {Parent}) /\ Goto(w, "cancelled") /\ UNCHANGED <<life, asks>>
       ELSE Leave(w)
    /\ UNCHANGED <<spec, decision, bounds, restarted>>

(* The swap of the parent that ends a request.  A lost one throws, but for *)
(* that of finalizePipelineCancellationIfReady, which is caught.           *)
ParentSwap(w, l, A) ==
    /\ IF Current(w, Parent)
       THEN Finish(w, Parent, l) /\ asks' = A
       ELSE IF proc[w].pc = "cancelled" /\ spec THEN Leave(w) ELSE Throw(w)
    /\ UNCHANGED <<spec, decision, bounds>>

Cancelled(w) ==
    proc[w].pc = "cancelled" /\ ParentSwap(w, "cancelled", {}) /\ UNCHANGED restarted
ClearCancel(w) ==
    proc[w].pc = "unask" /\ ParentSwap(w, life[Parent], asks \ {"cancel"}) /\ UNCHANGED restarted

-----------------------------------------------------------------------------
(* processPipelineResumeRequest and buildPipelineResumePlan *)

ResumeRead(w) ==
    /\ proc[w].pc = "resumes" /\ "resume" \in asks
    /\ Reads(w, {Parent})
    /\ proc' = [proc EXCEPT ![w] = [Rest EXCEPT
            !.pc = IF spec THEN "plan" ELSE "unresume", !.back = "approvals",
            !.saw = [life |-> life[Parent], asks |-> asks]]]
    /\ UNCHANGED <<munin, bounds, restarted>>

Plan(w) ==
    LET Has(L) == \E p \in Phases : life[p] \in L
        active == Has(Waiting \cup {"running"})
        saw == proc[w].saw
        next == IF "cancel" \in saw.asks /\ active THEN "unresume"
                ELSE IF Has({"absent", "failed", "cancelled"}) THEN "reset"
                ELSE IF active /\ saw.life \in {"cancelled", "failed"} THEN "resumed"
                ELSE "unresume"
    IN
    /\ proc[w].pc = "plan"
    /\ Reads(w, Phases)
    /\ View(w, next)
    /\ UNCHANGED <<munin, bounds, restarted>>

RestartAll(w, p) == proc[w].view[p] # "running"     \* mutant: completed phases too
ShouldReset(w, p) == proc[w].view[p] \in {"absent", "failed", "cancelled"}

Reopened(w, p) == IF \A d \in Dep[p] : proc[w].view[d] = "completed" THEN "pending" ELSE "blocked"

(* A phase that is not there is written without a version.  A lost swap    *)
(* throws; the request stays.                                              *)
ResetPhase(w) ==
    LET p == Here(w)
    IN
    /\ proc[w].pc = "reset" /\ More(w)
    /\ \/ /\ ~ShouldReset(w, p)
          /\ Unwritten /\ UNCHANGED restarted
          /\ proc' = [proc EXCEPT ![w].k = @ + 1]
       \/ /\ ShouldReset(w, p) /\ (proc[w].view[p] = "absent" \/ Current(w, p))
          /\ Put(p, Reopened(w, p)) /\ UNCHANGED asks
          /\ restarted' = restarted \cup {p}
          /\ proc' = [proc EXCEPT ![w].k = @ + 1]
       \/ /\ ShouldReset(w, p) /\ proc[w].view[p] # "absent" /\ ~Current(w, p)
          /\ Throw(w) /\ UNCHANGED restarted
    /\ UNCHANGED <<spec, decision, bounds>>

Resumed(w) ==
    /\ proc[w].pc = "resumed" \/ (proc[w].pc = "reset" /\ ~More(w))
    /\ ParentSwap(w, "completed", {}) /\ UNCHANGED restarted

ClearResume(w) ==
    proc[w].pc = "unresume" /\ ParentSwap(w, life[Parent], asks \ {"resume"}) /\ UNCHANGED restarted

-----------------------------------------------------------------------------
(* A dependency join.  A scan runs between polls, or on the lease reaper's *)
(* client after the end of a dependency.                                   *)
Join(p) ==
    /\ life[p] = "blocked"
    /\ (\E w \in Workers : proc[w].pc \in Stages) \/ (\E d \in Dep[p] : life[d] \in Ended)
    /\ \/ /\ p \notin Lenient /\ \E d \in Dep[p] : life[d] \in {"failed", "cancelled", "absent"}
          /\ Put(p, "failed")
       \/ /\ \A d \in Dep[p] : \/ life[d] = "completed"
                               \/ p \in Lenient /\ life[d] \in Ended \cup {"absent"}
          /\ Put(p, "pending")
    /\ UNCHANGED <<asks, spec, decision, proc, bounds, restarted>>

(* Startup recovery, or the lease reaper, fails a task nobody runs.        *)
Reap(x) ==
    /\ life[x] = "running"
    /\ \A w \in Workers : ~(proc[w].at = x /\ proc[w].pc \in Decomposing \cup {"exec"})
    /\ Put(x, "failed")
    /\ asks' = IF x = Parent THEN {} ELSE asks
    /\ UNCHANGED <<spec, decision, proc, bounds, restarted>>

(* The process dies, or an exception ends its poll.                        *)
Crash(w) ==
    /\ proc[w].pc \notin Stages
    /\ Fault
    /\ Throw(w)
    /\ UNCHANGED <<spec, decision, restarted>>

-----------------------------------------------------------------------------
Init ==
    /\ life = [x \in Items |-> IF x = Parent THEN "pending" ELSE "absent"]
    /\ asks = {} /\ spec = FALSE /\ fresh = {}
    /\ decision = [p \in Phases |-> "none"]
    /\ proc = [w \in Workers |-> Rest]
    /\ bounds = [faults |-> 0, asks |-> 0]
    /\ restarted = {}

(* What the poll loop does when nothing goes wrong.                        *)
GoOn(w) ==
    \/ Pass(w) \/ CancelRead(w) \/ ResumeRead(w)
    \/ \E x \in Items : PollRead(w, x)
    \/ \E p \in Phases : AwaitRead(w, p)
    \/ Gate(w) \/ Hold(w) \/ Refuse(w) \/ Approve(w) \/ Claim(w) \/ EndPhase(w)
    \/ Compile(w) \/ WriteSpec(w) \/ WritePhase(w) \/ Commit(w) \/ WriteResult(w)
    \/ Abort(w) \/ Fail(w)
    \/ CancelPhases(w) \/ CancelPhase(w) \/ CancelSwept(w) \/ Finalize(w) \/ Reread(w)
    \/ Cancelled(w) \/ ClearCancel(w)
    \/ Plan(w) \/ ResetPhase(w) \/ Resumed(w) \/ ClearResume(w)

Next ==
    \/ \E r \in Requests : Ask(r)
    \/ \E p \in Phases : Decide(p) \/ Join(p)
    \/ \E x \in Items : Reap(x)
    \/ \E w \in Workers :
          \/ GoOn(w) \/ DecompositionThrows(w) \/ Renew(w) \/ Crash(w)

Spec == Init /\ [][Next]_vars

(* The poll loop and the reaper's timer go on, a claimed task comes to an  *)
(* end, and every fifth poll scans all blocked tasks: a join is possible   *)
(* again and again.  Nothing is assumed of operators or of faults.         *)
Fairness ==
    /\ SF_vars(\E p \in Phases : Join(p))
    /\ WF_vars(\E x \in Items : Reap(x))
    /\ \A w \in Workers : WF_vars(GoOn(w))

FairSpec == Spec /\ Fairness

-----------------------------------------------------------------------------
Points == Stages \cup Decomposing \cup
    {"claim", "gate", "hold", "refuse", "approve", "exec",
     "cancel", "sweep", "finalize", "reread", "cancelled", "unask",
     "plan", "reset", "resumed", "unresume"}
Local == [pc : Points, back : Stages, at : Items \cup {None}, k : 1..(Len(Order) + 1),
          view : [Phases -> Lifecycles], saw : [life : Lifecycles, asks : SUBSET Requests],
          made : SUBSET Phases]

TypeOK ==
    /\ life \in [Items -> Lifecycles]
    /\ asks \in SUBSET Requests
    /\ spec \in BOOLEAN
    /\ decision \in [Phases -> {"none", "requested", "approved", "rejected"}]
    /\ proc \in [Workers -> Local]
    /\ fresh \in SUBSET (Workers \X Items)
    /\ bounds \in [faults : 0..MaxFaults, asks : 0..MaxAsks]
    /\ restarted \subseteq Phases

Starts(p) == life[p] # "running" /\ life'[p] = "running"

(* A gated phase runs only with the operator's approval, whatever resumes, *)
(* crashes and late decisions came before.                                 *)
GatedRunsApproved == [][\A p \in Gated : Starts(p) => decision[p] = "approved"]_vars

(* What a phase has completed is never undone: not by the cleanup of a     *)
(* decomposition, a cancellation or a resume that was planned before.      *)
CompletedKept ==
    [][\A p \in Phases : life[p] = "completed" => life'[p] = "completed"]_vars

(* Once the parent is cancelled no phase starts, unless a request is still *)
(* open: cancelling is over only when every phase is.                      *)
QuietAfterCancel ==
    [][\A p \in Phases : Starts(p) => life[Parent] # "cancelled" \/ asks # {}]_vars

(* Every request is answered, and everything comes to an end except what   *)
(* waits for a decision.                                                   *)
Settled ==
    /\ asks = {} /\ life[Parent] \in Ended
    /\ \A p \in Phases :
          /\ life[p] \notin {"pending", "running"}
          /\ life[p] = "blocked" => \E q \in Phases : life[q] = "awaiting"
          /\ life[p] = "awaiting" => decision[p] = "requested"
PipelineSettles == <>[]Settled

(* What was done stands and what was cancelled stays so.                   *)
WorkStands == CompletedKept /\ QuietAfterCancel
=============================================================================
