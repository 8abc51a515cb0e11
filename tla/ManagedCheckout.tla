---------------------------- MODULE ManagedCheckout ----------------------------
(***************************************************************************)
(* The one checkout of a repository that every task on it reuses: the gate *)
(* before a run, the branch, commit, push and pull request after it        *)
(* (src/task-helpers.ts and its caller in src/index.ts), and the           *)
(* operator's recovery of a publication that failed                        *)
(* (src/publication-recovery.ts).                                          *)
(*                                                                         *)
(* A commit is the set of changes it holds over the base; a change is      *)
(* <<t, c>>, made by the agent of task t.  Git, GitHub and the agent are   *)
(* external: an agent commits some of its changes and leaves others in the *)
(* tree, on the branch it was given or on one of its own.  A command that  *)
(* fails may have been applied.  The contamination marker gates nothing    *)
(* and is left out; the base branch is the empty commit, and changes left  *)
(* in the tree may or may not conflict with a checkout of it.              *)
(***************************************************************************)
EXTENDS Integers, FiniteSets

CONSTANTS
    Tasks,
    Chunks,             \* the changes of one agent
    Operators,          \* processes of recover:publication
    MaxFaults,          \* bound on crashes and on commands and writes that fail
    MaxResumes,         \* bound on failed tasks set back to pending
    None, Base

(* A commit is a set of changes; there may be none, and HEAD may be on the *)
(* base.                                                                   *)
Commits == SUBSET (Tasks \X Chunks)
Names == {"hugin", "side"} \X Tasks
ASSUME NoneAssumption == None \notin Tasks /\ \A c \in Commits : None # c
ASSUME BaseAssumption == Base \notin Names
ASSUME ChunksAssumption == Chunks # {}

VARIABLES
    mutators,           \* the tasks whose runtime may write files
    status, pub,        \* of each task: its tag, its publication tag
    outcome, record,    \* its structured repository outcome and recovery record
    produced,           \* the changes its last agent made
    uncommitted,        \* the tasks whose agent's leavings git would not commit
    head, branches, tree, \* of the checkout: HEAD, local branches, uncommitted changes
    remote, prs,        \* of the origin: the task's branch, those with a pull request
    worker, operator,
    faults, resumes

tasks == <<mutators, status, pub, outcome, record, produced, uncommitted>>
checkout == <<head, branches, tree>>
origin == <<remote, prs>>
vars == <<tasks, checkout, origin, worker, operator, faults, resumes>>

Own(t) == {t} \X Chunks
Hugin(t) == <<"hugin", t>>
Side(t) == <<"side", t>>      \* a branch the agent made for itself
HeadCommit == IF head = Base THEN {} ELSE branches[head]

Idle == [pc |-> "idle", task |-> None, created |-> FALSE, degraded |-> FALSE, ok |-> FALSE,
         outcome |-> "none", evidence |-> None]
Resting == [pc |-> "idle", task |-> None, evidence |-> None, result |-> "none"]

(* A dispatcher starts with new tasks, or after one whose publication      *)
(* failed: with its branch pushed or not, its pull request made or not.    *)
Init ==
    /\ mutators \in SUBSET Tasks
    /\ \E old \in mutators \cup {None} :
          LET Left(t, new, left) == IF t = old THEN left ELSE new IN
             /\ status = [t \in Tasks |-> Left(t, "pending", "completed")]
             /\ pub = [t \in Tasks |-> Left(t, "none", "failed")]
             /\ outcome = [t \in Tasks |-> Left(t, "none", "publication-failed")]
             /\ record = [t \in Tasks |-> Left(t, None, [evidence |-> Own(t)])]
             /\ produced = [t \in Tasks |-> Left(t, {}, Own(t))]
             /\ branches = [n \in Names |-> IF n[1] = "hugin" THEN Left(n[2], None, Own(n[2])) ELSE None]
             /\ head = IF old = None THEN Base ELSE Hugin(old)
             /\ \/ remote = [t \in Tasks |-> None] /\ prs = {}
                \/ old # None /\ remote = [t \in Tasks |-> Left(t, None, Own(t))] /\ prs \in SUBSET {old}
    /\ tree = {} /\ uncommitted = {}
    /\ worker = Idle /\ operator = [o \in Operators |-> Resting]
    /\ faults = 0 /\ resumes = 0

Fault == faults < MaxFaults /\ faults' = faults + 1
T == worker.task
At(pc) == worker.pc = pc
Goto(pc) == worker' = [worker EXCEPT !.pc = pc]
(* The run is over with this repository outcome.                           *)
End(pc, o) == worker' = [worker EXCEPT !.pc = pc, !.outcome = o, !.created = FALSE, !.degraded = FALSE]
(* deriveRepositoryOutcome of a gate that refused: the executor never runs. *)
Refuse == End("terminal", "checkout-contaminated")

-------------------------------------------------------------------------------
(* The gate                                                                *)
Claim(t) ==
    /\ At("idle") /\ status[t] = "pending"
    /\ status' = [status EXCEPT ![t] = "running"]
    /\ worker' = [Idle EXCEPT !.pc = "checkout", !.task = t]
    /\ UNCHANGED <<mutators, pub, outcome, record, produced, uncommitted, checkout, origin, operator, faults, resumes>>

(* git checkout -b from the fetched base.  It carries the uncommitted      *)
(* changes of an earlier task along, or fails on them; it fails too when   *)
(* the branch is there from an earlier run of the task.                    *)
CheckoutTaskBranch ==
    /\ At("checkout")
    /\ \/ /\ branches[Hugin(T)] = None
          /\ branches' = [branches EXCEPT ![Hugin(T)] = {}] /\ head' = Hugin(T)
          /\ worker' = [worker EXCEPT !.pc = "verify", !.created = TRUE]
          /\ UNCHANGED faults
       \/ /\ ((branches[Hugin(T)] # None \/ tree # {}) /\ UNCHANGED faults) \/ Fault
          /\ IF T \in mutators THEN Refuse
             ELSE worker' = [worker EXCEPT !.pc = "run", !.degraded = TRUE, !.outcome = "checkout-failed"]
          /\ UNCHANGED <<head, branches>>
    /\ UNCHANGED <<tasks, tree, origin, operator, resumes>>

(* verifyCleanCheckout: a task that cannot write goes on, degraded, in a   *)
(* checkout that is not proven clean; a task that can has it recovered.    *)
VerifyCleanCheckout ==
    /\ At("verify")
    /\ \/ tree = {} /\ Goto("run") /\ UNCHANGED faults
       \/ /\ (tree # {} /\ UNCHANGED faults) \/ Fault
          /\ IF T \in mutators THEN Goto("recover")
             ELSE worker' = [worker EXCEPT !.pc = "run", !.degraded = TRUE]
    /\ UNCHANGED <<tasks, checkout, origin, operator, resumes>>

\* mutant: git reset, and the tree taken for clean without git clean and a second look
ResetOnly ==
    /\ At("recover") /\ Goto("run")
    /\ tree' \in SUBSET tree
    /\ UNCHANGED <<tasks, head, branches, origin, operator, faults, resumes>>

(* recoverCleanCheckout and the second verification.  git reset and git    *)
(* clean may fail half-way.                                                *)
RecoverCleanCheckout ==
    /\ At("recover")
    /\ \/ tree' = {} /\ Goto("run") /\ UNCHANGED faults
       \/ Fault /\ Refuse /\ tree' \in SUBSET tree
    /\ UNCHANGED <<tasks, head, branches, origin, operator, resumes>>

-------------------------------------------------------------------------------
(* The run and its publication                                             *)

(* The agent, as a whole.  It may fail, time out or be cancelled with part *)
(* of its work done; only a run that succeeded on a branch of its own, in  *)
(* a checkout that was proven clean, is published.                         *)
Finalizes(ok) == ok /\ worker.created /\ ~worker.degraded

Settled(ok) ==
    IF Finalizes(ok) THEN worker' = [worker EXCEPT !.pc = "commit", !.ok = TRUE]
    ELSE worker' = [Idle EXCEPT !.pc = "terminal", !.task = T, !.ok = ok,
                    !.outcome = IF worker.created THEN "not-finalized" ELSE worker.outcome]

RunReader ==
    /\ At("run") /\ T \notin mutators
    /\ \E ok \in BOOLEAN :
          /\ Settled(ok)
          /\ produced' = [produced EXCEPT ![T] = {}] /\ uncommitted' = uncommitted \ {T}
    /\ UNCHANGED <<mutators, status, pub, outcome, record, checkout, origin, operator, faults, resumes>>

RunMutator ==
    /\ At("run") /\ T \in mutators
    /\ \E committed, left \in SUBSET Own(T), ok, side \in BOOLEAN :
          /\ committed \cap left = {}
          /\ side => committed # {} /\ branches[Side(T)] = None
          /\ LET name == IF side THEN Side(T) ELSE Hugin(T) IN
                branches' = [branches EXCEPT ![name] = HeadCommit \cup committed] /\ head' = name
          /\ tree' = tree \cup left
          /\ Settled(ok)
          /\ produced' = [produced EXCEPT ![T] = committed \cup left]
    /\ uncommitted' = uncommitted \ {T}
    /\ UNCHANGED <<mutators, status, pub, outcome, record, origin, operator, faults, resumes>>

(* finalizeTaskBranch commits what the agent left in the tree.  The result *)
(* of the commands is not looked at: the run goes on without the changes.  *)
AutoCommit ==
    /\ At("commit") /\ Goto("count")
    /\ \/ /\ branches' = [branches EXCEPT ![head] = @ \cup tree] /\ tree' = {}
          /\ UNCHANGED <<uncommitted, faults>>
       \/ /\ tree # {} /\ Fault /\ uncommitted' = uncommitted \cup {T}
          /\ UNCHANGED <<branches, tree>>
    /\ UNCHANGED <<mutators, status, pub, outcome, record, produced, head, origin, operator, resumes>>

\* mutant: a comparison with the base that failed counts as no commits
CountOrZero ==
    /\ At("count")
    /\ \/ /\ (HeadCommit = {} /\ UNCHANGED faults) \/ Fault
          /\ End("terminal", "no-changes")
          /\ head' = Base /\ branches' = [branches EXCEPT ![Hugin(T)] = None]
       \/ /\ HeadCommit # {} /\ UNCHANGED <<head, branches, faults>>
          /\ worker' = [worker EXCEPT !.pc = "push", !.evidence = HeadCommit]
    /\ UNCHANGED <<tasks, tree, origin, operator, resumes>>

(* No commits over the base: HEAD is detached and the branch deleted, if   *)
(* git lets it.  Otherwise the head is captured for the record; neither    *)
(* that failing nor the comparison discards the run.                       *)
CountCommits ==
    /\ At("count")
    /\ \/ /\ HeadCommit = {} /\ End("terminal", "no-changes")
          /\ \/ /\ head' = Base /\ branches' = [branches EXCEPT ![Hugin(T)] = None]
                /\ UNCHANGED faults
             \/ Fault /\ UNCHANGED branches /\ head' \in {head, Base}
       \/ /\ HeadCommit # {} /\ UNCHANGED <<head, branches>>
          /\ \/ worker' = [worker EXCEPT !.pc = "push", !.evidence = HeadCommit] /\ UNCHANGED faults
             \/ Goto("push") /\ Fault
       \/ Fault /\ End("record", "publication-failed") /\ UNCHANGED <<head, branches>>
    /\ UNCHANGED <<tasks, tree, origin, operator, resumes>>

Pushed(t) == remote' = [remote EXCEPT ![t] = branches[Hugin(t)]]

\* mutant: the branch of a failed push is removed like an empty one
PushOrDrop ==
    /\ At("push") /\ UNCHANGED prs
    /\ \/ Pushed(T) /\ Goto("pr") /\ UNCHANGED <<head, branches, faults>>
       \/ /\ Fault /\ End("record", "publication-failed") /\ UNCHANGED remote
          /\ head' = Base /\ branches' = [branches EXCEPT ![Hugin(T)] = None]
    /\ UNCHANGED <<tasks, tree, operator, resumes>>

(* The branch of the task is pushed, wherever the agent left HEAD.         *)
Push ==
    /\ At("push") /\ UNCHANGED prs
    /\ \/ Pushed(T) /\ Goto("pr") /\ UNCHANGED faults
       \/ Fault /\ End("record", "publication-failed") /\ (Pushed(T) \/ UNCHANGED remote)
    /\ UNCHANGED <<tasks, checkout, operator, resumes>>

(* gh pr create: GitHub refuses a branch with no commits over the base and *)
(* a second pull request for one branch.                                   *)
Creatable(t) == remote[t] \notin {None, {}} /\ t \notin prs

CreatePullRequest ==
    /\ At("pr") /\ UNCHANGED remote
    /\ \/ /\ Creatable(T) /\ prs' = prs \cup {T}
          /\ worker' = [Idle EXCEPT !.pc = "terminal", !.task = T, !.ok = TRUE, !.outcome = "changes-present"]
          /\ UNCHANGED faults
       \/ ~Creatable(T) /\ End("record", "publication-failed") /\ UNCHANGED <<prs, faults>>
       \/ /\ Creatable(T) /\ Fault /\ End("record", "publication-failed")
          /\ prs' \in {prs, prs \cup {T}}
    /\ UNCHANGED <<tasks, checkout, operator, resumes>>

(* persistPublicationFailure is best effort.                               *)
PersistPublicationFailure ==
    /\ At("record") /\ worker' = [worker EXCEPT !.pc = "terminal", !.evidence = None]
    /\ \/ record' = [record EXCEPT ![T] = [evidence |-> worker.evidence]] /\ UNCHANGED faults
       \/ Fault /\ UNCHANGED record
    /\ UNCHANGED <<mutators, status, pub, outcome, produced, uncommitted, checkout, origin, operator, resumes>>

(* finalizeTaskCompletion: the status first, then the structured result.   *)
FinalizeStatus ==
    /\ At("terminal") /\ Goto("structured")
    /\ status' = [status EXCEPT ![T] = IF worker.ok THEN "completed" ELSE "failed"]
    /\ pub' = [pub EXCEPT ![T] = IF worker.outcome = "publication-failed" THEN "failed" ELSE "none"]
    /\ UNCHANGED <<mutators, outcome, record, produced, uncommitted, checkout, origin, operator, faults, resumes>>

WriteStructured ==
    /\ At("structured") /\ worker' = Idle
    /\ \/ outcome' = [outcome EXCEPT ![T] = worker.outcome] /\ UNCHANGED faults
       \/ Fault /\ UNCHANGED outcome
    /\ UNCHANGED <<mutators, status, pub, record, produced, uncommitted, checkout, origin, operator, resumes>>

(* The dispatcher dies, and the agent with it; the next start fails the    *)
(* task it was running and leaves the checkout as it is.  An agent may     *)
(* die half-way: that is a run that failed.                                *)
CrashAndRecover ==
    /\ ~At("idle") /\ Fault /\ worker' = Idle
    /\ status' = [status EXCEPT ![T] = IF @ = "running" THEN "failed" ELSE @]
    /\ UNCHANGED <<mutators, pub, outcome, record, produced, uncommitted, checkout, origin, operator, resumes>>

(* The operator resumes a pipeline: a failed phase is pending again.       *)
Resume(t) ==
    /\ status[t] = "failed" /\ T # t /\ resumes < MaxResumes /\ resumes' = resumes + 1
    /\ status' = [status EXCEPT ![t] = "pending"] /\ outcome' = [outcome EXCEPT ![t] = "none"]
    /\ UNCHANGED <<mutators, pub, record, produced, uncommitted, checkout, origin, worker, operator, faults>>

-------------------------------------------------------------------------------
(* The recovery of a publication, run by the operator                      *)
OpAt(o, pc) == operator[o].pc = pc
OpGoto(o, pc) == operator' = [operator EXCEPT ![o].pc = pc]
OpResult(o, r) == operator' = [operator EXCEPT ![o].pc = "note", ![o].result = r, ![o].evidence = None]
OpRest(o) == operator' = [operator EXCEPT ![o] = Resting]
Still == UNCHANGED <<mutators, status, record, produced, uncommitted, checkout, worker, resumes>>

Start(o, t) ==
    /\ OpAt(o, "idle") /\ pub[t] = "failed" /\ record[t] # None
    /\ operator' = [operator EXCEPT ![o] =
                       [pc |-> "verify", task |-> t, evidence |-> record[t].evidence, result |-> "none"]]
    /\ Still /\ UNCHANGED <<pub, outcome, origin, faults>>

\* mutant: an existing pull request is not looked for
Unreconciled(o) ==
    /\ OpAt(o, "verify")
    /\ LET op == operator[o] IN
          \/ /\ op.evidence = None \/ branches[Hugin(op.task)] # op.evidence
             /\ OpResult(o, "abandoned") /\ UNCHANGED faults
          \/ Fault /\ OpResult(o, "abandoned")
          \/ /\ op.evidence # None /\ branches[Hugin(op.task)] = op.evidence
             /\ OpGoto(o, "push") /\ UNCHANGED faults
    /\ Still /\ UNCHANGED <<pub, outcome, origin>>

(* Without proof that the local branch is at the recorded head, nothing is *)
(* done: git failing counts as that.  A pull request that exists is the    *)
(* publication; GitHub failing counts as none.                             *)
Verify(o) ==
    /\ OpAt(o, "verify")
    /\ LET op == operator[o]
           sound == op.evidence # None /\ branches[Hugin(op.task)] = op.evidence
       IN  \/ ~sound /\ OpResult(o, "abandoned") /\ UNCHANGED faults
           \/ Fault /\ OpResult(o, "abandoned")
           \/ sound /\ op.task \in prs /\ OpResult(o, "recovered") /\ UNCHANGED faults
           \/ sound /\ op.task \notin prs /\ OpGoto(o, "push") /\ UNCHANGED faults
           \/ sound /\ op.task \in prs /\ OpGoto(o, "push") /\ Fault
    /\ Still /\ UNCHANGED <<pub, outcome, origin>>

(* Pushed unless the remote has the recorded commit already.               *)
PushAgain(o) ==
    /\ OpAt(o, "push") /\ UNCHANGED prs
    /\ LET op == operator[o] IN
          \/ remote[op.task] = op.evidence /\ OpGoto(o, "pr") /\ UNCHANGED <<remote, faults>>
          \/ remote[op.task] # op.evidence /\ Pushed(op.task) /\ OpGoto(o, "pr") /\ UNCHANGED faults
          \/ remote[op.task] # op.evidence /\ Fault /\ OpRest(o) /\ (Pushed(op.task) \/ UNCHANGED remote)
    /\ Still /\ UNCHANGED <<pub, outcome>>

CreateAgain(o) ==
    /\ OpAt(o, "pr") /\ UNCHANGED remote
    /\ LET t == operator[o].task IN
          \/ Creatable(t) /\ prs' = prs \cup {t} /\ OpResult(o, "recovered") /\ UNCHANGED faults
          \/ ~Creatable(t) /\ OpRest(o) /\ UNCHANGED <<prs, faults>>
          \/ Creatable(t) /\ Fault /\ OpRest(o) /\ prs' \in {prs, prs \cup {t}}
    /\ Still /\ UNCHANGED <<pub, outcome>>

(* The record, and the tag by compare-and-swap: of two recoveries, the     *)
(* first.                                                                  *)
NoteOutcome(o) ==
    /\ OpAt(o, "note")
    /\ LET t == operator[o].task IN
          \/ /\ pub[t] = "failed" /\ pub' = [pub EXCEPT ![t] = operator[o].result]
             /\ OpGoto(o, "patch") /\ UNCHANGED faults
          \/ pub[t] # "failed" /\ OpRest(o) /\ UNCHANGED <<pub, faults>>
          \/ Fault /\ OpRest(o) /\ UNCHANGED pub
    /\ Still /\ UNCHANGED <<outcome, origin>>

(* A structured result that is not there yet is not patched.               *)
PatchStructured(o) ==
    /\ OpAt(o, "patch") /\ OpRest(o)
    /\ LET t == operator[o].task
           o1 == IF operator[o].result = "recovered" THEN "publication-recovered" ELSE "publication-abandoned"
       IN  \/ outcome' = [outcome EXCEPT ![t] = IF @ = "none" THEN @ ELSE o1] /\ UNCHANGED faults
           \/ Fault /\ UNCHANGED outcome
    /\ Still /\ UNCHANGED <<pub, origin>>

-------------------------------------------------------------------------------
Recovery(o) ==
    \/ \E t \in Tasks : Start(o, t)
    \/ Verify(o) \/ PushAgain(o) \/ CreateAgain(o) \/ NoteOutcome(o) \/ PatchStructured(o)

Work ==
    \/ CheckoutTaskBranch \/ VerifyCleanCheckout \/ RecoverCleanCheckout
    \/ RunReader \/ RunMutator
    \/ AutoCommit \/ CountCommits \/ Push \/ CreatePullRequest
    \/ PersistPublicationFailure \/ FinalizeStatus \/ WriteStructured

Next ==
    \/ \E t \in Tasks : Claim(t) \/ Resume(t)
    \/ Work \/ CrashAndRecover
    \/ \E o \in Operators : Recovery(o)

Spec == Init /\ [][Next]_vars

(* The worker goes on, and the operator sweeps again while a publication   *)
(* is left: it starts on every task again and again and finishes what it   *)
(* started.                                                                *)
FairSpec ==
    /\ Spec /\ WF_vars(Work)
    /\ \A o \in Operators : WF_vars(Recovery(o)) /\ \A t \in Tasks : SF_vars(Start(o, t))

-------------------------------------------------------------------------------
Outcomes ==
    {"none", "checkout-failed", "checkout-contaminated", "not-finalized", "no-changes",
     "changes-present", "publication-failed", "publication-recovered", "publication-abandoned"}

TypeOK ==
    /\ mutators \subseteq Tasks /\ uncommitted \subseteq Tasks /\ prs \subseteq Tasks
    /\ status \in [Tasks -> {"pending", "running", "completed", "failed"}]
    /\ pub \in [Tasks -> {"none", "failed", "recovered", "abandoned"}]
    /\ outcome \in [Tasks -> Outcomes]
    /\ record \in [Tasks -> {None} \cup [evidence : {None} \cup Commits]]
    /\ produced \in [Tasks -> Commits]
    /\ branches \in [Names -> {None} \cup Commits] /\ remote \in [Tasks -> {None} \cup Commits]
    /\ head \in Names \cup {Base} /\ tree \in Commits
    /\ head # Base => branches[head] # None
    /\ worker \in [pc : {"idle", "checkout", "verify", "recover", "run", "commit", "count",
                         "push", "pr", "record", "terminal", "structured"},
                   task : Tasks \cup {None}, created : BOOLEAN, degraded : BOOLEAN,
                   ok : BOOLEAN, outcome : Outcomes, evidence : {None} \cup Commits]
    /\ operator \in [Operators ->
                       [pc : {"idle", "verify", "push", "pr", "note", "patch"},
                        task : Tasks \cup {None}, evidence : {None} \cup Commits,
                        result : {"none", "recovered", "abandoned"}]]
    /\ faults \in Nat /\ resumes \in Nat

(* The checkout is one for all tasks, and whatever a failed, cancelled or  *)
(* killed agent left in it stays: what is pushed for a task holds no       *)
(* change of another.                                                      *)
OwnWorkOnly ==
    \A t \in Tasks : remote[t] # None => remote[t] \subseteq Own(t)

(* The repository outcome of a task is true: a task said to have changed   *)
(* nothing changed nothing, and one said to be published, at once or by a  *)
(* recovery, has a pull request with all its agent did.  What git refused  *)
(* to commit is the exception, and lost without a word.                    *)
Publication(t) == outcome[t] \in {"changes-present", "publication-recovered"} \/ pub[t] = "recovered"
OutcomeTrue ==
    \A t \in Tasks \ uncommitted :
        /\ outcome[t] = "no-changes" => produced[t] = {}
        /\ Publication(t) => t \in prs /\ produced[t] \subseteq remote[t]

(* The work of a completed task, which has been paid for, is in a pull     *)
(* request or on a local branch, whatever failed since, whichever tasks    *)
(* have used the checkout and whatever a recovery made of it.              *)
Local == UNION {branches[n] : n \in {m \in Names : branches[m] # None}}
WorkKept ==
    \A t \in Tasks \ uncommitted :
        status[t] = "completed" =>
            produced[t] \subseteq Local \cup (IF t \in prs THEN remote[t] ELSE {})

(* What an agent did is where its task's outcome says it is.               *)
WorkAccounted == OutcomeTrue /\ WorkKept

(* A failed publication that left a record is resolved in the end: also    *)
(* one whose pull request was created and reported as failed, and by two   *)
(* recoveries at once.                                                     *)
PublicationResolved ==
    \A t \in Tasks : (pub[t] = "failed" /\ record[t] # None) ~> (pub[t] \in {"recovered", "abandoned"})
===============================================================================
