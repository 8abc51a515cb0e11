------------------------------ MODULE Dispatch ------------------------------
(***************************************************************************)
(* How a pending task gets to an executor: a poll of the dispatcher picks  *)
(* the first eligible task, assesses how sensitive it is, routes it, asks  *)
(* for an approval where one is due, claims the status it read with        *)
(* compare-and-swap, and checks workspace and sensitivity again before     *)
(* anything runs.  Several dispatchers poll the same queue while           *)
(* submitters rewrite their tasks and the files and entries around a task  *)
(* change.  What happens to a claimed task afterwards is TaskLifecycle's   *)
(* subject; what git does to its checkout is ManagedCheckout's.            *)
(***************************************************************************)
EXTENDS Naturals, FiniteSets

CONSTANTS
  Tasks,        \* numbered in the order of their creation
  Dispatchers,
  Group,        \* the group of a task; 0: none
  Sequence,     \* its place in the group; 0: none
  Drafts,       \* the documents a submitter may write for a task
  Strict,       \* the dispatchers whose policy requires a valid signature
  Sovereign,    \* every role of the orchestrator is on owned hardware
  MaxChanges    \* rewrites of tasks, moves of workspaces, reclassified refs

ASSUME TasksAssumption == Tasks \subseteq Nat \ {0}
ASSUME StrictAssumption == Strict \subseteq Dispatchers
ASSUME ChangesAssumption == MaxChanges \in Nat

Public == 0
Internal == 1
Private == 2
Levels == {Public, Internal, Private}
Undeclared == 3
\* A workspace outside the roots or a protected one; a reference that the policy
\* on injected or external content blocks.
Rejected == 4

\* A document, as the dispatcher's parsers see it: the runtime it asks for, the
\* sensitivity it declares, what the prompt looks like, whether the owner
\* submitted it, whether it needs tools, may fall back to Claude, belongs to a
\* pipeline, carries a signature of its very text, and passes the checks on its
\* fields, submitter and manifest.
Prompts == {"plain", "soft", "hard"}
AutoRouted == {"ollama", "claude", "codex"}
Runtimes == AutoRouted \cup {"homeserver", "opencode", "research", "orchestrator"}
Documents ==
  [runtime : Runtimes \cup {"auto"}, declared : Levels \cup {Undeclared},
   prompt : Prompts, owner : BOOLEAN, tools : BOOLEAN, fallback : BOOLEAN,
   phase : BOOLEAN, gated : BOOLEAN, signed : BOOLEAN,
   valid : BOOLEAN]

ASSUME DraftsAssumption == \A t \in Tasks : Drafts[t] \subseteq Documents

VARIABLES
  status,      \* the status entry of each task: state, document, version, claimant
  decision,    \* the approval decision of each task
  checkpoint,  \* the authenticated assessment of a phase, bound to one document
  workspace,   \* where the working directory of a task now leads
  refs,        \* the highest classification among its context references
  changes,     \* how many changes are left
  poll,        \* what each dispatcher is doing
  held         \* tasks pending or running ever since a dispatcher began to list

vars == <<status, decision, checkpoint, workspace, refs, changes, poll, held>>

States == {"pending", "awaiting", "running", "failed", "completed", "cancelled"}
Nobody == 0
NoTask == 0

MaxOf(S) == CHOOSE n \in S : \A m \in S : m <= n

-----------------------------------------------------------------------------
(* Sensitivity. *)

\* The most sensitive work a runtime may be given; the orchestrator's own guard
\* decides about private work.
Ceiling(runtime) ==
  IF runtime \in {"ollama", "homeserver", "orchestrator"} THEN Private ELSE Internal

PromptLevel(doc) == IF doc.prompt = "plain" THEN Public ELSE Private

\* The level a declaration adds: none if there is none.
Declared(level) == IF level = Undeclared THEN Public ELSE level

\* An assessment, as the snapshot that is kept of it: the detectors' maximum and
\* the override are kept only when they disagree with the declaration.
Snapshot(declared, effective, detected, overridden) ==
  LET mismatch == declared # Undeclared /\ detected > declared
  IN [declared |-> declared, effective |-> effective, mismatch |-> mismatch,
      detected |-> IF mismatch THEN detected ELSE effective,
      override |-> overridden /\ mismatch]

\* The first assessment of a document that no pipeline vouches for.
Fresh(doc, ws, ref) ==
  LET detected == MaxOf({Internal, ws, PromptLevel(doc), ref})
      override == /\ doc.owner
                  /\ ~doc.phase
                  /\ doc.declared # Undeclared
                  /\ doc.prompt # "hard"
                  /\ detected > doc.declared
  IN Snapshot(doc.declared,
              IF override THEN doc.declared
              ELSE MaxOf({detected, Declared(doc.declared)}),
              detected, override)

\* The assessment on top of an earlier snapshot: an override holds as long as
\* nothing private shows up in the workspace, the references or the prompt.
Again(snap, doc, ws, ref) ==
  LET declared == IF snap.declared = Undeclared THEN doc.declared ELSE snap.declared
      detected == MaxOf({snap.detected, ws, PromptLevel(doc), ref})
      mismatch == snap.mismatch \/ (declared # Undeclared /\ detected > declared)
      override == /\ snap.override
                  /\ mismatch
                  /\ snap.effective = declared
                  /\ doc.prompt # "hard"
                  /\ Private \notin {ws, ref}
      effective == IF override THEN declared
                   ELSE MaxOf({snap.effective, ws, PromptLevel(doc), ref})
  IN [declared |-> declared, effective |-> effective, mismatch |-> mismatch,
      detected |-> IF mismatch THEN detected ELSE effective,
      override |-> override]

\* mutant: a checkpoint is used whatever document it was written for
AnyCheckpoint(t, doc) ==
  IF doc.phase /\ checkpoint[t].bound THEN {checkpoint[t].snap} ELSE {}

\* The checkpoint of a phase counts only for the document it was written for.
Vouched(t, doc) ==
  IF doc.phase /\ checkpoint[t].bound /\ checkpoint[t].doc = doc
  THEN {checkpoint[t].snap} ELSE {}

Assessment(t, doc, ws, ref) ==
  IF Vouched(t, doc) = {} THEN Fresh(doc, ws, ref)
  ELSE Again(CHOOSE s \in Vouched(t, doc) : TRUE, doc, ws, ref)

-----------------------------------------------------------------------------
(* Routing. *)

\* Preference of the router: free runtimes first, then the subscriptions in the
\* order of the registry.
Rank(runtime) ==
  CASE runtime = "ollama" -> 1
    [] runtime = "claude" -> 2
    [] runtime = "codex" -> 3

Capable(runtime, doc) == doc.tools => runtime # "ollama"

\* The candidates that survive: trusted enough, available, able.
Candidates(doc, level, up) ==
  {r \in up : level <= Ceiling(r) /\ Capable(r, doc)}

Route(doc, level, up) ==
  IF doc.runtime # "auto" THEN {doc.runtime}
  ELSE {r \in Candidates(doc, level, up) :
          \A s \in Candidates(doc, level, up) : Rank(r) <= Rank(s)}

-----------------------------------------------------------------------------
(* The queue. *)

Pending == {t \in Tasks : status[t].state = "pending"}
Running == {t \in Tasks : status[t].state = "running"}

\* mutant: a task comes before itself
NoLater(u, t) ==
  /\ Group[u] # 0
  /\ Group[u] = Group[t]
  /\ Sequence[u] # 0
  /\ Sequence[u] <= Sequence[t]

Earlier(u, t) ==
  /\ Group[u] # 0
  /\ Group[u] = Group[t]
  /\ Sequence[u] # 0
  /\ Sequence[u] < Sequence[t]

\* mutant: only the running tasks of the group hold a task back
HeldByRunning(pending, running) ==
  {t \in pending : \A u \in running : ~Earlier(u, t)}

\* What may be claimed among the tasks two listings have shown.
Eligible(pending, running) ==
  {t \in pending : \A u \in pending \cup running : ~Earlier(u, t)}

First(S) == CHOOSE t \in S : \A u \in S : t <= u

-----------------------------------------------------------------------------
Blank == [declared |-> Undeclared, effective |-> Internal, mismatch |-> FALSE,
          detected |-> Internal, override |-> FALSE]

\* What the fields of a resting dispatcher hold matters to nobody.
Empty == CHOOSE doc \in Documents : TRUE

Resting == [pc |-> "idle", task |-> NoTask, seen |-> {}, version |-> 0, doc |-> Empty,
            workspace |-> Internal, refs |-> Public, snap |-> Blank, runtime |-> "none"]

Init ==
  /\ status \in [Tasks -> [state : {"pending"}, doc : UNION {Drafts[t] : t \in Tasks},
                           version : {0}, by : {Nobody}, cancel : {FALSE}]]
  /\ \A t \in Tasks : status[t].doc \in Drafts[t]
  /\ decision = [t \in Tasks |-> "none"]
  /\ workspace = [t \in Tasks |-> Internal]
  /\ refs = [t \in Tasks |-> Public]
  \* The decomposition wrote a checkpoint beside each phase.
  /\ checkpoint = [t \in Tasks |->
       [bound |-> status[t].doc.phase, doc |-> status[t].doc,
        snap |-> Fresh([status[t].doc EXCEPT !.phase = FALSE], Internal, Public)]]
  /\ changes = MaxChanges
  /\ poll = [d \in Dispatchers |-> Resting]
  /\ held = [d \in Dispatchers |-> {}]

Step(d, from, to) == poll[d].pc = from /\ poll' = [poll EXCEPT ![d].pc = to]

Rest(d) == poll' = [poll EXCEPT ![d] = Resting]

Queue == <<status, decision, checkpoint>>
World == <<workspace, refs, changes>>

\* A poll asks for the pending tasks first and for the running ones after that:
\* the client sends one request at a time.
ListPending(d) ==
  /\ poll[d].pc = "idle"
  /\ Pending # {}
  /\ poll' = [poll EXCEPT ![d].pc = "listing", ![d].seen = Pending]
  /\ UNCHANGED <<Queue, World>>

ListRunning(d) ==
  /\ poll[d].pc = "listing"
  /\ LET eligible == Eligible(poll[d].seen, Running)
     IN IF eligible = {} THEN Rest(d)
        ELSE poll' = [poll EXCEPT ![d].pc = "chosen", ![d].task = First(eligible),
                                  ![d].seen = {}]
  /\ UNCHANGED <<Queue, World>>

\* mutant: a signature is asked for only of documents that bear one
SignedIfAny(d, doc) == doc.valid

\* What every document must satisfy before anything else is looked at.
Acceptable(d, doc) == doc.valid /\ (d \in Strict => doc.signed)

\* The status entry of the chosen task, and the first checks on it: a cancelled
\* task is ended, a malformed, unauthorised or misplaced one is refused.
Read(d) ==
  LET t == poll[d].task
      got == status[t]
      reading(pc) == poll' = [poll EXCEPT ![d].pc = pc, ![d].version = got.version,
                                          ![d].doc = got.doc,
                                          ![d].workspace = workspace[t]]
  IN /\ poll[d].pc = "chosen"
     /\ \/ got.state # "pending" /\ Rest(d)
        \/ got.state = "pending" /\ got.cancel /\ reading("cancelling")
        \/ /\ got.state = "pending" /\ ~got.cancel
           /\ ~Acceptable(d, got.doc) \/ workspace[t] = Rejected
           /\ reading("refusing")
        \/ /\ got.state = "pending" /\ ~got.cancel
           /\ Acceptable(d, got.doc) /\ workspace[t] # Rejected
           /\ reading("assessing")
     /\ UNCHANGED <<Queue, World>>

\* The assessment reads the references and the checkpoint, the route asks which
\* runtimes are up.  No candidate, a ceiling below the assessment or a reference
\* that is blocked: refused.
Assess(d) ==
  LET t == poll[d].task
      doc == poll[d].doc
      snap == Assessment(t, doc, poll[d].workspace, refs[t])
  IN /\ poll[d].pc = "assessing"
     /\ refs[t] # Rejected
     /\ \E up \in SUBSET AutoRouted :
          LET routed == Route(doc, snap.effective, up)
              admitted == {r \in routed : snap.effective <= Ceiling(r)}
              next == IF admitted = {} THEN "refusing"
                      ELSE IF doc.gated THEN "gating" ELSE "claiming"
          IN poll' = [poll EXCEPT ![d].pc = next, ![d].snap = snap, ![d].refs = refs[t],
                        ![d].runtime = IF routed = {} THEN "none"
                                       ELSE CHOOSE r \in routed : TRUE]
     /\ UNCHANGED <<Queue, World>>

Blocked(d) ==
  /\ Step(d, "assessing", "refusing")
  /\ refs[poll[d].task] = Rejected
  /\ UNCHANGED <<Queue, World>>

\* A gated phase needs a decision: approved it goes on, rejected it is ended,
\* undecided it is set aside.
Gate(d) ==
  /\ poll[d].pc = "gating"
  /\ \/ decision[poll[d].task] = "approved" /\ Step(d, "gating", "claiming")
     \/ decision[poll[d].task] = "rejected" /\ Step(d, "gating", "refusing")
     \/ decision[poll[d].task] = "none" /\ Step(d, "gating", "parking")
  /\ UNCHANGED <<Queue, World>>

\* mutant: the status is written whatever its version
WriteAnyway(d, next) == TRUE

\* Every write of the poll names the version it read.
Current(d, next) == status[poll[d].task].version = poll[d].version

Written(t, next, d) ==
  [status EXCEPT ![t].state = next, ![t].version = @ + 1, ![t].by = d]

\* The ends a poll may write without claiming.
Write(d) ==
  LET t == poll[d].task
  IN /\ \E p \in {<<"refusing", "failed">>, <<"cancelling", "cancelled">>,
                  <<"parking", "awaiting">>} :
          /\ poll[d].pc = p[1]
          /\ status' = IF Current(d, p[2]) THEN Written(t, p[2], Nobody) ELSE status
     /\ Rest(d)
     /\ UNCHANGED <<decision, checkpoint, World>>

\* The claim.  A conflict means somebody else has changed the task.
Claim(d) ==
  LET t == poll[d].task
  IN /\ poll[d].pc = "claiming"
     /\ \/ /\ Current(d, "running")
           /\ status' = Written(t, "running", d)
           /\ poll' = [poll EXCEPT ![d].pc = "claimed"]
        \/ ~Current(d, "running") /\ Rest(d) /\ UNCHANGED status
     /\ UNCHANGED <<decision, checkpoint, World>>

\* mutant: the workspace of the admission is taken for the one of today
OldWorkspace(d) == poll[d].workspace

\* Where the working directory leads at this moment.
CurrentWorkspace(d) == workspace[poll[d].task]

\* Workspace and sensitivity are checked again before the checkout and once more
\* before the executor starts; the checkout may refuse on its own account.
Revalidate(d, from, to) ==
  LET ws == CurrentWorkspace(d)
      snap == Again(poll[d].snap, poll[d].doc, ws, poll[d].refs)
      admitted == ws # Rejected /\ snap.effective <= Ceiling(poll[d].runtime)
  IN /\ poll[d].pc = from
     /\ poll' = IF admitted
                THEN [poll EXCEPT ![d].pc = to, ![d].workspace = ws, ![d].snap = snap]
                ELSE [poll EXCEPT ![d].pc = "failing"]
     /\ UNCHANGED <<Queue, World>>

CheckOut(d) ==
  \/ Revalidate(d, "claimed", "checked")
  \/ Step(d, "claimed", "failing") /\ UNCHANGED <<Queue, World>>

Dispatch(d) == Revalidate(d, "checked", "dispatched")

\* mutant: any task that asks for it falls back
FallsBackOnRequest(d) == poll[d].doc.fallback

\* Claude may stand in for Ollama only in work that is not private.
FallsBack(d) == poll[d].doc.fallback /\ poll[d].snap.effective <= Internal

\* mutant: the orchestrator relies on the ceiling of the dispatcher
NoGuard(d) == TRUE

\* The orchestrator refuses private work unless every role is sovereign.
Guarded(d) == poll[d].snap.effective = Private => Sovereign

\* The executor starts.  A host of Ollama may be missing.
Start(d) ==
  /\ \/ /\ poll[d].runtime # "orchestrator" \/ Guarded(d)
        /\ Step(d, "dispatched", "executing")
     \/ /\ poll[d].runtime = "orchestrator" /\ ~Guarded(d)
        /\ Step(d, "dispatched", "failing")
     \/ /\ poll[d].runtime = "ollama" /\ ~FallsBack(d)
        /\ Step(d, "dispatched", "failing")
     \/ /\ poll[d].runtime = "ollama" /\ FallsBack(d)
        /\ poll[d].pc = "dispatched"
        /\ poll' = [poll EXCEPT ![d].pc = "executing", ![d].runtime = "claude"]
  /\ UNCHANGED <<Queue, World>>

\* Ollama breaks down in the middle of a task.
FallBack(d) ==
  /\ poll[d].pc = "executing"
  /\ poll[d].runtime = "ollama"
  /\ FallsBack(d)
  /\ poll' = [poll EXCEPT ![d].runtime = "claude"]
  /\ UNCHANGED <<Queue, World>>

\* The task ends; how it gets there is TaskLifecycle's subject.
Finish(d) ==
  /\ \E p \in {<<"executing", "completed">>, <<"executing", "failed">>,
               <<"failing", "failed">>} :
       /\ poll[d].pc = p[1]
       /\ status' = Written(poll[d].task, p[2], Nobody)
  /\ Rest(d)
  /\ UNCHANGED <<decision, checkpoint, World>>

-----------------------------------------------------------------------------
(* Everybody else. *)

\* What changes around a task that has ended is nobody's concern.
Change(t) ==
  /\ changes > 0
  /\ changes' = changes - 1
  /\ status[t].state \in {"pending", "awaiting", "running"}

\* A submitter writes another document over a task that does not run.
Rewrite(t) ==
  /\ Change(t)
  /\ status[t].state \in {"pending", "awaiting"}
  /\ \E doc \in Drafts[t] \ {status[t].doc} :
       status' = [status EXCEPT ![t].doc = doc, ![t].version = @ + 1]
  /\ UNCHANGED <<decision, checkpoint, workspace, refs, poll>>

\* An operator asks to cancel a pending task.
RequestCancel(t) ==
  /\ Change(t)
  /\ status[t].state = "pending" /\ ~status[t].cancel
  /\ status' = [status EXCEPT ![t].cancel = TRUE, ![t].version = @ + 1]
  /\ UNCHANGED <<decision, checkpoint, workspace, refs, poll>>

\* A working directory, or a root, comes to lead somewhere else.
Move(t) ==
  /\ Change(t)
  /\ \E ws \in {Internal, Private, Rejected} \ {workspace[t]} :
       workspace' = [workspace EXCEPT ![t] = ws]
  /\ UNCHANGED <<Queue, refs, poll>>

\* An entry a task refers to is classified anew.
Reclassify(t) ==
  /\ Change(t)
  /\ \E level \in {Public, Private, Rejected} \ {refs[t]} : refs' = [refs EXCEPT ![t] = level]
  /\ UNCHANGED <<Queue, workspace, poll>>

\* The approval of a waiting phase: the decision, and its effect on the status.
Decide(t) ==
  /\ status[t].state = "awaiting" /\ decision[t] = "none"
  /\ \E verdict \in {"approved", "rejected"} : decision' = [decision EXCEPT ![t] = verdict]
  /\ UNCHANGED <<status, checkpoint, World, poll>>

ApplyDecision(t) ==
  /\ status[t].state = "awaiting"
  /\ \/ decision[t] = "approved" /\ status' = Written(t, "pending", Nobody)
     \/ decision[t] = "rejected" /\ status' = Written(t, "failed", Nobody)
  /\ UNCHANGED <<decision, checkpoint, World, poll>>

Others(t) ==
  Rewrite(t) \/ RequestCancel(t) \/ Move(t) \/ Reclassify(t) \/ Decide(t) \/ ApplyDecision(t)

PollOnce(d) ==
  \/ ListPending(d) \/ ListRunning(d) \/ Read(d) \/ Assess(d) \/ Blocked(d) \/ Gate(d) \/ Write(d)
  \/ Claim(d) \/ CheckOut(d) \/ Dispatch(d) \/ Start(d) \/ FallBack(d) \/ Finish(d)

\* Observation only: the tasks that have been pending or running throughout, from
\* the moment a dispatcher began to list.
Active == Pending \cup Running

Watch ==
  held' = [d \in Dispatchers |->
    IF poll'[d].pc = "idle" THEN {}
    ELSE (IF poll[d].pc = "idle" THEN Active ELSE held[d]) \cap Active']

Next ==
  \/ \E d \in Dispatchers : PollOnce(d) /\ Watch
  \/ \E t \in Tasks : Others(t) /\ Watch

Spec == Init /\ [][Next]_vars

\* Dispatchers keep polling, and what decides on approvals applies decisions.
\* Nobody need submit, move, reclassify or decide anything.
Fairness ==
  /\ \A d \in Dispatchers : WF_vars(PollOnce(d) /\ Watch)
  /\ \A t \in Tasks : WF_vars(ApplyDecision(t) /\ Watch)

FairSpec == Spec /\ Fairness

-----------------------------------------------------------------------------
(* Properties. *)

TypeOK ==
  /\ status \in [Tasks -> [state : States, doc : Documents, version : Nat,
                           by : Dispatchers \cup {Nobody}, cancel : BOOLEAN]]
  /\ decision \in [Tasks -> {"none", "approved", "rejected"}]
  /\ workspace \in [Tasks -> {Internal, Private, Rejected}]
  /\ refs \in [Tasks -> {Public, Private, Rejected}]
  /\ changes \in 0..MaxChanges
  /\ \A d \in Dispatchers : held[d] \subseteq Tasks /\ poll[d].seen \subseteq Tasks

Holding == {"claimed", "checked", "dispatched", "executing", "failing"}

\* What a dispatcher has claimed is running under its name, and the document it
\* executes is the one it assessed: no rewrite slips in between, neither of what it
\* asks for nor of what was signed.
RunsAsAssessed ==
  \A d \in Dispatchers : poll[d].pc \in Holding =>
    /\ status[poll[d].task].state = "running"
    /\ status[poll[d].task].by = d
    /\ status[poll[d].task].doc = poll[d].doc
    /\ d \in Strict => poll[d].doc.signed

\* What private work needs, said without the assessment: a private workspace, a
\* private reference, a secret in the prompt, and a suspicious prompt or a private
\* declaration that the owner has not declared away.
Waived(d) ==
  LET doc == poll[d].doc
      t == poll[d].task
  IN /\ doc.declared < Private
     /\ IF doc.phase
        THEN checkpoint[t].doc = doc /\ checkpoint[t].snap.override
        ELSE doc.owner

Sensitive(d, ws) ==
  LET doc == poll[d].doc
  IN \/ Private \in {ws, poll[d].refs, doc.declared}
     \/ doc.prompt = "hard"
     \/ doc.prompt = "soft" /\ ~Waived(d)

Trusted(runtime) ==
  \/ runtime \in {"ollama", "homeserver"}
  \/ runtime = "orchestrator" /\ Sovereign

\* Private work reaches only a runtime trusted with it.  The workspace that counts
\* is the one there is when the executor is about to be chosen, wherever it led
\* when the task was admitted; and a task that falls back to Claude is not private.
PrivateStaysHome ==
  [][\A d \in Dispatchers :
       LET t == poll[d].task
           before == poll[d].pc
           after == poll'[d].pc
           runtime == poll'[d].runtime
       IN /\ (before = "checked" /\ after = "dispatched") =>
               /\ workspace[t] # Rejected
               /\ Sensitive(d, workspace[t]) => (Trusted(runtime) \/ runtime = "orchestrator")
          /\ ((before = "dispatched" \/ runtime # poll[d].runtime) /\ after = "executing") =>
               (Sensitive(d, poll[d].workspace) => Trusted(runtime))]_vars

\* A task never overtakes an earlier one of its group that has been pending or
\* running ever since the dispatcher began to look.
InOrder ==
  [][\A d \in Dispatchers :
       poll[d].pc = "claiming" /\ poll'[d].pc = "claimed" =>
         \A u \in held[d] : ~Earlier(u, poll[d].task)]_vars

\* Every pending task is taken up: it does not stay pending for good behind
\* others, a conflict or a rewrite.
TakenUp == \A t \in Tasks : status[t].state = "pending" ~> status[t].state # "pending"

\* What runs is what was assessed, and private work runs where it may.
RunsSafely == []RunsAsAssessed /\ PrivateStaysHome
=============================================================================
