# Hugin, specified

Hugin (`src/src`) is a task dispatcher. Tasks are entries of a remote store,
Munin: `tasks/<id>/status` holds a task's tags (its lifecycle, its owner, its
lease, whether cancellation is asked, how far its artefacts are delivered) and
`tasks/<id>/result` what it produced. One dispatcher process per host polls for
pending tasks, runs an agent, delivers what the agent wrote, and writes the
outcome. Everything difficult follows from there being no transaction: a status
is changed by a write that names the `updated_at` its author last read, and
between a read and a write lie other activities of the same process, other
processes, operators, lost answers and crashes.

This directory holds TLA+ specifications of that program, the TLC
configurations that check them on small instances, and TLAPS proofs.

* [Inventory](#inventory): the parts of the system
* [Modules](#modules): which module models what, and how it corresponds to the code
* [Runs](#runs): what TLC checks, on which instances, under which fairness
* [Proofs](#proofs): what holds for every value of the constants, and why
* [Where the code and its documents disagree](#where-the-code-and-its-documents-disagree)
* [Not modelled](#not-modelled) and [Plan](#plan)

## Inventory

| component | state it keeps | operations | what is hard | what makes it right |
|---|---|---|---|---|
| Task lifecycle: `index.ts`, `task-helpers.ts`, `task-status-tags.ts`, `artifact-delivery.ts` | status, result and retry counter in Munin; `currentTask`, `currentCancellation`, timers | claim, renew, watch for cancellation, checkpoint, deliver, defer, finalize; sweeps: cancellations, expired leases, deferred deliveries, stale tasks; shutdown | four activities of one process and other processes on one status; renewals without compare-and-swap; crashes at every await | the agent runs once; artefacts reach their target or the task does not complete; no checkpoint is lost; every task settles |
| Dispatch: `index.ts` 5329–6652, `router.ts`, `sensitivity.ts`, `task-signing.ts` | the queue; a poll's reading of one task | list, choose, assess, route, gate, claim, check again, start | documents, workspaces and references that change between the check and the run | what runs is what was assessed and signed; private work stays on trusted runtimes; groups keep their order |
| Dependency joins: `task-graph.ts`, `index.ts` | `blocked` statuses, `depends-on` tags | promote dependents, reconcile all blocked tasks, fail or promote one | dependencies read between the read and the write of the task; ends of tasks that scan nothing | the join is as if atomic; none stays blocked |
| Pipelines and approvals: `pipeline-*.ts`, `index.ts` 4873–5126 | parent status, spec; `awaiting-approval` phases | decompose, cancel, resume, approve, reject | decomposition interrupted; cancel against resume; decisions that arrive late | gated phases run only approved; the parent settles after its phases |
| Checkout and publication: `task-helpers.ts`, `publication-recovery.ts` | one git checkout, branches, pull requests, recovery records | gate, branch, commit, push, pull request; recovery | leftovers of killed agents; commands that fail or were applied; two recoveries at once | a task publishes its own work and nothing else; paid work is kept |
| Executors and owned processes: `*-executor.ts`, `process-lifecycle.ts` | one run, one process group | start, refuse, time out, abort, fall back, terminate | late spawns, groups that ignore signals, shutdown | no group is left unnoticed, no success is made up |
| Orchestrator: `orchestrator/` | plan, workers and verdicts of a run; savings and verdict documents | plan, run workers, verify, synthesize, abort | workers of several kinds, retries, timeouts | one writer at a time; an answer made of good answers |
| Broker: `broker/` | idempotency index, await ledger, bound port, quality receipts | submit, await, rate, bind with retry | concurrent submissions of one key, restarts, late binds and writes | one task per key; a true record of who collected and rated what |
| R-exact controller: `autonomy/` | journal, target configuration, authority | apply, recover, roll back | a crash after any journal step | every attempt ends applied, rolled back or blocked, with its authority narrowed |
| Friction outbox: `friction/outbox.ts` | files of a directory, reservations | enqueue, claim, deliver, maintain | several processes, a soft bound, crashes between a link and an unlink | no report is lost |
| Learning registry: `learning-registry-*.ts`, `learning-period-close.ts`, `external-receipt-*.ts` | registry events, high-water documents, statements | append, count, capture, take in, close | crash between two writes; replays; closes beside appends | a certified statement leaves nothing out |
| Learning attempts: `learning-task-*.ts`, `homeserver-executor.ts`, `organic-micro-experiment.ts` | the rows of an attempt, an experiment's plan and result | prepare, send, probe, recover, shadow | requests that are admitted late; dead workers | evidence is grounded; an experiment is paid for once |
| Experiments: `learning/` | experiments, champion, cadence index, summaries | tick, observe, rate, promote | processes that overlap; deaths between documents | the champion is succeeded only by a challenger that won against it |
| Munin client: `munin-client.ts`, `munin-pagination.ts` | a request slot, a session, a back-off | read, query, conditional write, retry | retry of writes that were applied; pages | a retried write is applied at most once |
| Authentication alarm: `auth-alarm.ts`, `index.ts` 4382–4470 | last state, warned flags, persisted | reading, alert, resolution | alerts that fail to send | an alert per transition |
| Pure or I/O: parsers, scanners, MCP server, reports, schemas, CLIs | none, or best-effort telemetry | | | |

Components interact through Munin entries (the dispatcher, the broker and the
operators), through module variables of the one process (poller, timers, signal
handler) and by calls. `PROJECT.json` lists every component with its files, and
every hazard at its line.

## Modules

| module | subject | extends or implements |
|---|---|---|
| `TaskOnce` | what submitting a task buys: its agent is started at most once | |
| `TaskLifecycle` | the dispatcher core, from the claim to the end of a task | implements `TaskOnce` |
| `Dispatch` | from the queue to the executor | |
| `AtomicJoin` | a dependency join as one step | |
| `DependencyJoin` | the joins as the code makes them | implements `AtomicJoin` |
| `Pipeline` | a pipeline's parent and phases: decomposition, approvals, cancel, resume | |
| `ManagedCheckout` | the shared checkout, publication and its recovery | |
| `AgentRun` | one run of any executor and its process group | |
| `Orchestrator` | one orchestrated task and its workers | |
| `Delegation` | the broker's submit, await and bind | |
| `QualityLedger` | the broker's ratings | |
| `RExact` | the R-exact controller | |
| `FrictionOutbox` | the files of the outbox | |
| `LearningRegistry` | events, counters, captures, receipts, period closes | |
| `LearningAttempt` | an attempt on the gateway, its evidence and its shadow experiment | |
| `Experiments` | cadence, experiment store and champion | |
| `*Proofs` | theorems about the module of that name; `TaskGraphProofs` about `Pipeline` and `DependencyJoin`, `ExecutionProofs` about the three parts of an execution, `BrokerProofs` about `Delegation` and `QualityLedger`, `LearningProofs` about the three learning modules | extends it and `TLAPS` |
| `MC*` | instances for TLC; `MCTaskGraph` composes `Pipeline` and `DependencyJoin`, `MCExecution` composes `ManagedCheckout`, `AgentRun` and `Orchestrator` | |

The modules divide the life of a task between them. `Dispatch` ends where an
executor starts; `TaskLifecycle` takes the choice of a candidate as given and
follows a claimed task to its end; `ManagedCheckout`, `AgentRun` and
`Orchestrator` look into its execution; `Pipeline` and `DependencyJoin` see of a
task only that it starts and ends.

One convention is common to them: the compare-and-swap. `updated_at` is compared
for equality only, so a document's version is modelled either by a set of those
whose read is current (`fresh`: a write empties it of everybody else) or by what
the reader has seen. A write that fails may have been applied; a fault is a crash
or such a failure, and `MaxFaults` (`MaxMishaps`, `MaxLosses`) bounds them.

### TaskLifecycle

`status[t]` is the tag set of `tasks/<t>/status`: `life` the lifecycle tag,
`owner` the `claimed_by` tag, `live` whether `lease_expires` is in the future,
`cancel` the `cancel-requested` tag, `deliv` the `delivery:*` tag. `result`,
`tries` and `parent` are the result document's verdict, the counter of
`delivery-retry`, and the status of the pipeline parent. `proc`, `cur`, `seen`,
`armed` and `watching` are a process and its `currentTask`,
`currentCancellation`, `leaseRenewalTimer` and `cancelWatchTimer`.

A process has four activities: the poll loop with its claim, execution,
cancellation sweep and startup recovery (`poll`), the lease reaper (`reap`), the
delivery-retry reaper (`retry`) and the signal handler (`stop`); `pc`, `job`,
`val`, `base` and `todo` are where each is, its task, its verdict, the
checkpoint's result it read, and what its query returned and it has not come to.
Each action is the code between two awaits that matter: a read of a status, a
write of one, a write of a result, a delivery.

| code | actions |
|---|---|
| `pollOnce`, claim | `ClaimRead`, `ClaimCas`, `ClaimAckLost` |
| `startLeaseRenewal`, time | `RenewSend`, `RenewLand`, `LeaseLapse` |
| `checkCurrentTaskCancellation` | `WatchRead`, `WatchLand` |
| `pollOnce`, after the agent | `ExecDone`, `CheckCancel`, `CkptRead`, `CkptResult`, `CkptCas`, `CkptLost`, `Deliver`, `OwnerDefer`, `OwnerExhausted`, `FinalResult`, `FinalPut`, `FinalCas`, `Tail`, `PollThrows` |
| `processCancellationRequests`, `markTaskCancelled` | `CancelRead`, `ClearCancel`, `ParentCancelled`, `CancelCas`, `CancelResult` |
| `failTaskWithMessage` and its like | `FailCas`, `FailResult` |
| `reapExpiredLeases`, `reapDeferredDeliveries`, `recoverStaleTasks` | `ReapRead`, `RetryQuery`, `RetryRead`, `RecoverQuery`, `RecoverRead`, `RecoverDone` |
| `reconcileDeliveryPending` | `Reclaim`, `ReadBase`, `Redeliver`, `RecDefer`, `RecExhausted`, `RecResult`, `RecCas`, `JobThrows` |
| `shutdown`, process | `Shutdown`, `StopRead`, `Exit`, `Crash`, `Restart` |

Abstracted: the candidate's parsing, gates and routing (`Dispatch`; here a
candidate is claimed or refused, by choice); the executor (success or failure);
rsync and verification (delivered, delivered but not indexed, infrastructure
failure, missing or unsafe file); structured results, logs, journals and traces;
the age limit of the retry budget (its cap is there). The parent is settled in
one step. A sweep of the lease reaper reads no further task once the process is
stopping.

### Dispatch

`status[t]` has the state, the document, the version and the claimant; a document
is what the parsers see of it (runtime, declared sensitivity, what the prompt
looks like, owner, tools, fallback, phase, gate, signature, validity).
`workspace` and `refs` are where the working directory leads and how the context
references are classified now; `checkpoint` the authenticated assessment of a
pipeline phase, `decision` its approval. `poll[d]` is the dispatcher's reading of
the task it is at; `held` only observes, for the order of groups.

| code | actions and operators |
|---|---|
| `pollOnce`: listings, `listEligibleTasks` | `ListPending`, `ListRunning`, `Eligible`, `First` |
| `pollOnce`: checks before the claim | `Read`, `Assess`, `Blocked`, `Gate`, `Write` |
| sensitivity | `Fresh`, `Again`, `Vouched`, `Assessment`, `PromptLevel` |
| `routeTask`, ceilings | `Candidates`, `Route`, `Ceiling` |
| claim, checks after it | `Claim`, `CheckOut`, `Dispatch` |
| executors as far as they choose | `Start`, `FallBack`, `FallsBack`, `Guarded`, `Finish` |
| submitters, operators, files | `Rewrite`, `RequestCancel`, `Move`, `Reclassify`, `Decide`, `ApplyDecision` |

Assumed or left out: one page of the queries (at most 50 tasks); a dispatcher
that requires signatures refuses pipelines; a client sends its requests one at a
time, so the pending tasks are listed before the running ones; signature age,
harness and skill lanes, pipeline parents and crashes are left out; references
are read once, at the admission.

### DependencyJoin

`status` is the lifecycle tag with `absent` before submission. Two clients scan:
the poller's and the lease reaper's. A scan queries (`QueryDependents` after a
task's end, `QueryBlocked` at every fifth poll and at startup), reads one
blocked status (`ReadTask`), reads its dependencies in a batch (`ReadDeps`), and
swaps (`Act`). Pending tasks end by `EndTask`, with a scan or, for the paths that
have none, without.

### Pipeline

`life` has the lifecycle tags of the parent and of the phases, `absent` for a
phase that was never written; `asks` is the parent's `cancel-requested` and
`resume-requested`, `spec` whether `tasks/<parent>/spec` is there, `decision` the
`approval-request` and `approval-decision` of a phase. `proc[w]` is where a
dispatcher is, with what it holds in variables there: `at` the task at hand, `k`
the position of a loop over the phases, `view` the phases as its last batch read
returned them, `saw` the parent as the resume handler was given it, `made` the
`createdDrafts`. Its `pc` is a stage of the poll loop (`cancels`, `resumes`,
`approvals`, `poll`) or a point of a handler, and `back` is the stage that comes
after the handler.

| code | actions |
|---|---|
| `pollLoop` | `Pass`, `PollRead`, `CancelRead`, `ResumeRead`, `AwaitRead` |
| `gatePendingTaskForApproval`, `processApprovalDecisions` | `Gate`, `Hold`, `Refuse`, `Approve` |
| `pollOnce`, a claimed task | `Claim`, `EndPhase`, `Renew` |
| `handlePipelineTask` | `Compile`, `WriteSpec`, `WritePhase`, `Commit`, `WriteResult`, `DecompositionThrows`, `Fail` |
| `cancelCreatedChildren` | `Abort` |
| `processPipelineCancellationRequest` | `CancelPhases`, `CancelPhase`, `CancelSwept`, `ClearCancel`, `Cancelled` |
| `finalizePipelineCancellationIfReady` | `Finalize`, `Reread`, `Cancelled` |
| `processPipelineResumeRequest`, `buildPipelineResumePlan` | `Plan`, `ResetPhase`, `Resumed`, `ClearResume` |
| `evaluateBlockedTaskState`; recovery and `reapExpiredLeases` | `Join`; `Reap` |
| operator, process | `Ask`, `Decide`, `Crash` |

Abstracted: the run of a claimed phase is a claim and an end, since what lies
between is `TaskLifecycle`; a dependency join is one step, which is what
`JoinsAtomically` says of `DependencyJoin`; recovery and the lease reaper are one
step. Summaries, result documents, corrupt specs, invalid decisions and the
phases' own cancellation tags are left out. There is one pipeline, and a phase is
decided on once, as an `approval-decision` stays in its namespace. `Renew` writes
the parent while it is decomposed, as it does any claimed task: it names no
version and takes the operator's tags with it.

### ManagedCheckout

A commit is the set of changes it holds over the base; a change belongs to the
task whose agent made it. `head`, `branches`, `tree` are the local checkout;
`remote` and `prs` the origin; `status`, `pub`, `outcome`, `record` what Munin
holds of a task; `worker` the dispatcher, `operator` the processes of
`recover:publication`.

| code | actions |
|---|---|
| `prepareManagedCheckout` | `CheckoutTaskBranch`, `VerifyCleanCheckout`, `RecoverCleanCheckout`, `Refuse` |
| the agent (external) | `RunReader`, `RunMutator` |
| `finalizeTaskBranch`, `createPullRequest` | `AutoCommit`, `CountCommits`, `Push`, `CreatePullRequest` |
| `pollOnce`, the tail | `PersistPublicationFailure`, `FinalizeStatus`, `WriteStructured` |
| `recoverStaleTasks`, resume of a phase | `CrashAndRecover`, `Resume` |
| `recoverPublicationForTask` | `Start`, `Verify`, `PushAgain`, `CreateAgain`, `NoteOutcome`, `PatchStructured` |

Git, GitHub and the agent are external: an agent commits some of its changes and
leaves others, on the branch it was given or on one of its own; a command that
fails may have been applied. The contamination marker gates nothing and is left
out. `hugin.service` sets no `KillMode`, so agents die with the dispatcher.

### AgentRun

One task that was claimed, its runtime, and the process group it owns: `group` is
what the system knows (leader, descendants, what signals they obey), `own` what
`OwnedProcessLifecycle` knows of it. The branches of `pollOnce` for each runtime
are `Start…`, `RefuseRun`, `FallBack`, `OllamaEnds`, `ClaudeSays`, `ClaudeEnds`,
`TimeOut`, `ExitSeen`, `Settle`; the life of the group is `SpawnSeen`,
`ErrorSeen`, `SpawnWaitOver`, `ProbeGone`, `GraceOver`, `KillWaitOver`,
`CleanupFailureSeen`; around them `AskCancel`, `Watch`, `Shutdown`, `Exit`. The
marking and waiting phases of the shutdown and its 30 s hard deadline are one
action (the waits add up to 17 s and never reach it). The reuse of process ids,
partial results and the second preflight of a one-shot sample are left out;
EPERM is folded into a group that ignores every signal.

### Orchestrator

`exec` is `runOrchestratorTask` (guard, confidence source, race with the timeout),
`engine` is `runOrchestration` (plan, work, verify, synthesize), `workers` and
`piGroup` are the worker of each subtask and its process group. Parsing a plan
gives one to `MaxSubtasks` subtasks or the single fallback; the confidence source
names any subtasks or none; the guards before a Pi launch are one refusal.
Prompts, costs, warnings, token caps and read-only Pi turns are left out; what
groups do after a signal is `AgentRun`'s.

### Delegation and QualityLedger

`entries` and `reserved` are the `IdempotencyIndex`; `call` and `poll` the
handlers of submit and await; `task`, `result`, `obs` what Munin holds; `wire`
writes whose caller has given up and which Munin may still apply. `bind`,
`binds`, `health`, `listener` and `stopping` are `startBrokerWithRetry` and the
port. `Submit`, `Create`, `CreateFails`, `Compare` are `createSubmitHandler`;
`Poll`, `Collect`, `NoteReads`, `NoteWrites` are `createAwaitHandler` and
`recordAwait`; `Restart` drops everything a process held. There is one principal;
reservations do not lapse; leases, lists, models and friction over HTTP are left
out. In `QualityLedger` `doc` is the feedback entry of one task; `Rate`, `Read`,
`Write`, `LateWrite` are `/v1/delegate/rate` and `writeQualityReceiptWithFactory`, with
`FoldReceipt`, `Build` and `Summary` the functions of `quality-receipt.ts`; `Rerun`
replaces the result that is rated. The code tries a write three times, the
instance twice.

### RExact

`journal[p]` keeps of a proposal's journal its tail (phases never repeat) and what
the prepared record and the unknown entry bind; `claim`, `owner`, `ledger`,
`kill`, `watch` are the protected services; `target` and `snaps` the configuration
store. `call[c]` is a controller at a point of `applyRExactProposal` (`Submit`,
`Admit`, `Snapshot`, `Prepare`, `Confirm`, `Recheck`, `Replace`, `Write`, `Look`,
`Await`, `Release`) or of `recoverRExactAttempt` (`Load`, `Claim`, `Reload`,
`Posture`, `Reconcile`, `Restore`, `Narrow`). `Raise` says where an exception at
each point leads. A signature, digest or clock whose check fails is a fault.

### FrictionOutbox

`files` is the directory with its quarantine: a file is its place, its report and
the unique part of its name. `ag[a]` is a call of a process: `Enqueue`, `Decide`,
`Open`, `Fsync`, `Place`, `Await`, `Tidy` (enqueue), `Replay`, `ReplayOne`,
`Send` (replay), `RecoverTemp`, `Expire`, `RecoverClaim`, `Trim`, `Untrim` (the
parts of `runMaintenance`), with `Claim`, `Link`, `Drop`, `Shelve` the operations
on files. `Init` includes what a dead process has left. A listing is one step, a
part of the maintenance with nothing to do is merged with the next; bounds in
bytes, foreign and damaged files and `status()` are left out. The wait for a
matching temporary file is dead code, and an unfinished temporary file stays and
counts for ever; both are in the model as they are in the code.

### LearningRegistry, LearningAttempt, Experiments

`LearningRegistry`: `ev` are the immutable events, `marks` the high-water
documents with their members, `statements` and `latest` the period statements.
`Probe`, `Create`, `BumpRead`, `Bump` are `appendRegistryEvent`; `Finish`,
`Capture`, `Tag` the capture of an ended task; `Ingest` and `Amend` receipts and
corrections; `Close` … `Swing` the period close; `Dies` a call that ends with its
write applied or not. A reference of an attempt is treated like a submission, and
`recomputeChain` agrees with the store; receipt documents and truncated listings
are left out, and of partial statements, which nothing reads, none is kept.

`LearningAttempt`: `rows` are the create-only rows of each attempt (start, replay
payload, prepared, outcome), `plan` and `eresult` the micro-experiment, `wire` and
`admitted` the gateway. A worker has a base lane (`Claim` … `Enqueue`, or
`Recover` …) and a shadow lane. Tasks are eligible and authenticated; status and
structured result are one step with a variant for a failure between them; whether
the queue is full is a free choice.

`Experiments`: `champ`, `exps`, `index`, `summary` are the documents of one scope
and change axis; `Load` … `Summarize` are a tick, `Observe`, `Rate`, `Promote`,
`Crown`, `Swap`, `Mark` the store. The calls of one process on one experiment are
serialised by `withLock`, so clients stand for processes; a lost swap is the same
call over again.

## Runs

| run | question | bounds |
|---|---|---|
| `core` | Does one dispatcher, with crashes, signals, lost answers, failed calls and cancellation at any point, keep its checkpoint, deliver what it must and settle the task for good? | 1 task (a pipeline phase with a manifest), all four policies, changing at restarts, 2 attempts, 1 fault |
| `two_workers` | Do two dispatchers keep the task's ticket, and is the loser of a checkpoint fenced off? | 1 task, policy `require`, no faults; leases lapse at any time |
| `graph` | Does no gated phase run unapproved, no completed phase go back, no phase start under a cancelled parent, is every request answered; are joins atomic and do they resolve? | 3 phases in a line, one gated, one lenient, listed out of order, 1 dispatcher, 1 fault, 3 requests; 4 tasks and a missing name, limit 2, 1 crash, 1 cancelled task |
| `dispatch` | Is what runs what was assessed and signed, does private work stay home, do groups keep their order, is every pending task taken up? | 2 tasks in one group with 6 drafts, 2 dispatchers, one strict, 1 change |
| `execution` | Does no task publish another's work, is paid work kept and every failed publication resolved; is every process group accounted for and every run ended; is there one writer at a time, are answers sound, and is nothing sent after an abort? | 2 tasks, 1 change each, 2 recoveries, 1 fault, 1 resume; every runtime and temper; 2 subtasks, 2 slots, 1 at the gateway, 1 retry |
| `delegation` | Is every answer to a submission right, is what the broker tells true, and is evidence kept? | 1 key, 2 payloads, 2 sessions (1 kept), 2 submissions, 2 polls, 2 processes, 1 fault |
| `quality` | Does the ledger stay sound and grow only? | 3 calls, 2 reviewers, 2 verdicts, 2 results, 2 tries, 1 fault |
| `rexact` | Does an attempt hold its claim, end restored or narrowed, and give the claim back? | 2 proposals (one for the candidate of the other), 2 calls, 2 authorizations, 1 movement of the kill switch, 1 snapshot, 2 faults |
| `friction` | Is no report lost, and does the directory drain? | 2 reports (one a code-health request), 2 processes, room for 1 entry, 1 enqueue each, 1 fault |
| `registry` | Is what is captured counted, does a certified statement leave nothing out, do captures settle? | 2 ended tasks, 2 conflicting receipts, 1 amendment, 1 close, 2 tries, 1 fault |
| `attempt` | Is evidence grounded, is a shadow sent once and believed only when proved, does the experiment settle? | 2 workers, 2 runs, 1 fault |
| `experiments` | Does only the challenger of an experiment that won against the reigning configuration succeed it, do runs stay, and is what is decided summarised? | 4 experiments (two rivals, one packaged anew, one that leads back to their champion), 2 pools, 2 clients, 1 fault |

Why the bounds are enough. In `core` and `two_workers` the activities of a process
meet on one task. Two tasks of one process interfere only through `currentTask`
and `currentCancellation`; that takes an answer of the watch that comes late. Two
attempts give a first, a retried and an exhausted delivery. In `two_workers` a
lapsed lease with its owner still alive stands for the slow owner, which is what
the compare-and-swap is there for, so that faults add states and no new order of
writes. In `graph` the diamond has a task with two dependencies that end apart,
one lenient, one refused; three requests are a cancel, a resume and another of
either before the first is answered; the phases have one that starts as pending,
one that waits for a decision, and one that goes on without it and comes before
it in the sweeps. In `dispatch` one change falls into every gap between two
checks; a second task is what the first may overtake. In `execution` the second
task finds what the first has left; two recoveries overlap; two subtasks are what
it takes to have a writer too many. In `delegation` and `quality` two calls race
on one document, one process ends and its last write comes late. In `rexact` two
faults give a crash in the recovery from a crash. In `friction` one entry of room
makes every enqueue meet the bound. The theorems below carry the safety
properties they name past every one of these bounds.

`two_workers`, `delegation` and `quality` use symmetry and check no liveness.
`graph` and `execution` join two and three independent systems, one in each
behaviour (`part`), so that one run asks what belongs to one subject.

`WorkStands` (`CompletedKept` and `QuietAfterCancel`) is claimed for one
dispatcher. With two it does not hold: `cancelCreatedChildren` writes the phases
without a version, over one that the other dispatcher has completed, and a
cancellation of the parent answered by one while the other decomposes it ends
before the last phases are written. `DisarmedRestored` is claimed
for candidates that are documents of their own: a second proposal of a candidate that
was rolled back brings it back as it is meant to. That no candidate is the document in
force at first, or leads back to it, is so in the store: the digest of a candidate
covers the digest of its base (`hugin-config-adapter.ts`, `candidateBody`). And it is
claimed without calls that overlap (`Overlap = FALSE`).

`experiments` is checked for deadlock; in the other runs the
system stops when all is settled or its bounds are reached (no model polls an
empty queue), and the cfg says so.

### Fairness

`TaskLifecycle`: the poll loop, the reapers' timers, startup after death
(systemd, `Restart=always`) and the end of every execution, delivery and request
(all have timeouts in the code) go on; a lease lapses in time. Nothing is assumed
of operators, of renewals being sent, of the watch seeing a tag, or of failures.
`DependencyJoin`: scans go on, and a pending task ends in the end; that one is
strong fairness, since the client that ends it is scanning at times. `Pipeline`:
the poll loop takes its next step whatever that is, tasks nobody runs are reaped,
and a join that is possible again and again, between one handler and the next,
happens (strong fairness: every fifth poll and every end of a task scans).
Operators need never decide, nor ask. `Dispatch`: dispatchers keep polling, and
decisions that were made are applied. `ManagedCheckout`: the dispatcher goes on,
and an operator runs the recovery of a failed publication again until it is
resolved. `AgentRun`: timers fire, events arrive, the branch goes on; nothing is
asked of the group itself. `Orchestrator`: every call and wait is bounded by a
timer. `RExact`: calls go on, watches end, and a proposal whose attempt is not
over is submitted again (the controller runs from a timer). `FrictionOutbox`:
only servers, which replay at intervals, are fair. `LearningRegistry`: the poller
captures and sweeps pending captures; `LearningAttempt`: workers go on and come
back after a crash; `Experiments`: the timer of the cadence ticks.
`Delegation` and `QualityLedger` assume nothing and promise no liveness.

## Proofs

`tlapm` checks every theorem for all values of the constants, from the
assumptions the modules name (`ASSUME …Assumption`), which TLC evaluates on every
run of a module that extends them. The proofs have one shape: an inductive
invariant, of which TLC was asked first, a lemma per part of it with one step per
action, and a last step by `PTL`. The theorems a reader should know of are listed
in `PROJECT.json`.

### TaskLifecycleProofs

From the assumptions named in `TaskLifecycle` alone: any tasks, dispatchers, policies,
retries and faults.

* `Typed`, `TypeCorrect`: `Spec => []TypeOK`. Typing alone is not inductive: that a
  write names a task needs that an activity at that point of its code has one.
  `ITyped` adds this (`Owning`: a poller between claim and release is on
  `currentTask`; `Working`: a sweep in a terminalizer has a job).
* `AtMostOneRun`: `Spec => []RunOnce`. `IOnce` says that a pending task has not
  been started, and that a poller about to claim with a current read is looking at
  a pending task. The step is a case analysis on what a step does to status and
  runs: `StepKind` shows that it keeps both, moves a task without returning it to
  pending, or begins the task's one run from pending.
* `ImplementsOnce`: `Spec => TakenOnce`, the refinement of `TaskOnce`, from the
  same invariant and `StepKind`.
* `AlwaysCheckpointSafe`: `Spec => []CheckpointSafe`. The heart of `ICkpt` is that a
  failure path which may still write has read a status without a checkpoint: any
  write in between makes its read stale (`Undecided`, `Untouched`). That needs that
  a pending task never carries `delivery:pending` (`Candidate`), and, for
  `OneDeliverer`, where each sweep can be (`Shape`, `Apart`): the reapers only hold
  tasks that were claimed and are not the current one; the lease reaper reconciles
  only under policies other than `defer`, the retry reaper only under `defer`, and
  startup recovery only while booting, before there are timers; a policy changes
  only over a restart.
* `AlwaysFenced`: `Spec => FencedOwner`. From its checkpoint on, an owner whose read
  is current is the owner the status names (`Fenced`).
* `AlwaysDelivered`: `Spec => DeliveredWhenRequired`. A verdict about to be written
  is backed by a delivery, or by a policy that does not require one (`Judged` for
  the owner, `Redone` for a reconciler).

The proof of `AlwaysCheckpointSafe` found that some `CASE` expressions of the model had
arms that overlap, which leaves the choice between them open; the arms are
disjoint now, as the conditions of the code are.

### TaskGraphProofs

* `TypeCorrect`: `Spec => []TypeOK`, for any definition of a pipeline. The facts it
  rests on are that a walk meets phases of the definition (`WalkFacts`) and what a
  write, a swap or a return does to the state.
* `OnlyApprovedRun`: `Spec => GatedRunsApproved`, with any number of dispatchers. A
  dispatcher about to claim a gated phase has found it approved
  (`ClaimsApproved`); an approval is not withdrawn (`ApprovedStays`), and nothing
  but a claim writes `running` on a phase (`OnlyClaimStarts`).
* `WorkAlwaysStands`: `Spec => WorkStands`, for one dispatcher (`OneWorker`) and any
  pipeline, faults and requests. A handler writes by what it has read some steps
  before, while operators ask, joins release phases and the reaper fails them.
  `Relies` says for each of its points what still holds of it: a status it is
  about to swap, and that is current, still waits; a phase it executes is still
  running; while the decomposition may still write or clean up no phase has run; a
  sweep that found a phase ended finds it so at the end; a plan to reset a phase
  that was absent still finds it absent. `CancelledRests` is the rest of the
  inductive invariant: when a cancellation is answered, every phase is over.
  `OneInv` was first checked by TLC on the instance of `graph`, where it holds in
  each of its 563,069 states. With a second dispatcher it is false, as said under
  "Runs".
* `ImplementsJoin`: `JoinSpec => JoinsAtomically`, the refinement of `AtomicJoin`.
  A client that has read its task to be blocked, and whose read is current, still
  finds it so (`Held`); what it has read of dependencies that ended or that are
  missing stays true (`Seen`), since an end is final and a submitted task's
  dependencies have been submitted (`Submitted`). That last fact is about
  submitters: without it a dependency read as missing could appear before the swap.

### FrictionOutboxProofs

* `TypeCorrect`, `NothingLostAlways`: `Spec => []NothingLost`, for any processes,
  files and faults. `IInv` adds what a call knows of its file at each point
  (`Control`) and that a report an enqueue is about to call stored has a file that
  nobody else may remove (`Covered`).
* `LastCopyKept`: no step removes the last file of a report that is not settled.

### RExactProofs

* `ClaimAlwaysHeld`: `Spec => []ClaimHeld`, with overlapping calls too. `Good(call)`
  says what a call at each point may rely on: the entry it knows is in the journal
  (`Known`), and a call that may still write holds the claim or finds the journal
  ended (`Safe`).
* `NarrowedBeforeEnd`: `Spec => NarrowedFirst`.
* `StaysRestored`: `Spec => []DisarmedRestored`, when calls of a proposal do not
  overlap (`Serial`) and the candidates are documents of their own, none of them the
  one in force at the start (`Novel`). Calls of a proposal are then alone with its
  journal (`Alone`); a candidate in force, or one that an attempt may bring back, was
  brought by its own proposal (`Brought`); and no attempt in progress has its
  candidate in force over one that has been rolled back (`Buried`).

### ExecutionProofs

The three parts of the `execution` run, which share no state: `AgentRun`,
`Orchestrator` and `ManagedCheckout`.

* `RunTyped`, `GroupsAlwaysAccounted`: what the dispatcher has recorded of a group
  agrees with it (`Linked`: a signal goes only to a child that was seen, a cleanup
  that went well has seen it gone), a run that goes on is at a point of its
  runtime (`Running`), and an exit has terminated what it owned (`ShutDown`).
* `EngineTyped`, `AlwaysSound`, `AlwaysQuiet`: for any subtasks, slots and retries.
  `Phases`, `Kinds` and `Turns` say which workers can be where in each phase of the
  engine; the semaphore of the writers gives `OneWriter`.
* `CheckoutTyped`, `AlwaysOwnWork`, `AlwaysAccounted`: `Stored(t)` ties what Munin, the
  origin and the local branch hold of a task together (a pushed branch never
  changes again; a task with a publication tag is completed and never runs again),
  `Worker` what the dispatcher has seen, `Recovering(o)` what a recovery has. The
  proof needs that an agent can change something (`ChunksAssumption`): without, a
  pull request of an empty branch would stand for work.

### DispatchProofs

For any dispatchers, groups, drafts and changes.

* `TypeCorrect`, `AlwaysRunsSafely` (`Spec => RunsSafely`), `AlwaysInOrder`
  (`Spec => InOrder`). While a dispatcher reads, a version that is still the one it
  read stands for a pending task with the document it read (`Reading`); what it has
  claimed runs under its name (`Claimed`), and was accepted (`Accepted`). `Right`
  says what makes an assessment right: it is overridden only on the owner's word or
  on that of the phase's checkpoint, and private when the document is. The first
  assessment is right (`FreshRight`), and one on top of a right one is
  (`AgainRight`), and private with its workspace and its references: an override
  passes over these at admission, and no longer once they are checked again, which
  is why `Assessed` says more from the first check after the claim on. `Ordered`:
  what a listing has not shown of the earlier tasks runs.
* Each action of a poll changes its dispatcher and at most the task that it holds
  (`Turn`, `Moves`), so that what the others know stays true (`Bystander`).

### BrokerProofs

For any keys, payloads, sessions, reviewers, verdicts and calls, any number of
restarts, lapses of the index, failed and late writes, and a clock that moves.

* `AlwaysAnswered`: `Spec => []AnsweredForCause`. A key the index remembers has the
  task of its payload in Munin (`EntryGood`), a call that compares has met a task,
  and a task's submission never changes (`Grows`).
* `AlwaysStands`: `Spec => EvidenceStands`. Every document that is stored, was read
  by a recorder or is on the wire shows what polls were given (`Shows`): a poll's
  answer and the session of a task stay, so that what was true when it was folded
  remains so. A document that was read is the stored one or has a smaller number
  (`Precedes`), so a write that Munin takes because it names the stored number was
  made from the stored document, to which it adds (`Adds`).
* `ReceiptsAlwaysStand`: `LedgerSpec => ReceiptsStand`. `ReceiptsSound` is not inductive:
  a call that is about to write must have folded its receipt into the ledger that is
  there, or into one that Munin will no longer let it replace (`RateGood`), and so must a
  write that is adrift (`AdriftGood`). So the ledger only grows, by a receipt that
  fits it (`LedgerGrows`), which keeps its rules (`SoundGrows`), what a rater was told
  (`LedgerMoves`), and that of a reviewer's receipts on a result exactly one is not
  replaced, and is the latest (`OneStands`, `StandsGrows`).

### LearningProofs

For the registry: any tasks, receipts, amendments, callers, tries and faults, and any
sequence of at least two kinds, the first being the submission and the last the
outcome. It is assumed that a captor is not an intake or an amender too (each is one
kind of call) and that what an event is written with is not the sign of its absence.
For the attempt: any workers, runs and mishaps.

* `RegistryAlwaysSound`: `Spec => []RegistrySound`. Events and members are only added
  (`Grown`), so what a call knows stays true (`GoodStays`). A call that counts an event
  has it written, and read the document without it (`AppendGood`); a capture has
  counted every event that is not left to do, so its tag says what is so (`TagGood`).
  What a close still owes is of a counter to come, and has been read with its
  counter once that was checked (`CloseGood`): after the last counter, nothing is.
* `AttemptAlwaysSound`: `AttemptSpec => []AttemptSound`. What a lane relies on at each
  of its steps is in the rows, at the gateway, in the task's result or in the plan
  (`Knows`), and those only grow (`Advanced`), so it stays true whatever other lanes,
  crashes and claims do (`KnowsStays`). What is stored is so when it is written and
  never rewritten (`StoreGood`): a shadow is the plan's, sent after its baseline.
* `RunsAlwaysKept`: `ScopeSpec => RunsKept`, and `ChampionAlwaysSucceeds`:
  `ScopeSpec => ChampionSucceeds`, from `ScopeInv`: an experiment that a call has read
  and nobody has written since still runs, or is still ready, so that what the call
  writes adds a run or rates one for the first time (`AskGood`); what a tick has
  packaged is not there before it stores it (`TickGood`). Every step is one of a few
  (`StepMoves`), and each keeps the runs. Both suppose one tick at a time, as the
  service of type oneshot runs it: two ticks may store the same experiment twice
  (`create` names no version).
  The second holds of configurations in a circle too: a call that promotes has read
  its experiment when it was ready, so it has won, and unless it is still ready it was
  promoted meanwhile; a champion names the experiment it came from (`Credited`), which
  is then another one, so that one has led back (`LedBack`).

### What is only model-checked

* Liveness, which the prover does not reach: `SettlesForGood`, `PipelineSettles`,
  `JoinsResolve`, `TakenUp`, `PublicationResolved`, `EverythingEnds`, `RunsEnd`,
  `Reclaimed`, `Drained`, `PendingSettles`, `ExperimentSettles`, `Concludes`.

Every safety property the runs check is stated by a theorem too, where needed under a
hypothesis named above.

`ENABLED` and induction over data are not used: what a walk or a fold computes is
stated by its step.

## Where the code and its documents disagree

The models do what the code does. While they were written the following
statements of the source, its comments or its documents were found not to hold of
it; no property claims them.

Task lifecycle

* A lease renewal that was sent before `stopLeaseRenewal` lands after the
  checkpoint, names no version, and strips `delivery:pending` (`index.ts:3396`).
* A cancellation during delivery aborts the delivery but also takes the owner's
  `updated_at`: its cancelled finalization is lost, the task stays running with
  `delivery:pending`, and a reconciler may deliver again and complete it
  (`index.ts:3652`; `docs/testing/delivery-recovery-e2e.md:79`: "**Expect:**
  terminal `cancelled` with the `delivery:*` markers preserved").
* The cancellation watch reads the tag of the current task and, when the answer
  comes, cancels the task that is current by then (`index.ts:3444`).
* The signal handler leaves a checkpoint for startup recovery, having aborted its
  delivery; the poller then judges the aborted delivery and, under `require`,
  fails the task before the process ends (`index.ts:9070`).

Pipelines

* A failure after the commit of a decomposition (of the parent's result, or of the
  commit's answer) runs the cleanup for one before it: the phases are cancelled,
  and the parent, whose version has moved, stays completed
  (`pipeline-dispatch.ts:208`; its comment at 106: "Best-effort cleanup: the parent
  failure will still surface").
* A resume resets a phase under the same task id, so its former
  `approval-decision` is taken for the new attempt
  (`docs/phase4-human-gates-engineering-plan.md`: "A resumed phase that gets reset
  to a new attempt must require a new decision").

Dispatch

* The owner's override over private work is admitted before the claim and refused
  at the second check; an approval is not bound to the document it was given for.
* A provenance entry of the process stays behind when the swap of a refusal is
  lost (it is deleted on other paths only).
* With several pages of a query a task bumped between two pages is in neither
  listing (`munin-pagination.ts:66`).

Checkout and publication

* Failures of `git add` and `git commit` are ignored (`task-helpers.ts:1203`): the
  run counts as one without changes, and what the agent left is wiped by the next
  recovery of the checkout. `WorkKept` excepts these tasks (`uncommitted`).
* A resumed task whose branch exists is always refused as contaminated;
  conflicting leftovers make `checkout -b` fail until an operator cleans up.
* A crash between the status and `patchStructuredResultForRecovery` leaves the structured
  outcome `publication-failed` under a recovered tag; one between the failed push
  and the terminal status leaves a failed task without the tag that recovery looks
  for.

Executors

* A cancelled ollama task without a host falls back to Claude under a controller of
  its own, which nobody aborts; executors other than Codex start un-aborted when
  the cancellation was taken between the claim and the start; a request may still
  start after the shutdown began.
* A late write of a partial result may overwrite the final one ("callers must ensure
  a late write cannot overwrite terminal state"; the write of the SDK's `onTimeout`
  is not awaited).
* An abort by cancellation is reported as a timeout by the SDK and opencode
  executors.
* On a timeout of an orchestrated task the task completes, and its checkout is
  published, while a Pi group is still dying (`owned-process-lifecycle.md:24`:
  "Runtime completion awaits the bounded group cleanup").
* Savings and verdicts can be counted twice: a retried write is recognised by the
  last run's nonce only (`savings-store.ts:84`: "monetary counters must not
  double-count").

Broker

* The first write of an await observation carries no version, so of two first
  writers the staler one can erase a proven hand-off (`task-store.ts:322`;
  `EvidenceKept` excepts first writes).
* "Same key, after window → new task accepted" (`idempotency.ts:8`): the task id is
  derived from the key and never expires in Munin; the answer is a conflict.

R-exact

* The snapshot an attempt needs can be pruned by later proposals
  (`hugin-config-adapter.ts:157` and its comment), and with overlapping calls a
  mutation may happen under another's claim ("The claim is held through
  terminalization").
* A recovery that narrowed the target for one end of its attempt can end it
  otherwise: the `revert` entry whose lost answer made it give up is there after
  all, and the next recovery goes on from it
  (`docs/autonomy-r-exact-controller.md`: "It never substitutes a differently bound
  terminal state").

Learning

* A reference or outcome of a receipt may be written whose submission is another's
  (`external-receipt-intake.ts:307`; `docs/external-receipt-intake.md:122`).
* The recovery takes the newest start for the task's, a shadow's included;
  `reapExpiredLeases` publishes a failed result without an outcome of a prepared
  attempt (`docs/learning-task-handshake.md`, step 7); a second worker's
  reconciliation can declare the experiment invalid while its shadow runs; a probe
  of a request the gateway never saw may be admitted.
* The experiment document and the champion's baseline are created without a version
  ("cross-process races are still guarded by Munin CAS", `experiment-store.ts`):
  overlapping creates of two processes can wipe observations or reset a champion
  (one cadence runs at a time in the instance). A tick that dies between create and
  index while the pool grows leaves an experiment nobody concludes; an experiment
  promoted before a tick sees it gets no summary; a promotion retried after a crash
  with another reference leaves champion and experiment with different ones.
* "the monotonic move already happened" (`experiment-store.ts:501`): the swap of the
  champion compares the champion's version only. When a `promote` has read its ready
  experiment and waits, another call promotes that experiment, and then one that leads
  back to the old configuration, the first call finds the champion it expects and
  crowns the challenger of an experiment that is promoted already; only its last
  write is refused. The run `experiments` has this behaviour: `ChampionSucceeds`
  allows it (`LedBack`) and nothing else; without `LedBack` TLC shows it violated.

## Not modelled

* The retired broker worker, which is not wired in; the MCP server and
  command-line tools, thin clients; parsers, scanners, schemas, signatures and
  digests, which the models reduce to their verdicts; formatting, reports, traces.
* The session, slot and back-off of the Munin client and its pagination, the
  authentication alarm, the stores of savings and verdicts, skill bindings and
  pipeline summaries: see the plan. Hazards there have a note instead of a property.

## Plan

1. `PipelineSummary`, `MuninClient` (retry and pagination), `RunStores` (savings and
   verdicts), `AuthAlarm`, `RouteBinding`: small modules, in this order.
2. Their theorems; and how much of `WorkStands` remains with several dispatchers.
