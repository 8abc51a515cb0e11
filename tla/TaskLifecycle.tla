---------------------------- MODULE TaskLifecycle ----------------------------
(***************************************************************************)
(* The life of a dispatcher task: one Munin entry tasks/<id>/status that   *)
(* the poller, its lease renewal, its cancellation watch, the lease        *)
(* reaper, the delivery-retry reaper, startup recovery and the shutdown    *)
(* handler of one or more dispatcher processes all write (src/index.ts).   *)
(*                                                                         *)
(* A Munin write may carry the updated_at its author last read; it is      *)
(* then rejected when the entry has changed.  "fresh" is the set of actors *)
(* whose last read of the status of their task is still current: a write   *)
(* to that status removes every other actor of the task.  Requests of one  *)
(* Munin client are serialised; those of different clients interleave.     *)
(***************************************************************************)
EXTENDS Naturals, FiniteSets

CONSTANTS
    Tasks,      \* task namespaces
    Children,   \* the tasks that are phases of the one pipeline modelled
    Manifest,   \* the tasks that declare an artefact manifest
    Workers,    \* dispatcher identities, hugin-<host>: stable over restarts
    Policies,   \* HUGIN_DELIVERY_POLICY values considered
    MaxTries,   \* HUGIN_DELIVERY_RETRY_MAX_ATTEMPTS
    MaxFaults,  \* bound: crashes, shutdowns, lost answers and failed calls
    None        \* no task, no worker

ASSUME SubsetAssumption == Children \subseteq Tasks /\ Manifest \subseteq Tasks
ASSUME PolicyAssumption == Policies \subseteq {"off", "warn", "require", "defer"}
ASSUME BoundAssumption == MaxTries \in Nat /\ MaxFaults \in Nat
ASSUME NoneAssumption == None \notin Tasks /\ None \notin Workers

Threads == {"poll", "reap", "retry", "stop"}
Actors == Workers \X Threads
Poll(w) == <<w, "poll">>
Reap(w) == <<w, "reap">>
Retry(w) == <<w, "retry">>
Stop(w) == <<w, "stop">>

Terminal == {"completed", "failed", "cancelled"}
Lives == {"pending", "running"} \cup Terminal
Marks == {"none", "pending", "verified", "failed"}    \* the delivery:* tag
Results == {"none", "ok", "fail", "cancelled"}

(* What an attempt came to.  "warn": complete although delivery failed;    *)
(* "unindexed": fail although delivery succeeded (research indexing);      *)
(* "defer": ask the retry budget.                                          *)
Verdicts == {"none", "ok", "warn", "unindexed", "fail", "cancelled", "defer"}

LifeOf(v) == CASE v \in {"ok", "warn"} -> "completed"
               [] v = "cancelled" -> "cancelled"
               [] OTHER -> "failed"
MarkOf(v) == IF v \in {"ok", "unindexed"} THEN "verified" ELSE "failed"
ResultOf(v) == CASE v \in {"ok", "warn"} -> "ok"
                 [] v = "cancelled" -> "cancelled"
                 [] OTHER -> "fail"

VARIABLES
    \* Munin
    status,     \* tags of tasks/<id>/status
    result,     \* what tasks/<id>/result says
    tries,      \* attempts in tasks/<id>/delivery-retry
    parent,     \* the pipeline parent: cancel-requested, or settled
    flight,     \* the lease renewal a worker has sent, on its way
    \* a process
    proc,       \* down, booting (startup recovery), up, stopping
    cur,        \* currentTask
    seen,       \* currentCancellation is set
    watch,      \* the task whose cancel tag the watch has read, answer on its way
    armed,      \* leaseRenewalTimer is set
    watching,   \* cancelWatchTimer is set
    \* its concurrent activities
    pc, job, val, base, todo,
    fresh,      \* actors whose read of job's status is current
    \* configuration
    policy,     \* deliveryPolicy of each process
    \* history
    runs,       \* times a task's agent was started
    delivered,  \* tasks whose artefacts reached their target
    asked,      \* tasks an operator asked to cancel
    faults

munin == <<status, result, tries, parent, flight>>
process == <<proc, cur, seen, watch, armed, watching>>
activity == <<pc, job, val, base, todo, fresh>>
history == <<runs, delivered, asked, faults>>
vars == <<munin, process, activity, policy, history>>

-----------------------------------------------------------------------------
(* Tag sets.  buildLeasedStatusTags and buildTerminalStatusTags keep the   *)
(* delivery:* tag they are given and drop cancel-requested; a terminal set *)
(* has no claimed_by and no lease_expires.                                 *)

Leased(w, d) == [life |-> "running", owner |-> w, live |-> TRUE,
                 cancel |-> FALSE, deliv |-> d]
Ended(l, d) == [life |-> l, owner |-> None, live |-> FALSE,
                cancel |-> FALSE, deliv |-> d]

CancelAsked(t) == status[t].cancel \/ (t \in Children /\ parent = "cancel")

(* A write of the status of t; the actors in keep learn its updated_at.    *)
PutBlind(t, s, keep) ==    \* mutant: updated_at is not compared
    status' = [status EXCEPT ![t] = s] /\ fresh' = fresh \cup keep
Put(t, s, keep) ==
    /\ status' = [status EXCEPT ![t] = s]
    /\ fresh' = {a \in fresh : job[a] # t} \cup keep

Goto(a, l) == pc' = [pc EXCEPT ![a] = l]
Take(a, t, l) == /\ pc' = [pc EXCEPT ![a] = l]
                 /\ job' = [job EXCEPT ![a] = t]
Fault == faults < MaxFaults /\ faults' = faults + 1

-----------------------------------------------------------------------------
(* The operator *)

(* The operator tags a task cancel-requested, once.                        *)
RequestCancel(t) ==
    /\ t \notin asked
    /\ asked' = asked \cup {t}
    /\ Put(t, [status[t] EXCEPT !.cancel = TRUE], {})
    /\ UNCHANGED <<result, tries, parent, flight, process, pc, job, val, base,
                   todo, policy, runs, delivered, faults>>

(* The operator tags the pipeline parent cancel-requested, once.           *)
RequestParentCancel ==
    /\ Children # {} /\ parent = "open"
    /\ parent' = "cancel"
    /\ UNCHANGED <<status, result, tries, flight, process, activity, policy, history>>

-----------------------------------------------------------------------------
(* pollOnce: read the candidate, then claim it by compare-and-swap *)

(* pollLoop looks at shuttingDown once per round: a round under way at a    *)
(* signal is the last.                                                     *)
Polled(w) == IF proc[w] = "stopping" THEN "over" ELSE "idle"

(* The candidate is still pending and not cancelled: it will be claimed,   *)
(* or failed because it cannot be parsed or is refused.                    *)
ClaimRead(w, t) ==
    /\ proc[w] \in {"up", "stopping"} /\ pc[Poll(w)] = "idle"
    /\ status[t].life = "pending" /\ ~status[t].cancel
    /\ \E l \in {"claim", "fail"} : Take(Poll(w), t, l)
    /\ fresh' = fresh \cup {Poll(w)}
    /\ UNCHANGED <<munin, process, val, base, todo, policy, history>>

(* The claim wins, and the task is current at once; or it is rejected.     *)
ClaimCas(w) ==
    LET t == job[Poll(w)] IN
    /\ pc[Poll(w)] = "claim"
    /\ \/ /\ Poll(w) \in fresh
          /\ Put(t, Leased(w, status[t].deliv), {})
          /\ Goto(Poll(w), "run")
          /\ cur' = [cur EXCEPT ![w] = t]
          /\ seen' = [seen EXCEPT ![w] = FALSE]
          /\ armed' = [armed EXCEPT ![w] = TRUE]
          /\ watching' = [watching EXCEPT ![w] = TRUE]
          /\ runs' = [runs EXCEPT ![t] = @ + 1]
          /\ UNCHANGED job
       \/ /\ Poll(w) \notin fresh
          /\ Take(Poll(w), None, Polled(w))
          /\ UNCHANGED <<status, fresh, cur, seen, armed, watching, runs>>
    /\ UNCHANGED <<result, tries, parent, flight, proc, watch, val, base, todo,
                   policy, delivered, asked, faults>>

(* The claim is applied but its answer lost: the client's retry meets a    *)
(* changed updated_at and the poller takes the claim for lost.             *)
ClaimAckLost(w) ==
    LET t == job[Poll(w)] IN
    /\ pc[Poll(w)] = "claim" /\ Poll(w) \in fresh
    /\ Fault
    /\ Put(t, Leased(w, status[t].deliv), {})
    /\ Take(Poll(w), None, Polled(w))
    /\ UNCHANGED <<result, tries, parent, flight, process, val, base, todo,
                   policy, runs, delivered, asked>>

-----------------------------------------------------------------------------
(* Lease renewal: leaseMunin.write without updated_at, tags of the claim   *)

RenewSend(w) ==
    /\ armed[w] /\ cur[w] # None /\ flight[w] = None
    /\ flight' = [flight EXCEPT ![w] = cur[w]]
    /\ UNCHANGED <<status, result, tries, parent, process, activity, policy, history>>

(* It lands whenever Munin serves it: clearInterval does not recall it, and *)
(* neither does the death of its sender.  (One never sent stands for one    *)
(* lost on the way.)                                                        *)
RenewLand(w) ==
    /\ flight[w] # None
    /\ Put(flight[w], Leased(w, "none"), {})
    /\ flight' = [flight EXCEPT ![w] = None]
    /\ UNCHANGED <<result, tries, parent, process, pc, job, val, base, todo,
                   policy, history>>

(* 120 s pass without a renewal.  No write: updated_at stays.              *)
LeaseLapse(t) ==
    /\ status[t].live
    /\ status' = [status EXCEPT ![t].live = FALSE]
    /\ UNCHANGED <<result, tries, parent, flight, process, activity, policy, history>>

-----------------------------------------------------------------------------
(* The cancellation watch: every 2 s from the claim to the end of delivery *)

Watching == {"run", "check", "ckpt", "ckptRes", "ckptCas", "deliver"}

(* A read that finds the tag, of the task or of its pipeline parent.       *)
WatchRead(w) ==
    /\ watching[w] /\ pc[Poll(w)] \in Watching /\ watch[w] = None
    /\ CancelAsked(cur[w])
    /\ watch' = [watch EXCEPT ![w] = cur[w]]
    /\ UNCHANGED <<munin, proc, cur, seen, armed, watching, activity, policy, history>>

(* Its answer cancels the task that is current by then.                    *)
WatchLand(w) ==
    /\ watch[w] # None
    /\ watch' = [watch EXCEPT ![w] = None]
    /\ seen' = [seen EXCEPT ![w] = @ \/ cur[w] # None]
    /\ UNCHANGED <<munin, proc, cur, armed, watching, activity, policy, history>>

-----------------------------------------------------------------------------
(* The owner, once its agent has returned *)

(* stopLeaseRenewal comes first.                                           *)
ExecDone(w) ==
    /\ pc[Poll(w)] = "run"
    /\ armed' = [armed EXCEPT ![w] = FALSE]
    /\ \E v \in {"ok", "fail"} : val' = [val EXCEPT ![Poll(w)] = v]
    /\ Goto(Poll(w), "check")
    /\ UNCHANGED <<munin, proc, cur, seen, watch, watching, job, base, todo, fresh, policy, history>>

(* currentCancellation, else the tag of the task, else that of its parent; *)
(* then whether this result is to be delivered.                            *)
CheckCancel(w) ==
    LET t == cur[w]
        c == seen[w] \/ CancelAsked(t)
    IN
    /\ pc[Poll(w)] = "check"
    /\ seen' = [seen EXCEPT ![w] = FALSE]
    /\ val' = [val EXCEPT ![Poll(w)] = IF c THEN "cancelled" ELSE @]
    /\ Goto(Poll(w), IF ~c /\ val[Poll(w)] = "ok" /\ policy[w] # "off" /\ t \in Manifest
                     THEN "ckpt" ELSE "res")
    /\ UNCHANGED <<munin, proc, cur, watch, armed, watching, job, base, todo, fresh, policy, history>>

(* The delivery checkpoint: read the status, write the result, then swap   *)
(* the status to running + delivery:pending.                               *)
CkptRead(w) ==
    /\ pc[Poll(w)] = "ckpt"
    /\ fresh' = fresh \cup {Poll(w)}
    /\ Goto(Poll(w), "ckptRes")
    /\ UNCHANGED <<munin, process, job, val, base, todo, policy, history>>

CkptResult(w) ==
    /\ pc[Poll(w)] = "ckptRes"
    /\ result' = [result EXCEPT ![cur[w]] = "ok"]
    /\ Goto(Poll(w), "ckptCas")
    /\ UNCHANGED <<status, tries, parent, flight, process, job, val, base, todo,
                   fresh, policy, history>>

CkptCas(w) ==
    /\ pc[Poll(w)] = "ckptCas" /\ Poll(w) \in fresh
    /\ Put(cur[w], Leased(w, "pending"), {Poll(w)})
    /\ Goto(Poll(w), "deliver")
    /\ UNCHANGED <<result, tries, parent, flight, process, job, val, base, todo,
                   policy, history>>

(* deliverArtifacts: rsync, verify, index; or an infrastructure failure,   *)
(* or a missing or unsafe local file.                                      *)
Deliveries == {"ok", "unindexed", "infra", "local"}
JudgeLeniently(w, k) ==     \* mutant: require is taken for warn
    CASE k \in {"ok", "unindexed"} -> k
      [] k = "local" -> "fail"
      [] k = "infra" /\ policy[w] = "defer" -> "defer"
      [] OTHER -> "warn"
Judge(w, k) == CASE k \in {"ok", "unindexed"} -> k
                 [] k = "local" -> "fail"
                 [] k = "infra" /\ policy[w] = "require" -> "fail"
                 [] k = "infra" /\ policy[w] = "defer" -> "defer"
                 [] OTHER -> "warn"
Reach(t, k) == delivered' = IF k \in {"ok", "unindexed"} THEN delivered \cup {t}
                            ELSE delivered

(* A cancellation seen meanwhile outweighs what the delivery came to.      *)
Deliver(w) == \E k \in Deliveries :
    LET v == IF seen[w] THEN "cancelled" ELSE Judge(w, k) IN
    /\ pc[Poll(w)] = "deliver"
    /\ Reach(cur[w], k)
    /\ seen' = [seen EXCEPT ![w] = FALSE]
    /\ val' = [val EXCEPT ![Poll(w)] = v]
    /\ Goto(Poll(w), IF v = "defer" THEN "budget" ELSE "dres")
    /\ UNCHANGED <<munin, proc, cur, watch, armed, watching, job, base, todo, fresh, policy,
                   runs, asked, faults>>

Retryable(t) == tries[t] + 1 < MaxTries

(* The poll thread's finally block.                                        *)
Release(w) ==
    /\ cur' = [cur EXCEPT ![w] = None]
    /\ seen' = [seen EXCEPT ![w] = FALSE]
    /\ armed' = [armed EXCEPT ![w] = FALSE]
    /\ watching' = [watching EXCEPT ![w] = FALSE]
    /\ val' = [val EXCEPT ![Poll(w)] = "none"]
    /\ Take(Poll(w), None, Polled(w))
    /\ fresh' = fresh \ {Poll(w)}

OwnerDefer(w) ==
    LET t == cur[w] IN
    /\ pc[Poll(w)] = "budget" /\ Retryable(t)
    /\ tries' = [tries EXCEPT ![t] = @ + 1]
    /\ result' = [result EXCEPT ![t] = "ok"]
    /\ Release(w)
    /\ UNCHANGED <<status, parent, flight, proc, watch, base, todo, policy, history>>

OwnerExhausted(w) ==
    /\ pc[Poll(w)] = "budget"
    /\ val' = [val EXCEPT ![Poll(w)] = "fail"]
    /\ Goto(Poll(w), "dres")
    /\ UNCHANGED <<munin, process, job, base, todo, fresh, policy, history>>

(* The result is written before the terminal status.                       *)
FinalResult(w) ==
    /\ pc[Poll(w)] \in {"res", "dres"}
    /\ result' = [result EXCEPT ![cur[w]] = ResultOf(val[Poll(w)])]
    /\ Goto(Poll(w), IF pc[Poll(w)] = "res" THEN "put" ELSE "cas")
    /\ UNCHANGED <<status, tries, parent, flight, process, job, val, base, todo,
                   fresh, policy, history>>

(* finalizeTaskCompletion without a checkpoint: an unconditional write.    *)
FinalPut(w) ==
    /\ pc[Poll(w)] = "put"
    /\ Put(cur[w], Ended(LifeOf(val[Poll(w)]), "none"), {})
    /\ Goto(Poll(w), "tail")
    /\ UNCHANGED <<result, tries, parent, flight, process, job, val, base, todo,
                   policy, history>>

(* With one: a swap against the checkpoint's updated_at; if it is lost,    *)
(* whoever moved the status is left to settle the task.                    *)
FinalCas(w) ==
    /\ pc[Poll(w)] = "cas"
    /\ \/ /\ Poll(w) \in fresh
          /\ Put(cur[w], Ended(LifeOf(val[Poll(w)]), MarkOf(val[Poll(w)])), {})
          /\ Goto(Poll(w), "tail")
          /\ UNCHANGED <<process, job, val>>
       \/ /\ Poll(w) \notin fresh
          /\ Release(w)
          /\ UNCHANGED <<status, proc, watch>>
    /\ UNCHANGED <<result, tries, parent, flight, base, todo, policy, history>>

(* Structured result, log, dependents, journal; the task is current until  *)
(* they are done.                                                          *)
Tail(w) ==
    /\ pc[Poll(w)] = "tail"
    /\ Release(w)
    /\ UNCHANGED <<munin, proc, watch, base, todo, policy, history>>

(* A call that fails throws out of pollOnce; so does a lost checkpoint.    *)
(* The task stays as it is.                                                *)
Executing == Watching \cup {"budget", "res", "dres", "put"}

CkptLost(w) ==
    /\ pc[Poll(w)] = "ckptCas" /\ Poll(w) \notin fresh
    /\ Release(w)
    /\ UNCHANGED <<munin, proc, watch, base, todo, policy, history>>

PollThrows(w) ==
    /\ pc[Poll(w)] \in Executing
    /\ Fault
    /\ Release(w)
    /\ UNCHANGED <<munin, proc, watch, base, todo, policy, runs, delivered, asked>>

-----------------------------------------------------------------------------
(* Sweeps.  Each reads a status that a query returned, decides, and then   *)
(* cancels, fails or reconciles the task.                                  *)

(* processCancellationRequests, and the cancellation branch of pollOnce.   *)
(* A phase of a cancelled pipeline is cancelled here while pending.        *)
CancelRead(w, t) ==
    /\ proc[w] \in {"up", "stopping"} /\ pc[Poll(w)] = "idle"
    /\ \/ status[t].cancel /\ status[t].life \notin Terminal
       \/ t \in Children /\ parent = "cancel" /\ status[t].life = "pending"
    /\ Take(Poll(w), t, "cancel")
    /\ fresh' = fresh \cup {Poll(w)}
    /\ UNCHANGED <<munin, process, val, base, todo, policy, history>>

(* clearCancellationRequest on a terminal task; it swaps what it has just  *)
(* read, so it applies at once or not at all.                              *)
ClearCancel(w, t) ==
    /\ proc[w] \in {"up", "stopping"} /\ pc[Poll(w)] = "idle"
    /\ status[t].cancel /\ status[t].life \in Terminal
    /\ Put(t, [status[t] EXCEPT !.cancel = FALSE], {})
    /\ UNCHANGED <<result, tries, parent, flight, process, pc, job, val, base,
                   todo, policy, history>>

(* The parent is settled as soon as all its phases are terminal.           *)
ParentCancelled(w) ==
    /\ proc[w] \in {"up", "stopping"} /\ pc[Poll(w)] = "idle"
    /\ parent = "cancel" /\ \A t \in Children : status[t].life \in Terminal
    /\ parent' = "settled"
    /\ UNCHANGED <<status, result, tries, flight, process, activity, policy, history>>

(* What becomes of a stale task: its checkpoint is reconciled, or it fails.*)
FailAlways(t) == "fail"     \* mutant: the checkpoint is not looked at
Course(t) == IF status[t].deliv = "pending" THEN "reclaim" ELSE "fail"

(* reapExpiredLeases: running with a lapsed lease and not current here.    *)
(* Under defer a checkpoint is left to the retry reaper.                   *)
ReapGenericOnly(w, t) ==    \* mutant: as before #77, no checkpoint is reaped
    /\ cur[w] # t /\ status[t].life = "running" /\ ~status[t].live
    /\ status[t].deliv # "pending"
MayReap(w, t) ==
    /\ cur[w] # t /\ status[t].life = "running" /\ ~status[t].live
    /\ status[t].deliv = "pending" => policy[w] # "defer"

ReapRead(w, t) ==
    /\ proc[w] = "up" /\ pc[Reap(w)] = "idle"
    /\ MayReap(w, t)
    /\ Take(Reap(w), t, Course(t))
    /\ fresh' = fresh \cup {Reap(w)}
    /\ UNCHANGED <<munin, process, val, base, todo, policy, history>>

(* reapDeferredDeliveries: the query asks for running + delivery:pending,  *)
(* the read that follows only checks delivery:pending.                     *)
RetryQuery(w) ==
    /\ proc[w] = "up" /\ policy[w] = "defer"
    /\ pc[Retry(w)] = "idle" /\ todo[Retry(w)] = {}
    /\ LET q == {t \in Tasks : status[t].life = "running" /\ status[t].deliv = "pending"}
       IN q # {} /\ todo' = [todo EXCEPT ![Retry(w)] = q]
    /\ UNCHANGED <<munin, process, pc, job, val, base, fresh, policy, history>>

RetryCurrent(w, t) == status[t].deliv = "pending"   \* mutant: no currentTask guard
MayRetry(w, t) == status[t].deliv = "pending" /\ cur[w] # t

RetryRead(w, t) ==
    /\ pc[Retry(w)] = "idle" /\ t \in todo[Retry(w)]
    /\ todo' = [todo EXCEPT ![Retry(w)] = @ \ {t}]
    /\ IF MayRetry(w, t)
       THEN /\ Take(Retry(w), t, "reclaim")
            /\ fresh' = fresh \cup {Retry(w)}
       ELSE UNCHANGED <<pc, job, fresh>>
    /\ UNCHANGED <<munin, process, val, base, policy, history>>

(* recoverStaleTasks: running at the query; read again, and acted on if    *)
(* this worker's, nobody's or past its lease.                              *)
RecoverQuery(w) ==
    /\ pc[Poll(w)] = "boot"
    /\ todo' = [todo EXCEPT ![Poll(w)] = {t \in Tasks : status[t].life = "running"}]
    /\ Goto(Poll(w), "recover")
    /\ UNCHANGED <<munin, process, job, val, base, fresh, policy, history>>

RecoverRead(w, t) ==
    /\ pc[Poll(w)] = "recover" /\ t \in todo[Poll(w)]
    /\ todo' = [todo EXCEPT ![Poll(w)] = @ \ {t}]
    /\ IF status[t].owner \in {w, None} \/ (status[t].life = "running" /\ ~status[t].live)
       THEN /\ Take(Poll(w), t, Course(t))
            /\ fresh' = fresh \cup {Poll(w)}
       ELSE UNCHANGED <<pc, job, fresh>>
    /\ UNCHANGED <<munin, process, val, base, policy, history>>

RecoverDone(w) ==
    /\ pc[Poll(w)] = "recover" /\ todo[Poll(w)] = {}
    /\ proc' = [proc EXCEPT ![w] = "up"]
    /\ Goto(Poll(w), "idle")
    /\ UNCHANGED <<munin, cur, seen, watch, armed, watching, job, val, base, todo, fresh, policy, history>>

-----------------------------------------------------------------------------
(* What a sweep, a refusal or the shutdown does to the task it has read.   *)
(* An actor that is done with its task goes on; one whose call failed      *)
(* abandons its sweep.                                                     *)

Onward(a) == CASE a[2] = "stop" -> "exit"
               [] a[2] = "poll" /\ proc[a[1]] = "booting" -> "recover"
               [] a[2] = "poll" /\ proc[a[1]] # "booting" /\ pc[a] = "failRes" -> Polled(a[1])
               [] OTHER -> "idle"
Proceed(a) == Take(a, None, Onward(a)) /\ UNCHANGED todo
Abandon(a) ==
    /\ Take(a, None, IF a[2] = "poll" /\ proc[a[1]] # "booting" THEN Polled(a[1]) ELSE Onward(a))
    /\ todo' = [todo EXCEPT ![a] = {}]

(* The shutdown handler names its task as currentTask again at each call.  *)
Named(a) == a[2] = "stop" => cur[a[1]] = job[a]

(* markTaskCancelled: status first, then the result; the delivery tag is   *)
(* kept.                                                                   *)
CancelCas(a) ==
    LET t == job[a] IN
    /\ pc[a] = "cancel"
    /\ \/ /\ a \in fresh
          /\ Put(t, Ended("cancelled", status[t].deliv), {})
          /\ Goto(a, "cancelRes")
          /\ UNCHANGED <<job, todo>>
       \/ a \notin fresh /\ Proceed(a) /\ UNCHANGED <<status, fresh>>
    /\ UNCHANGED <<result, tries, parent, flight, process, val, base, policy, history>>

CancelResult(a) ==
    /\ pc[a] = "cancelRes"
    /\ result' = [result EXCEPT ![job[a]] = "cancelled"]
    /\ Proceed(a)
    /\ UNCHANGED <<status, tries, parent, flight, process, val, base, fresh, policy, history>>

(* failTaskWithMessage, the generic branches of reapExpiredLeases and      *)
(* recoverStaleTasks, and the shutdown handler.                            *)
FailCas(a) ==
    LET t == job[a] IN
    /\ pc[a] = "fail"
    /\ \/ /\ a \in fresh /\ Named(a)
          /\ Put(t, Ended("failed", status[t].deliv), {})
          /\ Goto(a, "failRes")
          /\ UNCHANGED <<job, todo>>
       \/ /\ a \notin fresh \/ ~Named(a)
          /\ IF a[2] = "reap" THEN Proceed(a) ELSE Abandon(a)
          /\ fresh' = fresh \ {a}
          /\ UNCHANGED status
    /\ UNCHANGED <<result, tries, parent, flight, process, val, base, policy, history>>

FailResult(a) ==
    /\ pc[a] = "failRes"
    /\ result' = IF Named(a) THEN [result EXCEPT ![job[a]] = "fail"] ELSE result
    /\ Proceed(a)
    /\ UNCHANGED <<status, tries, parent, flight, process, val, base, fresh, policy, history>>

-----------------------------------------------------------------------------
(* reconcileDeliveryPending: reclaim the checkpoint by compare-and-swap,   *)
(* read the checkpoint's result, deliver again, write the result, and swap *)
(* the status against the reclaimed updated_at.                            *)

Reclaim(a) ==
    LET t == job[a] IN
    /\ pc[a] = "reclaim"
    /\ \/ /\ a \in fresh
          /\ Put(t, Leased(a[1], "pending"), {a})
          /\ Goto(a, "base")
          /\ UNCHANGED <<job, todo>>
       \/ a \notin fresh /\ Proceed(a) /\ UNCHANGED <<status, fresh>>
    /\ UNCHANGED <<result, tries, parent, flight, process, val, base, policy, history>>

ReadBase(a) ==
    /\ pc[a] = "base"
    /\ base' = [base EXCEPT ![a] = IF result[job[a]] = "none" THEN "ok" ELSE result[job[a]]]
    /\ Goto(a, "redeliver")
    /\ UNCHANGED <<munin, process, job, val, todo, fresh, policy, history>>

(* Without a manifest, or with delivery off, the checkpoint cannot be      *)
(* delivered any more and fails.                                           *)
Redeliver(a) ==
    LET t == job[a] IN
    /\ pc[a] = "redeliver"
    /\ \/ /\ policy[a[1]] # "off" /\ t \in Manifest
          /\ \E k \in Deliveries :
                /\ Reach(t, k)
                /\ val' = [val EXCEPT ![a] = Judge(a[1], k)]
                /\ Goto(a, IF Judge(a[1], k) = "defer" THEN "recBudget" ELSE "recRes")
       \/ /\ policy[a[1]] = "off" \/ t \notin Manifest
          /\ val' = [val EXCEPT ![a] = "fail"]
          /\ Goto(a, "recRes")
          /\ UNCHANGED delivered
    /\ UNCHANGED <<munin, process, job, base, todo, fresh, policy, runs, asked, faults>>

RecDefer(a) ==
    LET t == job[a] IN
    /\ pc[a] = "recBudget" /\ Retryable(t)
    /\ tries' = [tries EXCEPT ![t] = @ + 1]
    /\ result' = [result EXCEPT ![t] = base[a]]
    /\ Proceed(a)
    /\ val' = [val EXCEPT ![a] = "none"]
    /\ base' = [base EXCEPT ![a] = "none"]
    /\ fresh' = fresh \ {a}
    /\ UNCHANGED <<status, parent, flight, process, policy, history>>

RecExhausted(a) ==
    /\ pc[a] = "recBudget"
    /\ val' = [val EXCEPT ![a] = "fail"]
    /\ Goto(a, "recRes")
    /\ UNCHANGED <<munin, process, job, base, todo, fresh, policy, history>>

(* A failure rewrites the exit code of the document it found; any other    *)
(* outcome leaves that document's verdict.                                 *)
RecResult(a) ==
    /\ pc[a] = "recRes"
    /\ result' = [result EXCEPT ![job[a]] =
                    IF LifeOf(val[a]) = "failed" /\ base[a] = "ok" THEN "fail" ELSE base[a]]
    /\ Goto(a, "recCas")
    /\ UNCHANGED <<status, tries, parent, flight, process, job, val, base, todo,
                   fresh, policy, history>>

(* A lost swap throws out of the sweep.                                    *)
RecCas(a) ==
    /\ pc[a] = "recCas"
    /\ val' = [val EXCEPT ![a] = "none"]
    /\ base' = [base EXCEPT ![a] = "none"]
    /\ \/ /\ a \in fresh
          /\ Put(job[a], Ended(LifeOf(val[a]), MarkOf(val[a])), {})
          /\ Proceed(a)
       \/ a \notin fresh /\ Abandon(a) /\ UNCHANGED <<status, fresh>>
    /\ UNCHANGED <<result, tries, parent, flight, process, policy, history>>

(* Any call of a terminalizer may fail.                                    *)
Terminalizing == {"cancel", "cancelRes", "fail", "failRes", "reclaim", "base",
                  "redeliver", "recBudget", "recRes", "recCas"}

JobThrows(a) ==
    /\ pc[a] \in Terminalizing
    /\ Fault
    /\ Abandon(a)
    /\ val' = [val EXCEPT ![a] = "none"]
    /\ base' = [base EXCEPT ![a] = "none"]
    /\ fresh' = fresh \ {a}
    /\ UNCHANGED <<munin, process, policy, runs, delivered, asked>>

-----------------------------------------------------------------------------
(* The process *)

(* SIGTERM: timers off, executors aborted; the poller runs on meanwhile.   *)
Shutdown(w) ==
    /\ proc[w] = "up"
    /\ Fault
    /\ proc' = [proc EXCEPT ![w] = "stopping"]
    /\ armed' = [armed EXCEPT ![w] = FALSE]
    /\ watching' = [watching EXCEPT ![w] = FALSE]
    /\ Goto(Stop(w), "stop")
    /\ UNCHANGED <<munin, cur, seen, watch, job, val, base, todo, fresh, policy,
                   runs, delivered, asked>>

(* A checkpoint is left for startup recovery; any other current task is    *)
(* failed.                                                                 *)
StopRead(w) ==
    LET t == cur[w] IN
    /\ pc[Stop(w)] = "stop"
    /\ IF t = None \/ (t # None /\ status[t].deliv = "pending")
       THEN Goto(Stop(w), "exit") /\ UNCHANGED <<job, fresh>>
       ELSE Take(Stop(w), t, "fail") /\ fresh' = fresh \cup {Stop(w)}
    /\ UNCHANGED <<munin, process, val, base, todo, policy, history>>

(* Everything in memory goes; a renewal already sent stays on its way.     *)
Die(w) ==
    LET mine == {w} \X Threads
        reset(f, x) == [a \in Actors |-> IF a \in mine THEN x ELSE f[a]]
    IN
    /\ proc' = [proc EXCEPT ![w] = "down"]
    /\ cur' = [cur EXCEPT ![w] = None]
    /\ seen' = [seen EXCEPT ![w] = FALSE]
    /\ watch' = [watch EXCEPT ![w] = None]
    /\ armed' = [armed EXCEPT ![w] = FALSE]
    /\ watching' = [watching EXCEPT ![w] = FALSE]
    /\ pc' = reset(pc, "idle")
    /\ job' = reset(job, None)
    /\ val' = reset(val, "none")
    /\ base' = reset(base, "none")
    /\ todo' = reset(todo, {})
    /\ fresh' = fresh \ mine

Exit(w) ==
    /\ pc[Stop(w)] = "exit"
    /\ Die(w)
    /\ UNCHANGED <<munin, policy, history>>

(* Also the forced exit 30 s after a signal, and a signal while booting.   *)
Crash(w) ==
    /\ proc[w] # "down"
    /\ Fault
    /\ Die(w)
    /\ UNCHANGED <<munin, policy, runs, delivered, asked>>

(* systemd starts the process again, perhaps with another delivery policy: *)
(* startup recovery first.                                                 *)
Restart(w) ==
    /\ proc[w] = "down"
    /\ \E p \in Policies : policy' = [policy EXCEPT ![w] = p]
    /\ proc' = [proc EXCEPT ![w] = "booting"]
    /\ Goto(Poll(w), "boot")
    /\ UNCHANGED <<munin, cur, seen, watch, armed, watching, job, val, base, todo, fresh, history>>

-----------------------------------------------------------------------------
Init ==
    /\ policy \in [Workers -> Policies]
    /\ status = [t \in Tasks |-> [life |-> "pending", owner |-> None, live |-> FALSE,
                                  cancel |-> FALSE, deliv |-> "none"]]
    /\ result = [t \in Tasks |-> "none"]
    /\ tries = [t \in Tasks |-> 0]
    /\ parent = "open"
    /\ flight = [w \in Workers |-> None]
    /\ proc = [w \in Workers |-> "down"]
    /\ cur = [w \in Workers |-> None]
    /\ seen = [w \in Workers |-> FALSE]
    /\ watch = [w \in Workers |-> None]
    /\ armed = [w \in Workers |-> FALSE]
    /\ watching = [w \in Workers |-> FALSE]
    /\ pc = [a \in Actors |-> "idle"]
    /\ job = [a \in Actors |-> None]
    /\ val = [a \in Actors |-> "none"]
    /\ base = [a \in Actors |-> "none"]
    /\ todo = [a \in Actors |-> {}]
    /\ fresh = {}
    /\ runs = [t \in Tasks |-> 0]
    /\ delivered = {} /\ asked = {} /\ faults = 0

Operator == RequestParentCancel \/ \E t \in Tasks : RequestCancel(t)

Claim(w) == ClaimCas(w) \/ ClaimAckLost(w) \/ \E t \in Tasks : ClaimRead(w, t)

Renewal(w) == RenewSend(w) \/ RenewLand(w)

Watch(w) == WatchRead(w) \/ WatchLand(w)

Own(w) ==
    \/ ExecDone(w) \/ CheckCancel(w)
    \/ CkptRead(w) \/ CkptResult(w) \/ CkptCas(w) \/ CkptLost(w)
    \/ Deliver(w) \/ OwnerDefer(w) \/ OwnerExhausted(w)
    \/ FinalResult(w) \/ FinalPut(w) \/ FinalCas(w) \/ Tail(w)

Sweep(w) ==
    \/ RetryQuery(w) \/ RecoverQuery(w) \/ RecoverDone(w) \/ ParentCancelled(w)
    \/ \E t \in Tasks : CancelRead(w, t) \/ ClearCancel(w, t) \/ ReapRead(w, t)
                        \/ RetryRead(w, t) \/ RecoverRead(w, t)

Settle(a) ==
    \/ CancelCas(a) \/ CancelResult(a) \/ FailCas(a) \/ FailResult(a)
    \/ Reclaim(a) \/ ReadBase(a) \/ Redeliver(a) \/ RecDefer(a) \/ RecExhausted(a)
    \/ RecResult(a) \/ RecCas(a)

Process(w) == Shutdown(w) \/ StopRead(w) \/ Exit(w) \/ Crash(w) \/ Restart(w)

Next ==
    \/ Operator
    \/ \E t \in Tasks : LeaseLapse(t)
    \/ \E w \in Workers : Claim(w) \/ Renewal(w) \/ Watch(w) \/ Own(w) \/ PollThrows(w)
                          \/ Sweep(w) \/ Process(w)
    \/ \E a \in Actors : Settle(a) \/ JobThrows(a)

Spec == Init /\ [][Next]_vars

(* The poll loop, the reaper timers and systemd's Restart=always go on;    *)
(* executors, deliveries and Munin requests are bounded by timeouts; time  *)
(* passes.  Nothing is assumed of the operator, of renewals being sent, of *)
(* the watch finding a tag or of failures, which MaxFaults bounds.         *)
Fairness ==
    /\ \A t \in Tasks : WF_vars(LeaseLapse(t))
    /\ \A w \in Workers :
          /\ WF_vars(Restart(w)) /\ WF_vars(StopRead(w) \/ Exit(w))
          /\ WF_vars(ClaimCas(w)) /\ WF_vars(Own(w))
          /\ WF_vars(RenewLand(w)) /\ WF_vars(WatchLand(w))
          /\ WF_vars(RecoverQuery(w) \/ RecoverDone(w)) /\ WF_vars(RetryQuery(w))
          /\ WF_vars(ParentCancelled(w))
          /\ \A t \in Tasks :
                /\ WF_vars(ClaimRead(w, t)) /\ WF_vars(CancelRead(w, t))
                /\ WF_vars(ClearCancel(w, t)) /\ WF_vars(ReapRead(w, t))
                /\ WF_vars(RetryRead(w, t)) /\ WF_vars(RecoverRead(w, t))
    /\ \A a \in Actors : WF_vars(Settle(a))

FairSpec == Spec /\ Fairness

-----------------------------------------------------------------------------
Labels == {"idle", "claim", "run", "check", "ckpt", "ckptRes", "ckptCas", "deliver",
           "budget", "res", "put", "dres", "cas", "tail", "over", "boot", "recover", "stop",
           "exit"} \cup Terminalizing

Entry == [life : Lives, owner : Workers \cup {None}, live : BOOLEAN,
          cancel : BOOLEAN, deliv : Marks]

MuninOK ==
    /\ status \in [Tasks -> Entry]
    /\ result \in [Tasks -> Results]
    /\ tries \in [Tasks -> 0..MaxTries]
    /\ parent \in {"open", "cancel", "settled"}
    /\ flight \in [Workers -> Tasks \cup {None}]

ProcessOK ==
    /\ proc \in [Workers -> {"down", "booting", "up", "stopping"}]
    /\ cur \in [Workers -> Tasks \cup {None}]
    /\ seen \in [Workers -> BOOLEAN]
    /\ watch \in [Workers -> Tasks \cup {None}]
    /\ armed \in [Workers -> BOOLEAN]
    /\ watching \in [Workers -> BOOLEAN]

ActivityOK ==
    /\ pc \in [Actors -> Labels]
    /\ job \in [Actors -> Tasks \cup {None}]
    /\ val \in [Actors -> Verdicts]
    /\ base \in [Actors -> Results]
    /\ todo \in [Actors -> SUBSET Tasks]
    /\ fresh \in SUBSET Actors

HistoryOK ==
    /\ policy \in [Workers -> Policies]
    /\ runs \in [Tasks -> Nat]
    /\ delivered \in SUBSET Tasks
    /\ asked \in SUBSET Tasks
    /\ faults \in 0..MaxFaults

TypeOK == MuninOK /\ ProcessOK /\ ActivityOK /\ HistoryOK

(* A task's agent is started at most once, whatever crashes, is retried or *)
(* is claimed by two dispatchers at the same time.                         *)
RunOnce == \A t \in Tasks : runs[t] <= 1

(* A process under require or defer completes a task with a manifest only   *)
(* when its artefacts have reached their target, in its own delivery or in  *)
(* that of an earlier process, whatever policy that one had.                *)
DeliveredWhenRequired == [][\A a \in Actors, t \in Manifest :
    pc'[a] # pc[a] /\ policy[a[1]] \in {"require", "defer"}
        /\ status[t].life # "completed" /\ status'[t].life = "completed"
    => t \in delivered]_vars

(* A delivery checkpoint is never failed by a path that did not try to     *)
(* deliver it: a failed task does not carry delivery:pending.              *)
CheckpointNotDiscarded == \A t \in Tasks :
    status[t].life = "failed" => status[t].deliv # "pending"

(* The live delivery of a task and a reconciliation of it never run side   *)
(* by side in one process: the reapers leave the current task alone.       *)
Delivering(a) == pc[a] \in {"deliver", "redeliver"}
OneDeliverer == \A w \in Workers : \A i, j \in Threads :
    i # j /\ Delivering(<<w, i>>) /\ Delivering(<<w, j>>) => job[<<w, i>>] # job[<<w, j>>]

(* A checkpoint is delivered, by one activity at a time, before its task   *)
(* is given up.                                                            *)
CheckpointSafe == CheckpointNotDiscarded /\ OneDeliverer

(* An owner whose checkpoint another worker has reclaimed while it was     *)
(* delivering leaves the status alone when it comes to finish (#68).       *)
FencedOwner == [][\A w \in Workers :
    LET t == cur[w] IN
    pc[Poll(w)] = "cas" /\ pc'[Poll(w)] # "cas" /\ status[t].owner # w
        => status'[t] = status[t]]_vars

(* Every task is settled for good in the end, with no cancellation request *)
(* left on it: no crash, lost answer, late renewal or orphaned checkpoint  *)
(* leaves it running for ever (#77).                                       *)
SettlesForGood == <>[](\A t \in Tasks :
    status[t].life \in Terminal /\ ~status[t].cancel)

(* What the dispatcher promises of a task: TaskOnce.                       *)
Once == INSTANCE TaskOnce WITH
    ticket <- [t \in Tasks |->
                 CASE status[t].life = "pending" /\ runs[t] = 0 -> "queued"
                   [] status[t].life # "pending" /\ runs[t] = 0 -> "void"
                   [] status[t].life # "pending" /\ runs[t] = 1 -> "taken"
                   [] OTHER -> "overdrawn"]
TakenOnce == Once!Spec

=============================================================================

