---------------------------- MODULE Orchestrator ----------------------------
(* One task of the orchestrator: the executor that guards it and races it    *)
(* against its timeout (orchestrator-executor.ts), the engine that plans,    *)
(* fans out, verifies and synthesizes (engine.ts), and the workers: a cloud  *)
(* model, the homeserver gateway with its busy answers, the gateway's Orin   *)
(* node with the M5 behind it, or Pi processes that write in one worktree    *)
(* (worker-executor.ts).                                                     *)
EXTENDS FiniteSetsExt, Integers

CONSTANTS
    MaxSubtasks, MaxConcurrency, HomeserverConcurrency,
    MaxRetries          \* of a busy gateway
ASSUME Limits == MaxSubtasks \in Nat \ {0} /\ MaxRetries \in Nat

Subtasks == 1..MaxSubtasks

VARIABLES
    cfg,        \* provider of the workers, and which results are verified
    signal,     \* the caller's abort signal
    exec,       \* the executor of the task
    engine,     \* phase of the engine, and whether a call of its own is out
    plan,       \* how many subtasks there are
    trusted,    \* the subtasks whose results the confidence source lets pass
    workers,    \* the worker of each subtask
    piGroup,    \* the process group of each Pi worker
    tainted,    \* a Pi turn on the binding has failed
    verdict,    \* of the verifier, "none" while there is none
    used        \* the results the final output is made of
orchVars == <<cfg, signal, exec, engine, plan, trusted, workers, piGroup, tainted, verdict, used>>

Ended == {"ok", "failed"}
InFlight == {"checked", "sent", "waits", "closing"}

OrchTypeOK ==
    /\ cfg \in [provider : {"cloud", "homeserver", "orin", "pi"},
                verify : {"all", "adaptive", "never"}]
    /\ signal \in BOOLEAN
    /\ exec \in [at : {"new", "asks", "races", "done"},
                 code : {"none", "refused", "aborted", "timeout", "failed", "ok"}]
    /\ engine \in [at : {"idle", "plans", "works", "verifies", "synthesizes", "over"},
                   out : BOOLEAN]
    /\ plan \in 0..MaxSubtasks /\ trusted \subseteq Subtasks /\ used \subseteq Subtasks
    /\ workers \in [Subtasks -> [at : {"queued"} \cup InFlight \cup Ended,
                                 tries : 0..MaxRetries, node : {"m5", "orin"},
                                 killed : BOOLEAN, good : BOOLEAN]]
    /\ piGroup \in [Subtasks -> {"none", "up", "dying", "gone", "stuck"}]
    /\ tainted \in BOOLEAN
    /\ verdict \in [Subtasks -> {"none", "pass", "fail", "unknown"}]

OrchInit ==
    /\ cfg \in [provider : {"cloud", "homeserver", "orin", "pi"},
                verify : {"all", "adaptive", "never"}]
    /\ signal = FALSE /\ exec = [at |-> "new", code |-> "none"]
    /\ engine = [at |-> "idle", out |-> FALSE]
    /\ plan = 0 /\ trusted = {} /\ used = {} /\ tainted = FALSE
    /\ workers = [i \in Subtasks |->
                    [at |-> "queued", tries |-> 0, killed |-> FALSE, good |-> FALSE,
                     node |-> IF cfg.provider = "orin" THEN "orin" ELSE "m5"]]
    /\ piGroup = [i \in Subtasks |-> "none"]
    /\ verdict = [i \in Subtasks |-> "none"]

Planned == 1..plan
PiAlive(i) == piGroup[i] \in {"up", "dying", "stuck"}

(* The engine's own signal: the caller's while the executor listens, and     *)
(* fired when the race is over.                                              *)
EngineAborted == exec.at = "done" \/ (signal /\ exec.at # "new")

---------------------------------------------------------------------------
(* The executor.                                                             *)

(* The abort event: a Pi group that runs is terminated, once; requests and   *)
(* waits in flight end by themselves.                                        *)
Heard ==
    LET hit == {i \in Subtasks : cfg.provider = "pi" /\ workers[i].at = "sent"} IN
      /\ workers' = [i \in Subtasks |->
                       IF i \in hit THEN [workers[i] EXCEPT !.killed = TRUE] ELSE workers[i]]
      /\ piGroup' = [i \in Subtasks |->
                        IF i \in hit /\ piGroup[i] = "up" THEN "dying" ELSE piGroup[i]]

Done(code) ==
    /\ exec' = [at |-> "done", code |-> IF signal THEN "aborted" ELSE code]

(* The planner is called, unless the signal has fired: a planner that fails  *)
(* leaves one subtask, the task itself.                                      *)
EngineStarts ==
    IF signal THEN engine' = [engine EXCEPT !.at = "works"] /\ plan' = 1
    ELSE engine' = [at |-> "plans", out |-> TRUE] /\ UNCHANGED plan

(* The sensitivity guard and the caller's signal, before anything is spent.  *)
Begin ==
    /\ exec.at = "new"
    /\ \/ exec' = [at |-> "done", code |-> "refused"]
       \/ signal /\ Done("aborted")
       \/ ~signal /\ exec' = [exec EXCEPT !.at = IF cfg.verify = "adaptive" THEN "asks"
                                                 ELSE "races"]
    /\ IF exec'.at = "races" THEN EngineStarts ELSE UNCHANGED <<engine, plan>>
    /\ UNCHANGED <<cfg, signal, trusted, workers, piGroup, tainted, verdict, used>>

(* The confidence source answers, or its five seconds are over: nothing is   *)
(* trusted then.                                                             *)
LoadConfidence ==
    /\ exec.at = "asks"
    /\ exec' = [exec EXCEPT !.at = "races"]
    /\ trusted' \in SUBSET Subtasks
    /\ EngineStarts
    /\ UNCHANGED <<cfg, signal, workers, piGroup, tainted, verdict, used>>

CallerAborts ==
    /\ ~signal /\ exec.at # "done"
    /\ signal' = TRUE
    /\ IF exec.at = "new" THEN UNCHANGED <<workers, piGroup>> ELSE Heard
    /\ UNCHANGED <<cfg, exec, engine, plan, trusted, tainted, verdict, used>>

(* The timeout wins the race; the engine is told and goes on by itself.      *)
RunTimesOut ==
    /\ exec.at = "races" /\ engine.at # "over"
    /\ Done("timeout")
    /\ IF signal THEN UNCHANGED <<workers, piGroup>> ELSE Heard
    /\ UNCHANGED <<cfg, signal, engine, plan, trusted, tainted, verdict, used>>

Finish ==
    /\ exec.at = "races" /\ engine.at = "over"
    /\ Done(IF used = {} THEN "failed" ELSE "ok")
    /\ UNCHANGED <<cfg, signal, engine, plan, trusted, workers, piGroup, tainted, verdict, used>>

---------------------------------------------------------------------------
(* The engine.  A call it makes after the abort fails before it is sent.     *)

Ok == {i \in Planned : workers[i].at = "ok"}

ShouldVerify(i) ==
    \/ cfg.verify = "all"
    \/ cfg.verify = "adaptive" /\ i \notin trusted

Unverified == {i \in Ok : ShouldVerify(i) /\ verdict[i] = "none"}

(* The planner's answer; anything that is not a plan is one subtask.         *)
Plan ==
    /\ engine.at = "plans"
    /\ engine' = [at |-> "works", out |-> FALSE]
    /\ plan' \in IF EngineAborted THEN {1} ELSE Subtasks
    /\ UNCHANGED <<cfg, signal, exec, trusted, workers, piGroup, tainted, verdict, used>>

WorkDone ==
    /\ engine.at = "works" /\ \A i \in Planned : workers[i].at \in Ended
    /\ engine' = [engine EXCEPT !.at = "verifies"]
    /\ UNCHANGED <<cfg, signal, exec, plan, trusted, workers, piGroup, tainted, verdict, used>>

(* One result after the other; a verifier that fails or cannot be read       *)
(* leaves the verdict unknown.                                               *)
VerifyAnswers ==
    /\ engine.at = "verifies" /\ Unverified # {}
    /\ IF ~engine.out /\ ~EngineAborted
       THEN engine' = [engine EXCEPT !.out = TRUE] /\ UNCHANGED verdict
       ELSE /\ engine' = [engine EXCEPT !.out = FALSE]
            /\ \E v \in IF EngineAborted THEN {"unknown"} ELSE {"pass", "fail", "unknown"} :
                 verdict' = [verdict EXCEPT ![Min(Unverified)] = v]
    /\ UNCHANGED <<cfg, signal, exec, plan, trusted, workers, piGroup, tainted, used>>

InputsAll ==            \* mutant: results that failed verification are synthesized too
    Ok

(* What is synthesized: nothing that failed verification, unless there is    *)
(* nothing else.                                                             *)
Inputs ==
    LET good == {i \in Ok : verdict[i] # "fail"} IN IF good = {} THEN Ok ELSE good

(* One input needs no synthesizer; when that fails the results are put side  *)
(* by side.                                                                  *)
Synthesize ==
    /\ \/ engine.at = "verifies" /\ Unverified = {}
       \/ engine.at = "synthesizes"
    /\ IF engine.at = "verifies" /\ Cardinality(Inputs) > 1 /\ ~EngineAborted
       THEN engine' = [at |-> "synthesizes", out |-> TRUE] /\ UNCHANGED used
       ELSE engine' = [at |-> "over", out |-> FALSE] /\ used' = Inputs
    /\ UNCHANGED <<cfg, signal, exec, plan, trusted, workers, piGroup, tainted, verdict>>

---------------------------------------------------------------------------
(* The workers.                                                              *)

Concurrency ==
    CASE cfg.provider = "pi" -> 1
      [] cfg.provider \in {"homeserver", "orin"} -> Min({MaxConcurrency, HomeserverConcurrency})
      [] OTHER -> MaxConcurrency

InSlots == {i \in Planned : workers[i].at \in InFlight}

Queued == {i \in Planned : workers[i].at = "queued"}

Put(i, at) == workers' = [workers EXCEPT ![i].at = at]

(* A slot takes the next subtask.  A Pi turn has its directory verified      *)
(* first, and is refused on a tainted binding.                               *)
StartWorker ==
    /\ engine.at = "works" /\ Cardinality(InSlots) < Concurrency
    /\ \E i \in Queued :
         /\ \A j \in Queued : i <= j
         /\ Put(i, IF EngineAborted \/ (cfg.provider = "pi" /\ tainted) THEN "failed"
                   ELSE IF cfg.provider = "pi" THEN "checked" ELSE "sent")
    /\ UNCHANGED <<cfg, signal, exec, engine, plan, trusted, piGroup, tainted, verdict, used>>

(* An answer, an error, the call's timer or the abort.                       *)
Answered(i) ==
    /\ cfg.provider # "pi" /\ workers[i].at = "sent"
    /\ \E at \in Ended : (EngineAborted => at = "failed") /\ Put(i, at)
    /\ UNCHANGED <<cfg, signal, exec, engine, plan, trusted, piGroup, tainted, verdict, used>>

BusyUncounted(i) ==     \* mutant: the tries are not counted
    /\ cfg.provider \in {"homeserver", "orin"} /\ workers[i].at = "sent"
    /\ \/ Put(i, "failed")
       \/ ~EngineAborted /\ Put(i, "waits")
    /\ UNCHANGED <<cfg, signal, exec, engine, plan, trusted, piGroup, tainted, verdict, used>>

(* The gateway is busy: the worker waits in line while tries and budget last.*)
Busy(i) ==
    /\ cfg.provider \in {"homeserver", "orin"} /\ workers[i].at = "sent"
    /\ \/ Put(i, "failed")
       \/ /\ workers[i].tries < MaxRetries /\ ~EngineAborted
          /\ workers' = [workers EXCEPT ![i].at = "waits", ![i].tries = @ + 1]
    /\ UNCHANGED <<cfg, signal, exec, engine, plan, trusted, piGroup, tainted, verdict, used>>

(* Orin is unavailable: M5 is asked instead, after the wait Orin named; not  *)
(* when Orin has only been busy until now.                                   *)
Unavailable(i) ==
    /\ workers[i].at = "sent" /\ workers[i].node = "orin"
    /\ IF EngineAborted \/ workers[i].tries > 0 THEN Put(i, "failed")
       ELSE workers' = [workers EXCEPT ![i].node = "m5", ![i].at = "waits"]
    /\ UNCHANGED <<cfg, signal, exec, engine, plan, trusted, piGroup, tainted, verdict, used>>

WaitEnds(i) ==
    /\ workers[i].at = "waits"
    /\ Put(i, IF EngineAborted THEN "failed" ELSE "sent")
    /\ UNCHANGED <<cfg, signal, exec, engine, plan, trusted, piGroup, tainted, verdict, used>>

LaunchPiAnyway(i) ==    \* mutant: an abort during the verification is not seen
    /\ workers[i].at = "checked"
    /\ \/ Put(i, "failed") /\ UNCHANGED piGroup
       \/ Put(i, "sent") /\ piGroup' = [piGroup EXCEPT ![i] = "up"]
    /\ UNCHANGED <<cfg, signal, exec, engine, plan, trusted, tainted, verdict, used>>

(* The worktree was verified, or not; an abort that came meanwhile is seen.  *)
LaunchPi(i) ==
    /\ workers[i].at = "checked"
    /\ \/ Put(i, "failed") /\ UNCHANGED piGroup
       \/ ~EngineAborted /\ Put(i, "sent") /\ piGroup' = [piGroup EXCEPT ![i] = "up"]
    /\ UNCHANGED <<cfg, signal, exec, engine, plan, trusted, tainted, verdict, used>>

(* The timer of the call.                                                    *)
CallTimeOut(i) ==
    /\ cfg.provider = "pi" /\ workers[i].at = "sent" /\ ~workers[i].killed
    /\ workers' = [workers EXCEPT ![i].killed = TRUE]
    /\ piGroup' = [piGroup EXCEPT ![i] = IF @ = "up" THEN "dying" ELSE @]
    /\ UNCHANGED <<cfg, signal, exec, engine, plan, trusted, tainted, verdict, used>>

(* The leader exits, or cannot be made to; what is left of its group is      *)
(* terminated and waited for.                                                *)
PiExits(i) ==
    /\ cfg.provider = "pi" /\ workers[i].at = "sent"
    /\ \E good \in IF workers[i].killed THEN {FALSE} ELSE BOOLEAN :
         workers' = [workers EXCEPT ![i].at = "closing", ![i].good = good]
    /\ piGroup' \in {[piGroup EXCEPT ![i] = IF @ = "up" THEN g ELSE @] : g \in {"dying", "gone"}}
    /\ UNCHANGED <<cfg, signal, exec, engine, plan, trusted, tainted, verdict, used>>

(* The bounded cleanup of a group, verified gone or not.                     *)
CleanedUp(i) ==
    /\ piGroup[i] = "dying"
    /\ piGroup' \in {[piGroup EXCEPT ![i] = g] : g \in {"gone", "stuck"}}
    /\ UNCHANGED <<cfg, signal, exec, engine, plan, trusted, workers, tainted, verdict, used>>

PiEndsClean(i) ==       \* mutant: only a bad exit taints the binding
    /\ workers[i].at = "closing" /\ piGroup[i] \in {"gone", "stuck"}
    /\ LET ok == workers[i].good /\ piGroup[i] = "gone" IN
         /\ workers' = [workers EXCEPT ![i] = [@ EXCEPT !.at = IF ok THEN "ok" ELSE "failed",
                                                        !.good = FALSE]]
         /\ tainted' = (tainted \/ ~workers[i].good)
    /\ UNCHANGED <<cfg, signal, exec, engine, plan, trusted, piGroup, verdict, used>>

(* A turn that was killed, failed, or left something behind taints the       *)
(* binding for the turns after it.                                           *)
PiEnds(i) ==
    /\ workers[i].at = "closing" /\ piGroup[i] \in {"gone", "stuck"}
    /\ LET ok == workers[i].good /\ piGroup[i] = "gone" IN
         /\ workers' = [workers EXCEPT ![i] = [@ EXCEPT !.at = IF ok THEN "ok" ELSE "failed",
                                                        !.good = FALSE]]
         /\ tainted' = (tainted \/ ~ok)
    /\ UNCHANGED <<cfg, signal, exec, engine, plan, trusted, piGroup, verdict, used>>

---------------------------------------------------------------------------
WorkerSteps(i) ==
           \/ Answered(i) \/ Busy(i) \/ Unavailable(i) \/ WaitEnds(i)
           \/ LaunchPi(i) \/ CallTimeOut(i) \/ PiExits(i) \/ CleanedUp(i) \/ PiEnds(i)

OrchNext ==
    \/ Begin \/ LoadConfidence \/ CallerAborts \/ RunTimesOut \/ Finish
    \/ Plan \/ WorkDone \/ VerifyAnswers \/ Synthesize \/ StartWorker
    \/ \E i \in Subtasks : WorkerSteps(i)

(* Calls and waits are bounded by timers, a termination by its grace.        *)
OrchGoesOn ==
    \/ Begin \/ LoadConfidence \/ Finish
    \/ Plan \/ StartWorker \/ WorkDone \/ VerifyAnswers \/ Synthesize
OrchFairness == WF_orchVars(OrchGoesOn) /\ \A i \in Subtasks : WF_orchVars(WorkerSteps(i))
OrchSpec == OrchInit /\ [][OrchNext]_orchVars /\ OrchFairness

(* Once the run is aborted or over, nothing more is sent to a model and no   *)
(* process starts, whatever the engine and its workers were waiting for      *)
(* (engineAbort, the checks before and after each wait).                     *)
QuietAfterAbort ==
    [][ EngineAborted =>
          /\ engine'.out => engine.out
          /\ \A i \in Subtasks : /\ workers'[i].at = "sent" => workers[i].at = "sent"
                                 /\ piGroup'[i] = "up" => piGroup[i] = "up" ]_orchVars

(* Pi turns share one worktree: they never overlap, and none runs on what a  *)
(* turn left behind that failed, was killed or could not be cleaned up       *)
(* (workerConcurrency, piBindingTurnStates).                                 *)
OneWriter ==
    /\ Cardinality({i \in Subtasks : PiAlive(i)}) <= 1
    /\ \A i, j \in Subtasks :
         i < j /\ piGroup[i] # "none" /\ piGroup[j] # "none" => workers[i].at = "ok"

(* An answer the run gives is made of results of workers that succeeded, of  *)
(* one that failed verification only if all did, and misses none that did    *)
(* not; a run that was aborted or late gives none (runOrchestration).        *)
SoundAnswer ==
    exec.code = "ok" =>
        /\ used # {} /\ used \subseteq Ok /\ ~signal
        /\ \/ used = {i \in Ok : verdict[i] # "fail"}
           \/ used = Ok /\ \A i \in Ok : verdict[i] = "fail"

(* Every run settles, and so does its engine after it was abandoned; no      *)
(* worker keeps its slot for ever behind a busy gateway or a stubborn group. *)
RunsEnd ==
    <>[](exec.at = "done" /\ engine.at \in {"idle", "over"} /\ \A i \in Subtasks :
            workers[i].at \notin InFlight /\ piGroup[i] \in {"none", "gone", "stuck"})

(* One worker writes at a time, and what is answered was worked out.       *)
OrchestrationSound == OneWriter /\ SoundAnswer
=============================================================================
