------------------------------ MODULE AgentRun ------------------------------
(* The execution of one claimed task and the processes it owns: the branch   *)
(* of index.ts for its runtime, the executor behind it, the life of an owned *)
(* process group (process-lifecycle.ts), the watch for cancellations and     *)
(* the shutdown of the dispatcher.  A child may report its spawn late or     *)
(* never, its leader may leave descendants behind, and a group may ignore    *)
(* SIGTERM, or SIGKILL too.                                                  *)
Runtimes == {"codex", "opencode", "research", "claude", "ollama"}

VARIABLES
    stop,       \* shutdown of the dispatcher: "no", "stopping", "exited"
    cancel,     \* of the task: "no", "asked" in Munin, "taken" by the watch
    run,        \* the execution of the task
    group,      \* the process group the system knows, if any
    own         \* the dispatcher's OwnedProcessLifecycle of it, if any
agentVars == <<stop, cancel, run, group, own>>

Owning == {"codex", "opencode", "research"}
Alive == group.at \in {"up", "behind"}
Child == group.at \notin {"none", "unborn"}
Owns == own.spawn # "none"
Up == stop # "exited"

AgentTypeOK ==
    /\ stop \in {"no", "stopping", "exited"}
    /\ cancel \in {"no", "asked", "taken"}
    /\ run \in [runtime : Runtimes,
                at : {"claimed", "prepare", "going", "ending", "settled"},
                ctl : {"none", "armed", "aborted"}, late : BOOLEAN,
                said : {"none", "zero", "nonzero", "killed", "error"},
                code : {"none", "ok", "failed", "timeout"}]
    /\ group \in [at : {"none", "up", "behind", "gone", "unborn"},
                  leader : {"none", "zero", "nonzero", "killed"},
                  temper : {"mild", "hard", "stuck"}]
    /\ own \in [spawn : {"none", "pending", "spawned", "failed"},
                cleanup : {"no", "waiting", "ok", "failed"},
                stage : {"no", "termed", "killed", "ok", "failed"}]

AgentInit ==
    /\ stop = "no" /\ cancel = "no"
    /\ group = [at |-> "none", leader |-> "none", temper |-> "mild"]
    /\ own = [spawn |-> "none", cleanup |-> "no", stage |-> "no"]
    /\ run \in [runtime : Runtimes, at : {"claimed"}, ctl : {"none"}, late : {FALSE},
                said : {"none"}, code : {"none"}]

---------------------------------------------------------------------------
(* The owned process group.                                                  *)

(* What a signal to the whole group leaves of it.                            *)
Signalled(g, tempers) ==
    IF g.temper \in tempers /\ g.at \in {"up", "behind"}
    THEN [g EXCEPT !.at = "gone", !.leader = IF @ = "none" THEN "killed" ELSE @]
    ELSE g

(* SIGTERM to the group, once; a group that is gone needs no more.           *)
TermGroup(o) ==
    IF o.stage # "no" THEN own' = o /\ UNCHANGED group
    ELSE IF group.at = "gone"
    THEN own' = [o EXCEPT !.stage = "ok", !.cleanup = IF @ = "waiting" THEN "ok" ELSE @]
         /\ UNCHANGED group
    ELSE own' = [o EXCEPT !.stage = "termed"] /\ group' = Signalled(group, {"mild"})

(* The first call decides; a child that has not reported its spawn is waited *)
(* for.                                                                      *)
Terminate(o) ==
    IF o.cleanup # "no" THEN own' = o /\ UNCHANGED group
    ELSE IF o.spawn = "failed"
    THEN own' = [o EXCEPT !.cleanup = "ok"] /\ UNCHANGED group
    ELSE IF o.spawn = "pending"
    THEN own' = [o EXCEPT !.cleanup = "waiting"] /\ UNCHANGED group
    ELSE TermGroup([o EXCEPT !.cleanup = "waiting"])

Terminated == IF Owns THEN Terminate(own) ELSE UNCHANGED <<own, group>>

(* The system starts the child or reports an error later; with `told` it is  *)
(* terminated at once, before it could report anything.                      *)
Spawn(told) ==
    /\ own' = [spawn |-> "pending", stage |-> "no",
               cleanup |-> IF told THEN "waiting" ELSE "no"]
    /\ group' \in [at : {"up", "unborn"}, leader : {"none"}, temper : {"mild", "hard", "stuck"}]

SpawnSeenQuietly ==     \* mutant: a spawn after the wait is over is not acted on
    /\ Up /\ own.spawn = "pending" /\ Child
    /\ LET o == [own EXCEPT !.spawn = "spawned"] IN
         IF own.cleanup = "waiting" THEN TermGroup(o) ELSE own' = o /\ UNCHANGED group
    /\ UNCHANGED <<stop, cancel, run>>

(* The spawn event: a termination that waited for it, or gave up on it,      *)
(* begins now.                                                               *)
SpawnSeen ==
    /\ Up /\ own.spawn = "pending" /\ Child
    /\ LET o == [own EXCEPT !.spawn = "spawned"] IN
         IF own.cleanup # "no" THEN TermGroup(o) ELSE own' = o /\ UNCHANGED group
    /\ UNCHANGED <<stop, cancel, run>>

(* The error event of a child that was never born, and the executor's.       *)
ErrorSeen ==
    /\ Up /\ own.spawn = "pending" /\ ~Child
    /\ own' = [own EXCEPT !.spawn = "failed", !.cleanup = IF @ = "failed" THEN @ ELSE "ok"]
    /\ run' = IF run.at = "going" THEN [run EXCEPT !.at = "ending", !.said = "error"] ELSE run
    /\ UNCHANGED <<stop, cancel, group>>

SpawnWaitOver ==
    /\ Up /\ own.cleanup = "waiting" /\ own.spawn = "pending"
    /\ own' = [own EXCEPT !.cleanup = "failed"]
    /\ UNCHANGED <<stop, cancel, run, group>>

(* What the leader and its descendants do by themselves.                     *)
GroupEnds ==
    /\ Alive
    /\ \E at \in {"behind", "gone"}, c \in {"zero", "nonzero"} :
         group' = IF group.at = "up" THEN [group EXCEPT !.at = at, !.leader = c]
                  ELSE [group EXCEPT !.at = "gone"]
    /\ UNCHANGED <<stop, cancel, run, own>>

Verified(o, ok) ==
    [o EXCEPT !.stage = IF ok THEN "ok" ELSE "failed",
              !.cleanup = IF @ # "waiting" THEN @ ELSE IF ok THEN "ok" ELSE "failed"]

(* The probe finds the group gone.                                           *)
ProbeGone ==
    /\ Up /\ own.stage \in {"termed", "killed"} /\ ~Alive
    /\ own' = Verified(own, TRUE)
    /\ UNCHANGED <<stop, cancel, run, group>>

GraceOverUnverified ==  \* mutant: SIGKILL is taken to have worked
    /\ Up /\ own.stage = "termed" /\ Alive
    /\ own' = Verified(own, TRUE)
    /\ group' = Signalled(group, {"mild", "hard"})
    /\ UNCHANGED <<stop, cancel, run>>

(* SIGKILL after the grace period.                                           *)
GraceOver ==
    /\ Up /\ own.stage = "termed" /\ Alive
    /\ own' = [own EXCEPT !.stage = "killed"]
    /\ group' = Signalled(group, {"mild", "hard"})
    /\ UNCHANGED <<stop, cancel, run>>

KillWaitOver ==
    /\ Up /\ own.stage = "killed" /\ Alive
    /\ own' = Verified(own, FALSE)
    /\ UNCHANGED <<stop, cancel, run, group>>

---------------------------------------------------------------------------
(* The branches of the runtimes.                                             *)

RunSettled(code) == [run EXCEPT !.at = "settled", !.code = code, !.ctl = "none"]

(* The sampler gives an eligible task of Codex or Claude to the harness.     *)
Sample ==
    /\ Up /\ run.at = "claimed" /\ run.runtime \in {"codex", "claude"}
    /\ run' = [run EXCEPT !.runtime = "opencode"]
    /\ UNCHANGED <<stop, cancel, group, own>>

(* The controller is made and the executor called; Codex has none.           *)
StartRun ==
    /\ Up /\ run.at = "claimed" /\ run.runtime # "opencode"
    /\ run' = [run EXCEPT !.at = "prepare",
                          !.ctl = IF run.runtime = "codex" THEN "none" ELSE "armed"]
    /\ UNCHANGED <<stop, cancel, group, own>>

(* OpenCode is spawned without a pause, unless admission is closed.          *)
StartOpencode ==
    /\ Up /\ run.at = "claimed" /\ run.runtime = "opencode"
    /\ IF stop # "no" THEN run' = RunSettled("failed") /\ UNCHANGED <<group, own>>
       ELSE run' = [run EXCEPT !.at = "going", !.ctl = "armed"] /\ Spawn(FALSE)
    /\ UNCHANGED <<stop, cancel>>

(* A preflight, a missing configuration or file: nothing is started.         *)
RefuseRun ==
    /\ Up /\ run.at = "prepare" /\ run.runtime \in {"codex", "research", "claude"}
    /\ run' = RunSettled("failed")
    /\ UNCHANGED <<stop, cancel, group, own>>

StartCodex ==
    /\ Up /\ run.at = "prepare" /\ run.runtime = "codex"
    /\ IF stop # "no" \/ cancel = "taken"
       THEN run' = RunSettled("failed") /\ UNCHANGED <<group, own>>
       ELSE run' = [run EXCEPT !.at = "going"] /\ Spawn(FALSE)
    /\ UNCHANGED <<stop, cancel>>

(* Its files were written meanwhile: an abort that came is obeyed at once.   *)
StartResearch ==
    /\ Up /\ run.at = "prepare" /\ run.runtime = "research"
    /\ IF stop # "no" THEN run' = RunSettled("failed") /\ UNCHANGED <<group, own>>
       ELSE run' = [run EXCEPT !.at = "going"] /\ Spawn(run.ctl = "aborted")
    /\ UNCHANGED <<stop, cancel>>

StartClaude ==
    /\ Up /\ run.at = "prepare" /\ run.runtime = "claude"
    /\ run' = IF run.ctl = "aborted" \/ stop # "no" THEN RunSettled("failed")
              ELSE [run EXCEPT !.at = "going"]
    /\ UNCHANGED <<stop, cancel, group, own>>

(* No host, or an answer that blames the host: Claude with a controller of   *)
(* its own, when the task allows it.                                         *)
FallBack ==
    /\ Up /\ run.runtime = "ollama"
    /\ \/ run.at = "prepare"
       \/ run.at = "going" /\ run.ctl # "aborted" /\ ~run.late
    /\ run' \in {RunSettled("failed"),
                 [run EXCEPT !.runtime = "claude", !.at = "prepare", !.ctl = "armed"]}
    /\ UNCHANGED <<stop, cancel, group, own>>

StartOllama ==
    /\ Up /\ run.at = "prepare" /\ run.runtime = "ollama"
    /\ run' = IF run.ctl = "aborted" THEN RunSettled("timeout") ELSE [run EXCEPT !.at = "going"]
    /\ UNCHANGED <<stop, cancel, group, own>>

OllamaEnds ==
    /\ Up /\ run.at = "going" /\ run.runtime = "ollama"
    /\ run' = RunSettled(IF run.late \/ run.ctl = "aborted" THEN "timeout" ELSE "ok")
    /\ UNCHANGED <<stop, cancel, group, own>>

(* The result message of the SDK.                                            *)
ClaudeSays ==
    /\ Up /\ run.at = "going" /\ run.runtime = "claude" /\ run.said = "none"
    /\ \E s \in {"zero", "nonzero"} : run' = [run EXCEPT !.said = s]
    /\ UNCHANGED <<stop, cancel, group, own>>

(* The query ends, throws, or obeys an abort; `thrown` is what it threw.     *)
ClaudeEnds ==
    /\ Up /\ run.at = "going" /\ run.runtime = "claude"
    /\ \E thrown \in {"nothing", "error", "abort"} :
         /\ thrown = "abort" => run.late \/ run.ctl = "aborted"
         /\ run' = RunSettled(IF run.late \/ thrown = "abort" THEN "timeout"
                              ELSE IF thrown = "nothing" /\ run.said = "zero" THEN "ok"
                              ELSE "failed")
    /\ UNCHANGED <<stop, cancel, group, own>>

(* The timer of the run: the group is terminated, the query or the request   *)
(* aborted (and closed ten seconds later).                                   *)
TimeOut ==
    /\ Up /\ run.at = "going" /\ ~run.late
    /\ run' = [run EXCEPT !.late = TRUE]
    /\ Terminated
    /\ UNCHANGED <<stop, cancel>>

(* The exit event: cleanup begins at it, and the run ends when that is done. *)
ExitSeen ==
    /\ Up /\ run.at = "going" /\ own.spawn = "spawned" /\ group.leader # "none"
    /\ run' = [run EXCEPT !.at = "ending", !.said = group.leader]
    /\ Terminated
    /\ UNCHANGED <<stop, cancel>>

(* A cleanup that failed ends the run of a child that does not exit.         *)
CleanupFailureSeen ==
    /\ Up /\ run.at = "going" /\ "failed" \in {own.cleanup, own.stage}
    /\ run' = [run EXCEPT !.at = "ending"]
    /\ UNCHANGED <<stop, cancel, group, own>>

(* The exit code of a run whose cleanup is done.                             *)
Code ==
    IF run.said = "error" THEN "failed"
    ELSE IF run.late \/ (run.runtime = "opencode" /\ run.ctl = "aborted") THEN "timeout"
    ELSE IF /\ run.said = "zero" /\ own.cleanup = "ok"
            /\ ~(run.runtime = "research" /\ run.ctl = "aborted")
    THEN "ok" ELSE "failed"

Settle ==
    /\ Up /\ run.at = "ending" /\ own.cleanup \in {"ok", "failed"}
    /\ run' \in {RunSettled(Code)} \cup
                (IF run.runtime = "research" /\ Code = "ok" THEN {RunSettled("failed")} ELSE {})
    /\ UNCHANGED <<stop, cancel, group, own>>

---------------------------------------------------------------------------
(* Cancellation and shutdown.                                                *)

Aborted == IF run.ctl = "armed" /\ ~(run.runtime = "research" /\ run.at = "ending")
           THEN "aborted" ELSE run.ctl

AskCancel ==
    /\ cancel = "no" /\ run.at # "settled"
    /\ cancel' = "asked"
    /\ UNCHANGED <<stop, run, group, own>>

(* The watch sees the request: the executor that runs now is told.  Research *)
(* and OpenCode terminate their group when their controller aborts.          *)
Watch ==
    /\ Up /\ cancel = "asked" /\ run.at # "settled"
    /\ cancel' = "taken"
    /\ run' = [run EXCEPT !.ctl = Aborted]
    /\ Terminated
    /\ UNCHANGED stop

ShutdownLeavingOwned == \* mutant: the processes are left to their executors
    /\ stop = "no"
    /\ stop' = "stopping"
    /\ run' = [run EXCEPT !.ctl = Aborted]
    /\ UNCHANGED <<cancel, group, own>>

(* SIGTERM: admission closes, controllers abort, every owned group is        *)
(* terminated; then the task is marked as failed.                            *)
Shutdown ==
    /\ stop = "no"
    /\ stop' = "stopping"
    /\ run' = [run EXCEPT !.ctl = Aborted]
    /\ Terminated
    /\ UNCHANGED cancel

(* The mark was written and the cleanup is over, or the 30 seconds are,      *)
(* which the spawn wait, the grace and the kill wait together never reach.   *)
Exit ==
    /\ stop = "stopping"
    /\ own.cleanup # "waiting"
    /\ stop' = "exited"
    /\ UNCHANGED <<cancel, run, group, own>>

---------------------------------------------------------------------------
AgentNext ==
    \/ SpawnSeen \/ ErrorSeen \/ SpawnWaitOver \/ GroupEnds
    \/ ProbeGone \/ GraceOver \/ KillWaitOver
    \/ Sample \/ StartRun \/ StartOpencode \/ RefuseRun \/ StartCodex \/ StartResearch
    \/ StartClaude \/ StartOllama \/ FallBack \/ OllamaEnds \/ ClaudeSays \/ ClaudeEnds
    \/ TimeOut \/ ExitSeen \/ CleanupFailureSeen \/ Settle
    \/ AskCancel \/ Watch \/ Shutdown \/ Exit

(* Timers fire, events arrive, the branch goes on; nothing is asked of the   *)
(* group itself, and an SDK query ends at the latest when it is closed.      *)
Timers == SpawnWaitOver \/ GraceOver \/ KillWaitOver \/ TimeOut
Events == SpawnSeen \/ ErrorSeen \/ ProbeGone \/ ExitSeen \/ CleanupFailureSeen
AgentGoesOn ==
    \/ StartRun \/ StartOpencode \/ StartCodex \/ StartResearch \/ StartClaude \/ StartOllama
    \/ run.late /\ (OllamaEnds \/ ClaudeEnds)
    \/ Settle \/ Exit
AgentFairness == WF_agentVars(Timers) /\ WF_agentVars(Events) /\ WF_agentVars(AgentGoesOn)
AgentSpec == AgentInit /\ [][AgentNext]_agentVars /\ AgentFairness

(* A dispatcher that has shut down leaves no owned group alive that it did   *)
(* not report as beyond it, and no paid query that was not told to stop      *)
(* (shutdown, terminateAllOwnedProcesses, the closed admission).             *)
NoStray ==
    stop = "exited" =>
        /\ Alive => own.cleanup = "failed"
        /\ run.at = "going" /\ run.runtime = "claude" => run.ctl = "aborted"

(* A run that settled left no process group alive unless its cleanup failed, *)
(* and reports success only if it was in time, what it ran said so itself    *)
(* and its group was seen gone (exitCodeAfterCleanup).                       *)
HonestEnd ==
    run.at = "settled" =>
        /\ Alive => own.cleanup = "failed"
        /\ run.code = "ok" =>
             /\ ~run.late
             /\ run.runtime \in Owning => group.leader = "zero" /\ group.at = "gone"
             /\ run.runtime = "claude" => run.said = "zero"

(* Every run settles, every shutdown ends, and a group that was given up     *)
(* before it reported its spawn is still taken down, though groups ignore    *)
(* their signals.                                                            *)
EverythingEnds ==
    []<>(\/ stop = "exited"
         \/ stop = "no" /\ run.at = "settled" /\ (own.cleanup = "failed" =>
                                                  ~Alive \/ own.stage = "failed"))

(* Whether by its own end or by the dispatcher's, a run leaves no process  *)
(* behind unnoticed and reports no success it did not have.                *)
GroupsAccounted == NoStray /\ HonestEnd
=============================================================================
