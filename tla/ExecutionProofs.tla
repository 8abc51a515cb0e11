--------------------------- MODULE ExecutionProofs ---------------------------
(***************************************************************************)
(* The execution of a task: the process group an agent runs in, the        *)
(* workers that an orchestration puts at a task, and the checkout an agent *)
(* works in and what is published of it. The three do not share state;     *)
(* each has its invariant.                                                 *)
(***************************************************************************)
EXTENDS AgentRun, Orchestrator, ManagedCheckout, FiniteSetTheorems, TLAPS

(* The owned process. Whatever a child, its leader and its descendants do, *)
(* and whenever the timer, a cancellation and the shutdown of the          *)
(* dispatcher come, no process group stays behind unreported and no        *)
(* success is made up.                                                     *)

(* What the dispatcher's record of the group and the group have in common: *)
(* a signal is sent only to a child that was seen and only by a cleanup,   *)
(* and a cleanup or a stage is well only when nothing is alive.            *)
Linked ==
    /\ Owns <=> group.at # "none"
    /\ own.cleanup # "no" => Owns
    /\ own.spawn = "spawned" => Child
    /\ own.spawn = "failed" => ~Child
    /\ own.stage # "no" => own.spawn = "spawned" /\ own.cleanup # "no"
    /\ "ok" \in {own.stage, own.cleanup} => ~Alive
    /\ group.at \in {"none", "unborn", "up"} => group.leader = "none"

(* Where a run that owns a group can be, and what it has heard of it.      *)
Running ==
    /\ Owns => run.runtime \in Owning /\ run.at \in {"going", "ending", "settled"}
    /\ run.at = "going" /\ run.runtime \in Owning => Owns
    /\ run.at = "ending" => Owns
    /\ run.at = "settled" /\ Owns => own.cleanup \in {"ok", "failed"}
    /\ run.said # "none" => \/ run.at \in {"ending", "settled"}
                            \/ run.at = "going" /\ run.runtime = "claude"
    /\ run.runtime \in Owning /\ run.said = "zero" => group.leader = "zero"
    /\ run.runtime = "claude" /\ run.at \in {"prepare", "going"} => run.ctl # "none"

(* From the shutdown on every group is being cleaned up or has been, and a *)
(* query of Claude was told to stop.                                       *)
ShutDown ==
    stop # "no" =>
        /\ Owns => own.cleanup # "no"
        /\ run.at = "going" /\ run.runtime = "claude" => run.ctl = "aborted"

RunInv == AgentTypeOK /\ Linked /\ Running /\ ShutDown /\ GroupsAccounted

RunType ==
    [runtime : Runtimes,
     at : {"claimed", "prepare", "going", "ending", "settled"},
     ctl : {"none", "armed", "aborted"}, late : BOOLEAN,
     said : {"none", "zero", "nonzero", "killed", "error"},
     code : {"none", "ok", "failed", "timeout"}]

(* What a step may do to a group that is owned: it does not come back to   *)
(* life, its leader's end and the outcome of its cleanup are final.        *)
GroupStep ==
    /\ own' \in [spawn : {"none", "pending", "spawned", "failed"},
                 cleanup : {"no", "waiting", "ok", "failed"},
                 stage : {"no", "termed", "killed", "ok", "failed"}]
    /\ group' \in [at : {"none", "up", "behind", "gone", "unborn"},
                   leader : {"none", "zero", "nonzero", "killed"},
                   temper : {"mild", "hard", "stuck"}]
    /\ Linked'
    /\ Owns' <=> Owns
    /\ own.cleanup # "no" => own'.cleanup # "no"
    /\ own.cleanup \in {"ok", "failed"} => own'.cleanup = own.cleanup
    /\ group.leader # "none" => group'.leader = group.leader
    /\ Alive' => Alive

-----------------------------------------------------------------------------
LEMMA SettledType ==
    ASSUME AgentTypeOK, NEW code \in {"none", "ok", "failed", "timeout"}
    PROVE  RunSettled(code) \in RunType
BY DEF AgentTypeOK, RunType, RunSettled

(* A signal ends a group or leaves it as it is.                            *)
LEMMA SignalledGroup ==
    ASSUME AgentTypeOK, NEW tempers
    PROVE  \/ Signalled(group, tempers) = group
           \/ /\ Alive
              /\ Signalled(group, tempers) =
                   [at |-> "gone", temper |-> group.temper,
                    leader |-> IF group.leader = "none" THEN "killed" ELSE group.leader]
BY DEF AgentTypeOK, Alive, Signalled

(* SIGTERM for a child that was seen, in a cleanup that has begun.         *)
LEMMA TermGroupStep ==
    ASSUME AgentTypeOK, Linked, NEW o, TermGroup(o),
           o \in [spawn : {"spawned"}, cleanup : {"waiting", "ok", "failed"},
                  stage : {"no", "termed", "killed", "ok", "failed"}],
           o.stage = own.stage, Child, Owns,
           o.cleanup = own.cleanup \/ own.cleanup = "no",
           "ok" \in {o.stage, o.cleanup} => ~Alive
    PROVE  GroupStep /\ own'.cleanup # "no"
<1>1. CASE o.stage # "no"
    BY <1>1 DEF TermGroup, GroupStep, AgentTypeOK, Linked, Child, Alive, Owns
<1>2. CASE o.stage = "no" /\ group.at = "gone"
    <2>1. /\ own'.stage = "ok" /\ own'.spawn = "spawned" /\ group' = group
          /\ own'.cleanup = IF o.cleanup = "waiting" THEN "ok" ELSE o.cleanup
          /\ own' \in [spawn : {"spawned"}, cleanup : {"ok", "failed"}, stage : {"ok"}]
        BY <1>2 DEF TermGroup
    <2>2. Linked' /\ ~Alive /\ ~Alive'
        BY <1>2, <2>1 DEF AgentTypeOK, Linked, Child, Alive, Owns
    <2>3. QED
        BY <1>2, <2>1, <2>2 DEF GroupStep, AgentTypeOK, Owns
<1>3. CASE o.stage = "no" /\ group.at # "gone"
    <2>1. own' = [o EXCEPT !.stage = "termed"] /\ group' = Signalled(group, {"mild"})
        BY <1>3 DEF TermGroup
    <2>2. QED
        BY <1>3, <2>1, SignalledGroup DEF GroupStep, AgentTypeOK, Linked, Child, Alive, Owns
<1>4. QED
    BY <1>1, <1>2, <1>3

(* A termination begins a cleanup, or leaves the one that has begun alone. *)
LEMMA TerminatedStep ==
    ASSUME AgentTypeOK, Linked, Terminated
    PROVE  GroupStep /\ own'.spawn = own.spawn /\ (Owns => own'.cleanup # "no")
<1>1. CASE ~Owns
    BY <1>1 DEF Terminated, GroupStep, AgentTypeOK, Linked, Child, Alive, Owns
<1>2. CASE Owns /\ own.cleanup # "no"
    BY <1>2 DEF Terminated, Terminate, GroupStep, AgentTypeOK, Linked, Child, Alive, Owns
<1>3. CASE Owns /\ own.cleanup = "no" /\ own.spawn # "spawned"
    BY <1>3 DEF Terminated, Terminate, GroupStep, AgentTypeOK, Linked, Child, Alive, Owns
<1>4. CASE Owns /\ own.cleanup = "no" /\ own.spawn = "spawned"
    <2>1. PICK o : o = [own EXCEPT !.cleanup = "waiting"]
        OBVIOUS
    <2>2. TermGroup(o)
        BY <1>4, <2>1 DEF Terminated, Terminate
    <2>3. GroupStep /\ own'.cleanup # "no"
        BY <1>4, <2>1, <2>2, TermGroupStep DEF AgentTypeOK, Linked, Owns
    <2>4. own'.spawn = own.spawn
        BY <1>4, <2>1, <2>2 DEF TermGroup, AgentTypeOK
    <2>5. QED
        BY <2>3, <2>4
<1>5. QED
    BY <1>1, <1>2, <1>3, <1>4 DEF AgentTypeOK

(* The steps of the group and of its cleanup.                              *)
LEMMA LifeStep ==
    ASSUME AgentTypeOK, Linked,
           SpawnSeen \/ SpawnWaitOver \/ GroupEnds \/ ProbeGone \/ GraceOver \/ KillWaitOver
    PROVE  GroupStep /\ UNCHANGED <<stop, cancel, run>>
<1>1. CASE SpawnSeen
    <2>1. PICK o : o = [own EXCEPT !.spawn = "spawned"]
        OBVIOUS
    <2>2. CASE own.cleanup # "no"
        BY <1>1, <2>1, <2>2, TermGroupStep DEF SpawnSeen, AgentTypeOK, Linked, Owns
    <2>3. CASE own.cleanup = "no"
        BY <1>1, <2>1, <2>3 DEF SpawnSeen, GroupStep, AgentTypeOK, Linked, Child, Alive, Owns
    <2>4. QED
        BY <1>1, <2>2, <2>3 DEF SpawnSeen
<1>2. CASE SpawnWaitOver
    BY <1>2 DEF SpawnWaitOver, GroupStep, AgentTypeOK, Linked, Child, Alive, Owns
<1>3. CASE GroupEnds
    <2>1. CASE group.at = "up"
        <3>1. PICK at \in {"behind", "gone"}, c \in {"zero", "nonzero"} :
                 group' = [at |-> at, leader |-> c, temper |-> group.temper]
            BY <1>3, <2>1 DEF GroupEnds, AgentTypeOK
        <3>2. QED
            BY <1>3, <2>1, <3>1 DEF GroupEnds, GroupStep, AgentTypeOK, Linked, Child, Alive, Owns
    <2>2. CASE group.at # "up"
        <3>1. group' = [at |-> "gone", leader |-> group.leader, temper |-> group.temper]
            BY <1>3, <2>2 DEF GroupEnds, AgentTypeOK
        <3>2. QED
            BY <1>3, <2>2, <3>1 DEF GroupEnds, GroupStep, AgentTypeOK, Linked, Child, Alive, Owns
    <2>3. QED
        BY <2>1, <2>2
<1>4. CASE ProbeGone
    BY <1>4 DEF ProbeGone, Verified, GroupStep, AgentTypeOK, Linked, Child, Alive, Owns
<1>5. CASE GraceOver
    BY <1>5, SignalledGroup DEF GraceOver, GroupStep, AgentTypeOK, Linked, Child, Alive, Owns
<1>6. CASE KillWaitOver
    BY <1>6 DEF KillWaitOver, Verified, GroupStep, AgentTypeOK, Linked, Child, Alive, Owns
<1>7. QED
    BY <1>1, <1>2, <1>3, <1>4, <1>5, <1>6

(* The steps of the group disturb nothing the run relies on.               *)
LEMMA LifeKeepsInv ==
    ASSUME RunInv, GroupStep, UNCHANGED <<stop, cancel, run>>
    PROVE  RunInv'
<1>1. AgentTypeOK' /\ Linked'
    BY DEF RunInv, AgentTypeOK, GroupStep
<1>2. Running'
    BY DEF RunInv, Running, GroupStep, Owns, Owning
<1>3. ShutDown'
    BY DEF RunInv, ShutDown, GroupStep, Owns
<1>4. NoStray'
    BY DEF RunInv, GroupsAccounted, NoStray, GroupStep, AgentTypeOK
<1>5. HonestEnd'
    <2>1. SUFFICES ASSUME run.at = "settled" PROVE HonestEnd'
        BY DEF HonestEnd
    <2>2. HonestEnd
        BY DEF RunInv, GroupsAccounted
    <2>3. Alive' => own'.cleanup = "failed"
        BY <2>1, <2>2 DEF HonestEnd, GroupStep
    <2>4. ASSUME run.code = "ok", run.runtime \in Owning
          PROVE  group'.leader = "zero" /\ group'.at = "gone"
        BY <2>1, <2>2, <2>4, <1>1 DEF HonestEnd, GroupStep, Linked, Alive, AgentTypeOK
    <2>5. QED
        BY <2>1, <2>2, <2>3, <2>4 DEF HonestEnd
<1>6. QED
    BY <1>1, <1>2, <1>3, <1>4, <1>5 DEF RunInv, GroupsAccounted

(* The branches of the runtimes before anything is spawned, and without.   *)
LEMMA BranchKeepsInv ==
    ASSUME RunInv,
           \/ Sample \/ StartRun \/ RefuseRun \/ StartClaude \/ StartOllama
           \/ FallBack \/ OllamaEnds \/ ClaudeSays \/ ClaudeEnds
    PROVE  RunInv'
<1> USE DEF Up, Owning
<1>a. UNCHANGED <<stop, cancel, group, own>>
    BY DEF Sample, StartRun, RefuseRun, StartClaude, StartOllama, FallBack, OllamaEnds, ClaudeSays, ClaudeEnds
<1>b. stop # "exited" /\ Linked /\ AgentTypeOK /\ Running /\ ShutDown
    BY DEF RunInv, Sample, StartRun, RefuseRun, StartClaude, StartOllama, FallBack, OllamaEnds, ClaudeSays, ClaudeEnds
<1>c. Linked' /\ NoStray' /\ (Owns' <=> Owns) /\ (Alive' <=> Alive)
    BY <1>a, <1>b DEF Linked, NoStray, Owns, Alive, Child
<1>d. Alive => Owns
    BY <1>b DEF Linked, Alive
<1>1. CASE Sample
    <2>1. AgentTypeOK'
        BY <1>1, <1>a, <1>b DEF Sample, AgentTypeOK, Runtimes
    <2>2. Running' /\ ShutDown' /\ HonestEnd'
        BY <1>1, <1>a, <1>b, <1>c DEF Sample, AgentTypeOK, Running, ShutDown, HonestEnd
    <2>3. QED
        BY <2>1, <2>2, <1>c DEF RunInv, GroupsAccounted
<1>2. CASE StartRun
    <2>1. AgentTypeOK'
        BY <1>2, <1>a, <1>b DEF StartRun, AgentTypeOK
    <2>2. Running' /\ ShutDown' /\ HonestEnd'
        BY <1>2, <1>a, <1>b, <1>c DEF StartRun, AgentTypeOK, Running, ShutDown, HonestEnd
    <2>3. QED
        BY <2>1, <2>2, <1>c DEF RunInv, GroupsAccounted
<1>3. CASE RefuseRun
    <2>1. AgentTypeOK'
        BY <1>3, <1>a, <1>b DEF RefuseRun, RunSettled, AgentTypeOK
    <2>2. Running' /\ ShutDown' /\ HonestEnd'
        BY <1>3, <1>a, <1>b, <1>c, <1>d DEF RefuseRun, RunSettled, AgentTypeOK, Running, ShutDown, HonestEnd
    <2>3. QED
        BY <2>1, <2>2, <1>c DEF RunInv, GroupsAccounted
<1>4. CASE StartClaude
    <2>1. AgentTypeOK'
        BY <1>4, <1>a, <1>b DEF StartClaude, RunSettled, AgentTypeOK
    <2>2. Running' /\ ShutDown' /\ HonestEnd'
        BY <1>4, <1>a, <1>b, <1>c, <1>d DEF StartClaude, RunSettled, AgentTypeOK, Running, ShutDown, HonestEnd
    <2>3. QED
        BY <2>1, <2>2, <1>c DEF RunInv, GroupsAccounted
<1>5. CASE StartOllama
    <2>1. AgentTypeOK'
        BY <1>5, <1>a, <1>b DEF StartOllama, RunSettled, AgentTypeOK
    <2>2. Running' /\ ShutDown' /\ HonestEnd'
        BY <1>5, <1>a, <1>b, <1>c, <1>d DEF StartOllama, RunSettled, AgentTypeOK, Running, ShutDown, HonestEnd
    <2>3. QED
        BY <2>1, <2>2, <1>c DEF RunInv, GroupsAccounted
<1>6. CASE FallBack
    <2>1. AgentTypeOK'
        BY <1>6, <1>a, <1>b, ZenonT(60) DEF FallBack, RunSettled, AgentTypeOK, Runtimes
    <2>2. Running' /\ ShutDown' /\ HonestEnd'
        <3>1. run.runtime = "ollama" /\ run.at \in {"prepare", "going"} /\ ~Owns /\ ~Alive
            BY <1>6, <1>b, <1>d DEF FallBack, Running
        <3>2. CASE run' = RunSettled("failed")
            BY <3>1, <3>2, <1>a, <1>b, <1>c DEF RunSettled, AgentTypeOK, Running, ShutDown, HonestEnd
        <3>3. CASE run' = [run EXCEPT !.runtime = "claude", !.at = "prepare", !.ctl = "armed"]
            BY <3>1, <3>3, <1>a, <1>b, <1>c DEF AgentTypeOK, Running, ShutDown, HonestEnd
        <3>4. QED
            BY <1>6, <3>2, <3>3 DEF FallBack
    <2>3. QED
        BY <2>1, <2>2, <1>c DEF RunInv, GroupsAccounted
<1>7. CASE OllamaEnds
    <2>1. AgentTypeOK'
        BY <1>7, <1>a, <1>b DEF OllamaEnds, RunSettled, AgentTypeOK
    <2>2. Running' /\ ShutDown' /\ HonestEnd'
        BY <1>7, <1>a, <1>b, <1>c, <1>d DEF OllamaEnds, RunSettled, AgentTypeOK, Running, ShutDown, HonestEnd
    <2>3. QED
        BY <2>1, <2>2, <1>c DEF RunInv, GroupsAccounted
<1>8. CASE ClaudeSays
    <2>1. AgentTypeOK'
        BY <1>8, <1>a, <1>b DEF ClaudeSays, AgentTypeOK
    <2>2. Running' /\ ShutDown' /\ HonestEnd'
        BY <1>8, <1>a, <1>b, <1>c DEF ClaudeSays, AgentTypeOK, Running, ShutDown, HonestEnd
    <2>3. QED
        BY <2>1, <2>2, <1>c DEF RunInv, GroupsAccounted
<1>9. CASE ClaudeEnds
    <2>1. AgentTypeOK'
        BY <1>9, <1>a, <1>b, ZenonT(60) DEF ClaudeEnds, RunSettled, AgentTypeOK
    <2>2. Running' /\ ShutDown' /\ HonestEnd'
        BY <1>9, <1>a, <1>b, <1>c, <1>d DEF ClaudeEnds, RunSettled, AgentTypeOK, Running, ShutDown, HonestEnd
    <2>3. QED
        BY <2>1, <2>2, <1>c DEF RunInv, GroupsAccounted
<1>10. QED
    BY <1>1, <1>2, <1>3, <1>4, <1>5, <1>6, <1>7, <1>8, <1>9

(* A child is spawned only when nothing is owned and admission is open.    *)
LEMMA SpawnStep ==
    ASSUME AgentTypeOK, NEW told \in BOOLEAN, Spawn(told)
    PROVE  /\ own' \in [spawn : {"pending"}, cleanup : {"no", "waiting"}, stage : {"no"}]
           /\ group' \in [at : {"up", "unborn"}, leader : {"none"}, temper : {"mild", "hard", "stuck"}]
           /\ Owns' /\ Linked'
<1>1. /\ own' \in [spawn : {"pending"}, cleanup : {"no", "waiting"}, stage : {"no"}]
      /\ group' \in [at : {"up", "unborn"}, leader : {"none"}, temper : {"mild", "hard", "stuck"}]
    BY DEF Spawn
<1>2. QED
    BY <1>1 DEF Owns, Linked, Child, Alive

LEMMA SpawnKeepsInv ==
    ASSUME RunInv, StartOpencode \/ StartCodex \/ StartResearch
    PROVE  RunInv'
<1> USE DEF Up, Owning
<1>a. /\ UNCHANGED <<stop, cancel>> /\ stop # "exited" /\ run.at \in {"claimed", "prepare"}
      /\ run.runtime \in Owning
    BY DEF StartOpencode, StartCodex, StartResearch
<1>b. AgentTypeOK /\ Linked /\ Running /\ ~Owns /\ ~Alive
    BY <1>a DEF RunInv, Running, Linked, Alive
<1>1. CASE run' = RunSettled("failed") /\ UNCHANGED <<group, own>>
    <2>1. AgentTypeOK'
        <3>1. run' \in RunType
            BY <1>1, <1>b, SettledType
        <3>2. QED
            BY <1>1, <3>1, <1>a, <1>b DEF AgentTypeOK, RunType
    <2>2. Linked' /\ ~Owns' /\ ~Alive'
        BY <1>1, <1>b DEF Linked, Owns, Alive, Child
    <2>3. Running' /\ ShutDown' /\ NoStray' /\ HonestEnd'
        BY <1>1, <1>a, <1>b, <2>2 DEF RunSettled, AgentTypeOK, Running, ShutDown, NoStray, HonestEnd
    <2>4. QED
        BY <2>1, <2>2, <2>3 DEF RunInv, GroupsAccounted
<1>2. CASE \E told \in BOOLEAN, ctl \in {"none", "armed", "aborted"} :
              /\ Spawn(told) /\ stop = "no"
              /\ run' = [run EXCEPT !.at = "going", !.ctl = ctl]
    <2>1. PICK told \in BOOLEAN, ctl \in {"none", "armed", "aborted"} :
              /\ Spawn(told) /\ stop = "no"
              /\ run' = [run EXCEPT !.at = "going", !.ctl = ctl]
        BY <1>2
    <2>2. AgentTypeOK' /\ Linked' /\ Owns'
        BY <1>a, <1>b, <2>1, SpawnStep, ZenonT(60) DEF AgentTypeOK
    <2>3. run'.at = "going" /\ run'.runtime = run.runtime /\ run'.said = "none"
        BY <1>a, <1>b, <2>1 DEF AgentTypeOK, Running
    <2>4. Running' /\ ShutDown' /\ NoStray' /\ HonestEnd'
        BY <1>a, <2>1, <2>2, <2>3 DEF Running, ShutDown, NoStray, HonestEnd
    <2>5. QED
        BY <2>2, <2>4 DEF RunInv, GroupsAccounted
<1>3. CASE StartOpencode
    BY <1>1, <1>2, <1>3, <1>b DEF StartOpencode, AgentTypeOK
<1>4. CASE StartCodex
    <2>1. run.ctl \in {"none", "armed", "aborted"} /\ run = [run EXCEPT !.ctl = run.ctl]
        BY <1>b DEF AgentTypeOK
    <2>2. [run EXCEPT !.at = "going"] = [run EXCEPT !.at = "going", !.ctl = run.ctl]
        BY <1>b DEF AgentTypeOK
    <2>3. QED
        BY <1>1, <1>2, <1>4, <2>1, <2>2, <1>a, <1>b, ZenonT(60) DEF StartCodex, AgentTypeOK
<1>5. CASE StartResearch
    <2>1. run.ctl \in {"none", "armed", "aborted"} /\ (run.ctl = "aborted") \in BOOLEAN
        BY <1>b DEF AgentTypeOK
    <2>2. [run EXCEPT !.at = "going"] = [run EXCEPT !.at = "going", !.ctl = run.ctl]
        BY <1>b DEF AgentTypeOK
    <2>3. QED
        BY <1>1, <1>2, <1>5, <2>1, <2>2, <1>a, <1>b, ZenonT(60) DEF StartResearch, AgentTypeOK
<1>6. QED
    BY <1>3, <1>4, <1>5

(* The events that end a run that owns a group.                            *)
LEMMA EndKeepsInv ==
    ASSUME RunInv, ErrorSeen \/ TimeOut \/ ExitSeen \/ CleanupFailureSeen
    PROVE  RunInv'
<1> USE DEF Up
<1>a. UNCHANGED <<stop, cancel>> /\ stop # "exited"
    BY DEF ErrorSeen, TimeOut, ExitSeen, CleanupFailureSeen
<1>b. AgentTypeOK /\ Linked /\ Running /\ ShutDown /\ HonestEnd
    BY DEF RunInv, GroupsAccounted
<1>c. NoStray'
    BY <1>a DEF NoStray
<1>1. CASE ErrorSeen
    <2>1. GroupStep
        BY <1>1, <1>b DEF ErrorSeen, GroupStep, AgentTypeOK, Linked, Child, Alive, Owns
    <2>2. CASE run.at # "going"
        <3>1. UNCHANGED <<stop, cancel, run>>
            BY <1>1, <2>2 DEF ErrorSeen
        <3>2. QED
            BY <3>1, <2>1, LifeKeepsInv
    <2>3. CASE run.at = "going"
        <3>1. run' = [run EXCEPT !.at = "ending", !.said = "error"] /\ Owns
            BY <1>1, <2>3 DEF ErrorSeen, Owns
        <3>2. AgentTypeOK' /\ Linked'
            BY <2>1, <3>1, <1>a, <1>b DEF GroupStep, AgentTypeOK
        <3>3. Running' /\ ShutDown' /\ HonestEnd'
            BY <2>1, <3>1, <1>a, <1>b DEF GroupStep, AgentTypeOK, Running, ShutDown, HonestEnd
        <3>4. QED
            BY <3>2, <3>3, <1>c DEF RunInv, GroupsAccounted
    <2>4. QED
        BY <2>2, <2>3
<1>2. CASE TimeOut
    <2>1. GroupStep
        BY <1>2, <1>b, TerminatedStep DEF TimeOut
    <2>2. run.at = "going" /\ run' = [run EXCEPT !.late = TRUE]
        BY <1>2 DEF TimeOut
    <2>3. AgentTypeOK' /\ Linked'
        BY <2>1, <2>2, <1>a, <1>b DEF GroupStep, AgentTypeOK
    <2>4. Running' /\ ShutDown' /\ HonestEnd'
        BY <2>1, <2>2, <1>a, <1>b DEF GroupStep, AgentTypeOK, Running, ShutDown, HonestEnd
    <2>5. QED
        BY <2>3, <2>4, <1>c DEF RunInv, GroupsAccounted
<1>3. CASE ExitSeen
    <2>1. GroupStep /\ (Owns => own'.cleanup # "no")
        BY <1>3, <1>b, TerminatedStep DEF ExitSeen
    <2>2. /\ run.at = "going" /\ Owns /\ group.leader # "none"
          /\ run' = [run EXCEPT !.at = "ending", !.said = group.leader]
        BY <1>3 DEF ExitSeen, Owns
    <2>3. AgentTypeOK' /\ Linked'
        BY <2>1, <2>2, <1>a, <1>b DEF GroupStep, AgentTypeOK
    <2>4. Running' /\ ShutDown' /\ HonestEnd'
        BY <2>1, <2>2, <1>a, <1>b DEF GroupStep, AgentTypeOK, Running, ShutDown, HonestEnd
    <2>5. QED
        BY <2>3, <2>4, <1>c DEF RunInv, GroupsAccounted
<1>4. CASE CleanupFailureSeen
    <2>1. /\ run.at = "going" /\ Owns /\ UNCHANGED <<group, own>>
          /\ run' = [run EXCEPT !.at = "ending"]
        BY <1>4, <1>b DEF CleanupFailureSeen, Owns, Linked
    <2>2. AgentTypeOK' /\ Linked' /\ Owns'
        BY <2>1, <1>a, <1>b DEF AgentTypeOK, Linked, Owns, Alive, Child
    <2>3. Running' /\ ShutDown' /\ HonestEnd'
        BY <2>1, <2>2, <1>a, <1>b DEF AgentTypeOK, Running, ShutDown, HonestEnd
    <2>4. QED
        BY <2>2, <2>3, <1>c DEF RunInv, GroupsAccounted
<1>5. QED
    BY <1>1, <1>2, <1>3, <1>4

(* The exit code is that of the leader only when it was in time and the    *)
(* cleanup verified the group gone.                                        *)
LEMMA SettleKeepsInv ==
    ASSUME RunInv, Settle
    PROVE  RunInv'
<1> USE DEF Up
<1>a. UNCHANGED <<stop, cancel, group, own>> /\ stop # "exited" /\ run.at = "ending"
    BY DEF Settle
<1>b. AgentTypeOK /\ Linked /\ Running /\ ShutDown /\ Owns
    BY <1>a DEF RunInv, Running
<1>c. /\ own.cleanup \in {"ok", "failed"} /\ Code \in {"ok", "failed", "timeout"}
      /\ Code = "ok" => ~run.late /\ run.said = "zero" /\ own.cleanup = "ok"
    BY DEF Settle, Code
<1>1. PICK code \in {"ok", "failed", "timeout"} :
         run' = RunSettled(code) /\ (code = "ok" => Code = "ok")
    BY <1>c DEF Settle
<1>2. AgentTypeOK' /\ Linked' /\ Owns' /\ (Alive' <=> Alive)
    <2>1. run' \in RunType
        BY <1>1, <1>b, SettledType
    <2>2. AgentTypeOK'
        BY <2>1, <1>a, <1>b DEF AgentTypeOK, RunType
    <2>3. Linked' /\ Owns' /\ (Alive' <=> Alive)
        BY <1>a, <1>b DEF Linked, Owns, Alive, Child
    <2>4. QED
        BY <2>2, <2>3
<1>3. Running' /\ ShutDown' /\ NoStray'
    BY <1>1, <1>2, <1>a, <1>b, <1>c DEF RunSettled, AgentTypeOK, Running, ShutDown, NoStray
<1>4. HonestEnd'
    <2>1. Alive' => own'.cleanup = "failed"
        BY <1>2, <1>a, <1>b, <1>c DEF Linked
    <2>2. run'.late = run.late /\ run'.runtime = run.runtime /\ run'.said = run.said /\ run'.code = code
        BY <1>1, <1>b DEF RunSettled, AgentTypeOK
    <2>3. code = "ok" => group'.leader = "zero" /\ group'.at = "gone"
        BY <1>1, <1>a, <1>b, <1>c DEF Running, Linked, Alive, AgentTypeOK
    <2>4. QED
        BY <2>1, <2>2, <2>3, <1>1, <1>c DEF HonestEnd
<1>5. QED
    BY <1>2, <1>3, <1>4 DEF RunInv, GroupsAccounted

(* Cancellation and shutdown.                                              *)
LEMMA StopKeepsInv ==
    ASSUME RunInv, AskCancel \/ Watch \/ Shutdown \/ Exit
    PROVE  RunInv'
<1>b. AgentTypeOK /\ Linked /\ Running /\ ShutDown /\ NoStray /\ HonestEnd
    BY DEF RunInv, GroupsAccounted
<1>1. CASE AskCancel
    <2>1. AgentTypeOK' /\ Linked' /\ Running' /\ ShutDown' /\ NoStray' /\ HonestEnd'
        BY <1>1, <1>b DEF AskCancel, AgentTypeOK, Linked, Running, ShutDown, NoStray, HonestEnd,
                          Owns, Alive, Child
    <2>2. QED
        BY <2>1 DEF RunInv, GroupsAccounted
<1>2. ASSUME Watch \/ Shutdown
      PROVE  RunInv'
    <2>1. GroupStep /\ (Owns => own'.cleanup # "no")
        BY <1>2, <1>b, TerminatedStep DEF Watch, Shutdown
    <2>2. PICK ctl \in {"none", "armed", "aborted"} :
             /\ run' = [run EXCEPT !.ctl = ctl]
             /\ ctl # "none" <=> run.ctl # "none"
             /\ run.runtime = "claude" /\ run.ctl # "none" => ctl = "aborted"
        BY <1>2, <1>b DEF Watch, Shutdown, Aborted, AgentTypeOK
    <2>3. /\ run'.at = run.at /\ run'.runtime = run.runtime /\ run'.said = run.said
          /\ run'.late = run.late /\ run'.code = run.code /\ run'.ctl = ctl
        BY <2>2, <1>b DEF AgentTypeOK
    <2>4. AgentTypeOK' /\ Linked'
        BY <1>2, <2>1, <2>2, <1>b DEF GroupStep, AgentTypeOK, Watch, Shutdown
    <2>5. Running' /\ ShutDown'
        BY <1>2, <2>1, <2>2, <2>3, <1>b DEF GroupStep, Running, ShutDown, Owns, Owning
    <2>6. NoStray'
        BY <1>2 DEF Watch, Shutdown, Up, NoStray
    <2>7. HonestEnd'
        <3>1. SUFFICES ASSUME run.at = "settled" PROVE HonestEnd'
            BY <2>3 DEF HonestEnd
        <3>2. Alive' => own'.cleanup = "failed"
            BY <2>1, <3>1, <1>b DEF HonestEnd, GroupStep
        <3>3. ASSUME run.code = "ok", run.runtime \in Owning
              PROVE  group'.leader = "zero" /\ group'.at = "gone"
            BY <2>1, <2>4, <3>1, <3>3, <1>b DEF HonestEnd, GroupStep, Linked, Alive, AgentTypeOK
        <3>4. QED
            BY <2>3, <3>1, <3>2, <3>3, <1>b DEF HonestEnd
    <2>8. QED
        BY <2>4, <2>5, <2>6, <2>7 DEF RunInv, GroupsAccounted
<1>3. CASE Exit
    <2>1. /\ stop = "stopping" /\ stop' = "exited" /\ own.cleanup # "waiting"
          /\ UNCHANGED <<cancel, run, group, own>>
        BY <1>3 DEF Exit
    <2>2. AgentTypeOK' /\ Linked' /\ Running' /\ ShutDown' /\ HonestEnd'
        BY <2>1, <1>b DEF AgentTypeOK, Linked, Running, ShutDown, HonestEnd, Owns, Alive, Child
    <2>3. Alive => own.cleanup = "failed"
        BY <2>1, <1>b DEF AgentTypeOK, Linked, ShutDown, Alive
    <2>4. NoStray'
        BY <2>1, <2>3, <1>b DEF NoStray, ShutDown, Alive
    <2>5. QED
        BY <2>2, <2>4 DEF RunInv, GroupsAccounted
<1>4. QED
    BY <1>1, <1>2, <1>3

-----------------------------------------------------------------------------
LEMMA InitRunInv == AgentInit => RunInv
<1>1. SUFFICES ASSUME AgentInit PROVE RunInv
    OBVIOUS
<1>2. run.at = "claimed" /\ run.said = "none" /\ stop = "no" /\ AgentTypeOK
    BY <1>1 DEF AgentInit, AgentTypeOK, Runtimes
<1>3. Linked /\ Running /\ ShutDown
    BY <1>1, <1>2 DEF AgentInit, Linked, Running, ShutDown, Owns, Alive, Child
<1>4. GroupsAccounted
    BY <1>2 DEF GroupsAccounted, NoStray, HonestEnd
<1>5. QED
    BY <1>2, <1>3, <1>4 DEF RunInv

LEMMA NextRunInv == RunInv /\ [AgentNext]_agentVars => RunInv'
<1>1. SUFFICES ASSUME RunInv, [AgentNext]_agentVars PROVE RunInv'
    OBVIOUS
<1>2. AgentTypeOK /\ Linked
    BY <1>1 DEF RunInv
<1>3. CASE SpawnSeen \/ SpawnWaitOver \/ GroupEnds \/ ProbeGone \/ GraceOver \/ KillWaitOver
    BY <1>1, <1>2, <1>3, LifeStep, LifeKeepsInv
<1>4. CASE UNCHANGED agentVars
    BY <1>1, <1>4 DEF agentVars, RunInv, AgentTypeOK, Linked, Running, ShutDown, GroupsAccounted, NoStray,
                     HonestEnd, Owns, Alive, Child
<1>5. QED
    BY <1>1, <1>3, <1>4, BranchKeepsInv, SpawnKeepsInv, EndKeepsInv, SettleKeepsInv, StopKeepsInv
       DEF AgentNext

(* Every reachable state of AgentRun has its type, and with it what the    *)
(* dispatcher knows of the group agrees with the group                     *)
(* (OwnedProcessLifecycle).                                                *)
THEOREM RunTyped == AgentSpec => [](AgentTypeOK /\ Linked /\ Running)
<1>1. RunInv => AgentTypeOK /\ Linked /\ Running
    BY DEF RunInv
<1>2. QED
    BY InitRunInv, NextRunInv, <1>1, PTL DEF AgentSpec

(* Whether a run ends by itself, by its timer, by a cancellation or by the *)
(* shutdown of the dispatcher, it leaves no process group alive that was   *)
(* not reported, and reports no success it did not have                    *)
(* (terminateAllOwnedProcesses, exitCodeAfterCleanup).                     *)
THEOREM GroupsAlwaysAccounted == AgentSpec => []GroupsAccounted
<1>1. RunInv => GroupsAccounted
    BY DEF RunInv
<1>2. QED
    BY InitRunInv, NextRunInv, <1>1, PTL DEF AgentSpec

-------------------------------------------------------------------------------
(* The orchestration. However many subtasks are planned, workers run at    *)
(* once and tries are allowed: Pi turns never overlap in their worktree,   *)
(* and the answer is made of what the workers achieved.                    *)

(* The engine's phases: workers start after the plan and have ended when   *)
(* their results are verified; what is synthesized stays as it was.        *)
Phases ==
    /\ exec.at \in {"new", "asks"} => engine.at = "idle"
    /\ engine.at \in {"idle", "plans"} => \A i \in Subtasks : workers[i].at = "queued"
    /\ \A i \in Subtasks : workers[i].at # "queued" => i \in Planned
    /\ engine.at \in {"verifies", "synthesizes", "over"} =>
          \A i \in Planned : workers[i].at \in Ended
    /\ used = IF engine.at = "over" THEN Inputs ELSE {}
    /\ exec.code # "none" <=> exec.at = "done"
    /\ exec.code = "ok" => engine.at = "over" /\ used # {} /\ ~signal

(* What a worker is allowed to be for its provider.                        *)
Kinds ==
    \A i \in Subtasks :
        /\ workers[i].node = "orin" => cfg.provider = "orin"
        /\ workers[i].at = "waits" => cfg.provider # "pi"
        /\ workers[i].at \in {"checked", "closing"} => cfg.provider = "pi"
        /\ piGroup[i] # "none" => cfg.provider = "pi" /\ workers[i].at \notin {"queued", "checked"}

(* Pi turns come one after the other.  A turn that was not good, or whose  *)
(* group is not gone, has tainted the binding before the next one starts.  *)
Turns ==
    cfg.provider = "pi" =>
        /\ \A i, j \in Subtasks : i < j /\ workers[j].at # "queued" => workers[i].at \in Ended
        /\ \A i \in Subtasks :
              /\ workers[i].at \in InFlight => ~tainted
              /\ workers[i].at = "ok" => piGroup[i] = "gone"
              /\ workers[i].at = "failed" /\ piGroup[i] # "none" =>
                     tainted /\ piGroup[i] \in {"gone", "stuck"}
        /\ \A i, j \in Subtasks :
              i < j /\ piGroup[i] # "none" /\ piGroup[j] # "none" => workers[i].at = "ok"

EngineInv == OrchTypeOK /\ Phases /\ Kinds /\ Turns

-----------------------------------------------------------------------------
WorkerType ==
    [at : {"queued"} \cup InFlight \cup Ended, tries : 0..MaxRetries,
     node : {"m5", "orin"}, killed : BOOLEAN, good : BOOLEAN]
GroupStates == {"none", "up", "dying", "gone", "stuck"}

(* A step of worker i alone.                                               *)
Step(i, w, g) ==
    /\ workers' = [workers EXCEPT ![i] = w] /\ piGroup' = [piGroup EXCEPT ![i] = g]
    /\ w \in WorkerType /\ g \in GroupStates
    /\ UNCHANGED <<cfg, signal, exec, engine, plan, trusted, verdict, used>>
Same == UNCHANGED <<workers, piGroup>>

(* Nothing is queued below the next subtask, and of serial workers none    *)
(* runs when the next one starts.                                          *)
LEMMA SlotsFinite ==
    ASSUME OrchTypeOK
    PROVE  IsFiniteSet(InSlots) /\ (Cardinality(InSlots) < 1 => InSlots = {})
<1>1. IsFiniteSet(Planned)
    BY Limits, FS_Interval DEF OrchTypeOK, Planned
<1>2. IsFiniteSet(InSlots)
    BY <1>1, FS_Subset DEF InSlots
<1>3. Cardinality(InSlots) \in Nat
    BY <1>2, FS_CardinalityType
<1>4. QED
    BY <1>2, <1>3, FS_EmptySet

(* What the executor and the engine do between the workers' steps.         *)
LEMMA CalmKeepsInv ==
    ASSUME EngineInv, Begin \/ LoadConfidence \/ Finish \/ Plan \/ WorkDone \/ VerifyAnswers \/ Synthesize
    PROVE  EngineInv'
<1>a. UNCHANGED <<cfg, workers, piGroup, tainted>>
    BY DEF Begin, LoadConfidence, Finish, Plan, WorkDone, VerifyAnswers, Synthesize
<1>b. OrchTypeOK /\ Phases /\ Kinds /\ Turns
    BY DEF EngineInv
<1>c. Kinds' /\ Turns'
    BY <1>a, <1>b DEF Kinds, Turns
<1>d. 1 \in 1..MaxSubtasks
    BY Limits
<1>e. ASSUME EngineStarts, engine.at = "idle"
      PROVE  /\ engine' \in [at : {"works", "plans"}, out : BOOLEAN]
             /\ plan' \in 0..MaxSubtasks
    <2>1. CASE signal
        <3>1. engine' = [at |-> "works", out |-> engine.out] /\ plan' = 1
            BY <2>1, <1>e, <1>b DEF EngineStarts, OrchTypeOK
        <3>2. QED
            BY <3>1, <1>b, <1>d DEF OrchTypeOK
    <2>2. CASE ~signal
        <3>1. engine' = [at |-> "plans", out |-> TRUE] /\ plan' = plan
            BY <2>2, <1>e DEF EngineStarts
        <3>2. QED
            BY <3>1, <1>b DEF OrchTypeOK
    <2>3. QED
        BY <2>1, <2>2
<1>1. CASE Begin
    <2>1. /\ UNCHANGED <<cfg, signal, trusted, workers, piGroup, tainted, verdict, used>>
          /\ engine.at = "idle" /\ exec.at = "new"
          /\ exec' \in [at : {"done", "asks", "races"}, code : {"none", "refused", "aborted"}]
          /\ exec'.code # "none" <=> exec'.at = "done"
          /\ exec'.at # "races" => UNCHANGED <<engine, plan>>
          /\ exec'.at = "races" => EngineStarts
        BY <1>1, <1>b DEF Begin, Done, Phases, OrchTypeOK
    <2>2. OrchTypeOK'
        BY <2>1, <1>b, <1>e DEF OrchTypeOK
    <2>3. Phases'
        BY <2>1, <1>b, <1>e DEF Phases, Planned
    <2>4. QED
        BY <2>2, <2>3, <1>c DEF EngineInv
<1>2. CASE LoadConfidence
    <2>1. /\ UNCHANGED <<cfg, signal, workers, piGroup, tainted, verdict, used>>
          /\ engine.at = "idle" /\ EngineStarts /\ trusted' \subseteq Subtasks
          /\ exec' = [at |-> "races", code |-> "none"]
        BY <1>2, <1>b DEF LoadConfidence, Phases, OrchTypeOK
    <2>2. OrchTypeOK'
        BY <2>1, <1>b, <1>e DEF OrchTypeOK
    <2>3. Phases'
        BY <2>1, <1>b, <1>e DEF Phases, Planned
    <2>4. QED
        BY <2>2, <2>3, <1>c DEF EngineInv
<1>3. CASE Finish
    <2>1. /\ UNCHANGED <<cfg, signal, engine, plan, trusted, workers, piGroup, tainted, verdict, used>>
          /\ exec' \in [at : {"done"}, code : {"aborted", "failed", "ok"}]
          /\ exec'.code = "ok" => engine.at = "over" /\ used # {} /\ ~signal
        BY <1>3 DEF Finish, Done
    <2>2. OrchTypeOK'
        BY <2>1, <1>b DEF OrchTypeOK
    <2>3. Phases'
        BY <2>1, <1>b DEF Phases, Planned, Inputs, Ok
    <2>4. QED
        BY <2>2, <2>3, <1>c DEF EngineInv
<1>4. CASE Plan
    <2>1. /\ UNCHANGED <<cfg, signal, exec, trusted, workers, piGroup, tainted, verdict, used>>
          /\ engine.at = "plans" /\ engine' = [at |-> "works", out |-> FALSE]
          /\ plan' \in 0..MaxSubtasks
        BY Limits, <1>4, <1>d DEF Plan, Subtasks
    <2>2. OrchTypeOK'
        BY <2>1, <1>b DEF OrchTypeOK
    <2>3. Phases'
        BY <2>1, <1>b DEF Phases, Planned
    <2>4. QED
        BY <2>2, <2>3, <1>c DEF EngineInv
<1>5. CASE WorkDone
    <2>1. /\ UNCHANGED <<cfg, signal, exec, plan, trusted, workers, piGroup, tainted, verdict, used>>
          /\ engine.at = "works" /\ \A i \in Planned : workers[i].at \in Ended
          /\ engine' = [at |-> "verifies", out |-> engine.out]
        BY <1>5, <1>b DEF WorkDone, OrchTypeOK
    <2>2. OrchTypeOK'
        BY <2>1, <1>b DEF OrchTypeOK
    <2>3. Phases'
        BY <2>1, <1>b DEF Phases, Planned
    <2>4. QED
        BY <2>2, <2>3, <1>c DEF EngineInv
<1>6. CASE VerifyAnswers
    <2>1. /\ UNCHANGED <<cfg, signal, exec, plan, trusted, workers, piGroup, tainted, used>>
          /\ engine.at = "verifies" /\ engine' \in [at : {"verifies"}, out : BOOLEAN]
          /\ verdict' \in [Subtasks -> {"none", "pass", "fail", "unknown"}]
        <3>1. /\ UNCHANGED <<cfg, signal, exec, plan, trusted, workers, piGroup, tainted, used>>
              /\ engine.at = "verifies"
            BY <1>6 DEF VerifyAnswers
        <3>2. PICK out \in BOOLEAN : engine' = [engine EXCEPT !.out = out]
            BY <1>6 DEF VerifyAnswers
        <3>3. engine' \in [at : {"verifies"}, out : BOOLEAN]
            BY <3>1, <3>2, <1>b DEF OrchTypeOK
        <3>4. \/ UNCHANGED verdict
              \/ \E v \in {"pass", "fail", "unknown"} :
                    verdict' = [verdict EXCEPT ![Min(Unverified)] = v]
            BY <1>6 DEF VerifyAnswers
        <3>5. verdict' \in [Subtasks -> {"none", "pass", "fail", "unknown"}]
            BY <3>4, <1>b DEF OrchTypeOK
        <3>6. QED
            BY <3>1, <3>3, <3>5
    <2>2. OrchTypeOK'
        BY <2>1, <1>b DEF OrchTypeOK
    <2>3. Phases'
        BY <2>1, <1>b DEF Phases, Planned
    <2>4. QED
        BY <2>2, <2>3, <1>c DEF EngineInv
<1>7. CASE Synthesize
    <2>1. /\ UNCHANGED <<cfg, signal, exec, plan, trusted, workers, piGroup, tainted, verdict>>
          /\ engine.at \in {"verifies", "synthesizes"}
          /\ \/ engine' = [at |-> "synthesizes", out |-> TRUE] /\ UNCHANGED used
             \/ engine' = [at |-> "over", out |-> FALSE] /\ used' = Inputs
        BY <1>7 DEF Synthesize
    <2>2. Inputs \subseteq Subtasks /\ Inputs' = Inputs
        <3>1. Planned \subseteq Subtasks
            BY Limits, <1>b DEF Planned, OrchTypeOK, Subtasks
        <3>2. Inputs \subseteq Planned
            BY DEF Inputs, Ok
        <3>3. Inputs' = Inputs
            BY <2>1 DEF Inputs, Ok, Planned
        <3>4. QED
            BY <3>1, <3>2, <3>3
    <2>3. OrchTypeOK'
        <3>1. used' \subseteq Subtasks
            BY <2>1, <2>2, <1>b DEF OrchTypeOK
        <3>2. engine' \in [at : {"synthesizes", "over"}, out : BOOLEAN]
            <4>1. CASE engine' = [at |-> "synthesizes", out |-> TRUE]
                BY <4>1
            <4>2. CASE engine' = [at |-> "over", out |-> FALSE]
                BY <4>2
            <4>3. QED
                BY <2>1, <4>1, <4>2
        <3>3. QED
            BY <2>1, <3>1, <3>2, <1>b DEF OrchTypeOK
    <2>4. Phases'
        BY <2>1, <2>2, <1>b DEF Phases, Planned
    <2>5. QED
        BY <2>3, <2>4, <1>c DEF EngineInv
<1>8. QED
    BY <1>1, <1>2, <1>3, <1>4, <1>5, <1>6, <1>7

(* The abort reaches the Pi turns that run.                                *)
LEMMA HeardStep ==
    ASSUME OrchTypeOK, Heard
    PROVE  /\ workers' \in [Subtasks -> WorkerType]
           /\ piGroup' \in [Subtasks -> GroupStates]
           /\ \A i \in Subtasks :
                 /\ workers'[i].at = workers[i].at /\ workers'[i].node = workers[i].node
                 /\ \/ piGroup'[i] = piGroup[i]
                    \/ workers[i].at = "sent" /\ piGroup[i] = "up" /\ piGroup'[i] = "dying"
<1> DEFINE hit == {i \in Subtasks : cfg.provider = "pi" /\ workers[i].at = "sent"}
<1>1. /\ workers' = [i \in Subtasks |->
                       IF i \in hit THEN [workers[i] EXCEPT !.killed = TRUE] ELSE workers[i]]
      /\ piGroup' = [i \in Subtasks |->
                        IF i \in hit /\ piGroup[i] = "up" THEN "dying" ELSE piGroup[i]]
    BY DEF Heard
<1>2. workers \in [Subtasks -> WorkerType] /\ piGroup \in [Subtasks -> GroupStates]
    BY DEF OrchTypeOK, WorkerType, GroupStates
<1>3. ASSUME NEW i \in Subtasks
      PROVE  /\ workers'[i] \in WorkerType /\ piGroup'[i] \in GroupStates
             /\ workers'[i].at = workers[i].at /\ workers'[i].node = workers[i].node
             /\ \/ piGroup'[i] = piGroup[i]
                \/ workers[i].at = "sent" /\ piGroup[i] = "up" /\ piGroup'[i] = "dying"
    <2>1. workers[i] \in WorkerType /\ piGroup[i] \in GroupStates
        BY <1>2
    <2>2. CASE i \in hit
        <3>1. workers'[i] = [workers[i] EXCEPT !.killed = TRUE] /\ workers[i].at = "sent"
            BY <1>1, <2>2
        <3>2. workers'[i] \in WorkerType /\ workers'[i].at = workers[i].at /\ workers'[i].node = workers[i].node
            BY <2>1, <3>1 DEF WorkerType
        <3>3. QED
            BY <1>1, <2>1, <3>1, <3>2 DEF GroupStates
    <2>3. CASE i \notin hit
        BY <1>1, <2>1, <2>3
    <2>4. QED
        BY <2>2, <2>3
<1>4. QED
    <2> HIDE DEF hit
    <2>1. workers' = [i \in Subtasks |-> workers'[i]] /\ piGroup' = [i \in Subtasks |-> piGroup'[i]]
        BY <1>1
    <2>2. QED
        BY <1>3, <2>1

LEMMA AbortKeepsInv ==
    ASSUME EngineInv, CallerAborts \/ RunTimesOut
    PROVE  EngineInv'
<1>b. OrchTypeOK /\ Phases /\ Kinds /\ Turns
    BY DEF EngineInv
<1>1. /\ UNCHANGED <<cfg, engine, plan, trusted, tainted, verdict, used>>
      /\ signal' \in BOOLEAN /\ exec.at # "done"
      /\ exec' \in [at : {"new", "asks", "races", "done"},
                    code : {"none", "refused", "aborted", "timeout", "failed", "ok"}]
      /\ exec' = exec \/ (exec.at = "races" /\ exec'.at = "done" /\ exec'.code \in {"aborted", "timeout"})
    <2>1. CASE CallerAborts
        BY <2>1, <1>b DEF CallerAborts, OrchTypeOK
    <2>2. CASE RunTimesOut
        <3>1. exec' = [at |-> "done", code |-> IF signal THEN "aborted" ELSE "timeout"]
            BY <2>2 DEF RunTimesOut, Done
        <3>2. QED
            BY <2>2, <3>1, <1>b DEF RunTimesOut, OrchTypeOK
    <2>3. QED
        BY <2>1, <2>2
<1>2. /\ workers' \in [Subtasks -> WorkerType]
      /\ piGroup' \in [Subtasks -> GroupStates]
      /\ \A i \in Subtasks :
            /\ workers'[i].at = workers[i].at /\ workers'[i].node = workers[i].node
            /\ \/ piGroup'[i] = piGroup[i]
               \/ workers[i].at = "sent" /\ piGroup[i] = "up" /\ piGroup'[i] = "dying"
    <2>1. CASE Heard
        BY <2>1, <1>b, HeardStep
    <2>2. CASE UNCHANGED <<workers, piGroup>>
        BY <2>2, <1>b DEF OrchTypeOK, WorkerType, GroupStates
    <2>3. QED
        BY <2>1, <2>2 DEF CallerAborts, RunTimesOut
<1>3. OrchTypeOK'
    BY <1>1, <1>2, <1>b DEF OrchTypeOK, WorkerType, GroupStates
<1>4. Phases'
    <2>1. Planned' = Planned /\ Planned \subseteq Subtasks
        BY Limits, <1>1, <1>b DEF Planned, Subtasks, OrchTypeOK
    <2>2. Ok' = Ok
        BY <1>2, <2>1 DEF Ok
    <2>3. Inputs' = Inputs
        BY <1>1, <2>2 DEF Inputs
    <2>4. used' = IF engine'.at = "over" THEN Inputs' ELSE {}
        BY <1>1, <1>b, <2>3 DEF Phases
    <2>5. /\ exec'.at \in {"new", "asks"} => engine'.at = "idle"
          /\ exec'.code # "none" <=> exec'.at = "done"
          /\ exec'.code # "ok"
        BY <1>1, <1>b DEF Phases
    <2>6. QED
        BY <1>1, <1>2, <1>b, <2>1, <2>4, <2>5 DEF Phases
<1>5. Kinds'
    BY <1>1, <1>2, <1>b DEF Kinds
<1>6. Turns'
    BY <1>1, <1>2, <1>b DEF Turns, InFlight, Ended
<1>7. QED
    BY <1>3, <1>4, <1>5, <1>6 DEF EngineInv

(* What the step leaves of worker i (w) and its group (g), by what it was.  *)
Outcome(i, w, g) ==
    \/ /\ w.at \in Ended \cup {"waits"} /\ g = piGroup[i] /\ UNCHANGED tainted
       /\ workers[i].at = "sent" /\ (cfg.provider # "pi" \/ workers[i].node = "orin")
    \/ /\ w.at = "failed" /\ g = piGroup[i] /\ UNCHANGED tainted
       /\ workers[i].at \in {"waits", "checked"}
    \/ /\ w.at = "sent" /\ g = piGroup[i] /\ UNCHANGED tainted
       /\ workers[i].at = "waits"
    \/ /\ w.at = "sent" /\ g = "up" /\ UNCHANGED tainted
       /\ workers[i].at = "checked"
    \/ /\ w.at \in {"sent", "closing"} /\ UNCHANGED tainted
       /\ g = piGroup[i] \/ (piGroup[i] = "up" /\ g \in {"dying", "gone"})
       /\ workers[i].at = "sent" /\ cfg.provider = "pi"
    \/ /\ w = workers[i] /\ g \in {"gone", "stuck"} /\ UNCHANGED tainted
       /\ piGroup[i] = "dying"
    \/ /\ g = piGroup[i] /\ piGroup[i] \in {"gone", "stuck"}
       /\ workers[i].at = "closing"
       /\ \/ w.at = "ok" /\ piGroup[i] = "gone" /\ UNCHANGED tainted
          \/ w.at = "failed" /\ tainted' = TRUE

LEMMA WorkStep ==
    ASSUME OrchTypeOK, NEW i \in Subtasks,
           \/ Answered(i) \/ Busy(i) \/ Unavailable(i) \/ WaitEnds(i)
           \/ LaunchPi(i) \/ CallTimeOut(i) \/ PiExits(i) \/ CleanedUp(i) \/ PiEnds(i)
    PROVE  \E w, g :
              /\ Step(i, w, g) /\ Outcome(i, w, g) /\ tainted' \in BOOLEAN
              /\ w.node = workers[i].node \/ (workers[i].node = "orin" /\ w.node = "m5")
<1>a. /\ workers[i] \in WorkerType /\ piGroup[i] \in GroupStates /\ tainted \in BOOLEAN
      /\ workers \in [Subtasks -> WorkerType] /\ piGroup \in [Subtasks -> GroupStates]
    BY DEF OrchTypeOK, WorkerType, GroupStates
<1>b. workers = [workers EXCEPT ![i] = workers[i]] /\ piGroup = [piGroup EXCEPT ![i] = piGroup[i]]
    BY <1>a
<1>c. \A at \in {"queued"} \cup InFlight \cup Ended :
         /\ [workers[i] EXCEPT !.at = at] \in WorkerType
         /\ [workers[i] EXCEPT !.at = at].at = at
         /\ [workers[i] EXCEPT !.at = at].node = workers[i].node
    BY <1>a DEF WorkerType
<1>d. \A at : Put(i, at) => workers' = [workers EXCEPT ![i] = [workers[i] EXCEPT !.at = at]]
    BY <1>a DEF Put
<1>e. ASSUME NEW at \in {"queued"} \cup InFlight \cup Ended, NEW g \in GroupStates,
             Put(i, at), piGroup' = [piGroup EXCEPT ![i] = g],
             UNCHANGED <<cfg, signal, exec, engine, plan, trusted, verdict, used>>
      PROVE  Step(i, [workers[i] EXCEPT !.at = at], g)
    BY <1>c, <1>d, <1>e DEF Step
<1> USE DEF InFlight, Ended
<1>1. CASE Answered(i)
    <2>1. PICK at \in Ended : Put(i, at)
        BY <1>1 DEF Answered
    <2>2. PICK w : w = [workers[i] EXCEPT !.at = at]
        OBVIOUS
    <2>3. Step(i, w, piGroup[i]) /\ w.at = at /\ w.node = workers[i].node
        BY <1>1, <2>1, <2>2, <1>a, <1>b, <1>c, <1>e DEF Answered
    <2>4. Outcome(i, w, piGroup[i])
        BY <1>1, <2>1, <2>3 DEF Answered, Outcome
    <2>5. QED
        BY <1>1, <1>a, <2>3, <2>4 DEF Answered
<1>2. CASE Busy(i)
    <2>1. CASE Put(i, "failed")
        <3>1. PICK w : w = [workers[i] EXCEPT !.at = "failed"]
            OBVIOUS
        <3>2. Step(i, w, piGroup[i]) /\ w.at = "failed" /\ w.node = workers[i].node
            BY <1>2, <2>1, <3>1, <1>a, <1>b, <1>c, <1>e DEF Busy
        <3>3. Outcome(i, w, piGroup[i])
            BY <1>2, <3>2 DEF Busy, Outcome
        <3>4. QED
            BY <1>2, <1>a, <3>2, <3>3 DEF Busy
    <2>2. CASE /\ workers[i].tries < MaxRetries
               /\ workers' = [workers EXCEPT ![i].at = "waits", ![i].tries = @ + 1]
        <3>1. PICK w : w = [workers[i] EXCEPT !.at = "waits", !.tries = workers[i].tries + 1]
            OBVIOUS
        <3>2. workers' = [workers EXCEPT ![i] = w]
            BY <2>2, <3>1, <1>a
        <3>3. workers[i].tries + 1 \in 0..MaxRetries
            BY Limits, <2>2, <1>a DEF WorkerType
        <3>4. w \in WorkerType /\ w.at = "waits" /\ w.node = workers[i].node
            BY <3>1, <3>3, <1>a DEF WorkerType
        <3>5. Step(i, w, piGroup[i])
            BY <1>2, <3>2, <3>4, <1>a, <1>b DEF Busy, Step
        <3>6. Outcome(i, w, piGroup[i])
            BY <1>2, <3>4 DEF Busy, Outcome
        <3>7. QED
            BY <1>2, <1>a, <3>4, <3>5, <3>6 DEF Busy
    <2>3. QED
        BY <1>2, <2>1, <2>2 DEF Busy
<1>3. CASE Unavailable(i)
    <2>1. CASE Put(i, "failed")
        <3>1. PICK w : w = [workers[i] EXCEPT !.at = "failed"]
            OBVIOUS
        <3>2. Step(i, w, piGroup[i]) /\ w.at = "failed" /\ w.node = workers[i].node
            BY <1>3, <2>1, <3>1, <1>a, <1>b, <1>c, <1>e DEF Unavailable
        <3>3. Outcome(i, w, piGroup[i])
            BY <1>3, <3>2 DEF Unavailable, Outcome
        <3>4. QED
            BY <1>3, <1>a, <3>2, <3>3 DEF Unavailable
    <2>2. CASE workers' = [workers EXCEPT ![i].node = "m5", ![i].at = "waits"]
        <3>1. PICK w : w = [workers[i] EXCEPT !.node = "m5", !.at = "waits"]
            OBVIOUS
        <3>2. workers' = [workers EXCEPT ![i] = w]
            BY <2>2, <3>1, <1>a
        <3>3. w \in WorkerType /\ w.at = "waits" /\ w.node = "m5"
            BY <3>1, <1>a DEF WorkerType
        <3>4. Step(i, w, piGroup[i])
            BY <1>3, <3>2, <3>3, <1>a, <1>b DEF Unavailable, Step
        <3>5. Outcome(i, w, piGroup[i])
            BY <1>3, <3>3 DEF Unavailable, Outcome
        <3>6. QED
            BY <1>3, <1>a, <3>3, <3>4, <3>5 DEF Unavailable
    <2>3. QED
        BY <1>3, <2>1, <2>2 DEF Unavailable
<1>4. CASE WaitEnds(i)
    <2>1. PICK at \in {"failed", "sent"} : Put(i, at)
        BY <1>4 DEF WaitEnds
    <2>2. PICK w : w = [workers[i] EXCEPT !.at = at]
        OBVIOUS
    <2>3. Step(i, w, piGroup[i]) /\ w.at = at /\ w.node = workers[i].node
        BY <1>4, <2>1, <2>2, <1>a, <1>b, <1>c, <1>e DEF WaitEnds
    <2>4. Outcome(i, w, piGroup[i])
        BY <1>4, <2>1, <2>3 DEF WaitEnds, Outcome
    <2>5. QED
        BY <1>4, <1>a, <2>3, <2>4 DEF WaitEnds
<1>5. CASE LaunchPi(i)
    <2>1. PICK at \in {"failed", "sent"}, g \in GroupStates :
             /\ Put(i, at) /\ piGroup' = [piGroup EXCEPT ![i] = g]
             /\ g = IF at = "sent" THEN "up" ELSE piGroup[i]
        BY <1>5, <1>a, <1>b DEF LaunchPi, GroupStates
    <2>2. PICK w : w = [workers[i] EXCEPT !.at = at]
        OBVIOUS
    <2>3. Step(i, w, g) /\ w.at = at /\ w.node = workers[i].node
        BY <1>5, <2>1, <2>2, <1>a, <1>c, <1>e DEF LaunchPi
    <2>4. Outcome(i, w, g)
        BY <1>5, <2>1, <2>3 DEF LaunchPi, Outcome
    <2>5. QED
        BY <1>5, <1>a, <2>3, <2>4 DEF LaunchPi
<1>6. CASE CallTimeOut(i)
    <2>1. PICK w : w = [workers[i] EXCEPT !.killed = TRUE]
        OBVIOUS
    <2>2. PICK g : g = IF piGroup[i] = "up" THEN "dying" ELSE piGroup[i]
        OBVIOUS
    <2>3. workers' = [workers EXCEPT ![i] = w] /\ piGroup' = [piGroup EXCEPT ![i] = g]
        BY <1>6, <2>1, <2>2, <1>a DEF CallTimeOut
    <2>4. w \in WorkerType /\ w.at = workers[i].at /\ w.node = workers[i].node
        BY <2>1, <1>a DEF WorkerType
    <2>5. Step(i, w, g)
        BY <1>6, <2>2, <2>3, <2>4, <1>a DEF CallTimeOut, Step, GroupStates
    <2>6. Outcome(i, w, g)
        BY <1>6, <2>2, <2>4 DEF CallTimeOut, Outcome
    <2>7. QED
        BY <1>6, <1>a, <2>4, <2>5, <2>6 DEF CallTimeOut
<1>7. CASE PiExits(i)
    <2>1. PICK good \in BOOLEAN : workers' = [workers EXCEPT ![i].at = "closing", ![i].good = good]
        BY <1>7 DEF PiExits
    <2>2. PICK w : w = [workers[i] EXCEPT !.at = "closing", !.good = good]
        OBVIOUS
    <2>3. workers' = [workers EXCEPT ![i] = w]
        BY <2>1, <2>2, <1>a
    <2>4. w \in WorkerType /\ w.at = "closing" /\ w.node = workers[i].node
        BY <2>2, <1>a DEF WorkerType
    <2>5. PICK d \in {"dying", "gone"} : piGroup' = [piGroup EXCEPT ![i] = IF @ = "up" THEN d ELSE @]
        BY <1>7 DEF PiExits
    <2>6. PICK g : g = IF piGroup[i] = "up" THEN d ELSE piGroup[i]
        OBVIOUS
    <2>7. Step(i, w, g)
        BY <1>7, <2>3, <2>4, <2>5, <2>6, <1>a DEF PiExits, Step, GroupStates
    <2>8. Outcome(i, w, g)
        BY <1>7, <2>4, <2>6 DEF PiExits, Outcome
    <2>9. QED
        BY <1>7, <1>a, <2>4, <2>7, <2>8 DEF PiExits
<1>8. CASE CleanedUp(i)
    <2>1. PICK g \in {"gone", "stuck"} : piGroup' = [piGroup EXCEPT ![i] = g]
        BY <1>8 DEF CleanedUp
    <2>2. Step(i, workers[i], g)
        BY <1>8, <2>1, <1>a, <1>b DEF CleanedUp, Step, GroupStates
    <2>3. Outcome(i, workers[i], g)
        BY <1>8, <2>1 DEF CleanedUp, Outcome
    <2>4. QED
        BY <1>8, <1>a, <2>2, <2>3 DEF CleanedUp
<1>9. CASE PiEnds(i)
    <2>1. PICK ok \in BOOLEAN :
             /\ ok = (workers[i].good /\ piGroup[i] = "gone")
             /\ workers' = [workers EXCEPT ![i] = [@ EXCEPT !.at = IF ok THEN "ok" ELSE "failed",
                                                            !.good = FALSE]]
             /\ tainted' = (tainted \/ ~ok)
        BY <1>9 DEF PiEnds
    <2>2. PICK w : w = [workers[i] EXCEPT !.at = IF ok THEN "ok" ELSE "failed", !.good = FALSE]
        OBVIOUS
    <2>3. workers' = [workers EXCEPT ![i] = w]
        BY <2>1, <2>2, <1>a
    <2>4. w \in WorkerType /\ w.at = (IF ok THEN "ok" ELSE "failed") /\ w.node = workers[i].node
        BY <2>2, <1>a DEF WorkerType
    <2>5. Step(i, w, piGroup[i])
        BY <1>9, <2>3, <2>4, <1>a, <1>b DEF PiEnds, Step
    <2>6. tainted' \in BOOLEAN /\ (ok => tainted' = tainted) /\ (~ok => tainted' = TRUE)
        BY <2>1, <1>a
    <2>7. Outcome(i, w, piGroup[i])
        BY <1>9, <2>1, <2>4, <2>6 DEF PiEnds, Outcome
    <2>8. QED
        BY <2>4, <2>5, <2>6, <2>7
<1>10. QED
    BY <1>1, <1>2, <1>3, <1>4, <1>5, <1>6, <1>7, <1>8, <1>9

LEMMA StepType ==
    ASSUME OrchTypeOK, NEW i \in Subtasks, NEW w, NEW g, Step(i, w, g), tainted' \in BOOLEAN
    PROVE  /\ OrchTypeOK'
           /\ workers'[i] = w /\ piGroup'[i] = g
           /\ \A j \in Subtasks \ {i} : workers'[j] = workers[j] /\ piGroup'[j] = piGroup[j]
<1>1. workers \in [Subtasks -> WorkerType] /\ piGroup \in [Subtasks -> GroupStates]
    BY DEF OrchTypeOK, WorkerType, GroupStates
<1>2. /\ workers' \in [Subtasks -> WorkerType] /\ piGroup' \in [Subtasks -> GroupStates]
      /\ workers'[i] = w /\ piGroup'[i] = g
      /\ \A j \in Subtasks \ {i} : workers'[j] = workers[j] /\ piGroup'[j] = piGroup[j]
    BY <1>1 DEF Step
<1>3. OrchTypeOK'
    BY <1>2 DEF Step, OrchTypeOK, WorkerType, GroupStates
<1>4. QED
    BY <1>2, <1>3

LEMMA StepKeepsInv ==
    ASSUME EngineInv, NEW i \in Subtasks, NEW w, NEW g, Step(i, w, g), Outcome(i, w, g),
           tainted' \in BOOLEAN,
           w.node = workers[i].node \/ (workers[i].node = "orin" /\ w.node = "m5")
    PROVE  EngineInv'
<1>a. OrchTypeOK /\ Phases /\ Kinds /\ Turns
    BY DEF EngineInv
<1>b. /\ OrchTypeOK' /\ workers'[i] = w /\ piGroup'[i] = g
      /\ \A j \in Subtasks \ {i} : workers'[j] = workers[j] /\ piGroup'[j] = piGroup[j]
    BY <1>a, StepType
<1>c. UNCHANGED <<cfg, signal, exec, engine, plan, trusted, verdict, used>>
    BY DEF Step
<1>d. workers[i].at \in {"queued"} \cup InFlight \cup Ended /\ piGroup[i] \in GroupStates
    BY <1>a DEF OrchTypeOK, GroupStates
<1>e. Subtasks \subseteq Int
    BY DEF Subtasks
<1>1. Phases'
    <2>1. /\ workers[i].at # "queued" <=> w.at # "queued"
          /\ workers[i].at \in Ended => w.at = workers[i].at
        BY <1>a, <1>d DEF Outcome, Kinds, InFlight, Ended
    <2>2. Planned' = Planned
        BY <1>c DEF Planned
    <2>3. engine.at \in {"verifies", "synthesizes", "over"} /\ i \in Planned => w.at = workers[i].at
        BY <1>a, <2>1 DEF Phases
    <2>4. Planned \subseteq Subtasks
        BY Limits, <1>a DEF Planned, Subtasks, OrchTypeOK
    <2>5. engine.at = "over" => Inputs' = Inputs
        <3>1. SUFFICES ASSUME engine.at = "over" PROVE Inputs' = Inputs
            OBVIOUS
        <3>2. Ok' = Ok
            BY <1>b, <2>2, <2>3, <2>4, <3>1 DEF Ok
        <3>3. QED
            BY <1>c, <3>2 DEF Inputs
    <2>6. QED
        BY <1>a, <1>b, <1>c, <2>1, <2>2, <2>3, <2>4, <2>5 DEF Phases
<1>2. Kinds'
    BY <1>a, <1>b, <1>c, <1>d DEF Kinds, Outcome, InFlight, Ended
<1>3. Turns'
    <2>1. SUFFICES ASSUME cfg.provider = "pi" PROVE Turns'
        BY <1>c DEF Turns
    <2>2. workers[i].node # "orin" /\ workers[i].at # "waits"
        BY <1>a, <2>1 DEF Kinds
    <2>3. \A j \in Subtasks \ {i} : workers[i].at \in InFlight => workers[j].at \notin InFlight
        BY <1>a, <1>e, <2>1 DEF Turns, InFlight, Ended
    <2>4. \A k, j \in Subtasks : k < j /\ workers'[j].at # "queued" => workers'[k].at \in Ended
        BY <1>a, <1>b, <1>d, <1>e, <2>1, <2>2 DEF Turns, Outcome, InFlight, Ended
    <2>5. \A j \in Subtasks :
             /\ workers'[j].at \in InFlight => ~tainted'
             /\ workers'[j].at = "ok" => piGroup'[j] = "gone"
             /\ workers'[j].at = "failed" /\ piGroup'[j] # "none" =>
                    tainted' /\ piGroup'[j] \in {"gone", "stuck"}
        <3>1. TAKE j \in Subtasks
        <3>2. CASE j = i
            BY <1>a, <1>b, <1>d, <2>1, <2>2, <3>2 DEF Turns, Kinds, Outcome, InFlight, Ended
        <3>3. CASE j # i
            BY <1>a, <1>b, <1>d, <2>1, <2>2, <2>3, <3>3 DEF Turns, Outcome, InFlight, Ended
        <3>4. QED
            BY <3>2, <3>3
    <2>6. \A k, j \in Subtasks :
             k < j /\ piGroup'[k] # "none" /\ piGroup'[j] # "none" => workers'[k].at = "ok"
        <3>1. SUFFICES ASSUME NEW k \in Subtasks, NEW j \in Subtasks, k < j,
                              piGroup'[k] # "none", piGroup'[j] # "none"
                       PROVE  workers'[k].at = "ok"
            OBVIOUS
        <3>2. k # j
            BY <3>1 DEF Subtasks
        <3>3. CASE piGroup[k] # "none" /\ piGroup[j] # "none"
            BY <1>a, <1>b, <1>d, <2>1, <2>2, <3>1, <3>2, <3>3 DEF Turns, Outcome, Ended, InFlight
        <3>4. CASE piGroup[j] = "none"
            <4>1. j = i /\ workers[i].at \in InFlight /\ w.at = "sent" /\ k # i
                BY <1>a, <1>b, <2>2, <3>1, <3>2, <3>4 DEF Outcome, InFlight
            <4>2. workers[k].at \in Ended /\ ~tainted
                BY <1>a, <2>1, <3>1, <4>1 DEF Turns, InFlight
            <4>3. QED
                BY <1>a, <1>b, <2>1, <3>1, <4>1, <4>2 DEF Turns, Ended
        <3>5. CASE piGroup[k] = "none"
            <4>1. k = i /\ workers[i].at \in InFlight /\ j # i
                BY <1>a, <1>b, <2>2, <3>1, <3>2, <3>5 DEF Outcome, InFlight
            <4>2. workers[j].at # "queued"
                BY <1>a, <1>b, <3>1, <4>1 DEF Kinds
            <4>3. QED
                BY <1>a, <2>1, <3>1, <4>1, <4>2 DEF Turns, InFlight, Ended
        <3>6. QED
            BY <3>3, <3>4, <3>5
    <2>7. QED
        BY <2>4, <2>5, <2>6, <1>c DEF Turns
<1>4. QED
    BY <1>1, <1>2, <1>3, <1>b DEF EngineInv

(* The next subtask is taken when those below it have been, and of Pi      *)
(* turns when those have ended.                                            *)
LEMMA StartKeepsInv ==
    ASSUME EngineInv, StartWorker
    PROVE  EngineInv'
<1>a. OrchTypeOK /\ Phases /\ Kinds /\ Turns
    BY DEF EngineInv
<1>1. PICK i \in Queued :
         /\ \A j \in Queued : i <= j
         /\ Put(i, IF EngineAborted \/ (cfg.provider = "pi" /\ tainted) THEN "failed"
                   ELSE IF cfg.provider = "pi" THEN "checked" ELSE "sent")
    BY DEF StartWorker
<1>2. i \in Subtasks /\ i \in Planned /\ workers[i].at = "queued" /\ Planned \subseteq Subtasks
    BY Limits, <1>a DEF Queued, Planned, Subtasks, OrchTypeOK
<1>3. PICK at \in {"failed", "checked", "sent"} :
         /\ workers' = [workers EXCEPT ![i] = [workers[i] EXCEPT !.at = at]]
         /\ at # "failed" => ~(cfg.provider = "pi" /\ tainted)
         /\ at = "sent" => cfg.provider # "pi"
         /\ at = "checked" => cfg.provider = "pi"
    BY <1>1, <1>2, <1>a DEF Put, OrchTypeOK
<1>4. PICK w : w = [workers[i] EXCEPT !.at = at]
    OBVIOUS
<1>5. /\ w \in WorkerType /\ w.at = at /\ w.node = workers[i].node
      /\ piGroup[i] \in GroupStates /\ piGroup = [piGroup EXCEPT ![i] = piGroup[i]]
    BY <1>2, <1>4, <1>a DEF OrchTypeOK, WorkerType, GroupStates, InFlight, Ended
<1>6. /\ Step(i, w, piGroup[i]) /\ UNCHANGED tainted /\ engine.at = "works"
      /\ Cardinality(InSlots) < Concurrency
    BY <1>3, <1>4, <1>5 DEF StartWorker, Step
<1>7. /\ OrchTypeOK' /\ workers'[i] = w /\ piGroup'[i] = piGroup[i]
      /\ \A j \in Subtasks \ {i} : workers'[j] = workers[j] /\ piGroup'[j] = piGroup[j]
    BY <1>2, <1>6, <1>a, StepType DEF OrchTypeOK
<1>8. Phases'
    <2>1. Planned' = Planned
        BY <1>6 DEF Planned, Step
    <2>2. UNCHANGED <<signal, exec, engine, used>>
        BY <1>6 DEF Step
    <2>3. QED
        BY <1>2, <1>3, <1>5, <1>6, <1>7, <1>a, <2>1, <2>2 DEF Phases
<1>9. piGroup[i] = "none"
    BY <1>2, <1>a DEF Kinds
<1>10. UNCHANGED cfg
    BY <1>6 DEF Step
<1>11. Kinds'
    BY <1>2, <1>3, <1>5, <1>7, <1>9, <1>10, <1>a DEF Kinds
<1>12. Turns'
    <2>1. SUFFICES ASSUME cfg.provider = "pi" PROVE Turns'
        BY <1>10 DEF Turns
    <2>2. InSlots = {}
        BY <1>6, <1>a, <2>1, SlotsFinite DEF Concurrency
    <2>3. Subtasks \subseteq Int
        BY DEF Subtasks
    <2>4. \A k \in Subtasks : k < i => workers[k].at \in Ended
        <3>1. SUFFICES ASSUME NEW k \in Subtasks, k < i PROVE workers[k].at \in Ended
            OBVIOUS
        <3>2. k \in Planned
            BY Limits, <1>2, <1>a, <3>1 DEF Planned, Subtasks, OrchTypeOK
        <3>3. k \notin Queued
            BY <1>1, <1>2, <2>3, <3>1
        <3>4. k \notin InSlots
            BY <2>2
        <3>5. QED
            BY <3>2, <3>3, <3>4, <1>a DEF Queued, InSlots, OrchTypeOK
    <2>5. \A k \in Subtasks : i < k => workers[k].at = "queued"
        BY <1>2, <1>a, <2>1 DEF Turns, Ended
    <2>6. \A k, j \in Subtasks : k < j /\ workers'[j].at # "queued" => workers'[k].at \in Ended
        <3>1. SUFFICES ASSUME NEW k \in Subtasks, NEW j \in Subtasks, k < j,
                              workers'[j].at # "queued"
                       PROVE  workers'[k].at \in Ended
            OBVIOUS
        <3>2. CASE j = i
            <4>1. k < i /\ k # i
                BY <2>3, <3>1, <3>2
            <4>2. workers'[k] = workers[k]
                BY <1>7, <4>1
            <4>3. QED
                BY <2>4, <4>1, <4>2
        <3>3. CASE j # i
            <4>1. workers[j].at # "queued"
                BY <1>7, <3>1, <3>3
            <4>2. workers[k].at \in Ended /\ k # i
                BY <1>2, <1>a, <2>1, <3>1, <4>1 DEF Turns, Ended
            <4>3. QED
                BY <1>7, <4>2
        <3>4. QED
            BY <3>2, <3>3
    <2>7. \A j \in Subtasks :
             /\ workers'[j].at \in InFlight => ~tainted'
             /\ workers'[j].at = "ok" => piGroup'[j] = "gone"
             /\ workers'[j].at = "failed" /\ piGroup'[j] # "none" =>
                    tainted' /\ piGroup'[j] \in {"gone", "stuck"}
        BY <1>3, <1>5, <1>6, <1>7, <1>9, <1>a, <2>1 DEF Turns, InFlight
    <2>8. \A k, j \in Subtasks :
             k < j /\ piGroup'[k] # "none" /\ piGroup'[j] # "none" => workers'[k].at = "ok"
        BY <1>7, <1>9, <1>a, <2>1 DEF Turns
    <2>9. QED
        BY <2>6, <2>7, <2>8, <1>10 DEF Turns
<1>13. QED
    BY <1>7, <1>8, <1>11, <1>12 DEF EngineInv

-----------------------------------------------------------------------------
LEMMA InitEngineInv ==
    ASSUME OrchInit
    PROVE  EngineInv
<1>1. \A i \in Subtasks :
         /\ workers[i] \in WorkerType /\ workers[i].at = "queued" /\ piGroup[i] = "none"
         /\ workers[i].node = "orin" => cfg.provider = "orin"
    BY Limits DEF OrchInit, WorkerType
<1>2. OrchTypeOK
    <2>1. workers = [i \in Subtasks |-> workers[i]] /\ piGroup = [i \in Subtasks |-> piGroup[i]]
        BY DEF OrchInit
    <2>2. workers \in [Subtasks -> WorkerType] /\ piGroup \in [Subtasks -> GroupStates]
        BY <1>1, <2>1 DEF GroupStates
    <2>3. /\ verdict \in [Subtasks -> {"none", "pass", "fail", "unknown"}]
          /\ plan \in 0..MaxSubtasks /\ exec = [at |-> "new", code |-> "none"]
          /\ engine = [at |-> "idle", out |-> FALSE]
          /\ trusted = {} /\ used = {} /\ tainted = FALSE /\ signal = FALSE
          /\ cfg \in [provider : {"cloud", "homeserver", "orin", "pi"},
                      verify : {"all", "adaptive", "never"}]
        BY Limits DEF OrchInit
    <2>4. QED
        BY <2>2, <2>3 DEF OrchTypeOK, WorkerType, GroupStates
<1>3. Phases
    BY <1>1 DEF OrchInit, Phases
<1>4. Kinds /\ Turns
    BY <1>1 DEF Kinds, Turns, InFlight
<1>5. QED
    BY <1>2, <1>3, <1>4 DEF EngineInv

LEMMA NextEngineInv ==
    ASSUME EngineInv, [OrchNext]_orchVars
    PROVE  EngineInv'
<1>1. OrchTypeOK
    BY DEF EngineInv
<1>2. CASE \E i \in Subtasks : WorkerSteps(i)
    <2>1. PICK i \in Subtasks : WorkerSteps(i)
        BY <1>2
    <2>2. PICK w, g :
             /\ Step(i, w, g) /\ Outcome(i, w, g) /\ tainted' \in BOOLEAN
             /\ w.node = workers[i].node \/ (workers[i].node = "orin" /\ w.node = "m5")
        BY <1>1, <2>1, WorkStep DEF WorkerSteps
    <2>3. QED
        BY <2>2, StepKeepsInv
<1>3. CASE UNCHANGED orchVars
    <2>1. UNCHANGED <<cfg, signal, exec, engine, plan, trusted, workers, piGroup, tainted, verdict, used>>
        BY <1>3 DEF orchVars
    <2>2. OrchTypeOK' /\ Kinds' /\ Turns'
        BY <2>1 DEF EngineInv, OrchTypeOK, Kinds, Turns
    <2>3. Planned' = Planned /\ Inputs' = Inputs
        BY <2>1 DEF Inputs, Ok, Planned
    <2>4. Phases'
        BY <2>1, <2>3 DEF EngineInv, Phases
    <2>5. QED
        BY <2>2, <2>4 DEF EngineInv
<1>4. QED
    BY <1>2, <1>3, CalmKeepsInv, AbortKeepsInv, StartKeepsInv DEF OrchNext

(* Two turns are never alive together: the earlier one was good, and gone, *)
(* before the later one had a group.                                       *)
LEMMA OneWriterHolds ==
    ASSUME EngineInv
    PROVE  OneWriter
<1> DEFINE S == {i \in Subtasks : PiAlive(i)}
<1>a. OrchTypeOK /\ Kinds /\ Turns
    BY DEF EngineInv
<1>1. \A i, j \in Subtasks :
         i < j /\ piGroup[i] # "none" /\ piGroup[j] # "none" => workers[i].at = "ok"
    BY <1>a DEF Kinds, Turns
<1>2. \A i, j \in S : i = j
    <2>1. SUFFICES ASSUME NEW i \in Subtasks, NEW j \in Subtasks, PiAlive(i), PiAlive(j), i < j
                   PROVE  FALSE
        BY DEF Subtasks
    <2>2. workers[i].at = "ok" /\ cfg.provider = "pi"
        BY <1>1, <1>a, <2>1 DEF PiAlive, Kinds
    <2>3. piGroup[i] = "gone"
        BY <1>a, <2>2 DEF Turns
    <2>4. QED
        BY <2>1, <2>3 DEF PiAlive
<1>3. Cardinality(S) <= 1
    <2>1. CASE S = {}
        BY <2>1, FS_EmptySet
    <2>2. CASE S # {}
        <3>1. PICK i \in S : S = {i}
            BY <1>2, <2>2
        <3>2. Cardinality({i}) = 1
            BY FS_Singleton
        <3>3. QED
            BY <3>1, <3>2
    <2>3. QED
        BY <2>1, <2>2
<1>4. QED
    BY <1>1, <1>3 DEF OneWriter

LEMMA SoundAnswerHolds ==
    ASSUME EngineInv
    PROVE  SoundAnswer
<1>1. SUFFICES ASSUME exec.code = "ok" PROVE SoundAnswer
    BY DEF SoundAnswer
<1>2. used = Inputs /\ used # {} /\ ~signal
    BY <1>1 DEF EngineInv, Phases
<1>3. QED
    BY <1>1, <1>2 DEF SoundAnswer, Inputs

(* Every reachable state of Orchestrator has its type: among others a      *)
(* worker never tries more often than MaxRetries allows.                   *)
THEOREM EngineTyped == OrchSpec => []OrchTypeOK
<1>1. OrchInit => EngineInv
    BY InitEngineInv
<1>2. EngineInv /\ [OrchNext]_orchVars => EngineInv'
    BY NextEngineInv
<1>3. EngineInv => OrchTypeOK
    BY DEF EngineInv
<1>4. QED
    BY <1>1, <1>2, <1>3, PTL DEF OrchSpec

(* Pi turns never overlap in their worktree and none runs on what a bad    *)
(* one left behind; an answer is made of the results that succeeded and    *)
(* did not fail verification, unless all did (piBindingTurnStates,         *)
(* runOrchestration).                                                      *)
THEOREM AlwaysSound == OrchSpec => []OrchestrationSound
<1>1. OrchInit => EngineInv
    BY InitEngineInv
<1>2. EngineInv /\ [OrchNext]_orchVars => EngineInv'
    BY NextEngineInv
<1>3. EngineInv => OrchestrationSound
    BY OneWriterHolds, SoundAnswerHolds DEF OrchestrationSound
<1>4. QED
    BY <1>1, <1>2, <1>3, PTL DEF OrchSpec

(* A step after the abort: a call or a turn that was about to begin fails. *)
LEMMA QuietStep ==
    ASSUME EngineInv, OrchNext, EngineAborted
    PROVE  /\ engine'.out => engine.out
           /\ \A i \in Subtasks : /\ workers'[i].at = "sent" => workers[i].at = "sent"
                                  /\ piGroup'[i] = "up" => piGroup[i] = "up"
<1>a. OrchTypeOK /\ Phases /\ Kinds
    BY DEF EngineInv
<1>1. CASE Begin \/ LoadConfidence \/ Finish \/ Plan \/ WorkDone \/ VerifyAnswers \/ Synthesize
    <2>1. UNCHANGED <<workers, piGroup>>
        BY <1>1 DEF Begin, LoadConfidence, Finish, Plan, WorkDone, VerifyAnswers, Synthesize
    <2>2. engine'.out => engine.out
        <3>1. CASE Begin
            BY <3>1 DEF Begin, EngineAborted
        <3>2. CASE LoadConfidence
            BY <3>2, <1>a DEF LoadConfidence, EngineAborted, EngineStarts, Phases, OrchTypeOK
        <3>3. CASE Finish \/ WorkDone
            BY <3>3, <1>a DEF Finish, WorkDone, OrchTypeOK
        <3>4. CASE Plan
            BY <3>4 DEF Plan
        <3>5. CASE VerifyAnswers
            BY <3>5, <1>a DEF VerifyAnswers, OrchTypeOK
        <3>6. CASE Synthesize
            BY <3>6 DEF Synthesize
        <3>7. QED
            BY <1>1, <3>1, <3>2, <3>3, <3>4, <3>5, <3>6
    <2>3. QED
        BY <2>1, <2>2
<1>2. CASE CallerAborts \/ RunTimesOut
    <2>1. UNCHANGED engine
        BY <1>2 DEF CallerAborts, RunTimesOut
    <2>2. CASE Heard
        BY <1>a, <2>1, <2>2, HeardStep
    <2>3. CASE UNCHANGED <<workers, piGroup>>
        BY <2>1, <2>3
    <2>4. QED
        BY <1>2, <2>2, <2>3 DEF CallerAborts, RunTimesOut
<1>3. CASE StartWorker
    BY <1>3, <1>a DEF StartWorker, Put, Queued, OrchTypeOK
<1>4. CASE \E i \in Subtasks : WorkerSteps(i)
    <2>1. PICK i \in Subtasks : WorkerSteps(i)
        BY <1>4
    <2>2. PICK w, g :
             /\ Step(i, w, g) /\ Outcome(i, w, g) /\ tainted' \in BOOLEAN
             /\ w.node = workers[i].node \/ (workers[i].node = "orin" /\ w.node = "m5")
        BY <1>a, <2>1, WorkStep DEF WorkerSteps
    <2>3. /\ workers'[i] = w /\ piGroup'[i] = g /\ UNCHANGED engine
          /\ \A j \in Subtasks \ {i} : workers'[j] = workers[j] /\ piGroup'[j] = piGroup[j]
        BY <1>a, <2>2, StepType DEF Step
    <2>4. workers[i].at \in {"waits", "checked"} => workers'[i].at # "sent" /\ piGroup'[i] = piGroup[i]
        <3>1. SUFFICES ASSUME workers[i].at \in {"waits", "checked"}
                       PROVE  workers'[i].at # "sent" /\ piGroup'[i] = piGroup[i]
            OBVIOUS
        <3>2. ~CleanedUp(i)
            BY <1>a, <3>1 DEF Kinds, CleanedUp
        <3>3. WaitEnds(i) \/ LaunchPi(i)
            BY <2>1, <3>1, <3>2 DEF WorkerSteps, Answered, Busy, Unavailable, CallTimeOut, PiExits, PiEnds
        <3>4. QED
            BY <1>a, <3>3 DEF WaitEnds, LaunchPi, Put, OrchTypeOK
    <2>5. QED
        BY <2>2, <2>3, <2>4 DEF Outcome, Ended
<1>5. QED
    BY <1>1, <1>2, <1>3, <1>4 DEF OrchNext

(* After an abort, or the end of the run, nothing is sent to a model and   *)
(* no process starts, at whatever point the engine and its workers were    *)
(* (engineAbort).                                                          *)
THEOREM AlwaysQuiet == OrchSpec => QuietAfterAbort
<1>1. OrchInit => EngineInv
    BY InitEngineInv
<1>2. EngineInv /\ [OrchNext]_orchVars => EngineInv'
    BY NextEngineInv
<1>3. EngineInv /\ [OrchNext]_orchVars =>
        [ EngineAborted =>
            /\ engine'.out => engine.out
            /\ \A i \in Subtasks : /\ workers'[i].at = "sent" => workers[i].at = "sent"
                                   /\ piGroup'[i] = "up" => piGroup[i] = "up" ]_orchVars
    BY QuietStep
<1>4. QED
    BY <1>1, <1>2, <1>3, PTL DEF OrchSpec, QuietAfterAbort

-------------------------------------------------------------------------------
(* The checkout. It is used by every task on a repository, by agents that  *)
(* fail half-way and by recoveries that run at the same time: whatever     *)
(* tasks, changes, faults and operators there are, nothing is pushed under *)
(* a task's name that is not its own, and what an agent did is where the   *)
(* task's outcome says it is.                                              *)

(* Where the work of t is: on its branch, or on one its agent made, and    *)
(* then its own branch is empty and is never published.                    *)
Held(t) ==
    \/ t \in uncommitted
    \/ produced[t] = {}
    \/ branches[Hugin(t)] # None /\ produced[t] \subseteq branches[Hugin(t)]
    \/ /\ branches[Hugin(t)] = {} /\ branches[Side(t)] # None
       /\ produced[t] \subseteq branches[Side(t)]

(* What is known of a task whoever works on it.  The branch that was       *)
(* pushed is never changed again, and a task whose publication failed is   *)
(* over and never runs again.                                              *)
Stored(t) ==
    /\ pub[t] # "none" => status[t] = "completed"
    /\ status[t] = "completed" => Held(t)
    /\ outcome[t] \in {"no-changes", "changes-present", "publication-recovered"} =>
          status[t] = "completed"
    /\ outcome[t] = "no-changes" => t \in uncommitted \/ produced[t] = {}
    /\ outcome[t] \in {"changes-present", "publication-recovered"} \/ pub[t] = "recovered" =>
          t \in prs
    /\ t \in prs => remote[t] \notin {None, {}}
    /\ remote[t] \in {None, branches[Hugin(t)]}
    /\ branches[Hugin(t)] # None => branches[Hugin(t)] \subseteq Own(t)

(* What the worker relies on at each of its steps: a task that may write   *)
(* runs on a new branch in a clean tree, and so does every run that is     *)
(* published.                                                              *)
Gate ==
    /\ worker.pc \in {"verify", "recover"} =>
          worker.created /\ ~worker.degraded
    /\ worker.pc = "checkout" => ~worker.created /\ ~worker.degraded
    /\ worker.pc = "run" /\ T \in mutators => worker.created /\ ~worker.degraded
    /\ worker.pc \in {"verify", "recover"} \/ (worker.pc = "run" /\ worker.created) =>
          head = Hugin(T) /\ branches[Hugin(T)] = {} /\ remote[T] = None
    /\ worker.pc = "run" /\ worker.created /\ ~worker.degraded => tree = {}
    /\ worker.pc \in {"checkout", "verify", "recover", "run"} =>
          ~worker.ok /\ worker.outcome \in {"none", "checkout-failed"}

Publishing ==
    /\ worker.pc \in {"commit", "count", "push", "pr", "record"} => worker.ok
    /\ worker.pc \in {"commit", "count", "push"} =>
          /\ remote[T] = None /\ branches[Hugin(T)] # None
          /\ \/ head = Hugin(T)
             \/ head = Side(T) /\ branches[Side(T)] # None /\ branches[Hugin(T)] = {}
    /\ worker.pc = "commit" => tree \subseteq Own(T) /\ produced[T] \subseteq HeadCommit \cup tree
    /\ worker.pc = "count" => T \in uncommitted \/ produced[T] \subseteq HeadCommit
    /\ worker.pc = "pr" => remote[T] = branches[Hugin(T)]
    /\ worker.pc = "record" => worker.outcome = "publication-failed"

Ending ==
    /\ worker.pc \in {"push", "pr", "record"} => Held(T)
    /\ worker.pc \in {"terminal", "structured"} =>
          /\ worker.ok => Held(T)
          /\ worker.outcome \in {"no-changes", "changes-present", "publication-failed"} => worker.ok
          /\ worker.outcome = "no-changes" => T \in uncommitted \/ produced[T] = {}
          /\ worker.outcome = "changes-present" => T \in prs
          /\ worker.outcome # "publication-recovered"
    /\ worker.pc = "structured" /\ worker.ok => status[T] = "completed"

Worker ==
    /\ worker.pc # "idle" => T \in Tasks
    /\ worker.pc \notin {"idle", "structured"} => status[T] = "running"
    /\ Gate /\ Publishing /\ Ending

(* What a recovery relies on: its task is over, and a result it found is   *)
(* backed by a pull request.                                               *)
Recovering(o) ==
    /\ operator[o].pc # "idle" => operator[o].task \in Tasks /\ pub[operator[o].task] # "none"
    /\ operator[o].pc \in {"note", "patch"} =>
          /\ operator[o].result # "none"
          /\ operator[o].result = "recovered" => operator[o].task \in prs
    /\ operator[o].pc = "patch" => pub[operator[o].task] = operator[o].result

CheckoutInv ==
    /\ TypeOK /\ (\A t \in Tasks : Stored(t)) /\ Worker
    /\ \A o \in Operators : Recovering(o)

-------------------------------------------------------------------------------
(* Branch names of different tasks, and the two names of one task, differ. *)
LEMMA DistinctNames ==
    ASSUME NEW t \in Tasks
    PROVE /\ Hugin(t) \in Names /\ Side(t) \in Names
          /\ Hugin(t) # Base /\ Side(t) # Base
          /\ \A u \in Tasks : Hugin(t) # Side(u) /\ Side(t) # Hugin(u)
          /\ \A u \in Tasks : t # u => Hugin(t) # Hugin(u) /\ Side(t) # Side(u)
    BY BaseAssumption DEF Names, Hugin, Side

(* The changes of one agent are a commit, and no commit is None.           *)
LEMMA OwnCommits ==
    ASSUME NEW t \in Tasks
    PROVE /\ Own(t) \in Commits /\ {} \in Commits
          /\ \A c \in SUBSET Own(t) : c \in Commits
          /\ \A c, d \in Commits : c \cup d \in Commits
          /\ \A c \in Commits : SUBSET c \subseteq Commits
    BY DEF Own, Commits

LEMMA NoneApart == None \notin Commits /\ None \notin Tasks
    BY NoneAssumption

(* A task nobody touched keeps what is known of it.                        *)
LEMMA StoredKept ==
    ASSUME NEW t \in Tasks, Stored(t),
           status'[t] = status[t], pub'[t] = pub[t], outcome'[t] = outcome[t],
           produced'[t] = produced[t], remote'[t] = remote[t],
           branches'[Hugin(t)] = branches[Hugin(t)], branches'[Side(t)] = branches[Side(t)],
           t \in uncommitted' <=> t \in uncommitted, t \in prs' <=> t \in prs
    PROVE Stored(t)'
    BY DEF Stored, Held, Hugin, Side, Own

(* A recovery relies on what the worker never takes back.                  *)
LEMMA RecoveringKept ==
    ASSUME \A o \in Operators : Recovering(o), operator' = operator, prs \subseteq prs',
           \A t \in Tasks : pub[t] # "none" => pub'[t] = pub[t]
    PROVE \A o \in Operators : Recovering(o)'
    BY DEF Recovering

(* The worker relies on the checkout, on its own task, and on a pull       *)
(* request staying.                                                        *)
LEMMA WorkerKept ==
    ASSUME Worker, worker' = worker, mutators' = mutators, uncommitted' = uncommitted,
           produced' = produced, head' = head, branches' = branches, tree' = tree,
           prs \subseteq prs',
           worker.pc # "idle" => status'[T] = status[T],
           worker.pc # "idle" /\ status[T] = "running" => remote'[T] = remote[T]
    PROVE Worker'
<1>1. Gate'
  BY DEF Worker, Gate, T, Hugin
<1>2. Publishing'
  BY DEF Worker, Publishing, T, Hugin, Side, HeadCommit, Own
<1>3. Ending'
  BY DEF Worker, Ending, Held, T, Hugin, Side
<1>. QED
  BY <1>1, <1>2, <1>3 DEF Worker, T

-------------------------------------------------------------------------------
(* The worker's steps, one lemma each.                                     *)
LEMMA ClaimKeeps == ASSUME CheckoutInv, NEW t \in Tasks, Claim(t) PROVE CheckoutInv'
<1>. USE DEF CheckoutInv
<1>1. /\ worker' = [Idle EXCEPT !.pc = "checkout", !.task = t] /\ worker.pc = "idle"
      /\ status' = [status EXCEPT ![t] = "running"] /\ status[t] = "pending"
      /\ UNCHANGED <<mutators, pub, outcome, record, produced, uncommitted, head, branches, tree,
                     remote, prs, operator, faults, resumes>>
  BY DEF Claim, At, checkout, origin
<1>2. TypeOK'
  BY <1>1 DEF TypeOK, Idle, Outcomes
<1>3. ASSUME NEW u \in Tasks PROVE Stored(u)'
  <2>1. CASE u = t
    <3>1. /\ status'[u] = "running" /\ Stored(u) /\ pub[u] = "none"
          /\ outcome[u] \notin {"no-changes", "changes-present", "publication-recovered"}
      BY <1>1, <2>1 DEF Stored, TypeOK
    <3>. QED
      BY <1>1, <3>1 DEF Stored, Hugin, Own
  <2>2. CASE u # t
    BY <1>1, <2>2, StoredKept DEF TypeOK
  <2>. QED
    BY <2>1, <2>2
<1>4. Worker'
  BY <1>1 DEF Worker, Gate, Publishing, Ending, T, Idle, TypeOK
<1>. QED
  BY <1>1, <1>2, <1>3, <1>4, RecoveringKept

LEMMA CheckoutTaskBranchKeeps == ASSUME CheckoutInv, CheckoutTaskBranch PROVE CheckoutInv'
<1>. USE DEF CheckoutInv
<1>1. /\ worker.pc = "checkout" /\ T \in Tasks /\ status[T] = "running"
      /\ UNCHANGED <<mutators, status, pub, outcome, record, produced, uncommitted, tree,
                     remote, prs, operator, resumes>>
  BY DEF CheckoutTaskBranch, At, tasks, origin, Worker
<1>2. CASE /\ branches[Hugin(T)] = None /\ UNCHANGED faults
           /\ branches' = [branches EXCEPT ![Hugin(T)] = {}] /\ head' = Hugin(T)
           /\ worker' = [worker EXCEPT !.pc = "verify", !.created = TRUE]
  <2>1. TypeOK'
    BY <1>1, <1>2, DistinctNames, OwnCommits, NoneApart DEF TypeOK
  <2>2. ASSUME NEW u \in Tasks PROVE Stored(u)'
    <3>1. CASE u = T
      BY <1>1, <1>2, <3>1, DistinctNames DEF Stored, TypeOK
    <3>2. CASE u # T
      BY <1>1, <1>2, <3>2, StoredKept, DistinctNames DEF TypeOK
    <3>. QED
      BY <3>1, <3>2
  <2>3. Worker'
    BY <1>1, <1>2, DistinctNames, NoneApart, OwnCommits DEF Worker, Gate, Publishing, Ending, T, TypeOK, Stored
  <2>. QED
    BY <1>1, <2>1, <2>2, <2>3, RecoveringKept
<1>3. CASE /\ T \in mutators /\ Refuse /\ UNCHANGED <<head, branches>> /\ faults' \in Nat
  <2>1. TypeOK'
    BY <1>1, <1>3 DEF TypeOK, Refuse, End, Outcomes
  <2>2. ASSUME NEW u \in Tasks PROVE Stored(u)'
    BY <1>1, <1>3, StoredKept
  <2>3. Worker'
    BY <1>1, <1>3 DEF Worker, Gate, Publishing, Ending, T, TypeOK, Refuse, End
  <2>. QED
    BY <1>1, <2>1, <2>2, <2>3, RecoveringKept
<1>4. CASE /\ T \notin mutators /\ UNCHANGED <<head, branches>> /\ faults' \in Nat
           /\ worker' = [worker EXCEPT !.pc = "run", !.degraded = TRUE, !.outcome = "checkout-failed"]
  <2>1. TypeOK'
    BY <1>1, <1>4 DEF TypeOK, Outcomes
  <2>2. ASSUME NEW u \in Tasks PROVE Stored(u)'
    BY <1>1, <1>4, StoredKept
  <2>3. Worker'
    BY <1>1, <1>4 DEF Worker, Gate, Publishing, Ending, T, TypeOK
  <2>. QED
    BY <1>1, <2>1, <2>2, <2>3, RecoveringKept
<1>. QED
  BY <1>1, <1>2, <1>3, <1>4 DEF CheckoutTaskBranch, Fault, TypeOK

LEMMA VerifyCleanCheckoutKeeps == ASSUME CheckoutInv, VerifyCleanCheckout PROVE CheckoutInv'
<1>. USE DEF CheckoutInv
<1>1. /\ worker.pc = "verify" /\ T \in Tasks /\ status[T] = "running"
      /\ UNCHANGED <<mutators, status, pub, outcome, record, produced, uncommitted, head, branches,
                     tree, remote, prs, operator, resumes>>
  BY DEF VerifyCleanCheckout, At, tasks, checkout, origin, Worker
<1>2. /\ faults' \in Nat
      /\ \/ tree = {} /\ worker' = [worker EXCEPT !.pc = "run"]
         \/ worker' = [worker EXCEPT !.pc = "recover"]
         \/ T \notin mutators /\ worker' = [worker EXCEPT !.pc = "run", !.degraded = TRUE]
  BY DEF VerifyCleanCheckout, Fault, Goto, TypeOK
<1>3. TypeOK'
  BY <1>1, <1>2, ZenonT(60) DEF TypeOK
<1>4. ASSUME NEW u \in Tasks PROVE Stored(u)'
  BY <1>1, StoredKept
<1>5. Worker'
  <2>1. /\ T' = T /\ worker'.pc \in {"run", "recover"} /\ worker'.created = worker.created
        /\ worker'.ok = worker.ok /\ worker'.outcome = worker.outcome
        /\ worker'.degraded = worker.degraded \/ T \notin mutators
    BY <1>1, <1>2, ZenonT(60) DEF TypeOK, T
  <2>2. worker'.pc = "run" => tree = {} \/ worker'.degraded
    BY <1>1, <1>2 DEF TypeOK
  <2>3. Gate'
    <3>1. /\ worker.created /\ ~worker.degraded /\ ~worker.ok
          /\ worker.outcome \in {"none", "checkout-failed"}
          /\ head = Hugin(T) /\ branches[Hugin(T)] = {} /\ remote[T] = None
      BY <1>1 DEF Worker, Gate
    <3>2. head' = Hugin(T') /\ branches'[Hugin(T')] = {} /\ remote'[T'] = None
      BY <1>1, <2>1, <3>1 DEF Hugin
    <3>3. /\ worker'.created /\ ~worker'.ok /\ worker'.outcome \in {"none", "checkout-failed"}
          /\ worker'.pc \notin {"verify", "checkout"} /\ mutators' = mutators
          /\ worker'.degraded => T' \notin mutators'
      BY <1>1, <2>1, <3>1
    <3>4. worker'.pc = "run" => tree' = {} \/ worker'.degraded
      BY <1>1, <2>2
    <3>5. worker'.pc = "recover" => ~worker'.degraded
      BY <1>1, <1>2, <3>1, ZenonT(60) DEF TypeOK
    <3>. QED
      BY <3>2, <3>3, <3>4, <3>5 DEF Gate
  <2>4. Publishing' /\ Ending'
    BY <2>1 DEF Publishing, Ending
  <2>. QED
    BY <1>1, <2>1, <2>3, <2>4 DEF Worker
<1>. QED
  BY <1>1, <1>3, <1>4, <1>5, RecoveringKept

LEMMA RecoverCleanCheckoutKeeps == ASSUME CheckoutInv, RecoverCleanCheckout PROVE CheckoutInv'
<1>. USE DEF CheckoutInv
<1>1. /\ worker.pc = "recover" /\ T \in Tasks /\ status[T] = "running"
      /\ UNCHANGED <<mutators, status, pub, outcome, record, produced, uncommitted, head, branches,
                     remote, prs, operator, resumes>>
  BY DEF RecoverCleanCheckout, At, tasks, origin, Worker
<1>2. /\ faults' \in Nat /\ tree' \subseteq tree
      /\ \/ tree' = {} /\ worker' = [worker EXCEPT !.pc = "run"]
         \/ Refuse
  BY DEF RecoverCleanCheckout, Fault, Goto, TypeOK
<1>3. TypeOK'
  <2>1. tree' \in Commits
    BY <1>2 DEF TypeOK, Commits
  <2>2. CASE worker' = [worker EXCEPT !.pc = "run"]
    BY <1>1, <1>2, <2>1, <2>2 DEF TypeOK
  <2>3. CASE Refuse
    BY <1>1, <1>2, <2>1, <2>3 DEF TypeOK, Refuse, End, Outcomes
  <2>. QED
    BY <1>2, <2>2, <2>3
<1>4. ASSUME NEW u \in Tasks PROVE Stored(u)'
  BY <1>1, StoredKept
<1>5. Worker'
  <2>1. CASE tree' = {} /\ worker' = [worker EXCEPT !.pc = "run"]
    BY <1>1, <2>1 DEF Worker, Gate, Publishing, Ending, T, TypeOK, Hugin
  <2>2. CASE Refuse
    BY <1>1, <2>2 DEF Worker, Gate, Publishing, Ending, T, TypeOK, Hugin, Refuse, End
  <2>. QED
    BY <1>2, <2>1, <2>2
<1>. QED
  BY <1>1, <1>3, <1>4, <1>5, RecoveringKept

(* The run: what the worker does next, whoever ran.                        *)
LEMMA SettledTo ==
    ASSUME TypeOK, NEW ok \in BOOLEAN, Settled(ok)
    PROVE /\ worker'.task = T
          /\ worker'.evidence \in {None, worker.evidence}
          /\ \/ /\ ok /\ worker.created /\ ~worker.degraded
                /\ worker' = [worker EXCEPT !.pc = "commit", !.ok = TRUE]
             \/ /\ worker' = [Idle EXCEPT !.pc = "terminal", !.task = T, !.ok = ok, !.outcome = worker'.outcome]
                /\ ~(ok /\ worker.created /\ ~worker.degraded)
                /\ worker'.outcome \in {"not-finalized", worker.outcome}
<1>1. CASE Finalizes(ok)
  BY <1>1 DEF Settled, Finalizes, TypeOK, T
<1>2. CASE ~Finalizes(ok)
  BY <1>2, ZenonT(60) DEF Settled, Finalizes, TypeOK, T, Idle
<1>. QED
  BY <1>1, <1>2

LEMMA RunReaderKeeps == ASSUME CheckoutInv, RunReader PROVE CheckoutInv'
<1>. USE DEF CheckoutInv
<1>1. PICK ok \in BOOLEAN : /\ Settled(ok) /\ produced' = [produced EXCEPT ![T] = {}]
                            /\ uncommitted' = uncommitted \ {T}
  BY DEF RunReader
<1>2. /\ worker.pc = "run" /\ T \in Tasks /\ status[T] = "running" /\ T \notin mutators
      /\ UNCHANGED <<mutators, status, pub, outcome, record, head, branches, tree,
                     remote, prs, operator, faults, resumes>>
  BY DEF RunReader, At, checkout, origin, Worker
<1>3. TypeOK'
  <2>1. produced' \in [Tasks -> Commits] /\ uncommitted' \subseteq Tasks
    BY <1>1, <1>2, OwnCommits DEF TypeOK
  <2>2. CASE worker' = [worker EXCEPT !.pc = "commit", !.ok = TRUE]
    BY <1>2, <2>1, <2>2 DEF TypeOK
  <2>3. CASE /\ worker' = [Idle EXCEPT !.pc = "terminal", !.task = T, !.ok = ok, !.outcome = worker'.outcome]
             /\ worker'.outcome \in {"not-finalized", worker.outcome}
    BY <1>2, <2>1, <2>3, ZenonT(60) DEF TypeOK, Outcomes, Idle
  <2>. QED
    BY <1>1, <2>2, <2>3, SettledTo
<1>4. ASSUME NEW u \in Tasks PROVE Stored(u)'
  <2>1. CASE u = T
    BY <1>1, <1>2, <2>1 DEF Stored, Held, TypeOK, Hugin, Side, Own
  <2>2. CASE u # T
    BY <1>1, <1>2, <2>2, StoredKept DEF TypeOK
  <2>. QED
    BY <2>1, <2>2
<1>5. Worker'
  <2>1. CASE /\ worker.created /\ ~worker.degraded
             /\ worker' = [worker EXCEPT !.pc = "commit", !.ok = TRUE]
    <3>1. /\ worker'.pc = "commit" /\ worker'.ok /\ T' = T
          /\ produced'[T] = {} /\ head = Hugin(T) /\ branches[Hugin(T)] = {} /\ remote[T] = None /\ tree = {}
      BY <1>1, <1>2, <2>1 DEF TypeOK, T, Worker, Gate
    <3>2. {} # None
      BY NoneApart, OwnCommits, <1>2
    <3>. QED
      BY <1>2, <3>1, <3>2 DEF Worker, Gate, Publishing, Ending, Hugin
  <2>2. CASE /\ worker' = [Idle EXCEPT !.pc = "terminal", !.task = T, !.ok = ok, !.outcome = worker'.outcome]
             /\ worker'.outcome \in {"not-finalized", worker.outcome}
    <3>1. /\ worker'.pc = "terminal" /\ T' = T /\ produced'[T] = {}
          /\ worker'.outcome \in {"none", "checkout-failed", "not-finalized"}
      BY <1>1, <1>2, <2>2, ZenonT(60) DEF TypeOK, T, Idle, Worker, Gate
    <3>. QED
      BY <1>2, <3>1 DEF Worker, Gate, Publishing, Ending, Held
  <2>. QED
    BY <1>1, <2>1, <2>2, SettledTo
<1>. QED
  BY <1>2, <1>3, <1>4, <1>5, RecoveringKept

LEMMA RunMutatorKeeps == ASSUME CheckoutInv, RunMutator PROVE CheckoutInv'
<1>. USE DEF CheckoutInv
<1>1. PICK committed \in SUBSET Own(T), left \in SUBSET Own(T), ok \in BOOLEAN, side \in BOOLEAN :
          /\ side => committed # {} /\ branches[Side(T)] = None
          /\ head' = (IF side THEN Side(T) ELSE Hugin(T))
          /\ branches' = [branches EXCEPT ![head'] = HeadCommit \cup committed]
          /\ tree' = tree \cup left
          /\ Settled(ok)
          /\ produced' = [produced EXCEPT ![T] = committed \cup left]
  BY ZenonT(60) DEF RunMutator
<1>2. /\ worker.pc = "run" /\ T \in Tasks /\ status[T] = "running" /\ T \in mutators
      /\ uncommitted' = uncommitted \ {T}
      /\ UNCHANGED <<mutators, status, pub, outcome, record, remote, prs, operator, faults, resumes>>
  BY DEF RunMutator, At, origin, Worker
<1>3. /\ head = Hugin(T) /\ branches[Hugin(T)] = {} /\ HeadCommit = {} /\ remote[T] = None
      /\ tree = {} /\ worker.created /\ ~worker.degraded
  BY <1>2, DistinctNames DEF Worker, Gate, HeadCommit
<1>4. /\ committed \in Commits /\ left \in Commits /\ committed \cup left \in Commits
      /\ tree' = left /\ produced'[T] = committed \cup left
      /\ branches' \in [Names -> {None} \cup Commits]
      /\ IF side THEN /\ head' = Side(T) /\ branches'[Side(T)] = committed /\ branches'[Hugin(T)] = {}
                 ELSE /\ head' = Hugin(T) /\ branches'[Hugin(T)] = committed
                      /\ branches'[Side(T)] = branches[Side(T)]
  <2>1. committed \in Commits /\ left \in Commits /\ committed \cup left \in Commits
    BY <1>1, <1>2, OwnCommits
  <2>2. head' \in Names
    BY <1>1, <1>2, DistinctNames
  <2>. QED
    BY <1>1, <1>2, <1>3, <2>1, <2>2, DistinctNames DEF TypeOK
<1>5. \A u \in Tasks : u # T => /\ branches'[Hugin(u)] = branches[Hugin(u)]
                                /\ branches'[Side(u)] = branches[Side(u)]
  BY <1>1, <1>2, DistinctNames DEF TypeOK
<1>6. TypeOK'
  <2>1. /\ produced' \in [Tasks -> Commits] /\ uncommitted' \subseteq Tasks /\ tree' \in Commits
        /\ head' \in Names \cup {Base} /\ (head' # Base => branches'[head'] # None)
    BY <1>1, <1>2, <1>4, DistinctNames, NoneApart DEF TypeOK
  <2>2. CASE worker' = [worker EXCEPT !.pc = "commit", !.ok = TRUE]
    BY <1>2, <1>4, <2>1, <2>2 DEF TypeOK
  <2>3. CASE /\ worker' = [Idle EXCEPT !.pc = "terminal", !.task = T, !.ok = ok, !.outcome = worker'.outcome]
             /\ worker'.outcome \in {"not-finalized", worker.outcome}
    BY <1>2, <1>4, <2>1, <2>3, ZenonT(60) DEF TypeOK, Outcomes, Idle
  <2>. QED
    BY <1>1, <2>2, <2>3, SettledTo
<1>7. ASSUME NEW u \in Tasks PROVE Stored(u)'
  <2>1. CASE u = T
    <3>1. branches'[Hugin(T)] # None /\ branches'[Hugin(T)] \subseteq Own(T)
      BY <1>1, <1>4, NoneApart, OwnCommits
    <3>2. pub[T] = "none" /\ T \notin prs /\ outcome[T] \notin {"no-changes", "changes-present", "publication-recovered"}
      BY <1>2, <1>3 DEF Stored
    <3>. QED
      BY <1>1, <1>2, <1>3, <2>1, <3>1, <3>2 DEF Stored, TypeOK, Own, Hugin
  <2>2. CASE u # T
    BY <1>1, <1>2, <1>5, <2>2, StoredKept DEF TypeOK
  <2>. QED
    BY <2>1, <2>2
<1>8. Worker'
  <2>1. worker'.task = T /\ T' = T
    BY <1>1, SettledTo DEF T
  <2>2. CASE worker' = [worker EXCEPT !.pc = "commit", !.ok = TRUE]
    <3>1. worker'.pc = "commit" /\ worker'.ok
      BY <2>2 DEF TypeOK
    <3>2. HeadCommit' = committed
      BY <1>2, <1>4, DistinctNames DEF HeadCommit
    <3>3. /\ branches'[Hugin(T)] # None /\ branches'[head'] # None
      BY <1>4, NoneApart, OwnCommits, <1>2
    <3>. QED
      BY <1>1, <1>2, <1>3, <1>4, <2>1, <3>1, <3>2, <3>3
      DEF Worker, Gate, Publishing, Ending, Hugin, Side, Own
  <2>3. CASE /\ worker' = [Idle EXCEPT !.pc = "terminal", !.task = T, !.ok = ok, !.outcome = worker'.outcome]
             /\ worker'.outcome \in {"not-finalized", worker.outcome} /\ ~(ok /\ worker.created /\ ~worker.degraded)
    <3>1. worker'.pc = "terminal" /\ ~worker'.ok
      BY <1>3, <2>3 DEF Idle
    <3>. QED
      BY <1>2, <2>1, <2>3, <3>1 DEF Worker, Gate, Publishing, Ending
  <2>. QED
    BY <1>1, <2>2, <2>3, SettledTo
<1>. QED
  BY <1>2, <1>6, <1>7, <1>8, RecoveringKept

LEMMA AutoCommitKeeps == ASSUME CheckoutInv, AutoCommit PROVE CheckoutInv'
<1>. USE DEF CheckoutInv
<1>1. /\ worker.pc = "commit" /\ worker' = [worker EXCEPT !.pc = "count"] /\ worker.ok
      /\ T \in Tasks /\ T' = T /\ status[T] = "running" /\ remote[T] = None
      /\ UNCHANGED <<mutators, status, pub, outcome, record, produced, head,
                     remote, prs, operator, resumes>>
  BY DEF AutoCommit, At, Goto, origin, Worker, Publishing, T, TypeOK
<1>2. /\ tree \subseteq Own(T) /\ produced[T] \subseteq HeadCommit \cup tree
      /\ branches[Hugin(T)] # None /\ branches[head] # None /\ head \in Names
      /\ \/ head = Hugin(T)
         \/ head = Side(T) /\ branches[Side(T)] # None /\ branches[Hugin(T)] = {}
      /\ HeadCommit = branches[head] /\ branches[head] \in Commits /\ tree \in Commits
  BY <1>1, DistinctNames DEF Worker, Publishing, TypeOK, HeadCommit
<1>3. CASE /\ branches' = [branches EXCEPT ![head] = @ \cup tree] /\ tree' = {}
           /\ UNCHANGED <<uncommitted, faults>>
  <2>1. /\ branches' \in [Names -> {None} \cup Commits] /\ branches'[head] = branches[head] \cup tree
        /\ branches'[head] # None
    BY <1>1, <1>2, <1>3, OwnCommits, NoneApart DEF TypeOK
  <2>2. TypeOK'
    BY <1>1, <1>2, <1>3, <2>1, OwnCommits DEF TypeOK
  <2>3. ASSUME NEW u \in Tasks PROVE Stored(u)'
    <3>1. CASE u = T
      <4>1. branches'[Hugin(T)] \subseteq Own(T)
        BY <1>1, <1>2, <1>3, DistinctNames DEF Stored, TypeOK
      <4>2. T \notin prs /\ pub[T] = "none"
        BY <1>1 DEF Stored
      <4>. QED
        BY <1>1, <1>3, <3>1, <4>1, <4>2 DEF Stored, Own, Hugin
    <3>2. CASE u # T
      BY <1>1, <1>2, <1>3, <3>2, StoredKept, DistinctNames DEF TypeOK
    <3>. QED
      BY <3>1, <3>2
  <2>4. Worker'
    <3>1. /\ worker'.pc = "count" /\ worker'.ok /\ HeadCommit' = branches[head] \cup tree
          /\ branches'[Hugin(T)] # None
          /\ \/ head' = Hugin(T)
             \/ head' = Side(T) /\ branches'[Side(T)] # None /\ branches'[Hugin(T)] = {}
      BY <1>1, <1>2, <1>3, <2>1, DistinctNames DEF TypeOK, HeadCommit
    <3>. QED
      BY <1>1, <1>2, <3>1 DEF Worker, Gate, Publishing, Ending, Hugin, Side
  <2>. QED
    BY <1>1, <2>2, <2>3, <2>4, RecoveringKept
<1>4. CASE Fault /\ uncommitted' = uncommitted \cup {T} /\ UNCHANGED <<branches, tree>>
  <2>1. TypeOK'
    BY <1>1, <1>4 DEF TypeOK, Fault
  <2>2. ASSUME NEW u \in Tasks PROVE Stored(u)'
    <3>1. CASE u = T
      BY <1>1, <1>4, <3>1 DEF Stored, Held, Own, Hugin, Side
    <3>2. CASE u # T
      BY <1>1, <1>4, <3>2, StoredKept DEF TypeOK
    <3>. QED
      BY <3>1, <3>2
  <2>3. Worker'
    <3>1. worker'.pc = "count" /\ worker'.ok /\ T \in uncommitted'
      BY <1>1, <1>4 DEF TypeOK
    <3>. QED
      BY <1>1, <1>2, <1>4, <3>1 DEF Worker, Gate, Publishing, Ending, Hugin, Side
  <2>. QED
    BY <1>1, <2>1, <2>2, <2>3, RecoveringKept
<1>. QED
  BY <1>1, <1>3, <1>4 DEF AutoCommit

(* Whatever HEAD is on, what the worker has counted is on a branch.        *)
LEMMA CountedHeld ==
    ASSUME CheckoutInv, worker.pc = "count" PROVE Held(T)
<1>. USE DEF CheckoutInv
<1>1. T \in Tasks
  BY DEF Worker
<1>. QED
  BY <1>1, DistinctNames DEF Worker, Publishing, Held, HeadCommit

LEMMA CountCommitsKeeps == ASSUME CheckoutInv, CountCommits PROVE CheckoutInv'
<1>. USE DEF CheckoutInv
<1>1. /\ worker.pc = "count" /\ worker.ok /\ T \in Tasks /\ status[T] = "running" /\ remote[T] = None
      /\ T \in uncommitted \/ produced[T] \subseteq HeadCommit
      /\ branches[Hugin(T)] # None /\ head # Base
      /\ \/ head = Hugin(T)
         \/ head = Side(T) /\ branches[Side(T)] # None /\ branches[Hugin(T)] = {}
      /\ UNCHANGED <<mutators, status, pub, outcome, record, produced, uncommitted, tree,
                     remote, prs, operator, resumes>>
  BY DistinctNames DEF CountCommits, At, tasks, origin, Worker, Publishing
<1>2. T \notin prs /\ pub[T] = "none" /\ Held(T)
  BY <1>1, CountedHeld DEF Stored
<1>3. HeadCommit \in Commits /\ HeadCommit = branches[head]
  BY <1>1 DEF HeadCommit, TypeOK
<1>4. CASE HeadCommit = {} /\ End("terminal", "no-changes")
  <2>1. /\ worker'.pc = "terminal" /\ worker'.ok /\ worker'.outcome = "no-changes" /\ T' = T
        /\ T \in uncommitted \/ produced[T] = {}
    BY <1>1, <1>4 DEF End, TypeOK, T
  <2>2. /\ faults' \in Nat /\ head' \in {head, Base}
        /\ \/ head' = Base /\ branches' = [branches EXCEPT ![Hugin(T)] = None]
           \/ branches' = branches
    BY <1>1, <1>3, <1>4 DEF CountCommits, Fault, TypeOK, End, Goto
  <2>3. TypeOK'
    <3>1. worker' \in [pc : {"idle", "checkout", "verify", "recover", "run", "commit", "count",
                         "push", "pr", "record", "terminal", "structured"},
                   task : Tasks \cup {None}, created : BOOLEAN, degraded : BOOLEAN,
                   ok : BOOLEAN, outcome : Outcomes, evidence : {None} \cup Commits]
      BY <1>4 DEF TypeOK, End, Outcomes
    <3>2. branches' \in [Names -> {None} \cup Commits] /\ (head' # Base => branches'[head'] # None)
      BY <2>2 DEF TypeOK
    <3>. QED
      BY <1>1, <2>2, <3>1, <3>2 DEF TypeOK
  <2>4. ASSUME NEW u \in Tasks PROVE Stored(u)'
    <3>1. CASE u = T
      <4>1. branches'[Hugin(T)] \in {None, branches[Hugin(T)]}
        BY <1>1, <2>2, DistinctNames DEF TypeOK
      <4>. QED
        BY <1>1, <1>2, <3>1, <4>1 DEF Stored, Hugin, Own
    <3>2. CASE u # T
      BY <1>1, <2>2, <3>2, StoredKept, DistinctNames DEF TypeOK
    <3>. QED
      BY <3>1, <3>2
  <2>5. Worker'
    BY <1>1, <2>1 DEF Worker, Gate, Publishing, Ending, Held
  <2>. QED
    BY <1>1, <2>3, <2>4, <2>5, RecoveringKept
<1>5. CASE UNCHANGED <<head, branches>> /\ faults' \in Nat
           /\ \/ worker' = [worker EXCEPT !.pc = "push", !.evidence = HeadCommit]
              \/ Goto("push")
              \/ End("record", "publication-failed")
  <2>1. TypeOK'
    <3>1. worker' \in [pc : {"idle", "checkout", "verify", "recover", "run", "commit", "count",
                         "push", "pr", "record", "terminal", "structured"},
                   task : Tasks \cup {None}, created : BOOLEAN, degraded : BOOLEAN,
                   ok : BOOLEAN, outcome : Outcomes, evidence : {None} \cup Commits]
      <4>1. CASE worker' = [worker EXCEPT !.pc = "push", !.evidence = HeadCommit]
        BY <1>3, <4>1 DEF TypeOK
      <4>2. CASE Goto("push")
        BY <4>2 DEF TypeOK, Goto
      <4>3. CASE End("record", "publication-failed")
        BY <4>3 DEF TypeOK, End, Outcomes
      <4>. QED
        BY <1>5, <4>1, <4>2, <4>3
    <3>. QED
      BY <1>1, <1>5, <3>1 DEF TypeOK
  <2>2. ASSUME NEW u \in Tasks PROVE Stored(u)'
    BY <1>1, <1>5, StoredKept
  <2>3. Worker'
    <3>1. /\ worker'.pc \in {"push", "record"} /\ worker'.ok /\ T' = T
          /\ worker'.pc = "record" => worker'.outcome = "publication-failed"
      BY <1>1, <1>5, ZenonT(60) DEF TypeOK, T, Goto, End
    <3>2. Held(T)'
      BY <1>1, <1>2, <1>5, <3>1 DEF Held, Hugin, Side
    <3>. QED
      BY <1>1, <1>5, <3>1, <3>2 DEF Worker, Gate, Publishing, Ending, Hugin, Side
  <2>. QED
    BY <1>1, <2>1, <2>2, <2>3, RecoveringKept
<1>. QED
  BY <1>1, <1>4, <1>5 DEF CountCommits, Fault, TypeOK

LEMMA PushKeeps == ASSUME CheckoutInv, Push PROVE CheckoutInv'
<1>. USE DEF CheckoutInv
<1>1. /\ worker.pc = "push" /\ worker.ok /\ T \in Tasks /\ status[T] = "running" /\ remote[T] = None
      /\ branches[Hugin(T)] # None /\ Held(T)
      /\ UNCHANGED <<mutators, status, pub, outcome, record, produced, uncommitted, head, branches,
                     tree, prs, operator, resumes>>
  BY DEF Push, At, tasks, checkout, Worker, Publishing, Ending
<1>2. /\ faults' \in Nat /\ (Pushed(T) \/ remote' = remote)
      /\ \/ Pushed(T) /\ Goto("pr")
         \/ End("record", "publication-failed")
  BY DEF Push, Fault, TypeOK
<1>3. /\ worker'.pc \in {"pr", "record"} /\ worker'.ok /\ T' = T
      /\ worker'.pc = "pr" => remote'[T] = branches[Hugin(T)]
      /\ worker'.pc = "record" => worker'.outcome = "publication-failed"
  BY <1>1, <1>2, ZenonT(60) DEF TypeOK, T, Goto, End, Pushed
<1>4. remote' \in [Tasks -> {None} \cup Commits] /\ remote'[T] \in {None, branches[Hugin(T)]}
  BY <1>1, <1>2, DistinctNames DEF TypeOK, Pushed
<1>5. TypeOK'
  <2>1. faults' \in Nat
    BY <1>2
  <2>2. CASE Goto("pr")
    BY <1>1, <1>4, <2>1, <2>2 DEF TypeOK, Goto
  <2>3. CASE End("record", "publication-failed")
    BY <1>1, <1>4, <2>1, <2>3 DEF TypeOK, End, Outcomes
  <2>. QED
    BY <1>2, <2>2, <2>3
<1>6. ASSUME NEW u \in Tasks PROVE Stored(u)'
  <2>1. CASE u = T
    BY <1>1, <1>4, <2>1 DEF Stored, Hugin, Own
  <2>2. CASE u # T
    BY <1>1, <1>2, <2>2, StoredKept DEF TypeOK, Pushed
  <2>. QED
    BY <2>1, <2>2
<1>7. Worker'
  <2>1. Held(T)'
    BY <1>1, <1>3 DEF Held, Hugin, Side
  <2>. QED
    BY <1>1, <1>3, <2>1 DEF Worker, Gate, Publishing, Ending, Hugin
<1>. QED
  BY <1>1, <1>5, <1>6, <1>7, RecoveringKept

LEMMA CreatePullRequestKeeps == ASSUME CheckoutInv, CreatePullRequest PROVE CheckoutInv'
<1>. USE DEF CheckoutInv
<1>1. /\ worker.pc = "pr" /\ worker.ok /\ T \in Tasks /\ status[T] = "running"
      /\ remote[T] = branches[Hugin(T)] /\ Held(T)
      /\ UNCHANGED <<mutators, status, pub, outcome, record, produced, uncommitted, head, branches,
                     tree, remote, operator, resumes>>
  BY DEF CreatePullRequest, At, tasks, checkout, Worker, Publishing, Ending
<1>2. /\ faults' \in Nat
      /\ prs' = prs \/ (Creatable(T) /\ prs' = prs \cup {T})
      /\ \/ /\ T \in prs'
            /\ worker' = [Idle EXCEPT !.pc = "terminal", !.task = T, !.ok = TRUE, !.outcome = "changes-present"]
         \/ End("record", "publication-failed")
  BY DEF CreatePullRequest, Fault, TypeOK
<1>3. /\ worker'.pc \in {"terminal", "record"} /\ worker'.ok /\ T' = T
      /\ worker'.pc = "record" => worker'.outcome = "publication-failed"
      /\ worker'.pc = "terminal" => worker'.outcome = "changes-present" /\ T \in prs'
  BY <1>1, <1>2, ZenonT(60) DEF TypeOK, T, End, Idle
<1>4. TypeOK'
  <2>1. CASE worker' = [Idle EXCEPT !.pc = "terminal", !.task = T, !.ok = TRUE, !.outcome = "changes-present"]
    BY <1>1, <1>2, <2>1 DEF TypeOK, Idle, Outcomes
  <2>2. CASE End("record", "publication-failed")
    BY <1>1, <1>2, <2>2 DEF TypeOK, End, Outcomes
  <2>. QED
    BY <1>2, <2>1, <2>2
<1>5. ASSUME NEW u \in Tasks PROVE Stored(u)'
  <2>1. CASE u = T
    BY <1>1, <1>2, <2>1 DEF Stored, Hugin, Own, Creatable
  <2>2. CASE u # T
    BY <1>1, <1>2, <2>2, StoredKept
  <2>. QED
    BY <2>1, <2>2
<1>6. Worker'
  <2>1. Held(T)'
    BY <1>1, <1>3 DEF Held, Hugin, Side
  <2>. QED
    BY <1>1, <1>3, <2>1 DEF Worker, Gate, Publishing, Ending, Hugin
<1>. QED
  BY <1>1, <1>2, <1>4, <1>5, <1>6, RecoveringKept

LEMMA PersistPublicationFailureKeeps == ASSUME CheckoutInv, PersistPublicationFailure PROVE CheckoutInv'
<1>. USE DEF CheckoutInv
<1>1. /\ worker.pc = "record" /\ worker.ok /\ T \in Tasks /\ status[T] = "running"
      /\ worker.outcome = "publication-failed" /\ Held(T)
      /\ worker' = [worker EXCEPT !.pc = "terminal", !.evidence = None]
      /\ UNCHANGED <<mutators, status, pub, outcome, produced, uncommitted, head, branches,
                     tree, remote, prs, operator, resumes>>
  BY DEF PersistPublicationFailure, At, checkout, origin, Worker, Publishing, Ending
<1>2. /\ worker'.pc = "terminal" /\ worker'.ok /\ T' = T /\ worker'.outcome = "publication-failed"
  BY <1>1 DEF TypeOK, T
<1>3. TypeOK'
  <2>1. faults' \in Nat
    BY DEF PersistPublicationFailure, Fault, TypeOK
  <2>2. worker.evidence \in {None} \cup Commits
    BY DEF TypeOK
  <2>3. record' \in [Tasks -> {None} \cup [evidence : {None} \cup Commits]]
    BY <1>1, <2>2 DEF PersistPublicationFailure, TypeOK
  <2>. QED
    BY <1>1, <2>1, <2>3 DEF TypeOK
<1>4. ASSUME NEW u \in Tasks PROVE Stored(u)'
  BY <1>1, StoredKept
<1>5. Worker'
  <2>1. Held(T)'
    BY <1>1, <1>2 DEF Held, Hugin, Side
  <2>. QED
    BY <1>1, <1>2, <2>1 DEF Worker, Gate, Publishing, Ending
<1>. QED
  BY <1>1, <1>3, <1>4, <1>5, RecoveringKept

LEMMA FinalizeStatusKeeps == ASSUME CheckoutInv, FinalizeStatus PROVE CheckoutInv'
<1>. USE DEF CheckoutInv
<1>1. /\ worker.pc = "terminal" /\ T \in Tasks /\ status[T] = "running"
      /\ worker' = [worker EXCEPT !.pc = "structured"]
      /\ status' = [status EXCEPT ![T] = IF worker.ok THEN "completed" ELSE "failed"]
      /\ pub' = [pub EXCEPT ![T] = IF worker.outcome = "publication-failed" THEN "failed" ELSE "none"]
      /\ UNCHANGED <<mutators, outcome, record, produced, uncommitted, head, branches,
                     tree, remote, prs, operator, faults, resumes>>
  BY DEF FinalizeStatus, At, Goto, checkout, origin, Worker
<1>2. /\ worker.ok => Held(T)
      /\ worker.outcome \in {"no-changes", "changes-present", "publication-failed"} => worker.ok
      /\ worker.outcome = "no-changes" => T \in uncommitted \/ produced[T] = {}
      /\ worker.outcome = "changes-present" => T \in prs
      /\ worker.outcome # "publication-recovered"
      /\ pub[T] = "none" /\ outcome[T] \notin {"no-changes", "changes-present", "publication-recovered"}
  BY <1>1 DEF Worker, Ending, Stored
<1>3. TypeOK'
  BY <1>1 DEF TypeOK
<1>4. ASSUME NEW u \in Tasks PROVE Stored(u)'
  <2>1. CASE u = T
    <3>1. /\ status'[T] = (IF worker.ok THEN "completed" ELSE "failed")
          /\ pub'[T] = (IF worker.outcome = "publication-failed" THEN "failed" ELSE "none")
      BY <1>1 DEF TypeOK
    <3>2. worker.ok => Held(u)'
      BY <1>1, <1>2, <2>1 DEF Held, Hugin, Side
    <3>3. worker.outcome = "publication-failed" => worker.ok
      BY <1>2
    <3>. QED
      BY <1>1, <1>2, <2>1, <3>1, <3>2, <3>3 DEF Stored, Own, Hugin
  <2>2. CASE u # T
    BY <1>1, <2>2, StoredKept DEF TypeOK
  <2>. QED
    BY <2>1, <2>2
<1>5. Worker'
  <2>1. /\ worker'.pc = "structured" /\ T' = T /\ worker'.ok = worker.ok /\ worker'.outcome = worker.outcome
        /\ worker.ok => status'[T] = "completed"
    BY <1>1 DEF TypeOK, T
  <2>2. worker.ok => Held(T)'
    BY <1>1, <1>2, <2>1 DEF Held, Hugin, Side
  <2>. QED
    BY <1>1, <1>2, <2>1, <2>2 DEF Worker, Gate, Publishing, Ending
<1>6. \A t \in Tasks : pub[t] # "none" => pub'[t] = pub[t]
  BY <1>1, <1>2 DEF TypeOK
<1>. QED
  BY <1>1, <1>3, <1>4, <1>5, <1>6, RecoveringKept

LEMMA WriteStructuredKeeps == ASSUME CheckoutInv, WriteStructured PROVE CheckoutInv'
<1>. USE DEF CheckoutInv
<1>1. /\ worker.pc = "structured" /\ T \in Tasks /\ worker' = Idle
      /\ UNCHANGED <<mutators, status, pub, record, produced, uncommitted, head, branches,
                     tree, remote, prs, operator, resumes>>
  BY DEF WriteStructured, At, checkout, origin, Worker
<1>2. /\ faults' \in Nat /\ outcome' \in [Tasks -> Outcomes]
      /\ \A u \in Tasks : outcome'[u] = outcome[u] \/ (u = T /\ outcome'[u] = worker.outcome)
  <2>1. worker.outcome \in Outcomes
    BY DEF TypeOK
  <2>. QED
    BY <1>1, <2>1 DEF WriteStructured, Fault, TypeOK
<1>3. TypeOK'
  BY <1>1, <1>2 DEF TypeOK, Idle, Outcomes
<1>4. ASSUME NEW u \in Tasks PROVE Stored(u)'
  <2>1. CASE outcome'[u] = outcome[u]
    BY <1>1, <2>1, StoredKept
  <2>2. CASE u = T /\ outcome'[u] = worker.outcome
    <3>1. /\ worker.outcome \in {"no-changes", "changes-present"} => status[T] = "completed"
          /\ worker.outcome = "no-changes" => T \in uncommitted \/ produced[T] = {}
          /\ worker.outcome = "changes-present" => T \in prs
          /\ worker.outcome # "publication-recovered"
      BY <1>1 DEF Worker, Ending
    <3>. QED
      BY <1>1, <2>2, <3>1 DEF Stored, Held, Own, Hugin, Side
  <2>. QED
    BY <1>2, <2>1, <2>2
<1>5. Worker'
  BY <1>1 DEF Worker, Gate, Publishing, Ending, Idle
<1>. QED
  BY <1>1, <1>3, <1>4, <1>5, RecoveringKept

LEMMA CrashAndRecoverKeeps == ASSUME CheckoutInv, CrashAndRecover PROVE CheckoutInv'
<1>. USE DEF CheckoutInv
<1>1. /\ worker.pc # "idle" /\ T \in Tasks /\ worker' = Idle /\ faults' \in Nat
      /\ status' = [status EXCEPT ![T] = IF status[T] = "running" THEN "failed" ELSE status[T]]
      /\ UNCHANGED <<mutators, pub, outcome, record, produced, uncommitted, head, branches, tree,
                     remote, prs, operator, resumes>>
  BY DEF CrashAndRecover, At, Fault, checkout, origin, Worker, TypeOK
<1>2. TypeOK'
  BY <1>1 DEF TypeOK, Idle, Outcomes
<1>3. ASSUME NEW u \in Tasks PROVE Stored(u)'
  <2>1. CASE u = T /\ status[T] = "running"
    <3>1. status'[u] = "failed"
      BY <1>1, <2>1 DEF TypeOK
    <3>. QED
      BY <1>1, <2>1, <3>1 DEF Stored, Hugin, Own
  <2>2. CASE ~(u = T /\ status[T] = "running")
    BY <1>1, <2>2, StoredKept DEF TypeOK
  <2>. QED
    BY <2>1, <2>2
<1>4. Worker'
  BY <1>1 DEF Worker, Gate, Publishing, Ending, Idle
<1>. QED
  BY <1>1, <1>2, <1>3, <1>4, RecoveringKept

LEMMA ResumeKeeps == ASSUME CheckoutInv, NEW t \in Tasks, Resume(t) PROVE CheckoutInv'
<1>. USE DEF CheckoutInv
<1>1. /\ status[t] = "failed" /\ T # t /\ resumes' \in Nat
      /\ status' = [status EXCEPT ![t] = "pending"] /\ outcome' = [outcome EXCEPT ![t] = "none"]
      /\ UNCHANGED <<mutators, pub, record, produced, uncommitted, head, branches, tree,
                     remote, prs, worker, operator, faults>>
  BY DEF Resume, checkout, origin, TypeOK
<1>2. TypeOK'
  BY <1>1 DEF TypeOK, Outcomes
<1>3. ASSUME NEW u \in Tasks PROVE Stored(u)'
  <2>1. CASE u = t
    BY <1>1, <2>1 DEF Stored, Hugin, Own, TypeOK
  <2>2. CASE u # t
    BY <1>1, <2>2, StoredKept DEF TypeOK
  <2>. QED
    BY <2>1, <2>2
<1>4. Worker'
  BY <1>1, WorkerKept DEF TypeOK, Worker
<1>. QED
  BY <1>1, <1>2, <1>3, <1>4, RecoveringKept

-------------------------------------------------------------------------------
(* The steps of a recovery.                                                *)
OpRecord ==
    [pc : {"idle", "verify", "push", "pr", "note", "patch"}, task : Tasks \cup {None},
     evidence : {None} \cup Commits, result : {"none", "recovered", "abandoned"}]

(* Another operator keeps what it relies on as long as a tag is set once   *)
(* and a pull request stays.                                               *)
LEMMA OthersKept ==
    ASSUME \A o \in Operators : Recovering(o), NEW o \in Operators,
           operator \in [Operators -> OpRecord], NEW r \in OpRecord,
           operator' = [operator EXCEPT ![o] = r],
           prs \subseteq prs',
           \A t \in Tasks : pub[t] # "none" =>
                               pub'[t] # "none" /\ (pub[t] # "failed" => pub'[t] = pub[t]),
           Recovering(o)'
    PROVE \A u \in Operators : Recovering(u)'
<1>1. ASSUME NEW u \in Operators, u # o PROVE Recovering(u)'
  <2>1. operator'[u] = operator[u]
    BY <1>1
  <2>2. operator[u].result # "failed"
    BY DEF OpRecord
  <2>. QED
    BY <2>1, <2>2 DEF Recovering
<1>. QED
  BY <1>1

(* A step of an operator that only moves it: nothing but operator, faults  *)
(* and what is named here changes.                                         *)
Moves(o, r) == operator' = [operator EXCEPT ![o] = r] /\ r \in OpRecord /\ faults' \in Nat /\ Still

LEMMA MovesTo ==
    ASSUME CheckoutInv, NEW o \in Operators, faults' \in Nat, Still
    PROVE /\ \A pc \in {"idle", "verify", "push", "pr", "note", "patch"} :
                OpGoto(o, pc) => Moves(o, [operator[o] EXCEPT !.pc = pc])
          /\ \A x \in {"recovered", "abandoned"} :
                OpResult(o, x) => Moves(o, [operator[o] EXCEPT !.pc = "note", !.result = x, !.evidence = None])
          /\ OpRest(o) => Moves(o, Resting)
<1>1. operator[o] \in OpRecord /\ operator \in [Operators -> OpRecord]
  BY DEF CheckoutInv, TypeOK, OpRecord
<1>2. ASSUME NEW pc \in {"idle", "verify", "push", "pr", "note", "patch"}, OpGoto(o, pc)
      PROVE Moves(o, [operator[o] EXCEPT !.pc = pc])
  BY <1>1, <1>2 DEF OpGoto, Moves, OpRecord
<1>3. ASSUME NEW x \in {"recovered", "abandoned"}, OpResult(o, x)
      PROVE Moves(o, [operator[o] EXCEPT !.pc = "note", !.result = x, !.evidence = None])
  <2>1. [operator[o] EXCEPT !.pc = "note", !.result = x, !.evidence = None] \in OpRecord
    BY <1>1 DEF OpRecord
  <2>2. operator' = [operator EXCEPT ![o] = [operator[o] EXCEPT !.pc = "note", !.result = x, !.evidence = None]]
    BY <1>1, <1>3 DEF OpResult, OpRecord
  <2>. QED
    BY <2>1, <2>2 DEF Moves
<1>4. ASSUME OpRest(o) PROVE Moves(o, Resting)
  BY <1>4 DEF OpRest, Moves, Resting, OpRecord
<1>. QED
  BY <1>2, <1>3, <1>4

(* What is left to show of such a step: the origin and the tags of its     *)
(* task, and what the operator relies on.                                  *)
LEMMA MoveKeeps ==
    ASSUME CheckoutInv, NEW o \in Operators, NEW r, Moves(o, r), Recovering(o)',
           pub' \in [Tasks -> {"none", "failed", "recovered", "abandoned"}],
           outcome' \in [Tasks -> Outcomes],
           remote' \in [Tasks -> {None} \cup Commits],
           prs \subseteq prs', prs' \subseteq Tasks,
           \A t \in Tasks :
              \/ /\ pub'[t] = pub[t] /\ outcome'[t] = outcome[t] /\ remote'[t] = remote[t]
                 /\ (t \in prs' <=> t \in prs)
              \/ /\ pub[t] # "none" /\ pub'[t] # "none" /\ (pub[t] # "failed" => pub'[t] = pub[t])
                 /\ Stored(t)'
    PROVE CheckoutInv'
<1>. USE DEF CheckoutInv
<1>1. /\ operator' = [operator EXCEPT ![o] = r] /\ r \in OpRecord /\ faults' \in Nat
      /\ UNCHANGED <<mutators, status, record, produced, uncommitted, head, branches, tree, worker, resumes>>
  BY DEF Moves, Still, checkout
<1>2. TypeOK'
  <2>1. operator' \in [Operators -> OpRecord]
    BY <1>1 DEF TypeOK, OpRecord
  <2>. QED
    BY <1>1, <2>1 DEF TypeOK, OpRecord
<1>3. ASSUME NEW t \in Tasks PROVE Stored(t)'
  BY <1>1, StoredKept
<1>4. Worker'
  <2>1. worker.pc # "idle" /\ status[T] = "running" => remote'[T] = remote[T]
    BY DEF Stored, Worker
  <2>. QED
    BY <1>1, <2>1, WorkerKept
<1>5. \A u \in Operators : Recovering(u)'
  BY <1>1, OthersKept DEF TypeOK, OpRecord
<1>. QED
  BY <1>2, <1>3, <1>4, <1>5

LEMMA StartKeeps == ASSUME CheckoutInv, NEW o \in Operators, NEW t \in Tasks, Start(o, t) PROVE CheckoutInv'
<1>. DEFINE r == [pc |-> "verify", task |-> t, evidence |-> record[t].evidence, result |-> "none"]
<1>1. /\ pub[t] = "failed" /\ record[t] # None /\ operator' = [operator EXCEPT ![o] = r] /\ Still
      /\ UNCHANGED <<pub, outcome, remote, prs, faults>>
  BY DEF Start, origin
<1>2. record[t].evidence \in {None} \cup Commits
  BY <1>1 DEF CheckoutInv, TypeOK
<1>3. Moves(o, r)
  BY <1>1, <1>2 DEF Moves, OpRecord, CheckoutInv, TypeOK
<1>4. Recovering(o)'
  BY <1>1 DEF Recovering, CheckoutInv, TypeOK
<1>. QED
  BY <1>1, <1>3, <1>4, MoveKeeps DEF CheckoutInv, TypeOK

LEMMA VerifyKeeps == ASSUME CheckoutInv, NEW o \in Operators, Verify(o) PROVE CheckoutInv'
<1>1. /\ operator[o].pc = "verify" /\ operator[o] \in OpRecord /\ operator \in [Operators -> OpRecord]
      /\ operator[o].task \in Tasks /\ pub[operator[o].task] # "none"
  BY DEF Verify, OpAt, Recovering, CheckoutInv, TypeOK, OpRecord
<1>2. /\ faults' \in Nat /\ Still /\ UNCHANGED <<pub, outcome, remote, prs>>
      /\ \/ OpResult(o, "abandoned")
         \/ operator[o].task \in prs /\ OpResult(o, "recovered")
         \/ OpGoto(o, "push")
  BY DEF Verify, Fault, origin, CheckoutInv, TypeOK
<1>3. \E r : Moves(o, r)
  BY <1>2, MovesTo
<1>4. Recovering(o)'
  BY <1>1, <1>2 DEF Recovering, OpResult, OpGoto, OpRecord
<1>. QED
  BY <1>2, <1>3, <1>4, MoveKeeps DEF CheckoutInv, TypeOK

LEMMA PushAgainKeeps == ASSUME CheckoutInv, NEW o \in Operators, PushAgain(o) PROVE CheckoutInv'
<1>0. PICK t : t = operator[o].task
  OBVIOUS
<1>1. /\ operator[o].pc = "push" /\ operator[o] \in OpRecord /\ operator \in [Operators -> OpRecord]
      /\ t \in Tasks /\ pub[t] # "none"
  BY <1>0 DEF PushAgain, OpAt, Recovering, CheckoutInv, TypeOK, OpRecord
<1>2. /\ faults' \in Nat /\ Still /\ UNCHANGED <<pub, outcome, prs>>
      /\ OpGoto(o, "pr") \/ OpRest(o)
      /\ remote' = remote \/ Pushed(t)
  BY <1>0 DEF PushAgain, Fault, CheckoutInv, TypeOK
<1>3. \E r : Moves(o, r)
  BY <1>2, MovesTo
<1>4. Recovering(o)'
  BY <1>0, <1>1, <1>2 DEF Recovering, OpGoto, OpRest, Resting, OpRecord
<1>5. /\ remote' \in [Tasks -> {None} \cup Commits]
      /\ remote'[t] \in {remote[t], branches[Hugin(t)]}
      /\ \A u \in Tasks : u # t => remote'[u] = remote[u]
  BY <1>0, <1>1, <1>2, DistinctNames DEF Pushed, CheckoutInv, TypeOK
<1>6. Stored(t)'
  <2>1. UNCHANGED <<status, produced, uncommitted, branches>>
    BY <1>2 DEF Still, checkout
  <2>. QED
    BY <1>0, <1>1, <1>2, <1>5, <2>1, ZenonT(60) DEF Stored, Held, Own, Hugin, Side, CheckoutInv
<1>. QED
  BY <1>0, <1>1, <1>2, <1>3, <1>4, <1>5, <1>6, MoveKeeps DEF CheckoutInv, TypeOK

LEMMA CreateAgainKeeps == ASSUME CheckoutInv, NEW o \in Operators, CreateAgain(o) PROVE CheckoutInv'
<1>0. PICK t : t = operator[o].task
  OBVIOUS
<1>1. /\ operator[o].pc = "pr" /\ operator[o] \in OpRecord /\ operator \in [Operators -> OpRecord]
      /\ t \in Tasks /\ pub[t] # "none"
  BY <1>0 DEF CreateAgain, OpAt, Recovering, CheckoutInv, TypeOK, OpRecord
<1>2. /\ faults' \in Nat /\ Still /\ UNCHANGED <<pub, outcome, remote>>
      /\ prs' = prs \/ (Creatable(t) /\ prs' = prs \cup {t})
      /\ \/ OpRest(o)
         \/ t \in prs' /\ OpResult(o, "recovered")
  BY <1>0 DEF CreateAgain, Fault, CheckoutInv, TypeOK
<1>3. \E r : Moves(o, r)
  BY <1>2, MovesTo
<1>4. Recovering(o)'
  BY <1>0, <1>1, <1>2 DEF Recovering, OpResult, OpRest, Resting, OpRecord
<1>5. Stored(t)'
  <2>1. UNCHANGED <<status, produced, uncommitted, branches>>
    BY <1>2 DEF Still, checkout
  <2>. QED
    BY <1>0, <1>1, <1>2, <2>1 DEF Stored, Held, Own, Hugin, Side, CheckoutInv, Creatable
<1>. QED
  BY <1>0, <1>1, <1>2, <1>3, <1>4, <1>5, MoveKeeps DEF CheckoutInv, TypeOK

LEMMA NoteOutcomeKeeps == ASSUME CheckoutInv, NEW o \in Operators, NoteOutcome(o) PROVE CheckoutInv'
<1>0. PICK t : t = operator[o].task
  OBVIOUS
<1>1. /\ operator[o].pc = "note" /\ operator[o] \in OpRecord /\ operator \in [Operators -> OpRecord]
      /\ t \in Tasks /\ pub[t] # "none" /\ operator[o].result # "none"
      /\ operator[o].result = "recovered" => t \in prs
  BY <1>0 DEF NoteOutcome, OpAt, Recovering, CheckoutInv, TypeOK, OpRecord
<1>2. /\ faults' \in Nat /\ Still /\ UNCHANGED <<outcome, remote, prs>>
      /\ \/ /\ pub[t] = "failed" /\ pub' = [pub EXCEPT ![t] = operator[o].result] /\ OpGoto(o, "patch")
         \/ pub' = pub /\ OpRest(o)
  BY <1>0 DEF NoteOutcome, Fault, origin, CheckoutInv, TypeOK
<1>3. \E r : Moves(o, r)
  BY <1>2, MovesTo
<1>4. /\ pub' \in [Tasks -> {"none", "failed", "recovered", "abandoned"}]
      /\ \A u \in Tasks : u # t => pub'[u] = pub[u]
      /\ pub'[t] # "none" /\ (pub[t] # "failed" => pub'[t] = pub[t])
      /\ pub'[t] \in {pub[t], operator[o].result}
  BY <1>0, <1>1, <1>2 DEF CheckoutInv, TypeOK, OpRecord
<1>5. Recovering(o)'
  <2>1. CASE pub[t] = "failed" /\ pub' = [pub EXCEPT ![t] = operator[o].result] /\ OpGoto(o, "patch")
    <3>1. operator'[o] = [operator[o] EXCEPT !.pc = "patch"] /\ pub'[t] = operator[o].result
      BY <1>0, <1>1, <2>1 DEF OpGoto, CheckoutInv, TypeOK
    <3>. QED
      BY <1>0, <1>1, <1>2, <3>1 DEF Recovering, OpRecord
  <2>2. CASE OpRest(o)
    BY <1>0, <1>1, <2>2 DEF Recovering, OpRest, Resting
  <2>. QED
    BY <1>2, <2>1, <2>2
<1>6. Stored(t)'
  <2>1. UNCHANGED <<status, produced, uncommitted, branches>>
    BY <1>2 DEF Still, checkout
  <2>. QED
    BY <1>0, <1>1, <1>2, <1>4, <2>1, ZenonT(60) DEF Stored, Held, Own, Hugin, Side, CheckoutInv
<1>. QED
  BY <1>0, <1>1, <1>2, <1>3, <1>4, <1>5, <1>6, MoveKeeps DEF CheckoutInv, TypeOK

LEMMA PatchStructuredKeeps == ASSUME CheckoutInv, NEW o \in Operators, PatchStructured(o) PROVE CheckoutInv'
<1>0. PICK t, found :
         /\ t = operator[o].task
         /\ found = (IF operator[o].result = "recovered" THEN "publication-recovered" ELSE "publication-abandoned")
  OBVIOUS
<1>1. /\ operator[o].pc = "patch" /\ operator[o] \in OpRecord /\ operator \in [Operators -> OpRecord]
      /\ t \in Tasks /\ pub[t] # "none" /\ pub[t] = operator[o].result
      /\ operator[o].result = "recovered" => t \in prs
  BY <1>0 DEF PatchStructured, OpAt, Recovering, CheckoutInv, TypeOK, OpRecord
<1>2. /\ faults' \in Nat /\ Still /\ UNCHANGED <<pub, remote, prs>> /\ OpRest(o)
      /\ outcome' = outcome \/ outcome' = [outcome EXCEPT ![t] = IF outcome[t] = "none" THEN outcome[t] ELSE found]
  BY <1>0 DEF PatchStructured, Fault, origin, CheckoutInv, TypeOK
<1>3. \E r : Moves(o, r)
  BY <1>2, MovesTo
<1>4. /\ outcome' \in [Tasks -> Outcomes] /\ outcome'[t] \in {outcome[t], found}
      /\ \A u \in Tasks : u # t => outcome'[u] = outcome[u]
  BY <1>0, <1>1, <1>2 DEF CheckoutInv, TypeOK, Outcomes
<1>5. Recovering(o)'
  BY <1>0, <1>1, <1>2 DEF Recovering, OpRest, Resting
<1>6. Stored(t)'
  <2>1. UNCHANGED <<status, produced, uncommitted, branches>>
    BY <1>2 DEF Still, checkout
  <2>2. found \in {"publication-recovered", "publication-abandoned"}
        /\ (found = "publication-recovered" => t \in prs)
    BY <1>0, <1>1
  <2>. QED
    BY <1>0, <1>1, <1>2, <1>4, <2>1, <2>2, ZenonT(60) DEF Stored, Held, Own, Hugin, Side, CheckoutInv
<1>. QED
  BY <1>0, <1>1, <1>2, <1>3, <1>4, <1>5, <1>6, MoveKeeps DEF CheckoutInv, TypeOK

-------------------------------------------------------------------------------
(* The first states: nothing was done, or one task is left whose           *)
(* publication failed, with all its work on its branch.                    *)
LEMMA InitCheckoutInv == Init => CheckoutInv
<1>. SUFFICES ASSUME Init PROVE CheckoutInv
  OBVIOUS
<1>1. PICK old \in mutators \cup {None} :
         /\ status = [t \in Tasks |-> IF t = old THEN "completed" ELSE "pending"]
         /\ pub = [t \in Tasks |-> IF t = old THEN "failed" ELSE "none"]
         /\ outcome = [t \in Tasks |-> IF t = old THEN "publication-failed" ELSE "none"]
         /\ record = [t \in Tasks |-> IF t = old THEN [evidence |-> Own(t)] ELSE None]
         /\ produced = [t \in Tasks |-> IF t = old THEN Own(t) ELSE {}]
         /\ branches = [n \in Names |->
               IF n[1] = "hugin" THEN (IF n[2] = old THEN Own(n[2]) ELSE None) ELSE None]
         /\ head = (IF old = None THEN Base ELSE Hugin(old))
         /\ \/ remote = [t \in Tasks |-> None] /\ prs = {}
            \/ /\ old # None /\ remote = [t \in Tasks |-> IF t = old THEN Own(t) ELSE None]
               /\ prs \in SUBSET {old}
  BY DEF Init
<1>2. /\ mutators \subseteq Tasks /\ tree = {} /\ uncommitted = {} /\ worker = Idle
      /\ operator = [o \in Operators |-> Resting] /\ faults = 0 /\ resumes = 0
  BY DEF Init
<1>3. old \in Tasks \cup {None} /\ prs \subseteq Tasks /\ prs \subseteq {old}
  BY <1>1, <1>2
<1>4. \A t \in Tasks : /\ branches[Hugin(t)] = (IF t = old THEN Own(t) ELSE None)
                       /\ branches[Side(t)] = None
  BY <1>1, DistinctNames DEF Hugin, Side
<1>5. branches \in [Names -> {None} \cup Commits] /\ (head # Base => branches[head] # None)
  <2>1. branches \in [Names -> {None} \cup Commits]
    BY <1>1, OwnCommits DEF Names
  <2>2. head # Base => old \in Tasks /\ head = Hugin(old)
    BY <1>1, <1>3
  <2>. QED
    BY <2>1, <2>2, <1>4, OwnCommits, NoneApart
<1>6. TypeOK
  <2>1. /\ record \in [Tasks -> {None} \cup [evidence : {None} \cup Commits]]
        /\ produced \in [Tasks -> Commits] /\ remote \in [Tasks -> {None} \cup Commits]
    BY <1>1, OwnCommits, DistinctNames DEF Commits
  <2>2. head \in Names \cup {Base}
    BY <1>1, <1>3, DistinctNames
  <2>3. /\ worker \in [pc : {"idle", "checkout", "verify", "recover", "run", "commit", "count",
                            "push", "pr", "record", "terminal", "structured"},
                       task : Tasks \cup {None}, created : BOOLEAN, degraded : BOOLEAN,
                       ok : BOOLEAN, outcome : Outcomes, evidence : {None} \cup Commits]
        /\ operator \in [Operators -> OpRecord]
    BY <1>2 DEF Idle, Resting, OpRecord, Outcomes
  <2>4. /\ status \in [Tasks -> {"pending", "running", "completed", "failed"}]
        /\ pub \in [Tasks -> {"none", "failed", "recovered", "abandoned"}]
        /\ outcome \in [Tasks -> Outcomes]
    BY <1>1 DEF Outcomes
  <2>5. tree \in Commits
    BY <1>2 DEF Commits
  <2>. QED
    BY <1>2, <1>3, <1>5, <2>1, <2>2, <2>3, <2>4, <2>5 DEF TypeOK, OpRecord
<1>7. ASSUME NEW t \in Tasks PROVE Stored(t)
  <2>1. CASE t = old
    <3>1. /\ status[t] = "completed" /\ pub[t] = "failed" /\ outcome[t] = "publication-failed"
          /\ produced[t] = Own(t) /\ branches[Hugin(t)] = Own(t) /\ remote[t] \in {None, Own(t)}
      BY <1>1, <1>4, <2>1
    <3>2. Own(t) # None
      BY OwnCommits, NoneApart
    <3>3. t \in prs => remote[t] = Own(t)
      BY <1>1, <2>1
    <3>4. Own(t) # {}
      <4>1. PICK c : c \in Chunks
        BY ChunksAssumption
      <4>2. <<t, c>> \in Own(t)
        BY <4>1 DEF Own
      <4>. QED
        BY <4>2
    <3>. QED
      BY <3>1, <3>2, <3>3, <3>4 DEF Stored, Held
  <2>2. CASE t # old
    BY <1>1, <1>3, <1>4, <2>2 DEF Stored
  <2>. QED
    BY <2>1, <2>2
<1>8. Worker /\ \A o \in Operators : Recovering(o)
  BY <1>2 DEF Worker, Gate, Publishing, Ending, Recovering, Idle, Resting
<1>. QED
  BY <1>6, <1>7, <1>8 DEF CheckoutInv

LEMMA NextCheckoutInv == CheckoutInv /\ [Next]_vars => CheckoutInv'
<1>. SUFFICES ASSUME CheckoutInv, [Next]_vars PROVE CheckoutInv'
  OBVIOUS
<1>1. ASSUME NEW t \in Tasks, Claim(t) PROVE CheckoutInv'
  BY <1>1, ClaimKeeps
<1>2. ASSUME NEW t \in Tasks, Resume(t) PROVE CheckoutInv'
  BY <1>2, ResumeKeeps
<1>3. CASE Work
  BY <1>3, CheckoutTaskBranchKeeps, VerifyCleanCheckoutKeeps, RecoverCleanCheckoutKeeps, RunReaderKeeps,
     RunMutatorKeeps, AutoCommitKeeps, CountCommitsKeeps, PushKeeps, CreatePullRequestKeeps,
     PersistPublicationFailureKeeps, FinalizeStatusKeeps, WriteStructuredKeeps DEF Work
<1>4. CASE CrashAndRecover
  BY <1>4, CrashAndRecoverKeeps
<1>5. ASSUME NEW o \in Operators, Recovery(o) PROVE CheckoutInv'
  BY <1>5, StartKeeps, VerifyKeeps, PushAgainKeeps, CreateAgainKeeps, NoteOutcomeKeeps,
     PatchStructuredKeeps DEF Recovery
<1>6. CASE UNCHANGED vars
  <2>1. /\ UNCHANGED <<mutators, status, pub, outcome, record, produced, uncommitted>>
        /\ UNCHANGED <<head, branches, tree, remote, prs, worker, operator, faults, resumes>>
    BY <1>6 DEF vars, tasks, checkout, origin
  <2>2. TypeOK'
    BY <2>1 DEF CheckoutInv, TypeOK
  <2>3. ASSUME NEW t \in Tasks PROVE Stored(t)'
    BY <2>1, StoredKept DEF CheckoutInv
  <2>4. Worker'
    BY <2>1, WorkerKept DEF CheckoutInv
  <2>. QED
    BY <2>1, <2>2, <2>3, <2>4, RecoveringKept DEF CheckoutInv
<1>. QED
  BY <1>1, <1>2, <1>3, <1>4, <1>5, <1>6 DEF Next

-------------------------------------------------------------------------------
(* Whatever tasks share the checkout, each variable keeps its type.        *)
THEOREM CheckoutTyped == Spec => []TypeOK
<1>1. CheckoutInv => TypeOK
  BY DEF CheckoutInv
<1>. QED
  BY <1>1, InitCheckoutInv, NextCheckoutInv, PTL DEF Spec

(* What is pushed for a task holds no change of another, whatever a        *)
(* failed, cancelled or killed agent left in the checkout before it and    *)
(* however the commands of the gate fail: a pushed branch is the task's    *)
(* own, made anew in a tree that was proven clean.                         *)
THEOREM AlwaysOwnWork == Spec => []OwnWorkOnly
<1>1. CheckoutInv => OwnWorkOnly
  BY DEF CheckoutInv, Stored, OwnWorkOnly
<1>. QED
  BY <1>1, InitCheckoutInv, NextCheckoutInv, PTL DEF Spec

(* The outcome of a task is true and its work is never lost, through every *)
(* crash, failed command, resumed pipeline and overlapping recovery.       *)
THEOREM AlwaysAccounted == Spec => []WorkAccounted
<1>1. ASSUME CheckoutInv, NEW t \in Tasks, t \notin uncommitted
      PROVE /\ outcome[t] = "no-changes" => produced[t] = {}
            /\ Publication(t) => t \in prs /\ produced[t] \subseteq remote[t]
            /\ status[t] = "completed" =>
                  produced[t] \subseteq Local \cup (IF t \in prs THEN remote[t] ELSE {})
  <2>1. Stored(t) /\ Hugin(t) \in Names /\ Side(t) \in Names
    BY <1>1, DistinctNames DEF CheckoutInv
  <2>2. \A n \in Names : branches[n] # None => branches[n] \subseteq Local
    BY DEF Local
  <2>3. status[t] = "completed" => produced[t] \subseteq Local
    BY <1>1, <2>1, <2>2 DEF Stored, Held
  <2>4. Publication(t) => t \in prs /\ produced[t] \subseteq remote[t]
    <3>1. Publication(t) => t \in prs /\ status[t] = "completed"
      BY <2>1 DEF Publication, Stored
    <3>2. t \in prs => remote[t] = branches[Hugin(t)] /\ branches[Hugin(t)] # {}
      BY <2>1 DEF Stored
    <3>. QED
      BY <1>1, <2>1, <3>1, <3>2 DEF Stored, Held
  <2>. QED
    BY <1>1, <2>1, <2>3, <2>4 DEF Stored
<1>2. CheckoutInv => WorkAccounted
  BY <1>1 DEF WorkAccounted, OutcomeTrue, WorkKept
<1>. QED
  BY <1>2, InitCheckoutInv, NextCheckoutInv, PTL DEF Spec
===============================================================================
