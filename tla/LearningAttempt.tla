---------------------------- MODULE LearningAttempt ----------------------------
(***************************************************************************)
(* One task on its way to the M5 gateway, the evidence kept of each        *)
(* attempt at it, and the micro-experiment that may shadow it              *)
(* (src/learning-task-handshake.ts, src/learning-task-recovery.ts,         *)
(* src/homeserver-executor.ts, src/organic-micro-experiment.ts and their   *)
(* callers in src/index.ts).                                               *)
(*                                                                         *)
(* A worker runs two lanes: the base lane claims the task, makes an        *)
(* attempt, or recovers the one a dead worker left; the shadow lane is the *)
(* worker's queue of one experiment.  An attempt is a run and a lane.      *)
(* Munin is a set of rows created once; the gateway is external: it admits *)
(* an attempt at most once, perhaps long after the request was given up.   *)
(* A task without an authenticated source, and rows of a foreign           *)
(* classification or malformed, are left out.                              *)
(***************************************************************************)
EXTENDS Integers, FiniteSets

CONSTANTS
    Workers,
    MaxRuns,        \* bound on claims of the task
    MaxMishaps,      \* bound on crashes, failed calls, lost answers and lapsed leases
    Nobody

ASSUME WorkersAssumption == IsFiniteSet(Workers) /\ Nobody \notin Workers
ASSUME RunsAssumption == MaxRuns \in Nat \ {0} /\ MaxMishaps \in Nat

VARIABLES
    status,         \* of the task: its tag, the worker that holds it, its run
    lapsed,         \* has the holder's lease run out under it?
    rows,           \* the durable rows of each attempt
    newest,         \* the attempt whose start was written last
    structured,     \* the structured result: the attempt and the evidence it names
    plan,           \* the run whose experiment plan is durable, or 0
    eresult,        \* the result of the experiment
    wire, admitted, \* requests sent to the gateway, and those it has admitted
    up, lane, mishaps

attemptVars == <<status, lapsed, rows, newest, structured, plan, eresult, wire, admitted, up, lane, mishaps>>
durable == <<status, lapsed, rows, newest, structured, plan, eresult>>

Roles == {"base", "shadow"}
Runs == 1 .. MaxRuns
Attempts == Runs \X Roles
NoAttempt == <<0, "base">>

(* Evidence, by its failure code: the first two are states                 *)
(* "preflight-failed", the next two "m5-not-admitted", then "join-failed". *)
Evidence == {"preflight-failed", "pre-dispatch-unavailable", "prepared-dispatch-persistence-failed",
             "transport-not-admitted", "gateway-echo-invalid", "recovery-unavailable",
             "attempt-outcome-persistence-failed", "m5-admitted"}
NoRows == [start |-> FALSE, replay |-> FALSE, prepared |-> FALSE, outcome |-> "none"]
NoResult == [of |-> NoAttempt, evidence |-> "none", ref |-> FALSE, written |-> FALSE]
IdleLane == [pc |-> "idle", at |-> NoAttempt, evidence |-> "none", ref |-> FALSE, ok |-> FALSE,
         route |-> FALSE, experiment |-> "none", late |-> FALSE, good |-> FALSE, seen |-> [tag |-> "", by |-> Nobody, run |-> 0]]

Terminal == status.tag \in {"completed", "failed"}
Mishap == mishaps < MaxMishaps /\ mishaps' = mishaps + 1

AttemptInit ==
    /\ status = [tag |-> "pending", by |-> Nobody, run |-> 0] /\ lapsed = FALSE
    /\ rows = [a \in Attempts |-> NoRows] /\ newest = NoAttempt
    /\ structured = NoResult /\ plan = 0 /\ eresult = "none"
    /\ wire = {} /\ admitted = {}
    /\ up = [w \in Workers |-> TRUE]
    /\ lane = [w \in Workers |-> [base |-> [IdleLane EXCEPT !.pc = "recover"], shadow |-> IdleLane]]
    /\ mishaps = 0

At(w, r, pc) == up[w] /\ lane[w][r].pc = pc
Move(w, r, l) == lane' = [lane EXCEPT ![w][r] = l]
Proceed(w, r, pc) == Move(w, r, [lane[w][r] EXCEPT !.pc = pc])
(* The lane has its evidence, and writes the outcome of its attempt next.  *)
Conclude(w, r, e) == Move(w, r, [lane[w][r] EXCEPT !.pc = "outcome", !.evidence = e])
Write(a, field, value) == rows' = [rows EXCEPT ![a][field] = value]
(* A create-only write of the experiment's result, by whoever comes first. *)
Settle(kind) == eresult' = IF eresult = "none" THEN kind ELSE eresult

-------------------------------------------------------------------------------
(* The worker takes the task.                                              *)
Claim(w) ==
    /\ At(w, "base", "idle") /\ status.tag = "pending" /\ status.run < MaxRuns
    /\ status' = [tag |-> "running", by |-> w, run |-> status.run + 1] /\ lapsed' = FALSE
    /\ Move(w, "base", [IdleLane EXCEPT !.pc = "plan", !.at = <<status.run + 1, "base">>])
    /\ UNCHANGED <<rows, newest, structured, plan, eresult, wire, admitted, up, mishaps>>

(* The plan is written before the attempt, or the task runs without an     *)
(* experiment.  A plan that is already there is an orphan's, or this run's *)
(* own after a write whose answer was lost and which Munin's client        *)
(* repeated.                                                               *)
PersistPlan(w) ==
    /\ At(w, "base", "plan")
    /\ LET run == lane[w]["base"].at[1]
           Use(x) == Move(w, "base", [lane[w]["base"] EXCEPT !.pc = "start", !.experiment = x])
       IN  \/ plan = 0 /\ plan' = run /\ Use("plan") /\ UNCHANGED mishaps
           \/ plan = 0 /\ plan' = run /\ Mishap /\ (Use("orphan") \/ Use("none"))
           \/ plan # 0 /\ Use("orphan") /\ UNCHANGED <<plan, mishaps>>
           \/ Mishap /\ Use("none") /\ UNCHANGED plan
    /\ UNCHANGED <<status, lapsed, rows, newest, structured, eresult, wire, admitted, up>>

(* prepareDurableLearningTaskAttempt: the start, then the gateway's        *)
(* advertisement, the replay payload and the prepared dispatch.  A write   *)
(* that fails may have been applied all the same; an advertisement that    *)
(* fails leaves the start as well.                                         *)
PersistStart(w, r) ==
    /\ At(w, r, "start")
    /\ LET a == lane[w][r].at IN
          \/ /\ Write(a, "start", TRUE) /\ newest' = a
             /\ Proceed(w, r, "replay") /\ UNCHANGED mishaps
          \/ /\ Mishap /\ Conclude(w, r, "preflight-failed")
             /\ \/ Write(a, "start", TRUE) /\ newest' = a
                \/ UNCHANGED <<rows, newest>>
    /\ UNCHANGED <<status, lapsed, structured, plan, eresult, wire, admitted, up>>

PersistReplay(w, r) ==
    /\ At(w, r, "replay")
    /\ LET a == lane[w][r].at IN
          \/ Write(a, "replay", TRUE) /\ Proceed(w, r, "prepare") /\ UNCHANGED mishaps
          \/ /\ Mishap /\ Conclude(w, r, "prepared-dispatch-persistence-failed")
             /\ (Write(a, "replay", TRUE) \/ UNCHANGED rows)
    /\ UNCHANGED <<status, lapsed, newest, structured, plan, eresult, wire, admitted, up>>

\* mutant: a prepared dispatch that could not be written is sent all the same
PersistPreparedLoose(w, r) ==
    /\ At(w, r, "prepare")
    /\ LET a == lane[w][r].at IN
          \/ Write(a, "prepared", TRUE) /\ Proceed(w, r, "send") /\ UNCHANGED mishaps
          \/ Mishap /\ UNCHANGED rows /\ Proceed(w, r, "send")
    /\ UNCHANGED <<status, lapsed, newest, structured, plan, eresult, wire, admitted, up>>

PersistPrepared(w, r) ==
    /\ At(w, r, "prepare")
    /\ LET a == lane[w][r].at IN
          \/ Write(a, "prepared", TRUE) /\ Proceed(w, r, "send") /\ UNCHANGED mishaps
          \/ /\ Mishap /\ Conclude(w, r, "prepared-dispatch-persistence-failed")
             /\ (Write(a, "prepared", TRUE) \/ UNCHANGED rows)
    /\ UNCHANGED <<status, lapsed, newest, structured, plan, eresult, wire, admitted, up>>

(* The shadow's wall budget runs out while it prepares: nothing is sent.   *)
ShadowLate(w) ==
    /\ \E pc \in {"start", "replay", "prepare", "send"} : At(w, "shadow", pc)
    /\ Mishap
    /\ Move(w, "shadow", [lane[w]["shadow"] EXCEPT
                            !.pc = "outcome", !.evidence = "preflight-failed", !.late = TRUE])
    /\ UNCHANGED <<durable, wire, admitted, up>>

-------------------------------------------------------------------------------
(* executeHomeserverTask sends the prepared request.                       *)
Send(w, r) ==
    /\ At(w, r, "send")
    /\ wire' = wire \cup {lane[w][r].at}
    /\ Move(w, r, [lane[w][r] EXCEPT !.pc = "await", !.evidence = "transport-not-admitted"])
    /\ UNCHANGED <<durable, admitted, up, mishaps>>

(* The gateway admits a request that reached it.                           *)
Admit(a) ==
    /\ a \in wire \ admitted /\ admitted' = admitted \cup {a}
    /\ UNCHANGED <<durable, wire, up, lane, mishaps>>

(* An answer that echoes the request proves the admission, whatever its    *)
(* HTTP status; the work and the model it names may be good or not.        *)
Echo(w, r) ==
    /\ At(w, r, "await") /\ lane[w][r].at \in admitted
    /\ \E ok, route \in BOOLEAN :
          Move(w, r, [lane[w][r] EXCEPT !.pc = "outcome", !.evidence = "m5-admitted",
                                        !.ok = ok, !.route = route])
    /\ UNCHANGED <<durable, wire, admitted, up, mishaps>>

(* The gateway is busy, or refuses the request: it was not admitted.       *)
Refuse(w, r) ==
    /\ At(w, r, "await") /\ lane[w][r].at \notin admitted
    /\ wire' = wire \ {lane[w][r].at} /\ Proceed(w, r, "outcome")
    /\ UNCHANGED <<durable, admitted, up, mishaps>>

(* No usable echo.  A success without one is rejected; a server error or a *)
(* failed transport leaves the admission in doubt, which the base lane     *)
(* may settle with one probe unless its deadline has passed.               *)
NoEcho(w, r) ==
    /\ At(w, r, "await") /\ Mishap
    /\ \/ Conclude(w, r, "gateway-echo-invalid")
       \/ Proceed(w, r, IF r = "base" THEN "probe" ELSE "outcome")
       \/ Move(w, r, [lane[w][r] EXCEPT !.pc = "outcome", !.late = (r = "shadow")])
    /\ UNCHANGED <<durable, wire, admitted, up>>

(* A request is sent once more, to prove the admission it already has.     *)
(* The gateway takes one it never saw for a new request, and answers it in *)
(* full, which is no proof.                                                *)
\* mutant: any answer of the gateway is taken for a proof
ResendTrusting(w, proven, unproven) ==
    LET a == lane[w]["base"].at IN
    /\ wire' = wire \cup {a}
    /\ Conclude(w, "base", proven) /\ UNCHANGED mishaps

Resend(w, proven, unproven) ==
    LET a == lane[w]["base"].at IN
    /\ wire' = wire \cup {a}
    /\ \/ a \in admitted /\ Conclude(w, "base", proven) /\ UNCHANGED mishaps
       \/ a \notin admitted /\ Conclude(w, "base", unproven) /\ UNCHANGED mishaps
       \/ a \in admitted /\ Mishap /\ Conclude(w, "base", unproven)

(* recoverAmbiguousStoredLearningTaskCandidate: an outcome somebody else   *)
(* has written meanwhile is heeded if it proves the admission.             *)
ProbeAdmission(w) ==
    /\ At(w, "base", "probe")
    /\ LET a == lane[w]["base"].at IN
       IF rows[a].outcome # "none"
       THEN /\ Conclude(w, "base", IF rows[a].outcome = "m5-admitted" THEN "m5-admitted"
                                   ELSE "transport-not-admitted")
            /\ UNCHANGED <<wire, mishaps>>
       ELSE Resend(w, "m5-admitted", "transport-not-admitted")
    /\ UNCHANGED <<durable, admitted, up>>

-------------------------------------------------------------------------------
(* An attempt whose outcome could not be written, or is another, fails     *)
(* with evidence that points at nothing.                                   *)
Rejected(w, r, next) ==
    Move(w, r, [lane[w][r] EXCEPT !.pc = IF r = "shadow" THEN "invalid" ELSE next,
                                  !.evidence = "attempt-outcome-persistence-failed", !.ok = FALSE])

(* The immutable outcome of an attempt; the same evidence is no conflict.  *)
Outcome(w, r) ==
    /\ At(w, r, "outcome")
    /\ LET l == lane[w][r]
           next == IF r = "shadow" THEN "result" ELSE IF l.experiment = "recovery" THEN "close" ELSE "status"
       IN  \/ /\ rows[l.at].outcome \in {"none", l.evidence}
              /\ Write(l.at, "outcome", l.evidence)
              /\ Move(w, r, [l EXCEPT !.pc = next, !.ref = TRUE]) /\ UNCHANGED mishaps
           \/ rows[l.at].outcome \notin {"none", l.evidence} /\ Rejected(w, r, next) /\ UNCHANGED <<rows, mishaps>>
           \/ /\ Mishap /\ Rejected(w, r, next)
              /\ \/ rows[l.at].outcome = "none" /\ Write(l.at, "outcome", l.evidence)
                 \/ UNCHANGED rows
    /\ UNCHANGED <<status, lapsed, newest, structured, plan, eresult, wire, admitted, up>>

(* finalizeTaskCompletion: the terminal status, whoever holds the task by  *)
(* now, and then the structured result, which may be lost.                 *)
\* mutant: the result names the outcome's key though it was not written
PublishKey(l) == structured' = [of |-> l.at, evidence |-> l.evidence, ref |-> l.at # NoAttempt, written |-> TRUE]

Publish(l) == structured' = [of |-> l.at, evidence |-> l.evidence, ref |-> l.ref, written |-> TRUE]

Finalize(w) ==
    /\ At(w, "base", "status")
    /\ LET l == lane[w]["base"] IN
          /\ status' = [status EXCEPT !.tag = IF l.ok THEN "completed" ELSE "failed"]
          /\ \/ /\ Publish(l) /\ UNCHANGED mishaps
                /\ IF l.experiment = "none" THEN Move(w, "base", IdleLane) ELSE Proceed(w, "base", "enqueue")
             \/ Mishap /\ UNCHANGED structured /\ Move(w, "base", IdleLane)
    /\ UNCHANGED <<lapsed, rows, newest, plan, eresult, wire, admitted, up>>

(* Only now does the experiment start: for a plan of this run, if the      *)
(* gateway named the baseline's model and the queue is free.  Otherwise it *)
(* is declared invalid.                                                    *)
\* mutant: the plan of an earlier run is run again
EnqueueAny(w) ==
    /\ At(w, "base", "enqueue") /\ lane[w]["shadow"].pc = "idle"
    /\ LET l == lane[w]["base"] IN
       lane' = [lane EXCEPT ![w] =
          [base |-> IdleLane,
           shadow |-> [IdleLane EXCEPT !.pc = "start", !.at = <<l.at[1], "shadow">>, !.good = l.ok]]]
    /\ UNCHANGED <<durable, wire, admitted, up, mishaps>>

Enqueue(w) ==
    /\ At(w, "base", "enqueue")
    /\ LET l == lane[w]["base"] IN
          \/ /\ l.experiment = "plan" /\ l.route /\ lane[w]["shadow"].pc = "idle"
             /\ lane' = [lane EXCEPT ![w] =
                   [base |-> IdleLane,
                    shadow |-> [IdleLane EXCEPT !.pc = "start", !.at = <<l.at[1], "shadow">>, !.good = l.ok]]]
             /\ UNCHANGED <<eresult, mishaps>>
          \/ Settle("INVALID") /\ Move(w, "base", IdleLane) /\ UNCHANGED mishaps
          \/ Mishap /\ Move(w, "base", IdleLane) /\ UNCHANGED eresult
    /\ UNCHANGED <<status, lapsed, rows, newest, structured, plan, wire, admitted, up>>

(* The experiment counts only with a good baseline and an admitted shadow  *)
(* that ran on the challenger's model within its budget.  An oracle that   *)
(* did not run makes it invalid too.                                       *)
\* mutant: the verdict does not ask for the shadow's evidence
VerdictsAnyway(l) == IF l.good THEN {IF l.ok THEN "PASS" ELSE "HOLD", "INVALID"} ELSE {"INVALID"}

Sound(l) == l.good /\ l.evidence = "m5-admitted" /\ l.route /\ ~l.late
Verdicts(l) ==
    IF Sound(l)
    THEN {IF l.ok THEN "PASS" ELSE "HOLD", "INVALID"} ELSE {"INVALID"}

ShadowResult(w) ==
    /\ At(w, "shadow", "result")
    /\ \/ /\ \E v \in Verdicts(lane[w]["shadow"]) : Settle(v)
          /\ Move(w, "shadow", IdleLane) /\ UNCHANGED mishaps
       \/ Mishap /\ Proceed(w, "shadow", "invalid") /\ UNCHANGED eresult
    /\ UNCHANGED <<status, lapsed, rows, newest, structured, plan, wire, admitted, up>>

(* The queue's onError.                                                    *)
ShadowInvalid(w) ==
    /\ At(w, "shadow", "invalid") /\ Move(w, "shadow", IdleLane)
    /\ \/ Settle("INVALID") /\ UNCHANGED mishaps
       \/ Mishap /\ UNCHANGED eresult
    /\ UNCHANGED <<status, lapsed, rows, newest, structured, plan, wire, admitted, up>>

(* reconcileOrganicOrphanPlans, between two polls.                         *)
\* mutant: only a completed baseline is reconciled
ReconcileCompleted(w) ==
    /\ At(w, "base", "idle") /\ At(w, "shadow", "idle")
    /\ plan # 0 /\ eresult = "none" /\ status.tag = "completed" /\ structured.written
    /\ Settle("INVALID")
    /\ UNCHANGED <<status, lapsed, rows, newest, structured, plan, wire, admitted, up, lane, mishaps>>

Reconcile(w) ==
    /\ At(w, "base", "idle") /\ At(w, "shadow", "idle")
    /\ plan # 0 /\ eresult = "none" /\ Terminal /\ structured.written
    /\ Settle("INVALID")
    /\ UNCHANGED <<status, lapsed, rows, newest, structured, plan, wire, admitted, up, lane, mishaps>>

-------------------------------------------------------------------------------
Crash(w) ==
    /\ up[w] /\ Mishap
    /\ up' = [up EXCEPT ![w] = FALSE]
    /\ lane' = [lane EXCEPT ![w] = [r \in Roles |-> IdleLane]]
    /\ UNCHANGED <<durable, wire, admitted>>

Start(w) ==
    /\ ~up[w]
    /\ up' = [up EXCEPT ![w] = TRUE] /\ Proceed(w, "base", "recover")
    /\ UNCHANGED <<durable, wire, admitted, mishaps>>

Lapse ==
    /\ status.tag = "running" /\ ~lapsed /\ Mishap /\ lapsed' = TRUE
    /\ UNCHANGED <<status, rows, newest, structured, plan, eresult, wire, admitted, up, lane>>

Expired == status.tag = "running" /\ (lapsed \/ ~up[status.by])

(* recoverStaleTasks, at startup only: a running task of this worker, or   *)
(* one whose lease has run out, is failed with the evidence of the newest  *)
(* attempt in the task's namespace.                                        *)
Recover(w) ==
    /\ At(w, "base", "recover")
    /\ LET a == newest
           With(e, ref, pc) == Move(w, "base", [IdleLane EXCEPT !.pc = pc, !.at = a, !.evidence = e, !.ref = ref,
                                                            !.experiment = "recovery", !.seen = status])
       IN  IF ~((status.tag = "running" /\ status.by = w) \/ Expired) THEN Proceed(w, "base", "idle")
           ELSE IF a = NoAttempt THEN With("none", FALSE, "close")
           ELSE IF ~rows[a].prepared THEN With("pre-dispatch-unavailable", FALSE, "close")
           ELSE IF rows[a].outcome # "none" THEN With(rows[a].outcome, TRUE, "close")
           ELSE With("none", FALSE, "resend")
    /\ UNCHANGED <<durable, wire, admitted, up, mishaps>>

RecoverResend(w) ==
    /\ At(w, "base", "resend")
    /\ Resend(w, "m5-admitted", "recovery-unavailable")
    /\ UNCHANGED <<durable, admitted, up>>

(* The status only if nobody has touched it since, then the result.        *)
RecoverClose(w) ==
    /\ At(w, "base", "close") /\ Move(w, "base", IdleLane)
    /\ LET l == lane[w]["base"] IN
          \/ status # l.seen /\ UNCHANGED <<status, structured, mishaps>>
          \/ /\ status = l.seen /\ status' = [status EXCEPT !.tag = "failed"]
             /\ \/ Publish(l) /\ UNCHANGED mishaps
                \/ Mishap /\ UNCHANGED structured
    /\ UNCHANGED <<lapsed, rows, newest, plan, eresult, wire, admitted, up>>

(* reapExpiredLeases, on a timer: the same without evidence.               *)
Reap(w) ==
    /\ up[w] /\ Expired /\ (status.by # w \/ lane[w]["base"].pc = "idle")
    /\ status' = [status EXCEPT !.tag = "failed"]
    /\ \/ structured' = [NoResult EXCEPT !.written = TRUE] /\ UNCHANGED mishaps
       \/ Mishap /\ UNCHANGED structured
    /\ UNCHANGED <<lapsed, rows, newest, plan, eresult, wire, admitted, up, lane>>

(* Somebody outside puts the task back.                                    *)
Requeue ==
    /\ Terminal /\ status.run < MaxRuns
    /\ status' = [status EXCEPT !.tag = "pending", !.by = Nobody] /\ lapsed' = FALSE
    /\ UNCHANGED <<rows, newest, structured, plan, eresult, wire, admitted, up, lane, mishaps>>

-------------------------------------------------------------------------------
Attempting(w, r) ==
    \/ PersistStart(w, r) \/ PersistReplay(w, r) \/ PersistPrepared(w, r)
    \/ Send(w, r) \/ Echo(w, r) \/ Refuse(w, r) \/ NoEcho(w, r) \/ Outcome(w, r)

Base(w) ==
    \/ Claim(w) \/ PersistPlan(w) \/ Attempting(w, "base") \/ ProbeAdmission(w)
    \/ Finalize(w) \/ Enqueue(w) \/ Recover(w) \/ RecoverResend(w) \/ RecoverClose(w)

Shadow(w) == Attempting(w, "shadow") \/ ShadowLate(w) \/ ShadowResult(w) \/ ShadowInvalid(w)

(* What a worker does by itself, its supervisor starting it again included. *)
Work(w) == Base(w) \/ Shadow(w) \/ Reconcile(w) \/ Start(w)

AttemptNext ==
    \/ \E w \in Workers : Work(w) \/ Reap(w) \/ Crash(w)
    \/ \E a \in Attempts : Admit(a)
    \/ Lapse \/ Requeue

AttemptSpec == AttemptInit /\ [][AttemptNext]_attemptVars

(* A worker does not stop while there is something it can do.  Nothing is  *)
(* asked of the gateway, of mishaps or of those who requeue.               *)
Fairness == \A w \in Workers : WF_attemptVars(Work(w))

FairAttempt == AttemptSpec /\ Fairness

-------------------------------------------------------------------------------
AttemptTypeOK ==
    /\ status \in [tag : {"pending", "running", "failed", "completed"}, by : Workers \cup {Nobody}, run : 0 .. MaxRuns]
    /\ rows \in [Attempts -> [start : BOOLEAN, replay : BOOLEAN, prepared : BOOLEAN,
                              outcome : Evidence \cup {"none"}]]
    /\ newest \in Attempts \cup {NoAttempt} /\ plan \in 0 .. MaxRuns
    /\ structured.evidence \in Evidence \cup {"none"}
    /\ eresult \in {"none", "PASS", "HOLD", "INVALID"}
    /\ wire \subseteq Attempts /\ admitted \subseteq Attempts
    /\ lapsed \in BOOLEAN /\ up \in [Workers -> BOOLEAN] /\ mishaps \in 0 .. MaxMishaps

(* Whatever the gateway admits, now or later, has its start, its replay    *)
(* payload and its prepared dispatch in Munin, so that a worker that       *)
(* comes after can prove the admission from them.                          *)
AdmittedDurable ==
    \A a \in wire \cup admitted : rows[a].start /\ rows[a].replay /\ rows[a].prepared

(* Accepted evidence, in the outcome of an attempt or in the task's        *)
(* result, is about an attempt the gateway has admitted, however it was    *)
(* obtained: by the answer, by the probe, or by recovery after a crash.    *)
Grounded ==
    /\ \A a \in Attempts : rows[a].outcome = "m5-admitted" => a \in admitted
    /\ structured.evidence = "m5-admitted" => structured.of \in admitted

(* A result that points at the outcome of its attempt says what that       *)
(* outcome says, though two workers may conclude the same attempt.         *)
RefSound ==
    structured.ref => rows[structured.of].outcome = structured.evidence

(* The evidence of an attempt can be had, is true, and its two copies      *)
(* agree.                                                                  *)
EvidenceSound == AttemptTypeOK /\ AdmittedDurable /\ Grounded /\ RefSound

(* The paid shadow of a task is sent at most once, across crashes,         *)
(* repeated writes and further runs of the task, and never for a run whose *)
(* baseline is not concluded.                                              *)
ShadowOnce ==
    LET sent == {a \in wire \cup admitted : a[2] = "shadow"} IN
    /\ Cardinality(sent) <= 1
    /\ \A a \in sent : structured.written /\ plan = a[1]

(* A verdict on the challenger rests on a shadow the gateway admitted and  *)
(* whose outcome is durable; a crash, a lost write or another worker's     *)
(* reconciliation can only make the experiment invalid.                    *)
ValidExperiment ==
    eresult \in {"PASS", "HOLD"} =>
        plan # 0 /\ rows[<<plan, "shadow">>].outcome = "m5-admitted"

(* The shadow experiment of a task is paid for once and counts only when   *)
(* it is proved.                                                           *)
ShadowSound == ShadowOnce /\ ValidExperiment

(* A planned experiment whose baseline has a result gets one of its own,   *)
(* whatever became of the worker that planned it.                          *)
ExperimentSettles ==
    (plan # 0 /\ structured.written) ~> (eresult # "none")

(* Evidence is had and true, and the experiment it serves is paid for once *)
(* and counts only when proved.                                            *)
AttemptSound == EvidenceSound /\ ShadowSound
===============================================================================
