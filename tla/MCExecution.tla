----------------------------- MODULE MCExecution -----------------------------
(* What the execution of a task does: the processes of its agent, the       *)
(* workers of the orchestrator, and the checkout that agents share.  A      *)
(* behaviour is one of one of the three, chosen at the start; the others    *)
(* rest.                                                                    *)
EXTENDS ManagedCheckout, AgentRun, Orchestrator, TLC

VARIABLE part
mcvars == <<part, vars, agentVars, orchVars>>

(* A checkout with nothing to do, a run that is over, and a task that was    *)
(* refused: what each part is while another one runs.                        *)
CheckoutRests ==
    /\ mutators = {} /\ produced = [t \in Tasks |-> {}]
    /\ status = [t \in Tasks |-> "completed"] /\ pub = [t \in Tasks |-> "none"]
    /\ outcome = [t \in Tasks |-> "none"] /\ record = [t \in Tasks |-> None]
    /\ branches = [n \in Names |-> None] /\ head = Base
    /\ remote = [t \in Tasks |-> None] /\ prs = {} /\ tree = {} /\ uncommitted = {}
    /\ worker = Idle /\ operator = [o \in Operators |-> Resting]
    /\ faults = 0 /\ resumes = 0
AgentRests ==
    /\ stop = "no" /\ cancel = "no"
    /\ group = [at |-> "none", leader |-> "none", temper |-> "mild"]
    /\ own = [spawn |-> "none", cleanup |-> "no", stage |-> "no"]
    /\ run = [runtime |-> "codex", at |-> "settled", ctl |-> "none", late |-> FALSE,
              said |-> "none", code |-> "failed"]
OrchestratorRests ==
    /\ cfg = [provider |-> "cloud", verify |-> "never"] /\ signal = FALSE
    /\ exec = [at |-> "done", code |-> "refused"] /\ engine = [at |-> "idle", out |-> FALSE]
    /\ plan = 0 /\ trusted = {} /\ used = {} /\ tainted = FALSE
    /\ workers = [i \in Subtasks |->
                    [at |-> "queued", tries |-> 0, killed |-> FALSE, good |-> FALSE,
                     node |-> "m5"]]
    /\ piGroup = [i \in Subtasks |-> "none"] /\ verdict = [i \in Subtasks |-> "none"]

MCInit ==
    /\ part \in {"checkout", "agent", "orchestrator"}
    /\ IF part = "checkout" THEN Init ELSE CheckoutRests
    /\ IF part = "agent" THEN AgentInit ELSE AgentRests
    /\ IF part = "orchestrator" THEN OrchInit ELSE OrchestratorRests

MCNext ==
    \/ part = "checkout" /\ Next /\ UNCHANGED <<part, agentVars, orchVars>>
    \/ part = "agent" /\ AgentNext /\ UNCHANGED <<part, vars, orchVars>>
    \/ part = "orchestrator" /\ OrchNext /\ UNCHANGED <<part, vars, agentVars>>

(* The fairness of ManagedCheckout, AgentRun and Orchestrator.               *)
MCSpec ==
    /\ MCInit /\ [][MCNext]_mcvars
    /\ WF_vars(part = "checkout" /\ Work)
    /\ \A o \in Operators :
          /\ WF_vars(part = "checkout" /\ Recovery(o))
          /\ \A t \in Tasks : SF_vars(part = "checkout" /\ Start(o, t))
    /\ WF_agentVars(part = "agent" /\ Timers)
    /\ WF_agentVars(part = "agent" /\ Events)
    /\ WF_agentVars(part = "agent" /\ AgentGoesOn)
    /\ WF_orchVars(part = "orchestrator" /\ OrchGoesOn)
    /\ \A i \in Subtasks : WF_orchVars(part = "orchestrator" /\ WorkerSteps(i))
=============================================================================
