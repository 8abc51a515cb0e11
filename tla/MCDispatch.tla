---------------------------- MODULE MCDispatch ----------------------------
EXTENDS Dispatch, TLC

Plain == [runtime |-> "auto", declared |-> Undeclared, prompt |-> "plain", owner |-> FALSE,
          tools |-> FALSE, fallback |-> FALSE, phase |-> FALSE, gated |-> FALSE,
          signed |-> TRUE, valid |-> TRUE]

\* Task 2, created later, comes before task 1 in their group; its drafts differ in what they ask for
\* and show, with a gated phase among them.
MCGroup == [t \in {1, 2} |-> 1]
MCSequence == [t \in {1, 2} |-> 3 - t]
MCDrafts ==
  1 :> {[Plain EXCEPT !.runtime = "ollama", !.fallback = TRUE],
        [Plain EXCEPT !.prompt = "soft", !.declared = Internal, !.owner = TRUE],
        [Plain EXCEPT !.prompt = "soft", !.declared = Internal, !.owner = TRUE,
                      !.phase = TRUE, !.signed = FALSE, !.gated = TRUE, !.runtime = "claude"],
        [Plain EXCEPT !.prompt = "soft", !.phase = TRUE, !.signed = FALSE,
                      !.runtime = "claude"]}
  @@ 2 :> {[Plain EXCEPT !.tools = TRUE],
           [Plain EXCEPT !.prompt = "hard", !.runtime = "orchestrator"]}
=============================================================================
