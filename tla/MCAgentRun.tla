----------------------------- MODULE MCAgentRun -----------------------------
(* The agent run on a small instance: two runs at a time. *)
EXTENDS AgentRun, TLC

\* Runs are told apart by nothing but their names.
Symmetry == Permutations(Runs)
=============================================================================
