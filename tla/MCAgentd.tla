------------------------------- MODULE MCAgentd -------------------------------
(***************************************************************************)
(* Small instances of Agentd for TLC.                                      *)
(***************************************************************************)
EXTENDS Agentd, TLC

(* startRun calls, process ids and run ids are interchangeable: nothing     *)
(* orders or names one.                                                     *)
Symmetry == Permutations(Calls) \cup Permutations(Pids) \cup Permutations(Runs)

=============================================================================
