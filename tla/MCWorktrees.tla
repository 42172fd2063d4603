------------------------------ MODULE MCWorktrees -----------------------------
(***************************************************************************)
(* Small instances of Worktrees for TLC: paths that have nothing to do     *)
(* with each other, and the same with one path inside another.             *)
(***************************************************************************)
EXTENDS Worktrees, TLC

CONSTANTS a, b  \* two paths

Apart == {}
Nested == {<<b, a>>}

Symmetry == Permutations(Runs)

=============================================================================
