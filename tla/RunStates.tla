------------------------------ MODULE RunStates ------------------------------
(***************************************************************************)
(* The run lifecycle vocabulary and its transition table, as plain         *)
(* constant operators: packages/protocol/src/run-state.ts says what the    *)
(* states are, packages/core/src/state-machine.ts how a run moves between  *)
(* them.                                                                   *)
(***************************************************************************)

RUN_STATES ==
  {"QUEUED", "PREPARING", "RUNNING", "BLOCKED", "VALIDATING",
   "SUCCEEDED", "CANCELLED", "FAILED", "ORPHANED"}

TERMINAL_RUN_STATES == {"CANCELLED", "FAILED", "SUCCEEDED"}

TRANSITIONS ==
  [s \in RUN_STATES |->
     CASE s = "QUEUED"     -> {"PREPARING", "CANCELLED", "FAILED"}
       [] s = "PREPARING"  -> {"RUNNING", "BLOCKED", "CANCELLED", "FAILED", "ORPHANED"}
       [] s = "RUNNING"    -> {"VALIDATING", "BLOCKED", "CANCELLED", "FAILED", "ORPHANED"}
       [] s = "BLOCKED"    -> {"RUNNING", "CANCELLED", "FAILED", "ORPHANED"}
       [] s = "VALIDATING" -> {"SUCCEEDED", "FAILED", "ORPHANED"}
       [] s = "ORPHANED"   -> {"SUCCEEDED", "FAILED", "CANCELLED"}
       [] OTHER            -> {}]

INITIAL_RUN_STATE == "QUEUED"

(* A start is not refused for a run whose outcome has already been decided. *)
CanTransitionFromTerminal(from, to) ==
  from \in RUN_STATES /\ to \in TRANSITIONS[from] \cup
    (IF from \in TERMINAL_RUN_STATES THEN {"PREPARING"} ELSE {})

(* `from` may also be one of the store's "no state.json" values: a failed   *)
(* read refuses the transition just as the table does.                      *)
CanTransition(from, to) == from \in RUN_STATES /\ to \in TRANSITIONS[from]

(* Recovery that knows of workers but not of validation. *)
NeedsRecoveryOfWorkers(s) == s \in {"PREPARING", "RUNNING", "BLOCKED"}

(* Where recovery moves a run whose outcome it cannot determine; the states *)
(* it leaves alone are those outside the domain.                            *)
NeedsRecovery(s) == s \in RUN_STATES \ (TERMINAL_RUN_STATES \cup {"QUEUED", "ORPHANED"})

holdsResources(s) == s \in {"PREPARING", "RUNNING", "VALIDATING", "BLOCKED"}

=============================================================================
