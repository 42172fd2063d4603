---------------------------- MODULE WorkerOutcomes ----------------------------
(***************************************************************************)
(* How a supervised worker may end: the supervisor's reason, and for a     *)
(* worker that exited on its own with code 0 what its output was worth to  *)
(* #finalize.                                                              *)
(***************************************************************************)

(* A worker that exited on its own with code 0: what its output was worth.  *)
CleanExits == {"malformed", "missing", "duplicate", "foreign",
               "claims_failure", "claims_success"}
(* The supervisor's own reasons to stop a worker. *)
Forced == {"timed_out", "output_limit", "output_error"}
Outcomes == CleanExits \cup Forced \cup {"nonzero", "cancelled"}

=============================================================================
