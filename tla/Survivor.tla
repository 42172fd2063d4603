------------------------------- MODULE Survivor -------------------------------
(***************************************************************************)
(* A worker whose daemon died, as the next daemon finds it:                *)
(* packages/process-supervisor/src/pid-liveness.ts and the stopping of     *)
(* survivors in apps/agentd/src/recovery.ts.                               *)
(*                                                                         *)
(* The pid of a group that has gone may be given to a stranger.  What the  *)
(* daemon knows is the pid and the worker's start time, so a stranger is   *)
(* "near" when it started within the tolerance of that time, "far" when    *)
(* not, and "late" when it took the pid after the daemon had looked.       *)
(***************************************************************************)
EXTENDS Supervisor

VARIABLES
  rec,       \* recovery: not begun, SIGTERM sent and polling, or done
  stranger,  \* who holds the recorded pid now that its group has gone
  signalled  \* recovery sent that stranger a signal

survivor == <<rec, stranger, signalled>>

SurvivorTypeOK ==
  /\ rec \in {"none", "polling", "done"}
  /\ stranger \in {"none", "near", "far", "late"}
  /\ signalled \in BOOLEAN

SurvivorInit == rec = "none" /\ stranger = "none" /\ signalled = FALSE

(* A pid is not reused while its process group has a member.                *)
Recycle ==
  /\ ~PipesOpen
  /\ stranger = "none"
  /\ stranger' \in IF rec = "none" THEN {"near", "far"} ELSE {"late"}
  /\ UNCHANGED <<supervisor, rec, signalled>>

pidExists == leader = "running" \/ stranger # "none"

verifyByExistence == IF pidExists THEN {"alive"} ELSE {"dead"}

(* ps may have no answer ("ps"), or, with a clock or a time zone that has   *)
(* moved since the worker was recorded, an answer that does not match       *)
(* ("clock").                                                               *)
verifyWorkerAlive ==
  IF ~pidExists THEN {"dead"}
  ELSE {IF stranger \in {"far", "late"} THEN "dead" ELSE "alive"}
       \cup (IF "ps" \in Faults THEN {"unknown"} ELSE {})
       \cup (IF "clock" \in Faults THEN {"dead"} ELSE {})

(* Only a process that was verified is signalled. *)
Probe ==
  /\ rec = "none"
  /\ \E liveness \in verifyWorkerAlive :
       IF liveness = "alive"
         THEN rec' = "polling" /\ signalled' = (stranger # "none")
         ELSE rec' = "done" /\ UNCHANGED signalled
  /\ UNCHANGED <<supervisor, stranger>>

(* The poll asks whether the pid exists, not whose it is.                   *)
PollSeesItGone ==
  /\ rec = "polling" /\ ~pidExists
  /\ rec' = "done"
  /\ UNCHANGED <<supervisor, stranger, signalled>>

KillSurvivor ==
  /\ rec = "polling" /\ pidExists
  /\ rec' = "done"
  /\ signalled' = (signalled \/ stranger # "none")
  /\ leader' = IF leader = "running" THEN "nonzero" ELSE leader
  /\ helper' = "none"
  /\ UNCHANGED <<budget, said, writes, sinks, control, stranger>>

StopSurvivor == Probe \/ PollSeesItGone \/ KillSurvivor

=============================================================================
