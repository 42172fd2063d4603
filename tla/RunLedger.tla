------------------------------- MODULE RunLedger -------------------------------
(***************************************************************************)
(* What agentd promises about a run, with nothing of how it keeps it: the  *)
(* contract callers of the RPC surface may rely on across any number of    *)
(* crashes and restarts, provided they start only runs whose createTask    *)
(* has ended (Announced, in Orchestrator).                                 *)
(*                                                                         *)
(*   - a task becomes a run before anything happens to it;                 *)
(*   - at most one worker is ever launched for a run, and only while the   *)
(*     run is active;                                                      *)
(*   - a run whose outcome is unknown is lost, and is never concluded by   *)
(*     the daemon;                                                         *)
(*   - success and cancellation are only concluded for a run that had a    *)
(*     worker;                                                             *)
(*   - an accepted run is concluded after its answer was written down, and *)
(*     as the answer says, unless the answer could not be written;         *)
(*   - a conclusion and an answer, once there, never change.               *)
(***************************************************************************)
CONSTANTS Runs,
          Durable  \* writing an answer never fails

VARIABLES phase,     \* how far the run got
          launched,  \* a worker was launched for it
          answer     \* its terminal result

ledger == <<phase, launched, answer>>

Concluded == {"succeeded", "failed", "cancelled"}
Phases == {"unknown", "accepted", "active", "lost"} \cup Concluded
Answers == {"none", "succeeded", "failed", "blocked", "cancelled", "timed_out"}

Init ==
  /\ phase = [r \in Runs |-> "unknown"]
  /\ launched = [r \in Runs |-> FALSE]
  /\ answer = [r \in Runs |-> "none"]

Move(r, from, to) == phase[r] = from /\ phase' = [phase EXCEPT ![r] = to]

Accept(r) == Move(r, "unknown", "accepted") /\ UNCHANGED <<launched, answer>>

(* A denial: the conclusion comes first and the answer after it. *)
Refuse(r) == Move(r, "accepted", "failed") /\ UNCHANGED <<launched, answer>>
Explain(r) ==
  /\ phase[r] = "failed" /\ ~launched[r] /\ answer[r] = "none"
  /\ answer' = [answer EXCEPT ![r] = "blocked"]
  /\ UNCHANGED <<phase, launched>>

Activate(r) == Move(r, "accepted", "active") /\ UNCHANGED <<launched, answer>>

Launch(r) ==
  /\ phase[r] = "active" /\ ~launched[r]
  /\ launched' = [launched EXCEPT ![r] = TRUE]
  /\ UNCHANGED <<phase, answer>>

Answer(r) ==
  /\ phase[r] = "active" /\ answer[r] = "none"
  /\ \E a \in Answers \ {"none", "blocked"} :
       /\ a \in {"succeeded", "cancelled", "timed_out"} => launched[r]
       /\ answer' = [answer EXCEPT ![r] = a]
  /\ UNCHANGED <<phase, launched>>

ConclusionOf(a) == IF a = "timed_out" THEN "failed" ELSE a

Conclude(r) ==
  /\ \E o \in Concluded :
       /\ Move(r, "active", o)
       /\ o \in {"succeeded", "cancelled"} => launched[r]
       /\ ConclusionOf(answer[r]) = o \/ (~Durable /\ answer[r] = "none")
  /\ UNCHANGED <<launched, answer>>

Lose(r) == Move(r, "active", "lost") /\ UNCHANGED <<launched, answer>>

Next ==
  \E r \in Runs :
    \/ Accept(r) \/ Refuse(r) \/ Explain(r) \/ Activate(r)
    \/ Launch(r) \/ Answer(r) \/ Conclude(r) \/ Lose(r)

Spec == Init /\ [][Next]_ledger

=============================================================================
