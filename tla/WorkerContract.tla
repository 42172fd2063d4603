---------------------------- MODULE WorkerContract ----------------------------
(***************************************************************************)
(* What a launched worker promises the orchestrator, whatever the process, *)
(* its pipes, its timers and its output do: one outcome, never revised,    *)
(* which is a cancellation only if somebody asked for one in time, and     *)
(* then a natural end no more.  Orchestrator takes this as WorkerEnds.     *)
(***************************************************************************)
EXTENDS WorkerOutcomes

VARIABLES outcome,  \* "alive" until it is known; "unread" if nobody is left to learn it
          asked     \* somebody asked for a cancellation in time

Init == outcome = "alive" /\ asked = FALSE

Ask == outcome = "alive" /\ asked' = TRUE /\ UNCHANGED outcome

End ==
  /\ outcome = "alive"
  /\ outcome' \in IF asked THEN Forced \cup {"cancelled"} ELSE Outcomes \ {"cancelled"}
  /\ UNCHANGED asked

(* The daemon dies, or the handle's completed promise rejects. *)
Vanish == outcome = "alive" /\ outcome' = "unread" /\ UNCHANGED asked

Next == Ask \/ End \/ Vanish

Spec == Init /\ [][Next]_<<outcome, asked>>

=============================================================================
