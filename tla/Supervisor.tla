------------------------------ MODULE Supervisor ------------------------------
(***************************************************************************)
(* packages/process-supervisor/src/supervisor.ts: one worker's process     *)
(* group, the two pipes it writes to, the bounded sinks that persist them, *)
(* and the timers and signals that end it.                                 *)
(*                                                                         *)
(* The group is its leader (the child) and possibly a helper the leader    *)
(* left behind with the pipes open.  Each may end at any moment, or ignore *)
(* SIGTERM; SIGKILL to the group spares nobody.  Text is a sequence of     *)
(* units (NdjsonStream), and one write of the worker is one chunk at most: *)
(* the daemon reads whatever the pipe holds.                               *)
(***************************************************************************)
EXTENDS Integers, SequencesExt, WorkerOutcomes

CONSTANTS Budgets,   \* the [stdout |-> units, stderr |-> units] a worker may be given
          MaxWrites, \* bound on the worker's writes
          Faults     \* "disk": a write of the daemon may fail

Streams == {"stdout", "stderr"}

ASSUME BudgetAssumption == Budgets \subseteq [Streams -> Nat]
ASSUME WritesAssumption == MaxWrites \in Nat

VARIABLES
  budget,   \* maxOutputBytes and maxStderrBytes
  leader,   \* the child: running, or its exit code
  helper,   \* another member of the group: holding the pipes, or none
  said,     \* everything the group ever wrote, per stream
  writes,   \* how often it wrote
  pipe,     \* written and not yet read by the daemon
  queue,    \* chunks in the sink; the first one is being written
  file,     \* what is on disk
  limited,  \* limitReported, per sink
  broken,   \* a write failed and the sink is gone
  reason,   \* the first cause, "exited" while there is none
  hard,     \* the hard timer is armed
  grace,    \* a SIGKILL timer is armed
  settled   \* the child's close event has been handled

group == <<leader, helper, said, writes>>
sinks == <<pipe, queue, file, limited, broken>>
control == <<reason, hard, grace, settled>>
supervisor == <<group, sinks, control, budget>>

Reasons == Forced \cup {"exited", "cancelled"}
OnEach(x) == [s \in Streams |-> x]

SupervisorTypeOK ==
  /\ budget \in Budgets
  /\ leader \in {"running", "zero", "nonzero"}
  /\ helper \in {"holding", "none"}
  /\ writes \in Nat
  /\ limited \in [Streams -> BOOLEAN]
  /\ broken \in [Streams -> BOOLEAN]
  /\ reason \in Reasons
  /\ hard \in BOOLEAN
  /\ grace \in BOOLEAN
  /\ settled \in BOOLEAN

SupervisorInit ==
  /\ budget \in Budgets
  /\ leader = "running" /\ helper \in {"holding", "none"}
  /\ said = OnEach(<<>>) /\ writes = 0
  /\ pipe = OnEach(<<>>) /\ queue = OnEach(<<>>) /\ file = OnEach(<<>>)
  /\ limited = OnEach(FALSE) /\ broken = OnEach(FALSE)
  /\ reason = "exited"
  /\ hard = TRUE /\ grace = FALSE /\ settled = FALSE

-----------------------------------------------------------------------------
(* The worker. *)

PipesOpen == leader = "running" \/ helper = "holding"

Say(s, text) ==
  /\ PipesOpen /\ ~settled
  /\ writes < MaxWrites
  /\ writes' = writes + 1
  /\ said' = [said EXCEPT ![s] = @ \o text]
  /\ pipe' = [pipe EXCEPT ![s] = @ \o text]
  /\ UNCHANGED <<budget, leader, helper, queue, file, limited, broken, control>>

LeaderExits ==
  /\ leader = "running"
  /\ leader' \in {"zero", "nonzero"}
  /\ UNCHANGED <<budget, helper, said, writes, sinks, control>>

HelperEnds ==
  /\ helper = "holding"
  /\ helper' = "none"
  /\ UNCHANGED <<budget, leader, said, writes, sinks, control>>

-----------------------------------------------------------------------------
(* terminate: the first cause stands, SIGTERM goes out (who obeys it exits  *)
(* by LeaderExits or HelperEnds), and another SIGKILL timer is armed.       *)

TerminateRelabels(why) ==
  IF settled THEN UNCHANGED <<reason, grace>> ELSE reason' = why /\ grace' = TRUE

TerminateLate(why) ==
  /\ reason' = IF reason = "exited" THEN why ELSE reason
  /\ grace' = TRUE

Terminate(why) ==
  IF settled THEN UNCHANGED <<reason, grace>>
  ELSE /\ reason' = IF reason = "exited" THEN why ELSE reason
       /\ grace' = TRUE

HardTimeout ==
  /\ hard /\ ~settled
  /\ hard' = FALSE
  /\ Terminate("timed_out")
  /\ UNCHANGED <<budget, group, sinks, settled>>

Cancel ==
  /\ Terminate("cancelled")
  /\ UNCHANGED <<budget, group, sinks, hard, settled>>

EscalateLeaderOnly ==
  /\ grace /\ ~settled
  /\ grace' = FALSE
  /\ leader' = IF leader = "running" THEN "nonzero" ELSE leader
  /\ UNCHANGED <<budget, helper, said, writes, sinks, reason, hard, settled>>

(* SIGKILL to the whole group. *)
Escalate ==
  /\ grace /\ ~settled
  /\ grace' = FALSE
  /\ leader' = IF leader = "running" THEN "nonzero" ELSE leader
  /\ helper' = "none"
  /\ UNCHANGED <<budget, said, writes, sinks, reason, hard, settled>>

-----------------------------------------------------------------------------
(* The sinks.  A Writable takes one chunk at a time: it is measured against *)
(* the budget when its turn comes, which is at once if the sink is idle.    *)

onOutputLimit == IF reason = "exited" THEN Terminate("output_limit")
                                      ELSE UNCHANGED <<reason, grace>>
onOutputErrorLogged == UNCHANGED <<reason, grace>>

onOutputError == IF reason = "exited" THEN Terminate("output_error")
                                      ELSE UNCHANGED <<reason, grace>>

Room(s) == Max({0, budget[s] - Len(file'[s])})

BeginWrite(s, chunk) ==
  IF Len(chunk) > Room(s) /\ ~limited[s]
    THEN limited' = [limited EXCEPT ![s] = TRUE] /\ onOutputLimit
    ELSE UNCHANGED <<limited, reason, grace>>

(* A data event: everything the pipe holds is one chunk. *)
Pump(s) ==
  /\ pipe[s] # <<>> /\ ~broken[s]
  /\ pipe' = [pipe EXCEPT ![s] = <<>>]
  /\ queue' = [queue EXCEPT ![s] = Append(@, pipe[s])]
  /\ UNCHANGED file
  /\ IF queue[s] = <<>> THEN BeginWrite(s, pipe[s]) ELSE UNCHANGED <<limited, reason, grace>>
  /\ UNCHANGED <<budget, group, broken, hard, settled>>

(* Once the leader is gone Node resumes a pipe nobody reads, to drop it.    *)
Discard(s) ==
  /\ pipe[s] # <<>> /\ broken[s] /\ leader # "running"
  /\ pipe' = [pipe EXCEPT ![s] = <<>>]
  /\ UNCHANGED <<budget, group, queue, file, limited, broken, control>>

AcceptedWhole(s) ==
  IF Len(file[s]) < budget[s] THEN Head(queue[s]) ELSE <<>>

Accepted(s) ==
  LET chunk == Head(queue[s])
  IN SubSeq(chunk, 1, Min({Len(chunk), Max({0, budget[s] - Len(file[s])})}))

EndWrite(s) ==
  /\ queue[s] # <<>>
  /\ file' = [file EXCEPT ![s] = @ \o Accepted(s)]
  /\ queue' = [queue EXCEPT ![s] = Tail(@)]
  /\ IF Tail(queue[s]) = <<>> THEN UNCHANGED <<limited, reason, grace>>
                              ELSE BeginWrite(s, queue[s][2])
  /\ UNCHANGED <<budget, group, pipe, broken, hard, settled>>

(* Part of the chunk may have reached the disk, and the rest of the queue   *)
(* goes with the sink.                                                      *)
WriteFails(s) ==
  /\ "disk" \in Faults
  /\ queue[s] # <<>> /\ Accepted(s) # <<>>
  /\ \E n \in 0 .. Len(Accepted(s)) - 1 :
       file' = [file EXCEPT ![s] = @ \o SubSeq(Accepted(s), 1, n)]
  /\ queue' = [queue EXCEPT ![s] = <<>>]
  /\ broken' = [broken EXCEPT ![s] = TRUE]
  /\ onOutputError
  /\ UNCHANGED <<budget, group, pipe, limited, hard, settled>>

-----------------------------------------------------------------------------
(* The child's close event: it has exited and both pipes are at their end.  *)
Close ==
  /\ ~settled
  /\ ~PipesOpen
  /\ \A s \in Streams : pipe[s] = <<>>
  /\ settled' = TRUE
  /\ hard' = FALSE /\ grace' = FALSE
  /\ UNCHANGED <<budget, group, sinks, reason>>

FlushedStdout == settled /\ queue["stdout"] = <<>>

(* What completed waits for before it resolves. *)
Flushed == settled /\ \A s \in Streams : queue[s] = <<>>

=============================================================================
