----------------------------- MODULE Orchestrator -----------------------------
(***************************************************************************)
(* apps/agentd/src/orchestrator.ts: createTask, startRun and the           *)
(* finalisation that follows it, cancelRun, and the maps they share.       *)
(*                                                                         *)
(* JavaScript runs one handler at a time up to its next await, so an       *)
(* action is the code between two awaits that matter: one durable write,   *)
(* one process event, or one look at a shared map.  pc[c] says where the   *)
(* startRun call c is; the same c carries on as that run's finalisation.   *)
(* A call is used once per life of the daemon (the bound on startRun       *)
(* calls).                                                                 *)
(***************************************************************************)
EXTENDS RunStore, WorkerOutcomes

CONSTANTS Calls,    \* startRun calls in one life of the daemon
          NoCall, NoRun,
          Endings   \* how a worker nobody cancelled may end

ASSUME NoneAssumption == NoCall \notin Calls /\ NoRun \notin Runs

VARIABLES
  daemon,      \* what the agentd process is doing
  cpc,         \* where createTask for this run is
  verdict,     \* what #admit decided for this run's task
  pc, run, hnd,\* per startRun call: step, run id, worker handle
  running,     \* #running
  finalizing,  \* #finalizing
  proc,        \* worker processes: unused, alive, or how they ended
  procRun,     \* the run a process was spawned for
  asked,       \* handle.cancel() was called before the process settled
  canceller,   \* the finalisation an in-flight cancelRun captured
  reply        \* the state the last successful cancelRun reported

calls == <<pc, run, hnd>>
maps == <<running, finalizing>>
procs == <<proc, procRun, asked>>
cancels == <<canceller, reply>>
creates == <<cpc, verdict>>
orchestrator == <<calls, maps, procs, cancels, creates>>

ASSUME EndingsAssumption == Endings \subseteq Outcomes \ {"cancelled"}

(* Calls that hold the run lock, before and after the worker is registered. *)
Launching == {"check", "prepare", "provision", "spawn", "persist", "launch",
              "abandon", "fail", "fail_state", "unlock_start"}
Finishing == {"supervise", "ingest", "mark", "conclude", "validate",
              "result", "terminal", "forget", "unlock"}
Starting == Launching \cup {"lock"}
CallSteps == Starting \cup Finishing \cup {"idle", "done"}
CreateSteps == {"idle", "files", "audit", "mark", "deny", "deny_write", "deny_result"}

(* Nothing in the daemon keeps a caller from starting a run it saw listed    *)
(* (`agentd runs`) while createTask is still at work on it: "early" says     *)
(* that some caller does.  Without it, callers start the runs whose ids      *)
(* createTask has answered, or whose createTask is dead or has failed.       *)
Announced == "early" \notin Faults

Accepting == daemon \in {"open", "closing", "draining"}
HoldsLock(c) == pc[c] \in Launching \cup Finishing
Supervised(p) == \E c \in Calls : HoldsLock(c) /\ hnd[c] = p

OrchestratorTypeOK ==
  /\ cpc \in [Runs -> CreateSteps]
  /\ verdict \in [Runs -> {"none", "allow", "deny"}]
  /\ pc \in [Calls -> CallSteps]
  /\ run \in [Calls -> Runs \cup {NoRun}]
  /\ hnd \in [Calls -> Pids \cup {NoPid}]
  /\ running \in [Runs -> Calls \cup {NoCall}]
  /\ finalizing \in [Runs -> Calls \cup {NoCall}]
  /\ proc \in [Pids -> Outcomes \cup {"unused", "alive", "gone"}]
  /\ procRun \in [Pids -> Runs \cup {NoRun}]
  /\ asked \in [Pids -> BOOLEAN]
  /\ canceller \in [Runs -> Calls \cup {NoCall}]
  /\ reply \in [Runs -> StateFile]

OrchestratorInit ==
  /\ cpc = [r \in Runs |-> "idle"]
  /\ verdict = [r \in Runs |-> "none"]
  /\ pc = [c \in Calls |-> "idle"]
  /\ run = [c \in Calls |-> NoRun]
  /\ hnd = [c \in Calls |-> NoPid]
  /\ running = [r \in Runs |-> NoCall]
  /\ finalizing = [r \in Runs |-> NoCall]
  /\ proc = [p \in Pids |-> "unused"]
  /\ procRun = [p \in Pids |-> NoRun]
  /\ asked = [p \in Pids |-> FALSE]
  /\ canceller = [r \in Runs |-> NoCall]
  /\ reply = [r \in Runs |-> "none"]

-----------------------------------------------------------------------------
(***************************************************************************)
(* createTask: decide, persist, audit, and settle a denial.  It takes no   *)
(* run lock, and the denial's transitionState reads state.json before it   *)
(* replaces it: a start may come in between.                               *)
(***************************************************************************)

CreateStep(r, from, to) == cpc[r] = from /\ cpc' = [cpc EXCEPT ![r] = to]

BeginCreate(r) ==
  /\ Accepting
  /\ state[r] = "none"
  /\ CreateStep(r, "idle", "files")
  /\ state' = [state EXCEPT ![r] = "incomplete"]
  /\ \E v \in {"allow", "deny"} : verdict' = [verdict EXCEPT ![r] = v]
  /\ UNCHANGED <<result, log, lastSeq, pidOf, lock, daemon, calls, maps, procs, cancels>>

(* task.json, metadata.json, then state.json last *)
WriteQueued(r) ==
  /\ \/ /\ CreateStep(r, "files", "audit")
        /\ state' = [state EXCEPT ![r] = INITIAL_RUN_STATE]
     \/ /\ "state" \in Faults
        /\ CreateStep(r, "files", "idle")
        /\ state' \in {state, [state EXCEPT ![r] = INITIAL_RUN_STATE]}
  /\ UNCHANGED <<result, log, lastSeq, pidOf, lock, daemon, verdict, calls, maps,
                 procs, cancels>>

WriteAudit(r) ==
  /\ \/ CreateStep(r, "audit", "mark") /\ AppendEvent(r, 0, verdict[r])
     \/ CreateStep(r, "audit", "idle") /\ AppendFails(r, 0, verdict[r])
  /\ UNCHANGED <<state, result, lastSeq, pidOf, lock, daemon, verdict, calls, maps,
                 procs, cancels>>

MarkAudit(r) ==
  /\ \/ /\ CreateStep(r, "mark", IF verdict[r] = "deny" THEN "deny" ELSE "idle")
        /\ RecordSequence(r, 0)
     \/ CreateStep(r, "mark", "idle") /\ RecordSequenceFails(r, 0)
  /\ UNCHANGED <<state, result, log, pidOf, lock, daemon, verdict, calls, maps,
                 procs, cancels>>

CheckDenial(r) ==
  /\ CreateStep(r, "deny", IF CanTransition(state[r], "FAILED") THEN "deny_write" ELSE "idle")
  /\ UNCHANGED <<store, daemon, verdict, calls, maps, procs, cancels>>

Deny(r) ==
  /\ \/ CreateStep(r, "deny_write", "deny_result") /\ state' = [state EXCEPT ![r] = "FAILED"]
     \/ /\ "state" \in Faults
        /\ CreateStep(r, "deny_write", "idle")
        /\ state' \in {state, [state EXCEPT ![r] = "FAILED"]}
  /\ UNCHANGED <<result, log, lastSeq, pidOf, lock, daemon, verdict, calls, maps,
                 procs, cancels>>

WriteDenial(r) ==
  /\ CreateStep(r, "deny_result", "idle")
  /\ WriteResult(r, "blocked")
  /\ UNCHANGED <<state, log, lastSeq, pidOf, lock, daemon, verdict, calls, maps,
                 procs, cancels>>

createTask(r) ==
  BeginCreate(r) \/ WriteQueued(r) \/ WriteAudit(r) \/ MarkAudit(r) \/ CheckDenial(r)
    \/ Deny(r) \/ WriteDenial(r)

-----------------------------------------------------------------------------
(***************************************************************************)
(* startRun: lock, prepare, spawn, persist the pid, mark RUNNING.  Any     *)
(* failure before the spawn goes to #failBeforeLaunch, any after it to     *)
(* #abandonLaunch, and both give the lock back.                            *)
(*                                                                         *)
(* transitionState reads state.json and then replaces it.  The two are     *)
(* separate actions on the way to PREPARING.  Past that they are one,      *)
(* which loses nothing while Announced: the lock's holder is alone with    *)
(* its run (HolderIsAlone) and createTask is done with it.  An "early"     *)
(* start has createTask beside it; the further outcomes of that race, a    *)
(* write lost between a later read and its write, are left out.            *)
(***************************************************************************)

Step(c, from, to) == pc[c] = from /\ pc' = [pc EXCEPT ![c] = to]

BeginStart(c, r) ==
  /\ daemon = "open"
  /\ state[r] # "none" /\ (Announced => cpc[r] = "idle")
  /\ Step(c, "idle", "lock")
  /\ run' = [run EXCEPT ![c] = r]
  /\ UNCHANGED <<store, daemon, hnd, maps, procs, cancels, creates>>

TakeLock(c) ==
  /\ Step(c, "lock", "check")
  /\ AcquireLock(run[c])
  /\ UNCHANGED <<state, result, log, lastSeq, pidOf, daemon, run, hnd, maps, procs,
                 cancels, creates>>

(* A loser that queues behind the winner instead of being told. *)
LoserWaits(c) ==
  /\ Step(c, "lock", "lock")
  /\ lock[run[c]]
  /\ UNCHANGED <<store, daemon, run, hnd, maps, procs, cancels, creates>>

(* RUN_LOCKED: the loser is told so and touches nothing. *)
RunLocked(c) ==
  /\ Step(c, "lock", "done")
  /\ AcquireFails(run[c])
  /\ UNCHANGED <<state, result, log, lastSeq, pidOf, daemon, run, hnd, maps, procs,
                 cancels, creates>>

CheckPrepare(c) ==
  /\ Step(c, "check", IF CanTransition(state[run[c]], "PREPARING") THEN "prepare"
                                                                   ELSE "unlock_start")
  /\ UNCHANGED <<store, daemon, run, hnd, maps, procs, cancels, creates>>

(* PREPARING remembered, not written. *)
PrepareInMemory(c) ==
  /\ Step(c, "prepare", "provision")
  /\ UNCHANGED <<store, daemon, run, hnd, maps, procs, cancels, creates>>

Prepare(c) ==
  /\ \/ Step(c, "prepare", "provision") /\ state' = [state EXCEPT ![run[c]] = "PREPARING"]
     \/ /\ "state" \in Faults
        /\ Step(c, "prepare", "unlock_start")
        /\ state' \in {state, [state EXCEPT ![run[c]] = "PREPARING"]}
  /\ UNCHANGED <<result, log, lastSeq, pidOf, lock, daemon, run, hnd, maps, procs,
                 cancels, creates>>

(* #prepareWorkspace: repository, worktree, worker home, sandbox. *)
Provision(c) ==
  /\ Step(c, "provision", "spawn") \/ Step(c, "provision", "fail")
  /\ UNCHANGED <<store, daemon, run, hnd, maps, procs, cancels, creates>>

Spawn(c) ==
  /\ \/ Step(c, "spawn", "fail") /\ UNCHANGED <<hnd, procs>>
     \/ \E p \in Pids :
          /\ proc[p] = "unused"
          /\ Step(c, "spawn", "persist")
          /\ proc' = [proc EXCEPT ![p] = "alive"]
          /\ procRun' = [procRun EXCEPT ![p] = run[c]]
          /\ hnd' = [hnd EXCEPT ![c] = p]
          /\ UNCHANGED asked
  /\ UNCHANGED <<store, daemon, run, maps, cancels, creates>>

PersistPid(c) ==
  /\ \/ Step(c, "persist", "launch") /\ RecordPid(run[c], hnd[c]) /\ UNCHANGED asked
     \/ /\ Step(c, "persist", "abandon")
        /\ RecordPidFails(run[c], hnd[c])
        /\ asked' = [asked EXCEPT ![hnd[c]] = proc[hnd[c]] = "alive"]
  /\ UNCHANGED <<state, result, log, lastSeq, lock, daemon, run, hnd, maps, proc,
                 procRun, cancels, creates>>

(* The call answers its caller here; what follows is #finalizing's promise. *)
MarkRunning(c) ==
  /\ \/ /\ Step(c, "launch", "supervise")
        /\ TransitionState(run[c], "RUNNING")
        /\ running' = [running EXCEPT ![run[c]] = c]
        /\ finalizing' = [finalizing EXCEPT ![run[c]] = c]
        /\ UNCHANGED asked
     \/ /\ Step(c, "launch", "abandon")
        /\ TransitionFails(run[c], "RUNNING")
        /\ asked' = [asked EXCEPT ![hnd[c]] = proc[hnd[c]] = "alive"]
        /\ UNCHANGED maps
  /\ UNCHANGED <<result, log, lastSeq, pidOf, lock, daemon, run, hnd, proc, procRun,
                 cancels, creates>>

(* #abandonLaunch: wait for the process it just cancelled.  If `completed`  *)
(* rejects, the exception leaves through the finally of #startWithLock.     *)
Abandon(c) ==
  /\ \/ Step(c, "abandon", "fail")
     \/ "adapter" \in Faults /\ Step(c, "abandon", "unlock_start")
  /\ proc[hnd[c]] # "alive"
  /\ UNCHANGED <<store, daemon, run, hnd, maps, procs, cancels, creates>>

(* Result before terminal state; neither answer is looked at. *)
RecordFailure(c) ==
  /\ Step(c, "fail", "fail_state")
  /\ WriteResult(run[c], "failed")
  /\ UNCHANGED <<state, log, lastSeq, pidOf, lock, daemon, run, hnd, maps, procs,
                 cancels, creates>>

(* The result is written and the state forgotten. *)
FailStartHalfway(c) ==
  /\ Step(c, "fail_state", "unlock_start")
  /\ UNCHANGED <<store, daemon, run, hnd, maps, procs, cancels, creates>>

FailStart(c) ==
  /\ Step(c, "fail_state", "unlock_start")
  /\ TryTransition(run[c], "FAILED")
  /\ UNCHANGED <<result, log, lastSeq, pidOf, lock, daemon, run, hnd, maps, procs,
                 cancels, creates>>

Unlock(c) ==
  /\ Step(c, "unlock_start", "done") \/ Step(c, "unlock", "done")
  /\ ReleaseLock(run[c]) \/ ReleaseLockFails
  /\ UNCHANGED <<state, result, log, lastSeq, pidOf, daemon, run, hnd, maps, procs,
                 cancels, creates>>

startRun(c) ==
  TakeLock(c) \/ RunLocked(c) \/ CheckPrepare(c) \/ Prepare(c) \/ Provision(c) \/ Spawn(c) \/ PersistPid(c)
    \/ MarkRunning(c) \/ Abandon(c) \/ RecordFailure(c) \/ FailStart(c)

-----------------------------------------------------------------------------
(***************************************************************************)
(* #finalize, once the worker's `completed` promise settles.               *)
(***************************************************************************)

(* A clean exit taken as proof of success. *)
TargetStateTrusting(o) ==
  CASE o = "cancelled" -> "CANCELLED" [] o \in CleanExits -> "SUCCEEDED"
    [] OTHER -> "FAILED"

(* The supervisor's reason written where the status of the result belongs.  *)
TargetResultIsReason(o) == o

(* The state and the result an outcome earns. *)
TargetState(o) ==
  CASE o = "cancelled" -> "CANCELLED" [] o = "claims_success" -> "SUCCEEDED"
    [] OTHER -> "FAILED"
TargetResult(o) ==
  CASE o = "cancelled" -> "cancelled" [] o = "timed_out" -> "timed_out"
    [] o = "claims_success" -> "succeeded" [] OTHER -> "failed"

Collect(c) ==
  /\ Step(c, "supervise", "ingest")
  /\ proc[hnd[c]] # "alive"
  /\ running' = [running EXCEPT ![run[c]] = NoCall]
  /\ UNCHANGED <<store, daemon, run, hnd, finalizing, procs, cancels, creates>>

(* An adapter's `completed` also writes the worker's AgentResult to the     *)
(* stdout file; when that write throws, nothing of #finalize runs.          *)
CompletionRejects(c) ==
  /\ "adapter" \in Faults
  /\ Step(c, "supervise", "forget")
  /\ proc[hnd[c]] # "alive"
  /\ UNCHANGED <<store, daemon, run, hnd, maps, procs, cancels, creates>>

(* The worker's events, or none, restamped after lastSequence.  A read of   *)
(* the transcript that throws, where only its opening was guarded, rejects  *)
(* #finalize past its `finally`.                                            *)
Ingest(c) ==
  /\ LET r == run[c] IN
       \/ /\ Step(c, "ingest", "mark")
          /\ lastSeq[r] < 1
          /\ AppendEvent(r, lastSeq[r] + 1, "worker")
       \/ /\ Step(c, "ingest", "conclude")
          /\ lastSeq[r] < 1
          /\ AppendFails(r, lastSeq[r] + 1, "worker")
       \/ Step(c, "ingest", "conclude") /\ UNCHANGED log
       \/ "adapter" \in Faults /\ Step(c, "ingest", "forget") /\ UNCHANGED log
  /\ UNCHANGED <<state, result, lastSeq, pidOf, lock, daemon, run, hnd, maps, procs,
                 cancels, creates>>

MarkIngested(c) ==
  /\ Step(c, "mark", "conclude")
  /\ \/ RecordSequence(run[c], lastSeq[run[c]] + 1)
     \/ RecordSequenceFails(run[c], lastSeq[run[c]] + 1)
  /\ UNCHANGED <<state, result, log, pidOf, lock, daemon, run, hnd, maps, procs,
                 cancels, creates>>

(* The terminal state without the result it promises. *)
ConcludeStateFirst(c) ==
  /\ Step(c, "conclude", IF proc[hnd[c]] \in CleanExits THEN "validate" ELSE "terminal")
  /\ UNCHANGED <<store, daemon, run, hnd, maps, procs, cancels, creates>>

(* An outcome that none of the cases handles. *)
ConcludeUncancelled(c) ==
  /\ Step(c, "conclude", IF proc[hnd[c]] \in CleanExits THEN "validate" ELSE "result")
  /\ proc[hnd[c]] # "cancelled"
  /\ UNCHANGED <<store, daemon, run, hnd, maps, procs, cancels, creates>>

(* Close the workspace; only a clean exit earns the right to be validated.  *)
Conclude(c) ==
  /\ \/ Step(c, "conclude", IF proc[hnd[c]] \in CleanExits THEN "validate" ELSE "result")
     \/ "state" \in Faults /\ Step(c, "conclude", "forget")
  /\ UNCHANGED <<store, daemon, run, hnd, maps, procs, cancels, creates>>

Validate(c) ==
  /\ \/ Step(c, "validate", "result") /\ TransitionState(run[c], "VALIDATING")
     \/ Step(c, "validate", "forget") /\ TransitionFails(run[c], "VALIDATING")
  /\ UNCHANGED <<result, log, lastSeq, pidOf, lock, daemon, run, hnd, maps, procs,
                 cancels, creates>>

RecordResult(c) ==
  /\ Step(c, "result", "terminal")
  /\ WriteResult(run[c], TargetResult(proc[hnd[c]]))
  /\ UNCHANGED <<state, log, lastSeq, pidOf, lock, daemon, run, hnd, maps, procs,
                 cancels, creates>>

Terminate(c) ==
  /\ Step(c, "terminal", "forget")
  /\ TryTransition(run[c], TargetState(proc[hnd[c]]))
  /\ UNCHANGED <<result, log, lastSeq, pidOf, lock, daemon, run, hnd, maps, procs,
                 cancels, creates>>

Forget(c) ==
  /\ Step(c, "forget", "unlock")
  /\ finalizing' = [finalizing EXCEPT ![run[c]] = NoCall]
  /\ UNCHANGED <<store, daemon, run, hnd, running, procs, cancels, creates>>

finalize(c) ==
  Collect(c) \/ CompletionRejects(c) \/ Ingest(c) \/ MarkIngested(c) \/ Conclude(c)
    \/ Validate(c) \/ RecordResult(c) \/ Terminate(c) \/ Forget(c)

-----------------------------------------------------------------------------
(***************************************************************************)
(* cancelRun, and the worker processes themselves.                         *)
(***************************************************************************)

CancelRun(r) ==
  /\ Accepting
  /\ running[r] # NoCall
  /\ canceller[r] = NoCall
  /\ canceller' = [canceller EXCEPT ![r] = finalizing[r]]
  /\ LET p == hnd[running[r]] IN
       asked' = [asked EXCEPT ![p] = @ \/ proc[p] = "alive"]
  /\ UNCHANGED <<store, daemon, calls, maps, proc, procRun, reply, creates>>

(* The process is awaited, its finalisation is not. *)
CancelReplyEarly(r) ==
  /\ canceller[r] # NoCall
  /\ proc[hnd[canceller[r]]] # "alive"
  /\ reply' = [reply EXCEPT ![r] = state[r]]
  /\ canceller' = [canceller EXCEPT ![r] = NoCall]
  /\ UNCHANGED <<store, daemon, calls, maps, procs, creates>>

(* It waits for the process, then for the captured finalisation. *)
CancelReply(r) ==
  /\ canceller[r] # NoCall
  /\ proc[hnd[canceller[r]]] # "alive"
  /\ pc[canceller[r]] = "done"
  /\ reply' = [reply EXCEPT ![r] = state[r]]
  /\ canceller' = [canceller EXCEPT ![r] = NoCall]
  /\ UNCHANGED <<store, daemon, calls, maps, procs, creates>>

(* The supervisor's verdict on a worker: the first cause wins, so a cancel  *)
(* that came in time is only beaten by a limit that came before it.         *)
WorkerEnds(p) ==
  /\ proc[p] = "alive" /\ Supervised(p)
  /\ \E o \in IF asked[p] THEN {"cancelled"} \cup (Endings \cap Forced) ELSE Endings :
       proc' = [proc EXCEPT ![p] = o]
  /\ UNCHANGED <<store, daemon, calls, maps, procRun, asked, cancels, creates>>

(* A worker whose daemon is gone ends when it likes, unobserved. *)
StrayEnds(p) ==
  /\ proc[p] = "alive" /\ ~Supervised(p)
  /\ proc' = [proc EXCEPT ![p] = "gone"]
  /\ UNCHANGED <<store, daemon, calls, maps, procRun, asked, cancels, creates>>

=============================================================================
