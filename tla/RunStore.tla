------------------------------- MODULE RunStore -------------------------------
(***************************************************************************)
(* What survives a crash of the daemon: the files of each run directory    *)
(* (packages/core/src/run-store.ts over atomic.ts), and the operations     *)
(* that change them.  The module has no Next of its own; the daemon's      *)
(* handlers are built from these operations.                               *)
(*                                                                         *)
(* A write either takes effect as a whole (temporary file, fsync, rename)  *)
(* or reports an error.  An error does not mean "nothing happened":        *)
(* atomicWriteFile can fail after the rename, when it flushes the          *)
(* directory, appendAndSync after the write, and writeFileExclusive after  *)
(* it created the file.  The Fails operators below therefore allow both.   *)
(* Which files can fail, to be read or written, is the constant Faults.    *)
(***************************************************************************)
EXTENDS Integers, RunStates

CONSTANTS Runs,     \* run ids
          Pids,     \* process ids the host can hand out, each used once
          NoPid,    \* metadata.json without a pid
          Faults    \* what can fail: file kinds here, more in later modules

ASSUME NoPidAssumption == NoPid \notin Pids

VARIABLES
  state,     \* state.json, or how far the run directory got without one
  result,    \* result.json's status
  log,       \* events.ndjson: what holds each sequence number
  lastSeq,   \* metadata.json lastSequence
  pidOf,     \* metadata.json pid and processStartedAtMs
  lock       \* run.lock exists

store == <<state, result, log, lastSeq, pidOf, lock>>

(* "none": no run directory.  "incomplete": a directory without state.json. *)
StateFile == RUN_STATES \cup {"none", "incomplete"}
ResultFile == {"none", "succeeded", "failed", "blocked", "cancelled", "timed_out"}

(* Sequence 0 is the policy decision's; the worker's batch is one event,    *)
(* numbered 1, or 0 when metadata.json was never told of the decision.      *)
Sequences == {0, 1}
Event == {"none", "allow", "deny", "worker"}

StoreTypeOK ==
  /\ state \in [Runs -> StateFile]
  /\ result \in [Runs -> ResultFile]
  /\ log \in [Runs -> [Sequences -> Event]]
  /\ lastSeq \in [Runs -> Nat \cup {-1}]
  /\ pidOf \in [Runs -> Pids \cup {NoPid}]
  /\ lock \in [Runs -> BOOLEAN]

StoreInit ==
  /\ state = [r \in Runs |-> "none"]
  /\ result = [r \in Runs |-> "none"]
  /\ log = [r \in Runs |-> [s \in Sequences |-> "none"]]
  /\ lastSeq = [r \in Runs |-> -1]
  /\ pidOf = [r \in Runs |-> NoPid]
  /\ lock = [r \in Runs |-> FALSE]

-----------------------------------------------------------------------------
(* state.json *)

TransitionState(r, to) ==
  /\ CanTransition(state[r], to)
  /\ state' = [state EXCEPT ![r] = to]

TransitionFails(r, to) ==
  \/ ~CanTransition(state[r], to) /\ UNCHANGED state
  \/ "state" \in Faults /\ UNCHANGED state
  \/ "state" \in Faults /\ TransitionState(r, to)

(* A caller that ignores the answer. *)
TryTransition(r, to) == TransitionState(r, to) \/ TransitionFails(r, to)

(* result.json: a second result is refused, unless the first cannot be read. *)
(* Every caller but the denial in createTask ignores the answer.            *)

WriteResult(r, status) ==
  \/ /\ result[r] = "none" \/ "result" \in Faults
     /\ result' = [result EXCEPT ![r] = status]
  \/ (result[r] # "none" \/ "result" \in Faults) /\ UNCHANGED result

(* metadata.json *)

RecordPid(r, p) == pidOf' = [pidOf EXCEPT ![r] = p]
RecordPidFails(r, p) == "metadata" \in Faults /\ (UNCHANGED pidOf \/ RecordPid(r, p))

RecordSequence(r, s) == lastSeq' = [lastSeq EXCEPT ![r] = s]
RecordSequenceFails(r, s) ==
  "metadata" \in Faults /\ (UNCHANGED lastSeq \/ RecordSequence(r, s))

(* events.ndjson: idempotent by sequence, a conflict aborts the batch *)

AppendEvent(r, s, e) ==
  /\ log[r][s] \in {"none", e}
  /\ log' = [log EXCEPT ![r][s] = e]

AppendFails(r, s, e) ==
  \/ log[r][s] \notin {"none", e} /\ UNCHANGED log
  \/ "events" \in Faults /\ (UNCHANGED log \/ AppendEvent(r, s, e))

(* run.lock: acquireLock creates it with O_EXCL *)

AcquireLockShared(r) == lock' = [lock EXCEPT ![r] = TRUE]

AcquireLock(r) == ~lock[r] /\ lock' = [lock EXCEPT ![r] = TRUE]

AcquireFails(r) ==
  \/ lock[r] /\ UNCHANGED lock
  \/ "lock" \in Faults /\ lock' \in {lock, [lock EXCEPT ![r] = TRUE]}

ReleaseLock(r) == lock' = [lock EXCEPT ![r] = FALSE]
ReleaseLockFails == "lock" \in Faults /\ UNCHANGED lock

=============================================================================
