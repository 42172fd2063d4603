----------------------------- MODULE AgentdProofs -----------------------------
(***************************************************************************)
(* What holds of the daemon for every set of runs, calls and processes,    *)
(* any number of boots and any faults; and what more holds if callers wait *)
(* for createTask before they start its run (Announced).                   *)
(***************************************************************************)
EXTENDS Agentd, TLAPS

-----------------------------------------------------------------------------
(* The operations of the store keep its files what they should be. *)

LEMMA TransitionType ==
  ASSUME state \in [Runs -> StateFile], NEW r, NEW to \in RUN_STATES,
         TransitionState(r, to) \/ TransitionFails(r, to)
  PROVE  state' \in [Runs -> StateFile]
BY DEF TransitionState, TransitionFails, StateFile

LEMMA WriteResultType ==
  ASSUME result \in [Runs -> ResultFile], NEW r, NEW status \in ResultFile,
         WriteResult(r, status)
  PROVE  result' \in [Runs -> ResultFile]
BY DEF WriteResult

LEMMA SequenceType ==
  ASSUME lastSeq \in [Runs -> Nat \cup {-1}], NEW r, NEW s \in Nat,
         RecordSequence(r, s) \/ RecordSequenceFails(r, s)
  PROVE  lastSeq' \in [Runs -> Nat \cup {-1}]
BY DEF RecordSequence, RecordSequenceFails

LEMMA AppendType ==
  ASSUME log \in [Runs -> [Sequences -> Event]], NEW r, NEW s,
         NEW e \in Event, AppendEvent(r, s, e) \/ AppendFails(r, s, e)
  PROVE  log' \in [Runs -> [Sequences -> Event]]
<1> DEFINE L == [log[r] EXCEPT ![s] = e]
<1>1. r \in Runs => L \in [Sequences -> Event]
  OBVIOUS
<1>2. log' = log \/ log' = [log EXCEPT ![r] = L]
  BY DEF AppendEvent, AppendFails
<1> QED BY <1>1, <1>2

LEMMA PidType ==
  ASSUME pidOf \in [Runs -> Pids \cup {NoPid}], NEW r, NEW p \in Pids \cup {NoPid},
         RecordPid(r, p) \/ RecordPidFails(r, p)
  PROVE  pidOf' \in [Runs -> Pids \cup {NoPid}]
BY DEF RecordPid, RecordPidFails

LEMMA LockType ==
  ASSUME lock \in [Runs -> BOOLEAN], NEW r,
         AcquireLock(r) \/ AcquireFails(r) \/ ReleaseLock(r) \/ ReleaseLockFails
  PROVE  lock' \in [Runs -> BOOLEAN]
BY DEF AcquireLock, AcquireFails, ReleaseLock, ReleaseLockFails

-----------------------------------------------------------------------------
(* Type correctness, one lemma per group of actions. *)

LEMMA InitType == Init => TypeOK
<1> SUFFICES ASSUME Init PROVE TypeOK
  OBVIOUS
<1>1. StoreTypeOK
  <2>1. [s \in Sequences |-> "none"] \in [Sequences -> Event]
    BY DEF Event
  <2> QED BY <2>1 DEF Init, StoreInit, StoreTypeOK, StateFile, ResultFile
<1>2. OrchestratorTypeOK
  BY DEF Init, OrchestratorInit, OrchestratorTypeOK, CreateSteps, CallSteps, StateFile
<1>3. boots \in 0..MaxBoots
  BY MaxBootsAssumption DEF Init, MaxBootsAssumption
<1> QED BY <1>1, <1>2, <1>3 DEF Init, TypeOK, Off

LEMMA CreateTaskType ==
  ASSUME TypeOK, NEW r \in Runs, createTask(r), UNCHANGED <<boots, rec, failure, drainSet>>
  PROVE  TypeOK'
<1> USE DEF TypeOK, StoreTypeOK, OrchestratorTypeOK, calls, maps, procs, cancels, CreateStep
<1> USE DEF CreateSteps
<1>1. CASE BeginCreate(r)
  BY <1>1 DEF BeginCreate, StateFile
<1>2. CASE WriteQueued(r)
  BY <1>2 DEF WriteQueued, StateFile, INITIAL_RUN_STATE, RUN_STATES
<1>3. CASE WriteAudit(r)
  <2>1. log' \in [Runs -> [Sequences -> Event]]
    <3>1. verdict[r] \in Event
      BY <1>3 DEF WriteAudit, Event
    <3> QED BY <1>3, <3>1, AppendType DEF WriteAudit
  <2> QED BY <1>3, <2>1 DEF WriteAudit
<1>4. CASE MarkAudit(r)
  <2>1. lastSeq' \in [Runs -> Nat \cup {-1}]
    BY <1>4, SequenceType DEF MarkAudit
  <2> QED BY <1>4, <2>1 DEF MarkAudit
<1>5. CASE Deny(r)
  BY <1>5 DEF Deny, StateFile, RUN_STATES
<1>7. CASE CheckDenial(r)
  BY <1>7 DEF CheckDenial, store
<1>6. CASE WriteDenial(r)
  <2>1. result' \in [Runs -> ResultFile]
    BY <1>6, WriteResultType DEF WriteDenial, ResultFile
  <2> QED BY <1>6, <2>1 DEF WriteDenial
<1> QED BY <1>1, <1>2, <1>3, <1>4, <1>5, <1>6, <1>7 DEF createTask

LEMMA BeginStartType ==
  ASSUME TypeOK, NEW c \in Calls, NEW r \in Runs, BeginStart(c, r),
         UNCHANGED <<boots, rec, failure, drainSet>>
  PROVE  TypeOK'
BY DEF BeginStart, Step, TypeOK, StoreTypeOK, OrchestratorTypeOK, store, maps, procs, cancels,
       creates, CallSteps, Starting

LEMMA StartRunType ==
  ASSUME TypeOK, NEW c \in Calls, startRun(c), UNCHANGED <<boots, rec, failure, drainSet>>
  PROVE  TypeOK'
<1> USE DEF TypeOK, StoreTypeOK, OrchestratorTypeOK, store, maps, procs, cancels, creates, Step
<1> USE DEF CallSteps, Starting, Launching, Finishing
<1>1. CASE TakeLock(c)
  <2>1. lock' \in [Runs -> BOOLEAN]
    BY <1>1, LockType DEF TakeLock
  <2> QED BY <1>1, <2>1 DEF TakeLock
<1>2. CASE RunLocked(c)
  <2>1. lock' \in [Runs -> BOOLEAN]
    BY <1>2, LockType DEF RunLocked
  <2> QED BY <1>2, <2>1 DEF RunLocked
<1>3. CASE CheckPrepare(c)
  BY <1>3 DEF CheckPrepare
<1>4. CASE Prepare(c)
  <2>1. state' \in [Runs -> StateFile]
    BY <1>4 DEF Prepare, StateFile, RUN_STATES
  <2> QED BY <1>4, <2>1 DEF Prepare
<1>5. CASE Provision(c)
  BY <1>5 DEF Provision
<1>6. CASE Spawn(c)
  <2>1. CASE UNCHANGED <<hnd, procs>>
    BY <1>6, <2>1 DEF Spawn
  <2>2. CASE ~UNCHANGED <<hnd, procs>>
    <3>1. PICK p \in Pids : /\ proc' = [proc EXCEPT ![p] = "alive"]
                            /\ procRun' = [procRun EXCEPT ![p] = run[c]]
                            /\ hnd' = [hnd EXCEPT ![c] = p]
                            /\ UNCHANGED asked
                            /\ pc' = [pc EXCEPT ![c] = "persist"]
      BY <1>6, <2>2 DEF Spawn
    <3> QED BY <1>6, <3>1 DEF Spawn
  <2> QED BY <2>1, <2>2
<1>7. CASE PersistPid(c)
  <2>1. pidOf' \in [Runs -> Pids \cup {NoPid}]
    BY <1>7, PidType DEF PersistPid
  <2> QED BY <1>7, <2>1 DEF PersistPid
<1>8. CASE MarkRunning(c)
  <2>1. state' \in [Runs -> StateFile]
    BY <1>8, TransitionType DEF MarkRunning, RUN_STATES
  <2>2. running' \in [Runs -> Calls \cup {NoCall}]
    BY <1>8 DEF MarkRunning
  <2>3. finalizing' \in [Runs -> Calls \cup {NoCall}]
    BY <1>8 DEF MarkRunning
  <2>4. asked' \in [Pids -> BOOLEAN]
    BY <1>8 DEF MarkRunning
  <2>5. pc' \in [Calls -> CallSteps]
    <3>1. pc' = [pc EXCEPT ![c] = "supervise"] \/ pc' = [pc EXCEPT ![c] = "abandon"]
      BY <1>8 DEF MarkRunning
    <3> QED BY <3>1
  <2>6. UNCHANGED <<result, log, lastSeq, pidOf, lock, daemon, run, hnd, proc, procRun,
                    cancels, creates>>
    BY <1>8 DEF MarkRunning
  <2> QED BY <2>1, <2>2, <2>3, <2>4, <2>5, <2>6
<1>9. CASE Abandon(c)
  BY <1>9 DEF Abandon
<1>10. CASE RecordFailure(c)
  <2>1. result' \in [Runs -> ResultFile]
    BY <1>10, WriteResultType DEF RecordFailure, ResultFile
  <2> QED BY <1>10, <2>1 DEF RecordFailure
<1>11. CASE FailStart(c)
  <2>1. state' \in [Runs -> StateFile]
    BY <1>11, TransitionType DEF FailStart, TryTransition, RUN_STATES
  <2> QED BY <1>11, <2>1 DEF FailStart
<1> QED BY <1>1, <1>2, <1>3, <1>4, <1>5, <1>6, <1>7, <1>8, <1>9, <1>10, <1>11 DEF startRun

LEMMA FinalizeType ==
  ASSUME TypeOK, NEW c \in Calls, finalize(c) \/ Unlock(c),
         UNCHANGED <<boots, rec, failure, drainSet>>
  PROVE  TypeOK'
<1> USE DEF TypeOK, StoreTypeOK, OrchestratorTypeOK, store, maps, procs, cancels, creates, Step
<1> USE DEF CallSteps, Starting, Launching, Finishing
<1>1. CASE Collect(c)
  BY <1>1 DEF Collect
<1>2. CASE CompletionRejects(c)
  BY <1>2 DEF CompletionRejects
<1>3. CASE Ingest(c)
  <2>1. log' \in [Runs -> [Sequences -> Event]]
    <3>1. "worker" \in Event
      BY DEF Event
    <3> QED BY <1>3, <3>1, AppendType DEF Ingest
  <2> QED BY <1>3, <2>1 DEF Ingest
<1>4. CASE MarkIngested(c)
  <2>1. lastSeq' \in [Runs -> Nat \cup {-1}]
    <3>1. CASE run[c] \in Runs
      <4>1. lastSeq[run[c]] + 1 \in Nat
        BY <3>1
      <4> QED BY <1>4, <4>1, SequenceType DEF MarkIngested
    <3>2. CASE run[c] \notin Runs
      BY <1>4, <3>2 DEF MarkIngested, RecordSequence, RecordSequenceFails
    <3> QED BY <3>1, <3>2
  <2> QED BY <1>4, <2>1 DEF MarkIngested
<1>5. CASE Conclude(c)
  BY <1>5 DEF Conclude
<1>6. CASE Validate(c)
  <2>1. state' \in [Runs -> StateFile]
    BY <1>6, TransitionType DEF Validate, RUN_STATES
  <2> QED BY <1>6, <2>1 DEF Validate
<1>7. CASE RecordResult(c)
  <2>1. result' \in [Runs -> ResultFile]
    BY <1>7, WriteResultType DEF RecordResult, TargetResult, ResultFile
  <2> QED BY <1>7, <2>1 DEF RecordResult
<1>8. CASE Terminate(c)
  <2>1. state' \in [Runs -> StateFile]
    BY <1>8, TransitionType DEF Terminate, TryTransition, TargetState, RUN_STATES
  <2> QED BY <1>8, <2>1 DEF Terminate
<1>9. CASE Forget(c)
  BY <1>9 DEF Forget
<1>10. CASE Unlock(c)
  <2>1. lock' \in [Runs -> BOOLEAN]
    BY <1>10, LockType DEF Unlock
  <2> QED BY <1>10, <2>1 DEF Unlock
<1> QED BY <1>1, <1>2, <1>3, <1>4, <1>5, <1>6, <1>7, <1>8, <1>9, <1>10 DEF finalize

LEMMA CancelType ==
  ASSUME TypeOK, NEW r \in Runs, CancelRun(r) \/ CancelReply(r),
         UNCHANGED <<boots, rec, failure, drainSet>>
  PROVE  TypeOK'
<1> USE DEF TypeOK, StoreTypeOK, OrchestratorTypeOK, store, calls, maps, procs, creates
<1>1. CASE CancelRun(r)
  <2>1. canceller' \in [Runs -> Calls \cup {NoCall}]
    BY <1>1 DEF CancelRun
  <2>2. asked' \in [Pids -> BOOLEAN]
    BY <1>1 DEF CancelRun
  <2> QED BY <1>1, <2>1, <2>2 DEF CancelRun
<1>2. CASE CancelReply(r)
  BY <1>2 DEF CancelReply
<1> QED BY <1>1, <1>2

LEMMA ProcessType ==
  ASSUME TypeOK, NEW p \in Pids, WorkerEnds(p) \/ StrayEnds(p),
         UNCHANGED <<boots, rec, failure, drainSet>>
  PROVE  TypeOK'
<1>1. proc' \in [Pids -> Outcomes \cup {"unused", "alive", "gone"}]
  BY EndingsAssumption DEF WorkerEnds, StrayEnds, EndingsAssumption, Outcomes, TypeOK,
     OrchestratorTypeOK
<1> QED BY <1>1 DEF WorkerEnds, StrayEnds, TypeOK, StoreTypeOK, OrchestratorTypeOK, store,
         calls, maps, cancels, creates

-----------------------------------------------------------------------------

LEMMA RecoverType ==
  ASSUME TypeOK, recoverRuns
  PROVE  TypeOK'
<1> USE DEF TypeOK, StoreTypeOK, OrchestratorTypeOK, store, calls, maps, cancels, creates,
            orchestrator, procs, RecoverStep
<1>1. ASSUME NEW r \in Runs, RecoverInspect(r) PROVE TypeOK'
  <2>1. lock' \in [Runs -> BOOLEAN]
    BY <1>1, LockType DEF RecoverInspect
  <2> QED BY <1>1, <2>1 DEF RecoverInspect
<1>2. ASSUME NEW r \in Runs, RecoverStop(r) PROVE TypeOK'
  BY <1>2 DEF RecoverStop
<1>3. ASSUME NEW r \in Runs, RecoverOrphan(r) PROVE TypeOK'
  <2>1. state' \in [Runs -> StateFile]
    BY <1>3, TransitionType DEF RecoverOrphan, RUN_STATES
  <2> QED BY <1>3, <2>1 DEF RecoverOrphan
<1>4. CASE RecoverDone
  BY <1>4 DEF RecoverDone, Off
<1> QED BY <1>1, <1>2, <1>3, <1>4 DEF recoverRuns

LEMMA VanishType ==
  ASSUME TypeOK, NEW to \in Off, Vanish(to)
  PROVE  TypeOK'
BY DEF Vanish, TypeOK, StoreTypeOK, OrchestratorTypeOK, store, CreateSteps, CallSteps

LEMMA LifeType ==
  ASSUME TypeOK, Boot \/ Signal \/ DrainSnapshot \/ Exit \/ Crash
  PROVE  TypeOK'
<1> USE DEF TypeOK, StoreTypeOK, OrchestratorTypeOK, store, calls, maps, cancels, creates,
            orchestrator, procs
<1>1. CASE Boot
  <2>1. boots' \in 0..MaxBoots
    BY <1>1, MaxBootsAssumption DEF Boot, MaxBootsAssumption
  <2> QED BY <1>1, <2>1 DEF Boot
<1>2. CASE Signal
  BY <1>2 DEF Signal
<1>3. CASE DrainSnapshot
  <2>1. asked' \in [Pids -> BOOLEAN]
    BY <1>3 DEF DrainSnapshot, CancelAll
  <2>2. drainSet' \subseteq Calls
    BY <1>3 DEF DrainSnapshot
  <2> QED BY <1>3, <2>1, <2>2 DEF DrainSnapshot
<1>4. CASE Exit
  BY <1>4, VanishType DEF Exit, Off
<1>5. CASE Crash
  BY <1>5, VanishType DEF Crash, Off
<1> QED BY <1>1, <1>2, <1>3, <1>4, <1>5

(* Every variable keeps its type, in any state any number of crashes, races *)
(* and failed writes can lead to.                                           *)
THEOREM TypeCorrect == Spec => []TypeOK
<1>1. TypeOK /\ [Next]_vars => TypeOK'
  <2> SUFFICES ASSUME TypeOK, [Next]_vars PROVE TypeOK'
    OBVIOUS
  <2>1. CASE Orchestrate
    BY <2>1, CreateTaskType, BeginStartType, StartRunType, FinalizeType, CancelType,
       ProcessType DEF Orchestrate
  <2>2. CASE recoverRuns
    BY <2>2, RecoverType
  <2>3. CASE Boot \/ Signal \/ DrainSnapshot \/ Exit \/ Crash
    BY <2>3, LifeType
  <2>4. CASE UNCHANGED vars
    BY <2>4 DEF vars, store, orchestrator, calls, maps, procs, cancels, creates, TypeOK,
       StoreTypeOK, OrchestratorTypeOK
  <2> QED BY <2>1, <2>2, <2>3, <2>4 DEF Next
<1> QED BY InitType, <1>1, PTL DEF Spec

-----------------------------------------------------------------------------
(* HolderIsAlone and LaunchedAtMostOnce, made inductive. A call under way   *)
(* has a run, and while Announced one that createTask is done with; a call  *)
(* that passed TakeLock has the lock for itself; neither calls nor          *)
(* creations exist while the daemon is off or recovering, and recovery      *)
(* works at no other time.                                                  *)
Ownership ==
  /\ \A c \in Calls : pc[c] \notin {"idle", "done"} =>
       run[c] \in Runs /\ state[run[c]] # "none" /\ (Announced => cpc[run[c]] = "idle")
  /\ \A c \in Calls : HoldsLock(c) => lock[run[c]]
  /\ \A c, d \in Calls : HoldsLock(c) /\ HoldsLock(d) /\ run[c] = run[d] => c = d
  /\ ~Accepting => /\ \A c \in Calls : pc[c] = "idle"
                   /\ \A r \in Runs : cpc[r] = "idle"
  /\ daemon # "recovering" => \A r \in Runs : rec[r] = "settled"

(* A process belongs to a run that has durably left QUEUED, and a call that *)
(* read QUEUED and has not spawned has none yet, whatever became of the     *)
(* state it read.  While Announced, nothing becomes of it.                  *)
Started(s) == s \notin {"none", "incomplete", "QUEUED"}

Launches ==
  /\ \A p \in Pids : procRun[p] # NoRun => Started(state[procRun[p]])
  /\ \A c \in Calls : pc[c] = "prepare" =>
       state[run[c]] \in RUN_STATES /\ (Announced => state[run[c]] = "QUEUED")
  /\ \A c \in Calls : pc[c] \in {"prepare", "provision", "spawn"} =>
       \A p \in Pids : procRun[p] # run[c]
  /\ \A c \in Calls : pc[c] \in {"provision", "spawn"} => Started(state[run[c]])
  /\ \A r \in Runs : cpc[r] = "files" => state[r] = "incomplete"
  /\ \A r \in Runs : cpc[r] \in {"audit", "mark", "deny", "deny_write"} =>
       state[r] \in RUN_STATES /\ (Announced => state[r] = "QUEUED")
  /\ LaunchedAtMostOnce

(* What holds for any callers, and what holds for those that wait for       *)
(* createTask.                                                              *)
LInv == Ownership /\ Launches
IInv == Announced /\ Ownership /\ Launches

LEMMA InitInv == Init => LInv
BY DEF Init, StoreInit, OrchestratorInit, LInv, Ownership, Launches, LaunchedAtMostOnce,
       HoldsLock, Launching, Finishing

(* What a handler may do to state.json once the run is no longer being      *)
(* created: leave it, or move it on, never back to QUEUED.                  *)
StateKept(r) ==
  \/ state' = state
  \/ /\ state[r] \in RUN_STATES
     /\ \E s \in RUN_STATES \ {"QUEUED"} : state' = [state EXCEPT ![r] = s]

LEMMA TransitionKept ==
  ASSUME NEW r, NEW to \in RUN_STATES \ {"QUEUED"},
         TransitionState(r, to) \/ TransitionFails(r, to)
  PROVE  StateKept(r)
BY DEF TransitionState, TransitionFails, CanTransition, StateKept

(* A started run stays started, whoever moves it on. *)
LEMMA StartedStays ==
  ASSUME TypeOK, NEW r \in Runs, StateKept(r), NEW q \in Runs
  PROVE  /\ Started(state[q]) => Started(state'[q])
         /\ state[q] # "none" => state'[q] # "none"
         /\ q # r \/ state[q] \notin RUN_STATES => state'[q] = state[q]
         /\ state[q] \in RUN_STATES => state'[q] \in RUN_STATES
BY DEF TypeOK, StoreTypeOK, StateKept, Started, RUN_STATES

(* A lock holder's step that neither takes it to nor from a launch keeps    *)
(* the invariant, whatever it does to its own run.                          *)
Settled == (Launching \cup Finishing) \ {"prepare", "provision", "spawn"}

LEMMA HolderStep ==
  ASSUME TypeOK, TypeOK', LInv, NEW c \in Calls, HoldsLock(c),
         NEW to \in Settled, pc' = [pc EXCEPT ![c] = to], StateKept(run[c]),
         UNCHANGED <<run, cpc, lock, daemon, rec, procRun>>
  PROVE  LInv'
<1> USE DEF TypeOK, StoreTypeOK, OrchestratorTypeOK
<1>1. run[c] \in Runs /\ pc[c] \notin {"idle", "done"} /\ to \notin {"idle", "done"}
  BY DEF LInv, Ownership, HoldsLock, Launching, Finishing, Settled
<1>2. \A d \in Calls : HoldsLock(d)' <=> HoldsLock(d)
  BY DEF HoldsLock, Settled
<1>3. Accepting' <=> Accepting
  BY DEF Accepting
<1>4. Ownership'
  BY <1>1, <1>2, <1>3, StartedStays DEF LInv, Ownership
<1>5. \A d \in Calls : pc'[d] \in {"prepare", "provision", "spawn"} =>
        pc'[d] = pc[d] /\ HoldsLock(d) /\ run[d] \in Runs /\ run[d] # run[c]
  <2> SUFFICES ASSUME NEW d \in Calls, pc'[d] \in {"prepare", "provision", "spawn"}
               PROVE  pc'[d] = pc[d] /\ HoldsLock(d) /\ run[d] \in Runs /\ run[d] # run[c]
    OBVIOUS
  <2>1. d # c /\ pc'[d] = pc[d]
    BY DEF Settled
  <2>2. HoldsLock(d) /\ pc[d] \notin {"idle", "done"}
    BY <2>1 DEF HoldsLock, Launching
  <2> QED BY <2>1, <2>2 DEF LInv, Ownership
<1>6. Announced => \A r \in Runs : cpc[r] # "idle" => r # run[c]
  BY <1>1 DEF LInv, Ownership
<1>7. \A r \in Runs : cpc[r] = "files" => state'[r] = "incomplete"
  BY <1>1, StartedStays DEF LInv, Launches, RUN_STATES
<1>8. \A r \in Runs : cpc[r] \in {"audit", "mark", "deny", "deny_write"} =>
        state'[r] \in RUN_STATES /\ (Announced => state'[r] = "QUEUED")
  BY <1>1, <1>6, StartedStays DEF LInv, Launches
<1>9. \A d \in Calls : pc'[d] = "prepare" =>
        state'[run[d]] \in RUN_STATES /\ (Announced => state'[run[d]] = "QUEUED")
  BY <1>1, <1>5, StartedStays DEF LInv, Launches
<1>10. /\ \A p \in Pids : procRun[p] # NoRun => Started(state'[procRun[p]])
       /\ \A d \in Calls : pc'[d] \in {"provision", "spawn"} => Started(state'[run[d]])
       /\ \A d \in Calls : pc'[d] \in {"prepare", "provision", "spawn"} =>
            \A p \in Pids : procRun[p] # run[d]
  BY <1>1, <1>5, StartedStays DEF LInv, Launches
<1>11. Launches'
  BY <1>7, <1>8, <1>9, <1>10 DEF LInv, Launches, LaunchedAtMostOnce
<1> QED BY <1>4, <1>11 DEF LInv

LEMMA CreateTaskInv ==
  ASSUME TypeOK, TypeOK', LInv, NEW r \in Runs, createTask(r),
         UNCHANGED <<boots, rec, failure, drainSet>>
  PROVE  LInv'
<1> USE DEF TypeOK, StoreTypeOK, OrchestratorTypeOK, calls, procs
<1> DEFINE Auditing == {"audit", "mark", "deny", "deny_write"}
<1>1. UNCHANGED <<pc, run, lock, daemon, rec, procRun>>
  BY DEF createTask, BeginCreate, WriteQueued, WriteAudit, MarkAudit, CheckDenial, Deny,
         WriteDenial, store
<1>2. CASE BeginCreate(r)
  <2>1. /\ Accepting /\ state[r] = "none"
        /\ cpc' = [cpc EXCEPT ![r] = "files"]
        /\ state' = [state EXCEPT ![r] = "incomplete"]
    BY <1>2 DEF BeginCreate, CreateStep
  <2>2. \A c \in Calls : pc[c] \notin {"idle", "done"} => run[c] \in Runs \ {r}
    BY <2>1 DEF LInv, Ownership
  <2>3. Ownership'
    BY <1>1, <2>1, <2>2 DEF LInv, Ownership, Accepting, HoldsLock
  <2>5. /\ \A p \in Pids : procRun[p] # NoRun => procRun[p] \in Runs \ {r}
        /\ \A c \in Calls : pc[c] \in {"prepare", "provision", "spawn"} => run[c] \in Runs \ {r}
    <3>1. \A p \in Pids : procRun[p] # NoRun => Started(state[procRun[p]])
      BY DEF LInv, Launches
    <3> QED BY <2>1, <2>2, <3>1 DEF Started
  <2>6. \A q \in Runs \ {r} : state'[q] = state[q] /\ cpc'[q] = cpc[q]
    BY <2>1
  <2>7. cpc'[r] = "files" /\ state'[r] = "incomplete"
    BY <2>1
  <2>8. /\ \A q \in Runs : cpc'[q] = "files" => state'[q] = "incomplete"
        /\ \A q \in Runs : cpc'[q] \in Auditing =>
             state'[q] \in RUN_STATES /\ (Announced => state'[q] = "QUEUED")
    BY <2>6, <2>7 DEF LInv, Launches
  <2>4. Launches'
    BY <1>1, <2>5, <2>6, <2>8 DEF LInv, Launches, LaunchedAtMostOnce
  <2> QED BY <2>3, <2>4 DEF LInv
<1>3. CASE ~BeginCreate(r)
  <2>1. /\ cpc[r] # "idle"
        /\ \E to \in CreateSteps \ {"files"} : cpc' = [cpc EXCEPT ![r] = to]
    BY <1>3 DEF createTask, WriteQueued, WriteAudit, MarkAudit, CheckDenial, Deny, WriteDenial,
                CreateStep, CreateSteps
  <2>2. \/ StateKept(r)
        \/ state[r] = "incomplete" /\ state' = [state EXCEPT ![r] = "QUEUED"]
    <3>1. CASE WriteQueued(r)
      BY <3>1 DEF WriteQueued, CreateStep, StateKept, INITIAL_RUN_STATE, LInv, Launches
    <3>2. CASE Deny(r)
      BY <3>2 DEF Deny, CreateStep, StateKept, RUN_STATES, LInv, Launches
    <3>3. CASE WriteAudit(r) \/ MarkAudit(r) \/ CheckDenial(r) \/ WriteDenial(r)
      BY <3>3 DEF WriteAudit, MarkAudit, CheckDenial, WriteDenial, StateKept, store
    <3> QED BY <1>3, <3>1, <3>2, <3>3 DEF createTask
  <2>3. Announced => \A c \in Calls : pc[c] \notin {"idle", "done"} => run[c] # r
    BY <2>1 DEF LInv, Ownership
  <2>4. Accepting' <=> Accepting
    BY <1>1 DEF Accepting
  <2>5. \A q \in Runs : /\ Started(state[q]) => Started(state'[q])
                        /\ state[q] # "none" => state'[q] # "none"
                        /\ q # r => state'[q] = state[q]
                        /\ state[q] \in RUN_STATES => state'[q] \in RUN_STATES
    BY <2>2, StartedStays DEF Started, RUN_STATES
  <2>6. Ownership'
    BY <1>1, <2>1, <2>3, <2>4, <2>5 DEF LInv, Ownership, HoldsLock
  <2>7. \A c \in Calls : pc[c] \in {"prepare", "provision", "spawn"} =>
          run[c] \in Runs /\ (Announced => run[c] # r)
    BY <2>3 DEF LInv, Ownership
  <2>8. \A q \in Runs : cpc'[q] = "files" => cpc[q] = "files" /\ q # r
    BY <2>1
  <2>9. cpc'[r] \in Auditing =>
          state'[r] \in RUN_STATES /\ (Announced => state'[r] = "QUEUED")
    <3>1. CASE WriteQueued(r)
      BY <3>1 DEF WriteQueued, CreateStep, INITIAL_RUN_STATE, RUN_STATES
    <3>2. CASE ~WriteQueued(r)
      <4>1. cpc'[r] \in Auditing => cpc[r] \in Auditing /\ state' = state
        BY <1>3, <3>2 DEF createTask, WriteAudit, MarkAudit, CheckDenial, Deny, WriteDenial,
                          CreateStep, store
      <4> QED BY <4>1 DEF LInv, Launches
    <3> QED BY <3>1, <3>2
  <2>10. \A q \in Runs : cpc'[q] \in Auditing =>
           state'[q] \in RUN_STATES /\ (Announced => state'[q] = "QUEUED")
    BY <2>1, <2>5, <2>9 DEF LInv, Launches
  <2>11. \A c \in Calls : pc[c] = "prepare" =>
           state'[run[c]] \in RUN_STATES /\ (Announced => state'[run[c]] = "QUEUED")
    BY <2>5, <2>7 DEF LInv, Launches
  <2>12. Launches'
    BY <1>1, <2>5, <2>7, <2>8, <2>10, <2>11 DEF LInv, Launches, LaunchedAtMostOnce
  <2> QED BY <2>6, <2>12 DEF LInv
<1> QED BY <1>2, <1>3

LEMMA BeginStartInv ==
  ASSUME TypeOK, TypeOK', LInv, NEW c \in Calls, NEW r \in Runs, BeginStart(c, r),
         UNCHANGED <<boots, rec, failure, drainSet>>
  PROVE  LInv'
<1> USE DEF TypeOK, StoreTypeOK, OrchestratorTypeOK
<1>1. /\ daemon = "open" /\ state[r] # "none" /\ (Announced => cpc[r] = "idle")
      /\ pc[c] = "idle"
      /\ pc' = [pc EXCEPT ![c] = "lock"]
      /\ run' = [run EXCEPT ![c] = r]
      /\ UNCHANGED <<state, cpc, lock, daemon, rec, procRun>>
  BY DEF BeginStart, Step, store, procs, creates
<1>2. \A d \in Calls : /\ HoldsLock(d)' <=> HoldsLock(d)
                       /\ HoldsLock(d) => run'[d] = run[d]
  BY <1>1 DEF HoldsLock, Launching, Finishing
<1>3. Accepting /\ Accepting'
  BY <1>1 DEF Accepting
<1>4. Ownership'
  BY <1>1, <1>2, <1>3 DEF LInv, Ownership
<1>5. Launches'
  BY <1>1 DEF LInv, Launches, LaunchedAtMostOnce
<1> QED BY <1>4, <1>5 DEF LInv

LEMMA HolderOwns ==
  ASSUME Ownership, NEW c \in Calls, HoldsLock(c)
  PROVE  /\ pc[c] \notin {"idle", "done"} /\ run[c] \in Runs
         /\ \A d \in Calls \ {c} : HoldsLock(d) => run[d] # run[c]
         /\ Announced => cpc[run[c]] = "idle"
<1>1. pc[c] \notin {"idle", "done"}
  BY DEF HoldsLock, Launching, Finishing
<1> QED BY <1>1 DEF Ownership

(* The steps of a call that decide its lock and its launch. *)
LEMMA StartRunInv ==
  ASSUME TypeOK, TypeOK', LInv, NEW c \in Calls, startRun(c),
         UNCHANGED <<boots, rec, failure, drainSet>>
  PROVE  LInv'
<1> USE DEF TypeOK, StoreTypeOK, OrchestratorTypeOK
<1>1. UNCHANGED <<run, cpc, daemon, rec>> /\ (Accepting' <=> Accepting)
  BY DEF startRun, TakeLock, RunLocked, CheckPrepare, Prepare, Provision, Spawn, PersistPid,
         MarkRunning, Abandon, RecordFailure, FailStart, creates, Accepting
<1>2. pc[c] \notin {"idle", "done"} /\ run[c] \in Runs
  <2>1. pc[c] \notin {"idle", "done"}
    BY DEF startRun, TakeLock, RunLocked, CheckPrepare, Prepare, Provision, Spawn, PersistPid,
         MarkRunning, Abandon, RecordFailure, FailStart, Step
  <2> QED BY <2>1 DEF LInv, Ownership
<1>3. CASE TakeLock(c)
  <2>1. /\ pc' = [pc EXCEPT ![c] = "check"] /\ pc[c] = "lock"
        /\ ~lock[run[c]] /\ lock' = [lock EXCEPT ![run[c]] = TRUE]
        /\ UNCHANGED <<state, procRun>>
    BY <1>3 DEF TakeLock, Step, AcquireLock, procs
  <2>2. \A d \in Calls : HoldsLock(d) => run[d] # run[c]
    BY <2>1 DEF LInv, Ownership
  <2>3. \A d \in Calls : HoldsLock(d)' <=> HoldsLock(d) \/ d = c
    BY <2>1 DEF HoldsLock, Launching
  <2>4. Ownership'
    <3>1. \A d \in Calls : HoldsLock(d) => run[d] \in Runs
      BY HolderOwns DEF LInv
    <3>2. \A d \in Calls : HoldsLock(d)' => lock'[run[d]]
      BY <1>2, <2>1, <2>3, <3>1 DEF LInv, Ownership
    <3>3. \A d, e \in Calls : HoldsLock(d)' /\ HoldsLock(e)' /\ run[d] = run[e] => d = e
      <4> SUFFICES ASSUME NEW d \in Calls, NEW e \in Calls, HoldsLock(d)', HoldsLock(e)',
                          run[d] = run[e]
                   PROVE  d = e
        OBVIOUS
      <4>1. CASE HoldsLock(d) /\ HoldsLock(e)
        BY <4>1 DEF LInv, Ownership
      <4>2. CASE ~(HoldsLock(d) /\ HoldsLock(e))
        BY <2>2, <2>3, <4>2
      <4> QED BY <4>1, <4>2
    <3>4. \A d \in Calls : pc'[d] \notin {"idle", "done"} => pc[d] \notin {"idle", "done"}
      BY <2>1
    <3>5. ~Accepting' => \A d \in Calls : pc'[d] = "idle"
      BY <1>1, <1>2 DEF LInv, Ownership
    <3> QED BY <1>1, <2>1, <3>2, <3>3, <3>4, <3>5 DEF LInv, Ownership
  <2>5. Launches'
    BY <1>1, <2>1 DEF LInv, Launches, LaunchedAtMostOnce
  <2> QED BY <2>4, <2>5 DEF LInv
<1>4. CASE RunLocked(c)
  <2>1. /\ pc' = [pc EXCEPT ![c] = "done"] /\ pc[c] = "lock"
        /\ UNCHANGED <<state, procRun>>
        /\ \A d \in Calls : run[d] \in Runs /\ lock[run[d]] => lock'[run[d]]
    BY <1>4, <1>2 DEF RunLocked, AcquireFails, Step, procs
  <2>2. \A d \in Calls : HoldsLock(d)' <=> HoldsLock(d)
    BY <2>1 DEF HoldsLock, Launching, Finishing
  <2>3. \A d \in Calls : HoldsLock(d)' => lock'[run[d]]
    BY <2>1, <2>2, HolderOwns DEF LInv, Ownership
  <2>4. Ownership'
    BY <1>1, <2>1, <2>2, <2>3 DEF LInv, Ownership
  <2>5. Launches'
    BY <1>1, <2>1 DEF LInv, Launches, LaunchedAtMostOnce
  <2> QED BY <2>4, <2>5 DEF LInv
<1>5. CASE pc[c] = "check" /\ pc' = [pc EXCEPT ![c] = "prepare"] /\ CheckPrepare(c)
  <2>1. /\ state[run[c]] = "QUEUED" /\ UNCHANGED <<state, procRun, lock>>
        /\ \A p \in Pids : procRun[p] # run[c]
    <3>1. /\ state[run[c]] = "QUEUED" /\ UNCHANGED <<state, procRun, lock>>
      BY <1>5, <1>2 DEF CheckPrepare, Step, CanTransition, TRANSITIONS, RUN_STATES, store, procs
    <3> QED BY <1>2, <3>1, NoneAssumption DEF LInv, Launches, Started, NoneAssumption
  <2>2. \A d \in Calls : HoldsLock(d)' <=> HoldsLock(d)
    BY <1>5 DEF HoldsLock, Launching
  <2>3. Ownership'
    BY <1>1, <1>5, <2>1, <2>2 DEF LInv, Ownership
  <2>4. Launches'
    BY <1>1, <1>5, <2>1 DEF LInv, Launches, LaunchedAtMostOnce, RUN_STATES
  <2> QED BY <2>3, <2>4 DEF LInv
<1>6. ASSUME HoldsLock(c), NEW to \in {"provision", "spawn", "persist"},
             pc' = [pc EXCEPT ![c] = to], UNCHANGED lock,
             StateKept(run[c]), Started(state'[run[c]]),
             \/ UNCHANGED procRun /\ \A p \in Pids : procRun[p] # run[c]
             \/ /\ pc[c] = "spawn" /\ to = "persist"
                /\ \E p \in Pids : procRun' = [procRun EXCEPT ![p] = run[c]]
      PROVE  LInv'
  <2>1. \A d \in Calls : HoldsLock(d)' <=> HoldsLock(d)
    BY <1>6 DEF HoldsLock, Launching
  <2>2. \A q \in Runs : /\ Started(state[q]) => Started(state'[q])
                        /\ state[q] # "none" => state'[q] # "none"
                        /\ q # run[c] => state'[q] = state[q]
                        /\ state[q] \notin RUN_STATES => state'[q] = state[q]
                        /\ state[q] \in RUN_STATES => state'[q] \in RUN_STATES
    BY <1>2, <1>6, StartedStays
  <2>3. Ownership'
    BY <1>1, <1>2, <1>6, <2>1, <2>2 DEF LInv, Ownership
  <2>4. \A d \in Calls \ {c} : pc[d] \in {"prepare", "provision", "spawn"} =>
          run[d] \in Runs /\ run[d] # run[c]
    BY <1>6, HolderOwns DEF LInv, HoldsLock, Launching
  <2>5. /\ \A r \in Runs : cpc'[r] = "files" => state'[r] = "incomplete"
        /\ \A r \in Runs : cpc'[r] \in {"audit", "mark", "deny", "deny_write"} =>
             state'[r] \in RUN_STATES /\ (Announced => state'[r] = "QUEUED")
    <3>1. Announced => cpc[run[c]] = "idle"
      BY <1>6, HolderOwns DEF LInv
    <3> QED BY <1>1, <2>2, <3>1 DEF LInv, Launches, RUN_STATES
  <2>6. \A p \in Pids : procRun'[p] # NoRun => Started(state'[procRun'[p]])
    <3> SUFFICES ASSUME NEW p \in Pids, procRun'[p] # NoRun
                 PROVE  Started(state'[procRun'[p]])
      OBVIOUS
    <3>1. CASE procRun'[p] = run[c]
      BY <1>6, <3>1
    <3>2. CASE procRun'[p] # run[c]
      <4>1. procRun'[p] = procRun[p] /\ procRun[p] \in Runs
        BY <1>6, <3>2
      <4> QED BY <2>2, <4>1 DEF LInv, Launches
    <3> QED BY <3>1, <3>2
  <2>7. LaunchedAtMostOnce'
    <3>1. CASE UNCHANGED procRun
      BY <3>1 DEF LInv, Launches, LaunchedAtMostOnce
    <3>2. CASE pc[c] = "spawn" /\ \E p \in Pids : procRun' = [procRun EXCEPT ![p] = run[c]]
      <4>1. \A q \in Pids : procRun[q] # run[c]
        BY <3>2 DEF LInv, Launches
      <4> QED BY <3>2, <4>1 DEF LInv, Launches, LaunchedAtMostOnce
    <3> QED BY <1>6, <3>1, <3>2
  <2>8. \A d \in Calls : pc'[d] = "prepare" =>
          state'[run'[d]] \in RUN_STATES /\ (Announced => state'[run'[d]] = "QUEUED")
    BY <1>1, <1>6, <2>2, <2>4 DEF LInv, Launches
  <2>9. \A d \in Calls : pc'[d] \in {"prepare", "provision", "spawn"} =>
          /\ pc'[d] # "prepare" => Started(state'[run'[d]])
          /\ \A p \in Pids : procRun'[p] # run'[d]
    <3> SUFFICES ASSUME NEW d \in Calls, pc'[d] \in {"prepare", "provision", "spawn"}
                 PROVE  /\ pc'[d] # "prepare" => Started(state'[run[d]])
                        /\ \A p \in Pids : procRun'[p] # run[d]
      BY <1>1
    <3>1. CASE d = c
      BY <1>6, <3>1
    <3>2. CASE d # c
      <4>1. pc[d] = pc'[d] /\ run[d] \in Runs /\ run[d] # run[c]
        BY <1>6, <2>4, <3>2
      <4>2. /\ pc'[d] # "prepare" => Started(state[run[d]])
            /\ \A p \in Pids : procRun[p] # run[d]
        BY <4>1 DEF LInv, Launches
      <4> QED BY <1>6, <2>2, <4>1, <4>2
    <3> QED BY <3>1, <3>2
  <2> QED BY <2>3, <2>5, <2>6, <2>7, <2>8, <2>9 DEF LInv, Launches
<1>7. CASE Prepare(c) /\ pc'[c] = "provision"
  <2>1. /\ pc[c] = "prepare" /\ pc' = [pc EXCEPT ![c] = "provision"]
        /\ state' = [state EXCEPT ![run[c]] = "PREPARING"] /\ UNCHANGED <<lock, procRun>>
    BY <1>7 DEF Prepare, Step, procs
  <2>2. state[run[c]] \in RUN_STATES /\ \A p \in Pids : procRun[p] # run[c]
    BY <2>1 DEF LInv, Launches
  <2> QED BY <1>2, <1>6, <2>1, <2>2 DEF HoldsLock, Launching, StateKept, Started, RUN_STATES
<1>8. CASE Provision(c) /\ pc'[c] = "spawn"
  <2>1. pc[c] = "provision" /\ pc' = [pc EXCEPT ![c] = "spawn"] /\ UNCHANGED <<state, lock, procRun>>
    BY <1>8 DEF Provision, Step, procs, store
  <2> QED BY <1>6, <2>1 DEF LInv, Launches, HoldsLock, Launching, StateKept
<1>9. CASE Spawn(c) /\ pc'[c] = "persist"
  <2>1. /\ pc[c] = "spawn" /\ pc' = [pc EXCEPT ![c] = "persist"] /\ UNCHANGED <<state, lock>>
        /\ \E p \in Pids : procRun' = [procRun EXCEPT ![p] = run[c]]
    BY <1>9 DEF Spawn, Step, store
  <2>2. Started(state[run[c]]) /\ HoldsLock(c)
    BY <2>1 DEF LInv, Launches, HoldsLock, Launching
  <2> QED BY <1>6, <2>1, <2>2 DEF StateKept
<1>10. ASSUME HoldsLock(c), NEW to \in Settled, pc' = [pc EXCEPT ![c] = to],
              StateKept(run[c]), UNCHANGED <<lock, procRun>>
       PROVE  LInv'
  BY <1>1, <1>10, HolderStep
<1> USE DEF Settled, HoldsLock, Launching, Finishing, Step
<1>11. CASE CheckPrepare(c) /\ pc'[c] # "prepare"
  BY <1>10, <1>11 DEF CheckPrepare, store, procs, StateKept
<1>12. CASE Prepare(c) /\ pc'[c] # "provision"
  <2>1. pc[c] = "prepare" /\ pc' = [pc EXCEPT ![c] = "unlock_start"] /\ UNCHANGED <<lock, procRun>>
    BY <1>12 DEF Prepare, procs
  <2>2. StateKept(run[c])
    BY <1>12, <2>1 DEF Prepare, StateKept, RUN_STATES, LInv, Launches
  <2> QED BY <1>10, <2>1, <2>2
<1>13. CASE Provision(c) /\ pc'[c] # "spawn"
  BY <1>10, <1>13 DEF Provision, store, procs, StateKept
<1>14. CASE Spawn(c) /\ pc'[c] # "persist"
  <2>1. pc[c] = "spawn" /\ pc' = [pc EXCEPT ![c] = "fail"] /\ UNCHANGED <<state, lock, procRun>>
    BY <1>14 DEF Spawn, store, procs
  <2> QED BY <1>10, <2>1 DEF StateKept
<1>15. CASE PersistPid(c)
  BY <1>10, <1>15 DEF PersistPid, StateKept
<1>16. CASE MarkRunning(c)
  BY <1>10, <1>16, TransitionKept DEF MarkRunning, RUN_STATES
<1>17. CASE Abandon(c)
  BY <1>10, <1>17 DEF Abandon, store, procs, StateKept
<1>18. CASE RecordFailure(c)
  BY <1>10, <1>18 DEF RecordFailure, procs, StateKept
<1>19. CASE FailStart(c)
  BY <1>10, <1>19, TransitionKept DEF FailStart, TryTransition, procs, RUN_STATES
<1> QED BY <1>3, <1>4, <1>5, <1>7, <1>8, <1>9, <1>11, <1>12, <1>13, <1>14, <1>15, <1>16,
           <1>17, <1>18, <1>19 DEF startRun, CheckPrepare

LEMMA FinalizeInv ==
  ASSUME TypeOK, TypeOK', LInv, NEW c \in Calls, finalize(c),
         UNCHANGED <<boots, rec, failure, drainSet>>
  PROVE  LInv'
<1> USE DEF TypeOK, StoreTypeOK, OrchestratorTypeOK
<1>1. UNCHANGED <<run, cpc, daemon, lock, procRun>>
  BY DEF finalize, Collect, CompletionRejects, Ingest, MarkIngested, Conclude, Validate,
         RecordResult, Terminate, Forget, store, procs, creates
<1>2. /\ pc[c] \in Finishing
      /\ \E to \in Finishing : pc' = [pc EXCEPT ![c] = to]
  BY DEF finalize, Collect, CompletionRejects, Ingest, MarkIngested, Conclude, Validate,
         RecordResult, Terminate, Forget, Step, Finishing
<1>3. StateKept(run[c])
  <2>1. CASE Validate(c)
    BY <2>1, TransitionKept DEF Validate, RUN_STATES
  <2>2. CASE Terminate(c)
    BY <2>2, TransitionKept DEF Terminate, TryTransition, TargetState, RUN_STATES
  <2>3. CASE ~Validate(c) /\ ~Terminate(c)
    BY <2>3 DEF finalize, Collect, CompletionRejects, Ingest, MarkIngested, Conclude,
                RecordResult, Forget, store, StateKept
  <2> QED BY <2>1, <2>2, <2>3
<1>4. Finishing \subseteq Settled
  BY DEF Finishing, Settled, Launching
<1> QED BY <1>1, <1>2, <1>3, <1>4, HolderStep DEF HoldsLock

LEMMA UnlockInv ==
  ASSUME TypeOK, TypeOK', LInv, NEW c \in Calls, Unlock(c),
         UNCHANGED <<boots, rec, failure, drainSet>>
  PROVE  LInv'
<1> USE DEF TypeOK, StoreTypeOK, OrchestratorTypeOK
<1>1. /\ HoldsLock(c) /\ pc' = [pc EXCEPT ![c] = "done"]
      /\ lock' \in {lock, [lock EXCEPT ![run[c]] = FALSE]}
      /\ UNCHANGED <<state, run, cpc, daemon, procRun>>
  BY DEF Unlock, Step, ReleaseLock, ReleaseLockFails, procs, creates, HoldsLock, Launching,
         Finishing
<1>2. \A d \in Calls : HoldsLock(d)' <=> HoldsLock(d) /\ d # c
  BY <1>1 DEF HoldsLock, Launching, Finishing
<1>3. \A d \in Calls : HoldsLock(d)' => lock'[run[d]]
  BY <1>1, <1>2, HolderOwns DEF LInv, Ownership
<1>4. ~Accepting' => \A d \in Calls : pc'[d] = "idle"
  BY <1>1, HolderOwns DEF LInv, Ownership, Accepting
<1>5. \A d \in Calls : pc'[d] \notin {"idle", "done"} => pc[d] \notin {"idle", "done"}
  BY <1>1
<1>6. Ownership'
  BY <1>1, <1>2, <1>3, <1>4, <1>5 DEF LInv, Ownership, Accepting
<1>7. Launches'
  BY <1>1 DEF LInv, Launches, LaunchedAtMostOnce
<1> QED BY <1>6, <1>7 DEF LInv

(* Cancels and worker exits touch nothing the invariant speaks of. *)
LEMMA UntouchedInv ==
  ASSUME LInv, UNCHANGED <<state, lock, pc, run, cpc, daemon, rec, procRun>>
  PROVE  LInv'
BY DEF LInv, Ownership, Launches, LaunchedAtMostOnce, HoldsLock, Accepting

LEMMA RecoverInv ==
  ASSUME TypeOK, TypeOK', LInv, recoverRuns
  PROVE  LInv'
<1> USE DEF TypeOK, StoreTypeOK, OrchestratorTypeOK
<1>1. UNCHANGED <<pc, run, cpc, procRun>>
  BY DEF recoverRuns, RecoverInspect, RecoverStop, RecoverOrphan, RecoverDone, orchestrator,
         calls, creates, procs
<1>2. daemon = "recovering"
  BY DEF recoverRuns, RecoverInspect, RecoverStop, RecoverOrphan, RecoverDone, RecoverStep,
         LInv, Ownership
<1>3. /\ \A c \in Calls : pc[c] = "idle" /\ ~HoldsLock(c)
      /\ \A r \in Runs : cpc[r] = "idle"
  BY <1>2 DEF LInv, Ownership, Accepting, HoldsLock, Launching, Finishing
<1>4. daemon' # "recovering" => \A r \in Runs : rec'[r] = "settled"
  BY <1>2 DEF recoverRuns, RecoverInspect, RecoverStop, RecoverOrphan, RecoverDone
<1>5. \A q \in Runs : /\ Started(state[q]) => Started(state'[q])
                      /\ state[q] # "none" => state'[q] # "none"
  <2>1. ASSUME NEW r \in Runs, RecoverOrphan(r) PROVE StateKept(r)
    BY <2>1, TransitionKept DEF RecoverOrphan, RUN_STATES
  <2>2. CASE UNCHANGED state
    BY <2>2
  <2>3. CASE ~UNCHANGED state
    BY <2>1, <2>3, StartedStays
       DEF recoverRuns, RecoverInspect, RecoverStop, RecoverDone, store
  <2> QED BY <2>2, <2>3
<1>6. Ownership'
  BY <1>1, <1>3, <1>4 DEF LInv, Ownership, HoldsLock
<1>7. Launches'
  BY <1>1, <1>3, <1>5 DEF LInv, Launches, LaunchedAtMostOnce
<1> QED BY <1>6, <1>7 DEF LInv

LEMMA LifeInv ==
  ASSUME TypeOK, TypeOK', LInv, Boot \/ Signal \/ DrainSnapshot \/ Exit \/ Crash
  PROVE  LInv'
<1> USE DEF TypeOK, StoreTypeOK, OrchestratorTypeOK
<1>1. CASE Boot \/ Signal \/ DrainSnapshot
  <2>1. UNCHANGED <<state, lock, pc, run, cpc, procRun>>
    BY <1>1 DEF Boot, Signal, DrainSnapshot, store, orchestrator, calls, creates, procs
  <2>2. Accepting' <=> Accepting
    BY <1>1 DEF Boot, Signal, DrainSnapshot, Accepting, Off
  <2>3. daemon' # "recovering" => \A r \in Runs : rec'[r] = "settled"
    BY <1>1 DEF Boot, Signal, DrainSnapshot, LInv, Ownership
  <2> QED BY <2>1, <2>2, <2>3 DEF LInv, Ownership, Launches, LaunchedAtMostOnce, HoldsLock
<1>2. ASSUME NEW to \in Off, Vanish(to) PROVE LInv'
  <2>1. /\ \A c \in Calls : pc'[c] = "idle"
        /\ \A r \in Runs : cpc'[r] = "idle" /\ rec'[r] = "settled"
        /\ UNCHANGED <<state, procRun>>
    BY <1>2 DEF Vanish, store
  <2> QED BY <2>1 DEF LInv, Ownership, Launches, LaunchedAtMostOnce, HoldsLock, Launching,
                      Finishing
<1> QED BY <1>1, <1>2 DEF Exit, Crash, Off

LEMMA LaunchInductive == Spec => [](TypeOK /\ LInv)
<1>1. TypeOK /\ TypeOK' /\ LInv /\ [Next]_vars => LInv'
  <2> SUFFICES ASSUME TypeOK, TypeOK', LInv, [Next]_vars PROVE LInv'
    OBVIOUS
  <2>1. CASE Orchestrate
    <3>1. ASSUME NEW r \in Runs, CancelRun(r) \/ CancelReply(r) PROVE LInv'
      BY <2>1, <3>1, UntouchedInv
         DEF Orchestrate, CancelRun, CancelReply, store, calls, procs, creates
    <3>2. ASSUME NEW p \in Pids, WorkerEnds(p) \/ StrayEnds(p) PROVE LInv'
      BY <2>1, <3>2, UntouchedInv DEF Orchestrate, WorkerEnds, StrayEnds, store, calls, creates
    <3> QED BY <2>1, <3>1, <3>2, CreateTaskInv, BeginStartInv, StartRunInv, FinalizeInv,
               UnlockInv DEF Orchestrate
  <2>2. CASE recoverRuns
    BY <2>2, RecoverInv
  <2>3. CASE Boot \/ Signal \/ DrainSnapshot \/ Exit \/ Crash
    BY <2>3, LifeInv
  <2>4. CASE UNCHANGED vars
    BY <2>4, UntouchedInv DEF vars, store, orchestrator, calls, procs, creates
  <2> QED BY <2>1, <2>2, <2>3, <2>4 DEF Next
<1> QED BY InitInv, TypeCorrect, <1>1, PTL DEF Spec

(* At most one worker is ever launched for a run: however many starts race, *)
(* whatever writes fail, and whenever the daemon dies and comes back        *)
(* (#startWithLock, #startLocked, recoverRuns).  Nothing is asked of the    *)
(* callers: a start may come in the middle of the run's createTask.         *)
THEOREM OneLaunch == Spec => []LaunchedAtMostOnce
<1>1. TypeOK /\ LInv => LaunchedAtMostOnce
  BY DEF LInv, Launches
<1> QED BY <1>1, LaunchInductive, PTL

(* The run lock admits one startRun call at a time to a run, and recovery   *)
(* works on no run a start or a createTask is at work on, whoever calls and *)
(* whatever crashed (#startWithLock, acquireLock, recoverRuns).             *)
THEOREM HoldersAlone == Spec => []HolderIsAlone
<1>1. TypeOK /\ LInv => HolderIsAlone
  <2> SUFFICES ASSUME TypeOK, LInv PROVE HolderIsAlone
    OBVIOUS
  <2>1. \A c \in Calls : HoldsLock(c) => Accepting
    BY DEF LInv, Ownership, HoldsLock, Launching, Finishing
  <2>2. \A r \in Runs : cpc[r] # "idle" => Accepting
    BY DEF LInv, Ownership
  <2>3. Accepting => \A r \in Runs : rec[r] = "settled"
    BY DEF Accepting, LInv, Ownership
  <2>4. \A c \in Calls : HoldsLock(c) => run[c] \in Runs /\ lock[run[c]]
    BY HolderOwns DEF LInv, Ownership
  <2> QED BY <2>1, <2>2, <2>3, <2>4 DEF HolderIsAlone, LInv, Ownership
<1> QED BY <1>1, LaunchInductive, PTL

(* With callers that wait for createTask, the rest of the invariant too: a  *)
(* start that is under way then has no createTask beside it.                *)
LEMMA Inductive ==
  ASSUME Announced
  PROVE  Spec => [](TypeOK /\ IInv)
<1>1. TypeOK /\ LInv => TypeOK /\ IInv
  BY DEF IInv, LInv
<1> QED BY <1>1, LaunchInductive, PTL

-----------------------------------------------------------------------------
(* Outcomes are final. *)

(* The only actions that write state.json, and the only ones that write     *)
(* result.json.                                                             *)
StateWriter ==
  \/ \E r \in Runs : BeginCreate(r) \/ WriteQueued(r) \/ Deny(r) \/ RecoverOrphan(r)
  \/ \E c \in Calls : Prepare(c) \/ MarkRunning(c) \/ FailStart(c) \/ Validate(c) \/ Terminate(c)

ResultWriter ==
  \/ \E r \in Runs : WriteDenial(r)
  \/ \E c \in Calls : RecordFailure(c) \/ RecordResult(c)

LEMMA Writers ==
  ASSUME [Next]_vars
  PROVE  /\ StateWriter \/ UNCHANGED state
         /\ ResultWriter \/ UNCHANGED result
<1> USE DEF store, StateWriter, ResultWriter
<1>1. ASSUME NEW r \in Runs, createTask(r)
      PROVE  (StateWriter \/ UNCHANGED state) /\ (ResultWriter \/ UNCHANGED result)
  BY <1>1 DEF createTask, BeginCreate, WriteQueued, WriteAudit, MarkAudit, CheckDenial, Deny,
              WriteDenial
<1>2. ASSUME NEW c \in Calls, startRun(c)
      PROVE  (StateWriter \/ UNCHANGED state) /\ (ResultWriter \/ UNCHANGED result)
  BY <1>2 DEF startRun, TakeLock, RunLocked, CheckPrepare, Prepare, Provision, Spawn, PersistPid,
              MarkRunning, Abandon, RecordFailure, FailStart
<1>3. ASSUME NEW c \in Calls, finalize(c) \/ Unlock(c)
      PROVE  (StateWriter \/ UNCHANGED state) /\ (ResultWriter \/ UNCHANGED result)
  BY <1>3 DEF finalize, Collect, CompletionRejects, Ingest, MarkIngested, Conclude, Validate,
              RecordResult, Terminate, Forget, Unlock
<1>4. CASE recoverRuns
  BY <1>4 DEF recoverRuns, RecoverInspect, RecoverStop, RecoverOrphan, RecoverDone
<1>5. CASE \/ Boot \/ Signal \/ DrainSnapshot \/ Exit \/ Crash \/ UNCHANGED vars
           \/ \E c \in Calls, r \in Runs : BeginStart(c, r)
           \/ \E r \in Runs : CancelRun(r) \/ CancelReply(r)
           \/ \E p \in Pids : WorkerEnds(p) \/ StrayEnds(p)
  BY <1>5 DEF Boot, Signal, DrainSnapshot, Exit, Crash, Vanish, BeginStart, CancelRun,
              CancelReply, WorkerEnds, StrayEnds, vars
<1> QED BY <1>1, <1>2, <1>3, <1>4, <1>5 DEF Next, Orchestrate

LEMMA TerminalStays ==
  ASSUME state \in [Runs -> StateFile], NEW r, NEW to,
         TransitionState(r, to) \/ TransitionFails(r, to),
         NEW q \in Runs, state[q] \in TERMINAL_RUN_STATES
  PROVE  state'[q] = state[q]
<1>1. \A s \in TERMINAL_RUN_STATES : ~CanTransition(s, to)
  <2>1. \A s \in TERMINAL_RUN_STATES : s \in RUN_STATES /\ TRANSITIONS[s] = {}
    BY DEF TRANSITIONS, TERMINAL_RUN_STATES, RUN_STATES
  <2> QED BY <2>1 DEF CanTransition
<1> QED BY <1>1 DEF TransitionState, TransitionFails

(* A run that left QUEUED never returns to it, and a terminal run never     *)
(* leaves its state.                                                        *)
LEMMA StatesAdvance ==
  ASSUME TypeOK, IInv, [Next]_vars, NEW q \in Runs
  PROVE  /\ Started(state[q]) => Started(state'[q])
         /\ state[q] \in TERMINAL_RUN_STATES => state'[q] = state[q]
<1> USE DEF TypeOK, StoreTypeOK, OrchestratorTypeOK, Started
<1>1. ASSUME NEW r, NEW to \in RUN_STATES \ {"QUEUED"},
             TransitionState(r, to) \/ TransitionFails(r, to)
      PROVE  /\ Started(state[q]) => Started(state'[q])
             /\ state[q] \in TERMINAL_RUN_STATES => state'[q] = state[q]
  <2>1. Started(state[q]) => Started(state'[q])
    BY <1>1 DEF TransitionState, TransitionFails, RUN_STATES
  <2> QED BY <1>1, <2>1, TerminalStays
<1>2. ASSUME NEW r \in Runs, BeginCreate(r) \/ WriteQueued(r)
      PROVE  q # r \/ state' = state => state'[q] = state[q]
  BY <1>2 DEF BeginCreate, WriteQueued
<1>3. ASSUME NEW r \in Runs, BeginCreate(r) \/ WriteQueued(r)
      PROVE  state[r] \in {"none", "incomplete"}
  BY <1>3 DEF BeginCreate, WriteQueued, CreateStep, IInv, Launches
<1>4. ASSUME NEW r \in Runs, RecoverOrphan(r)
      PROVE  \E to \in RUN_STATES \ {"QUEUED"} : TransitionState(r, to) \/ TransitionFails(r, to)
  BY <1>4 DEF RecoverOrphan, RUN_STATES
<1>7. ASSUME NEW r \in Runs, Deny(r)
      PROVE  /\ Started(state[q]) => Started(state'[q])
             /\ state[q] \in TERMINAL_RUN_STATES => state'[q] = state[q]
  <2>1. state[r] = "QUEUED" /\ state' \in {state, [state EXCEPT ![r] = "FAILED"]}
    BY <1>7 DEF Deny, CreateStep, IInv, Launches
  <2> QED BY <2>1 DEF TERMINAL_RUN_STATES
<1>5. ASSUME NEW c \in Calls, MarkRunning(c) \/ FailStart(c) \/ Validate(c) \/ Terminate(c)
      PROVE  \E to \in RUN_STATES \ {"QUEUED"} :
               TransitionState(run[c], to) \/ TransitionFails(run[c], to)
  BY <1>5 DEF MarkRunning, FailStart, Validate, Terminate, TryTransition, TargetState, RUN_STATES
<1>6. ASSUME NEW c \in Calls, Prepare(c)
      PROVE  /\ Started(state[q]) => Started(state'[q])
             /\ state[q] \in TERMINAL_RUN_STATES => state'[q] = state[q]
  <2>1. state[run[c]] = "QUEUED"
    BY <1>6 DEF Prepare, Step, IInv, Launches
  <2>2. state' = state \/ state' = [state EXCEPT ![run[c]] = "PREPARING"]
    BY <1>6 DEF Prepare
  <2> QED BY <2>1, <2>2 DEF TERMINAL_RUN_STATES
<1> QED BY <1>1, <1>2, <1>3, <1>4, <1>5, <1>6, <1>7, Writers DEF StateWriter, TERMINAL_RUN_STATES

LEMMA TableStep ==
  ASSUME TypeOK, IInv, [Next]_vars, NEW q \in Runs,
         state[q] \in RUN_STATES, state'[q] # state[q]
  PROVE  CanTransition(state[q], state'[q])
<1> USE DEF TypeOK, StoreTypeOK
<1>1. ASSUME NEW r, NEW to, TransitionState(r, to) \/ TransitionFails(r, to)
      PROVE  CanTransition(state[q], state'[q])
  BY <1>1 DEF TransitionState, TransitionFails
<1>2. CanTransition("QUEUED", "FAILED") /\ CanTransition("QUEUED", "PREPARING")
  BY DEF CanTransition, TRANSITIONS, RUN_STATES
<1>3. ASSUME NEW r \in Runs, Deny(r) PROVE CanTransition(state[q], state'[q])
  <2>1. state[r] = "QUEUED" /\ state' \in {state, [state EXCEPT ![r] = "FAILED"]}
    BY <1>3 DEF Deny, CreateStep, IInv, Launches
  <2> QED BY <1>2, <2>1
<1>4. ASSUME NEW c \in Calls, Prepare(c) PROVE CanTransition(state[q], state'[q])
  <2>1. state[run[c]] = "QUEUED" /\ state' \in {state, [state EXCEPT ![run[c]] = "PREPARING"]}
    BY <1>4 DEF Prepare, Step, IInv, Launches
  <2> QED BY <1>2, <2>1
<1>5. ASSUME NEW r \in Runs PROVE ~BeginCreate(r) /\ ~WriteQueued(r)
  <2>1. BeginCreate(r) \/ WriteQueued(r) => state[r] \in {"none", "incomplete"}
    BY DEF BeginCreate, WriteQueued, CreateStep, IInv, Launches
  <2>2. BeginCreate(r) \/ WriteQueued(r) => r = q
    BY DEF BeginCreate, WriteQueued
  <2> QED BY <2>1, <2>2 DEF RUN_STATES
<1>6. CASE \E r \in Runs : RecoverOrphan(r)
  BY <1>1, <1>6 DEF RecoverOrphan
<1>7. CASE \E c \in Calls : MarkRunning(c) \/ FailStart(c) \/ Validate(c) \/ Terminate(c)
  BY <1>1, <1>7 DEF MarkRunning, FailStart, Validate, Terminate, TryTransition
<1> QED BY <1>3, <1>4, <1>5, <1>6, <1>7, Writers DEF StateWriter

(* If callers start only runs whose createTask has ended, state.json moves  *)
(* only along the table, although the table is consulted before the write   *)
(* and not with it (transitionState).  early_start shows the callers are    *)
(* needed for it.                                                           *)
THEOREM TableKept ==
  ASSUME Announced
  PROVE  Spec => StatesFollowTable
<1> DEFINE Kept == \A r \in Runs : state[r] \in RUN_STATES /\ state'[r] # state[r] =>
                     CanTransition(state[r], state'[r])
<1>1. TypeOK /\ IInv /\ [Next]_vars => [Kept]_state
  BY TableStep
<1> QED BY <1>1, Inductive, PTL DEF Spec, StatesFollowTable, Kept

-----------------------------------------------------------------------------
(* A run is answered once.  Up to the step that writes its result, a call   *)
(* or createTask has a run without one, and only a run that has left QUEUED *)
(* can have one.                                                            *)
Unanswered == {"provision", "spawn", "persist", "launch", "abandon", "fail", "supervise",
               "ingest", "mark", "conclude", "validate", "result"}

Answers ==
  /\ \A r \in Runs : ~Started(state[r]) => result[r] = "none"
  /\ \A c \in Calls : pc[c] \in Unanswered =>
       Started(state[run[c]]) /\ result[run[c]] = "none"
  /\ \A r \in Runs : cpc[r] \in {"audit", "mark", "deny", "deny_write", "deny_result"} =>
       result[r] = "none"
  /\ \A r \in Runs : cpc[r] = "deny_result" => Started(state[r])

LEMMA CallsAdvance ==
  ASSUME TypeOK, IInv, [Next]_vars, NEW c \in Calls, pc'[c] \in Unanswered
  PROVE  /\ run'[c] = run[c]
         /\ \/ pc[c] \in Unanswered
            \/ pc[c] = "prepare" /\ Started(state'[run[c]])
<1> USE DEF TypeOK, StoreTypeOK, OrchestratorTypeOK, calls, Step, Unanswered
<1>1. ASSUME NEW d \in Calls, startRun(d)
      PROVE  /\ run' = run
             /\ \/ pc'[c] = pc[c]
                \/ pc[c] \in Unanswered
                \/ pc[c] = "prepare" /\ Started(state'[run[c]])
  <2>1. CASE Prepare(d)
    <3>1. run[d] \in Runs
      BY <2>1 DEF Prepare, IInv, Ownership
    <3>2. CASE pc' = [pc EXCEPT ![d] = "provision"]
      BY <2>1, <3>1, <3>2 DEF Prepare, Started
    <3>3. CASE pc' = [pc EXCEPT ![d] = "unlock_start"]
      BY <2>1, <3>3 DEF Prepare
    <3> QED BY <2>1, <3>2, <3>3 DEF Prepare
  <2>2. CASE ~Prepare(d)
    BY <1>1, <2>2 DEF startRun, TakeLock, RunLocked, CheckPrepare, Provision, Spawn,
                      PersistPid, MarkRunning, Abandon, RecordFailure, FailStart
  <2> QED BY <2>1, <2>2
<1>2. ASSUME NEW d \in Calls, finalize(d) \/ Unlock(d)
      PROVE  run' = run /\ (pc'[c] = pc[c] \/ pc[c] \in Unanswered)
  BY <1>2 DEF finalize, Collect, CompletionRejects, Ingest, MarkIngested, Conclude, Validate,
              RecordResult, Terminate, Forget, Unlock
<1>3. ASSUME NEW d \in Calls, NEW r \in Runs, BeginStart(d, r)
      PROVE  pc'[c] = pc[c] /\ run'[c] = run[c]
  BY <1>3 DEF BeginStart
<1>4. ~Exit /\ ~Crash
  BY DEF Exit, Crash, Vanish
<1>5. CASE \/ Boot \/ recoverRuns \/ Signal \/ DrainSnapshot \/ UNCHANGED vars
           \/ \E r \in Runs : createTask(r) \/ CancelRun(r) \/ CancelReply(r)
           \/ \E p \in Pids : WorkerEnds(p) \/ StrayEnds(p)
  <2>1. UNCHANGED calls
    BY <1>5 DEF Boot, recoverRuns, RecoverInspect, RecoverStop, RecoverOrphan, RecoverDone,
                Signal, DrainSnapshot, vars, createTask, BeginCreate, WriteQueued, WriteAudit,
                MarkAudit, CheckDenial, Deny, WriteDenial, CancelRun, CancelReply, WorkerEnds,
                StrayEnds,
                orchestrator
  <2> QED BY <2>1
<1> QED BY <1>1, <1>2, <1>3, <1>4, <1>5 DEF Next, Orchestrate

LEMMA CreatesAdvance ==
  ASSUME TypeOK, IInv, [Next]_vars, NEW q \in Runs
  PROVE  /\ cpc'[q] \in {"audit", "mark", "deny", "deny_write", "deny_result"} =>
              cpc[q] \in {"files", "audit", "mark", "deny", "deny_write", "deny_result"}
         /\ cpc'[q] = "deny_result" => cpc[q] = "deny_result" \/ state'[q] = "FAILED"
<1> USE DEF TypeOK, StoreTypeOK, OrchestratorTypeOK, creates, CreateStep
<1>1. ASSUME NEW r \in Runs, createTask(r), ~Deny(r)
      PROVE  /\ cpc'[q] \in {"audit", "mark", "deny", "deny_write", "deny_result"} =>
                   cpc[q] \in {"files", "audit", "mark", "deny", "deny_write", "deny_result"}
             /\ cpc'[q] = "deny_result" => cpc[q] = "deny_result"
  BY <1>1 DEF createTask, BeginCreate, WriteQueued, WriteAudit, MarkAudit, CheckDenial,
              WriteDenial
<1>2. ASSUME NEW r \in Runs, Deny(r)
      PROVE  /\ cpc'[q] # "idle" => cpc[q] # "idle"
             /\ cpc[q] = "idle"
                  \/ cpc[q] \in {"files", "audit", "mark", "deny", "deny_write", "deny_result"}
             /\ cpc'[q] = "deny_result" => cpc[q] = "deny_result" \/ state'[q] = "FAILED"
  BY <1>2 DEF Deny, CreateSteps
<1>3. CASE Exit \/ Crash
  BY <1>3 DEF Exit, Crash, Vanish
<1>4. CASE \/ Boot \/ recoverRuns \/ Signal \/ DrainSnapshot \/ UNCHANGED vars
           \/ \E c \in Calls, r \in Runs : BeginStart(c, r)
           \/ \E r \in Runs : CancelRun(r) \/ CancelReply(r)
           \/ \E p \in Pids : WorkerEnds(p) \/ StrayEnds(p)
  BY <1>4 DEF Boot, recoverRuns, RecoverInspect, RecoverStop, RecoverOrphan, RecoverDone,
              Signal, DrainSnapshot, vars, BeginStart, CancelRun, CancelReply, WorkerEnds,
              StrayEnds, orchestrator
<1>5. ASSUME NEW c \in Calls, startRun(c) PROVE UNCHANGED cpc
  BY <1>5 DEF startRun, TakeLock, RunLocked, CheckPrepare, Prepare, Provision, Spawn, PersistPid,
              MarkRunning, Abandon, RecordFailure, FailStart
<1>6. ASSUME NEW c \in Calls, finalize(c) \/ Unlock(c) PROVE UNCHANGED cpc
  BY <1>6 DEF finalize, Collect, CompletionRejects, Ingest, MarkIngested, Conclude, Validate,
              RecordResult, Terminate, Forget, Unlock
<1> QED BY <1>1, <1>2, <1>3, <1>4, <1>5, <1>6 DEF Next, Orchestrate

LEMMA AnswersStep ==
  ASSUME TypeOK, TypeOK', IInv, Answers, [Next]_vars
  PROVE  /\ Answers'
         /\ \A r \in Runs : result[r] # "none" => result'[r] = result[r]
<1> USE DEF TypeOK, StoreTypeOK, OrchestratorTypeOK
<1>1. /\ \A r \in Runs : ~Started(state'[r]) => ~Started(state[r])
      /\ \A r \in Runs : cpc'[r] = "deny_result" => Started(state'[r])
  BY StatesAdvance, CreatesAdvance DEF Answers, Started
<1>2. \A c \in Calls : pc'[c] \in Unanswered =>
        /\ run'[c] = run[c] /\ run[c] \in Runs
        /\ Started(state'[run[c]]) /\ result[run[c]] = "none"
  <2> SUFFICES ASSUME NEW c \in Calls, pc'[c] \in Unanswered
               PROVE  /\ run'[c] = run[c] /\ run[c] \in Runs
                      /\ Started(state'[run[c]]) /\ result[run[c]] = "none"
    OBVIOUS
  <2>1. pc[c] \notin {"idle", "done"} /\ run'[c] = run[c] /\ run[c] \in Runs
    BY CallsAdvance DEF Unanswered, IInv, Ownership
  <2>2. CASE pc[c] \in Unanswered
    BY <2>1, <2>2, StatesAdvance DEF Answers
  <2>3. CASE pc[c] = "prepare" /\ Started(state'[run[c]])
    BY <2>1, <2>3 DEF Answers, IInv, Launches, Started
  <2> QED BY <2>1, <2>2, <2>3, CallsAdvance
<1>3. \A r \in Runs : cpc'[r] \in {"audit", "mark", "deny", "deny_write", "deny_result"} =>
        result[r] = "none"
  BY CreatesAdvance DEF Answers, IInv, Launches, Started
<1>4. CASE UNCHANGED result
  BY <1>1, <1>2, <1>3, <1>4 DEF Answers
<1>5. ASSUME NEW d \in Calls, RecordFailure(d) \/ RecordResult(d)
      PROVE  /\ Answers'
             /\ \A r \in Runs : result[r] # "none" => result'[r] = result[r]
  <2>1. /\ pc[d] \in Unanswered /\ pc'[d] \notin Unanswered /\ HoldsLock(d)
        /\ UNCHANGED <<state, cpc>>
        /\ \A c \in Calls \ {d} : pc'[c] = pc[c]
    BY <1>5 DEF RecordFailure, RecordResult, Step, Unanswered, HoldsLock, Launching, Finishing,
                creates
  <2>2. /\ Started(state[run[d]]) /\ result[run[d]] = "none" /\ run[d] \in Runs
        /\ cpc[run[d]] = "idle"
    BY <2>1, HolderOwns DEF Answers, IInv, Ownership
  <2>3. \A q \in Runs : q # run[d] => result'[q] = result[q]
    BY <1>5 DEF RecordFailure, RecordResult, WriteResult
  <2>4. \A c \in Calls : pc'[c] \in Unanswered => run[c] # run[d]
    <3> SUFFICES ASSUME NEW c \in Calls, pc'[c] \in Unanswered PROVE run[c] # run[d]
      OBVIOUS
    <3>1. c # d /\ pc[c] \in Unanswered
      BY <2>1
    <3>2. HoldsLock(c)
      BY <3>1 DEF Unanswered, HoldsLock, Launching, Finishing
    <3> QED BY <2>1, <3>1, <3>2, HolderOwns DEF IInv
  <2>5. \A r \in Runs : ~Started(state'[r]) => r # run[d]
    BY <2>1, <2>2
  <2>6. \A r \in Runs : cpc'[r] # "idle" => r # run[d]
    BY <2>1, <2>2
  <2> QED BY <1>1, <1>2, <1>3, <2>2, <2>3, <2>4, <2>5, <2>6 DEF Answers
<1>6. ASSUME NEW d \in Runs, WriteDenial(d)
      PROVE  /\ Answers'
             /\ \A r \in Runs : result[r] # "none" => result'[r] = result[r]
  <2>1. /\ cpc[d] = "deny_result" /\ cpc' = [cpc EXCEPT ![d] = "idle"]
        /\ UNCHANGED <<state, pc, run>>
    BY <1>6 DEF WriteDenial, CreateStep, calls
  <2>2. Started(state[d]) /\ result[d] = "none"
    BY <2>1 DEF Answers
  <2>3. \A q \in Runs : q # d => result'[q] = result[q]
    BY <1>6 DEF WriteDenial, WriteResult
  <2>4. \A c \in Calls : pc[c] \in Unanswered => run[c] # d
    BY <2>1 DEF IInv, Ownership, Unanswered
  <2> QED BY <1>1, <1>2, <1>3, <2>1, <2>2, <2>3, <2>4 DEF Answers
<1> QED BY <1>4, <1>5, <1>6, Writers DEF ResultWriter

LEMMA InitAnswers == Init => Answers
BY DEF Init, StoreInit, OrchestratorInit, Answers, Unanswered

(* If callers start only runs whose createTask has ended, neither a         *)
(* terminal state nor a result is ever rewritten: not by another start, a   *)
(* late finalisation, recovery, a later life of the daemon, or a            *)
(* writeResult that could not read the result that is there (the table of   *)
(* transitionState, one writer per run, one answer per run).                *)
THEOREM OutcomeFinal ==
  ASSUME Announced
  PROVE  Spec => OutcomeNeverRewritten
<1> DEFINE Kept ==
      \A r \in Runs : /\ state[r] \in TERMINAL_RUN_STATES => state'[r] = state[r]
                      /\ result[r] # "none" => result'[r] = result[r]
<1>1. TypeOK /\ TypeOK' /\ IInv /\ Answers /\ [Next]_vars => Answers' /\ [Kept]_<<state, result>>
  BY AnswersStep, StatesAdvance
<1> QED BY <1>1, TypeCorrect, Inductive, InitAnswers, PTL DEF Spec, OutcomeNeverRewritten, Kept

-----------------------------------------------------------------------------
(* Success is earned.  A call that spawned has a process of its run; once   *)
(* the pid is recorded, metadata.json names it; once it was collected, how  *)
(* it ended no longer changes; and until the call has terminated its run,   *)
(* the run has not succeeded.                                               *)
Ended == {"ingest", "mark", "conclude", "validate", "result", "terminal"}
Recorded == Ended \cup {"launch", "supervise"}
Spawned == Recorded \cup {"persist", "abandon"}
Unsettled == Unanswered \cup {"fail_state", "terminal"}

Earned ==
  /\ \A c \in Calls : pc[c] \in Spawned =>
       hnd[c] \in Pids /\ procRun[hnd[c]] = run[c] /\ proc[hnd[c]] # "unused"
  /\ \A c \in Calls : pc[c] \in Recorded => pidOf[run[c]] = hnd[c]
  /\ \A c \in Calls : pc[c] \in Ended => proc[hnd[c]] # "alive"
  /\ \A c \in Calls : pc[c] = "terminal" =>
       result[run[c]] \in {"none", TargetResult(proc[hnd[c]])}
  /\ \A c \in Calls : pc[c] \in Unsettled => state[run[c]] # "SUCCEEDED"
  /\ \A r \in Runs : cpc[r] = "deny_result" => state[r] = "FAILED"
  /\ SuccessIsEarned

LEMMA InitEarned == Init => Earned
BY DEF Init, StoreInit, OrchestratorInit, Earned, SuccessIsEarned, Ended, Recorded, Spawned,
       Unsettled, Unanswered

(* Only its own steps move a call that is under way. *)
LEMMA CallMoves ==
  ASSUME TypeOK, [Next]_vars, NEW c \in Calls, pc'[c] \in Unsettled
  PROVE  /\ run'[c] = run[c]
         /\ pc[c] \in Unsettled \cup {"prepare"}
         /\ (pc'[c] = pc[c] /\ hnd'[c] = hnd[c]) \/ startRun(c) \/ finalize(c)
<1> USE DEF TypeOK, OrchestratorTypeOK, calls, Step, Unsettled, Unanswered
<1>1. ASSUME NEW d \in Calls, startRun(d)
      PROVE  /\ run' = run
             /\ pc[c] \in Unsettled \cup {"prepare"}
             /\ d # c => pc'[c] = pc[c] /\ hnd'[c] = hnd[c]
  BY <1>1 DEF startRun, TakeLock, RunLocked, CheckPrepare, Prepare, Provision, Spawn, PersistPid,
              MarkRunning, Abandon, RecordFailure, FailStart
<1>2. ASSUME NEW d \in Calls, finalize(d) \/ Unlock(d)
      PROVE  /\ run' = run
             /\ pc[c] \in Unsettled
             /\ d # c \/ Unlock(d) => pc'[c] = pc[c] /\ hnd'[c] = hnd[c]
  BY <1>2 DEF finalize, Collect, CompletionRejects, Ingest, MarkIngested, Conclude, Validate,
              RecordResult, Terminate, Forget, Unlock
<1>3. ASSUME NEW d \in Calls, NEW r \in Runs, BeginStart(d, r)
      PROVE  pc'[c] = pc[c] /\ run'[c] = run[c] /\ hnd'[c] = hnd[c]
  BY <1>3 DEF BeginStart
<1>4. ~Exit /\ ~Crash
  BY DEF Exit, Crash, Vanish
<1>5. CASE \/ Boot \/ recoverRuns \/ Signal \/ DrainSnapshot \/ UNCHANGED vars
           \/ \E r \in Runs : createTask(r) \/ CancelRun(r) \/ CancelReply(r)
           \/ \E p \in Pids : WorkerEnds(p) \/ StrayEnds(p)
  BY <1>5 DEF Boot, recoverRuns, RecoverInspect, RecoverStop, RecoverOrphan, RecoverDone,
              Signal, DrainSnapshot, vars, createTask, BeginCreate, WriteQueued, WriteAudit,
              MarkAudit, CheckDenial, Deny, WriteDenial, CancelRun, CancelReply, WorkerEnds,
              StrayEnds,
              orchestrator
<1> QED BY <1>1, <1>2, <1>3, <1>4, <1>5 DEF Next, Orchestrate

(* A process keeps its run, and how it ended. *)
LEMMA ProcsAdvance ==
  ASSUME TypeOK, [Next]_vars, NEW p \in Pids, proc[p] # "unused"
  PROVE  /\ procRun'[p] = procRun[p]
         /\ proc'[p] # "unused"
         /\ proc[p] # "alive" => proc'[p] = proc[p]
<1> USE DEF TypeOK, OrchestratorTypeOK, procs
<1>1. ASSUME NEW c \in Calls, startRun(c)
      PROVE  procRun'[p] = procRun[p] /\ proc'[p] = proc[p]
  BY <1>1 DEF startRun, TakeLock, RunLocked, CheckPrepare, Prepare, Provision, Spawn, PersistPid,
              MarkRunning, Abandon, RecordFailure, FailStart
<1>2. ASSUME NEW c \in Calls, finalize(c) \/ Unlock(c)
      PROVE  UNCHANGED <<proc, procRun>>
  BY <1>2 DEF finalize, Collect, CompletionRejects, Ingest, MarkIngested, Conclude, Validate,
              RecordResult, Terminate, Forget, Unlock
<1>3. ASSUME NEW q \in Pids, WorkerEnds(q) \/ StrayEnds(q)
      PROVE  /\ UNCHANGED procRun
             /\ proc'[p] # "unused"
             /\ proc[p] # "alive" => proc'[p] = proc[p]
  <2>1. Outcomes \cap {"unused", "alive"} = {}
    BY DEF Outcomes, CleanExits, Forced
  <2>2. \E o : proc' = [proc EXCEPT ![q] = o] /\ o # "unused"
    BY <1>3, <2>1, EndingsAssumption DEF WorkerEnds, StrayEnds, EndingsAssumption, Outcomes
  <2> QED BY <1>3, <2>2 DEF WorkerEnds, StrayEnds
<1>4. CASE recoverRuns
  BY <1>4 DEF recoverRuns, RecoverInspect, RecoverStop, RecoverOrphan, RecoverDone, orchestrator
<1>5. CASE \/ Boot \/ Signal \/ DrainSnapshot \/ Exit \/ Crash \/ UNCHANGED vars
           \/ \E r \in Runs : createTask(r) \/ CancelRun(r) \/ CancelReply(r)
           \/ \E c \in Calls, r \in Runs : BeginStart(c, r)
  BY <1>5 DEF Boot, Signal, DrainSnapshot, Exit, Crash, Vanish, vars, createTask, BeginCreate,
              WriteQueued, WriteAudit, MarkAudit, CheckDenial, Deny, WriteDenial, CancelRun,
              CancelReply,
              BeginStart, orchestrator
<1> QED BY <1>1, <1>2, <1>3, <1>4, <1>5 DEF Next, Orchestrate

(* The pid in metadata.json is written by PersistPid alone. *)
LEMMA PidWriter ==
  ASSUME [Next]_vars
  PROVE  UNCHANGED pidOf \/ \E c \in Calls : PersistPid(c)
<1> USE DEF store
<1>1. ASSUME NEW c \in Calls, startRun(c) PROVE UNCHANGED pidOf \/ PersistPid(c)
  BY <1>1 DEF startRun, TakeLock, RunLocked, CheckPrepare, Prepare, Provision, Spawn,
              MarkRunning, Abandon, RecordFailure, FailStart
<1>2. ASSUME NEW c \in Calls, finalize(c) \/ Unlock(c) PROVE UNCHANGED pidOf
  BY <1>2 DEF finalize, Collect, CompletionRejects, Ingest, MarkIngested, Conclude, Validate,
              RecordResult, Terminate, Forget, Unlock
<1>3. CASE recoverRuns \/ \E r \in Runs : createTask(r)
  BY <1>3 DEF recoverRuns, RecoverInspect, RecoverStop, RecoverOrphan, RecoverDone, createTask,
              BeginCreate, WriteQueued, WriteAudit, MarkAudit, CheckDenial, Deny, WriteDenial
<1>4. CASE \/ Boot \/ Signal \/ DrainSnapshot \/ Exit \/ Crash \/ UNCHANGED vars
           \/ \E c \in Calls, r \in Runs : BeginStart(c, r)
           \/ \E r \in Runs : CancelRun(r) \/ CancelReply(r)
           \/ \E p \in Pids : WorkerEnds(p) \/ StrayEnds(p)
  BY <1>4 DEF Boot, Signal, DrainSnapshot, Exit, Crash, Vanish, BeginStart, CancelRun,
              CancelReply, WorkerEnds, StrayEnds, vars
<1> QED BY <1>1, <1>2, <1>3, <1>4 DEF Next, Orchestrate

LEMMA SpawnedStep ==
  ASSUME TypeOK, TypeOK', IInv, Earned, [Next]_vars, NEW c \in Calls
  PROVE  /\ pc'[c] \in Spawned =>
              hnd'[c] \in Pids /\ procRun'[hnd'[c]] = run'[c] /\ proc'[hnd'[c]] # "unused"
         /\ pc'[c] \in Ended => proc'[hnd'[c]] # "alive"
         /\ pc'[c] \in Ended \ {"ingest"} =>
              pc[c] \in Ended /\ hnd'[c] = hnd[c] /\ proc'[hnd[c]] = proc[hnd[c]]
<1> USE DEF TypeOK, OrchestratorTypeOK
<1>1. CASE pc'[c] \notin Spawned
  BY <1>1 DEF Spawned, Recorded
<1>2. CASE Spawn(c) /\ pc'[c] \in Spawned
  BY <1>2 DEF Spawn, Step, Spawned, Recorded, Ended
<1>3. CASE pc'[c] \in Spawned /\ ~Spawn(c)
  <2>1. pc'[c] \in Unsettled
    BY <1>3 DEF Spawned, Recorded, Ended, Unsettled, Unanswered
  <2>2. /\ run'[c] = run[c] /\ hnd'[c] = hnd[c] /\ pc[c] \in Spawned
        /\ pc'[c] \in Ended => pc[c] \in Ended \/ (Collect(c) /\ pc'[c] = "ingest")
    <3>1. /\ run'[c] = run[c]
          /\ (pc'[c] = pc[c] /\ hnd'[c] = hnd[c]) \/ startRun(c) \/ finalize(c)
      BY <2>1, CallMoves
    <3>2. CASE pc'[c] = pc[c] /\ hnd'[c] = hnd[c]
      BY <1>3, <3>1, <3>2
    <3>3. CASE startRun(c)
      BY <1>3, <3>3 DEF startRun, TakeLock, RunLocked, CheckPrepare, Prepare, Provision, PersistPid,
                        MarkRunning, Abandon, RecordFailure, FailStart, Step, Spawned, Recorded, Ended
    <3>4. CASE finalize(c) /\ ~Collect(c)
      BY <1>3, <3>4 DEF finalize, CompletionRejects, Ingest, MarkIngested, Conclude, Validate,
                        RecordResult, Terminate, Forget, Step, calls, Spawned, Recorded, Ended
    <3>5. CASE Collect(c)
      BY <1>3, <3>1, <3>5 DEF Collect, Step, Spawned, Recorded
    <3> QED BY <3>1, <3>2, <3>3, <3>4, <3>5
  <2>3. hnd[c] \in Pids /\ procRun[hnd[c]] = run[c] /\ proc[hnd[c]] # "unused"
    BY <2>2 DEF Earned
  <2>4. pc'[c] \in Ended => proc[hnd[c]] # "alive"
    BY <2>2 DEF Earned, Collect
  <2> QED BY <2>2, <2>3, <2>4, ProcsAdvance
<1> QED BY <1>1, <1>2, <1>3

(* Whoever writes to a call's run while the call is under way is the call.  *)
LEMMA Alone ==
  ASSUME TypeOK, IInv, NEW c \in Calls, pc[c] \in Unsettled \cup {"prepare"}
  PROVE  /\ HoldsLock(c) /\ run[c] \in Runs
         /\ \A d \in Calls : pc[d] \in Unsettled /\ run[d] = run[c] => d = c
         /\ cpc[run[c]] = "idle"
<1>1. \A d \in Calls : pc[d] \in Unsettled \cup {"prepare"} => HoldsLock(d)
  BY DEF Unsettled, Unanswered, HoldsLock, Launching, Finishing
<1> QED BY <1>1, HolderOwns DEF IInv, Ownership

LEMMA RecordedStep ==
  ASSUME TypeOK, TypeOK', IInv, Earned, [Next]_vars
  PROVE  /\ \A c \in Calls : pc'[c] \in Recorded => pidOf'[run'[c]] = hnd'[c]
         /\ \A r \in Runs : state[r] = "SUCCEEDED" => pidOf'[r] = pidOf[r]
<1> USE DEF TypeOK, StoreTypeOK, OrchestratorTypeOK
<1>1. ASSUME NEW c \in Calls, pc'[c] \in Recorded, ~PersistPid(c)
      PROVE  run'[c] = run[c] /\ hnd'[c] = hnd[c] /\ pc[c] \in Recorded
  <2>1. pc'[c] \in Unsettled
    BY <1>1 DEF Recorded, Ended, Unsettled, Unanswered
  <2>2. CASE pc'[c] = pc[c] /\ hnd'[c] = hnd[c]
    BY <1>1, <2>1, <2>2, CallMoves
  <2>3. CASE startRun(c)
    BY <1>1, <2>3 DEF startRun, TakeLock, RunLocked, CheckPrepare, Prepare, Provision, Spawn,
                      MarkRunning, Abandon, RecordFailure, FailStart, Step, Recorded, Ended
  <2>4. CASE finalize(c)
    BY <1>1, <2>4 DEF finalize, Collect, CompletionRejects, Ingest, MarkIngested, Conclude,
                      Validate, RecordResult, Terminate, Forget, Step, calls, Recorded, Ended
  <2> QED BY <2>1, <2>2, <2>3, <2>4, CallMoves
<1>2. \A c \in Calls : pc[c] \in Recorded => pc[c] \in Unsettled /\ pidOf[run[c]] = hnd[c]
  BY DEF Earned, Recorded, Ended, Unsettled, Unanswered
<1>3. CASE UNCHANGED pidOf /\ \A c \in Calls : ~PersistPid(c)
  BY <1>1, <1>2, <1>3
<1>4. ASSUME NEW d \in Calls, PersistPid(d)
      PROVE  /\ \A c \in Calls : pc'[c] \in Recorded => pidOf'[run'[c]] = hnd'[c]
             /\ \A r \in Runs : state[r] = "SUCCEEDED" => pidOf'[r] = pidOf[r]
  <2>1. /\ pc[d] \in Unsettled /\ UNCHANGED <<run, hnd>>
        /\ pc'[d] \in Recorded => pidOf' = [pidOf EXCEPT ![run[d]] = hnd[d]]
        /\ \A r \in Runs \ {run[d]} : pidOf'[r] = pidOf[r]
        /\ \A c \in Calls \ {d} : pc'[c] = pc[c]
    BY <1>4 DEF PersistPid, RecordPid, RecordPidFails, Step, Recorded, Ended, Unsettled, Unanswered
  <2>2. run[d] \in Runs /\ state[run[d]] # "SUCCEEDED"
    BY <2>1, Alone DEF Earned
  <2>3. ASSUME NEW c \in Calls \ {d}, pc'[c] \in Recorded
        PROVE  pidOf'[run'[c]] = hnd'[c]
    <3>1. pc[c] \in Recorded /\ pc[c] \in Unsettled /\ pidOf[run[c]] = hnd[c]
      BY <1>2, <2>1, <2>3
    <3>2. run[c] # run[d] /\ run[c] \in Runs
      BY <2>1, <3>1, Alone
    <3> QED BY <2>1, <3>1, <3>2
  <2> QED BY <2>1, <2>2, <2>3
<1> QED BY <1>3, <1>4, PidWriter

(* A result is written for a run that has not succeeded, by the call that   *)
(* is about to terminate it, or for a denied one.                           *)
LEMMA ResultStep ==
  ASSUME TypeOK, TypeOK', IInv, Answers, Earned, [Next]_vars
  PROVE  /\ \A c \in Calls : pc'[c] = "terminal" =>
              result'[run'[c]] \in {"none", TargetResult(proc'[hnd'[c]])}
         /\ \A r \in Runs : state[r] = "SUCCEEDED" => result'[r] = result[r]
<1> USE DEF TypeOK, StoreTypeOK, OrchestratorTypeOK
<1>1. ASSUME NEW c \in Calls, pc'[c] = "terminal", ~RecordResult(c)
      PROVE  /\ pc[c] = "terminal" /\ run'[c] = run[c]
             /\ result[run[c]] \in {"none", TargetResult(proc'[hnd'[c]])}
  <2>1. pc'[c] \in Unsettled /\ pc'[c] \in Ended \ {"ingest"}
    BY <1>1 DEF Ended, Unsettled
  <2>2. pc[c] = "terminal"
    <3>1. (pc'[c] = pc[c] /\ hnd'[c] = hnd[c]) \/ startRun(c) \/ finalize(c)
      BY <2>1, CallMoves
    <3>2. CASE pc'[c] = pc[c]
      BY <1>1, <3>2
    <3>3. CASE startRun(c)
      BY <1>1, <3>3 DEF startRun, TakeLock, RunLocked, CheckPrepare, Prepare, Provision, Spawn,
                        PersistPid, MarkRunning, Abandon, RecordFailure, FailStart, Step
    <3>4. CASE finalize(c)
      BY <1>1, <3>4 DEF finalize, Collect, CompletionRejects, Ingest, MarkIngested, Conclude,
                        Validate, Terminate, Forget, Step
    <3> QED BY <3>1, <3>2, <3>3, <3>4
  <2>3. run'[c] = run[c] /\ hnd'[c] = hnd[c] /\ proc'[hnd[c]] = proc[hnd[c]]
    BY <2>1, CallMoves, SpawnedStep
  <2> QED BY <2>2, <2>3 DEF Earned
<1>2. CASE UNCHANGED result /\ \A c \in Calls : ~RecordResult(c)
  BY <1>1, <1>2
<1>3. ASSUME NEW d \in Calls, RecordFailure(d) \/ RecordResult(d)
      PROVE  /\ \A c \in Calls : pc'[c] = "terminal" =>
                  result'[run'[c]] \in {"none", TargetResult(proc'[hnd'[c]])}
             /\ \A r \in Runs : state[r] = "SUCCEEDED" => result'[r] = result[r]
  <2>1. /\ pc[d] \in Unanswered /\ pc[d] \in Unsettled /\ pc[d] # "terminal"
        /\ UNCHANGED <<run, hnd, proc>>
        /\ \A r \in Runs \ {run[d]} : result'[r] = result[r]
        /\ \A c \in Calls \ {d} : pc'[c] = pc[c]
    BY <1>3 DEF RecordFailure, RecordResult, WriteResult, Step, Unsettled, Unanswered, procs
  <2>2. run[d] \in Runs /\ state[run[d]] # "SUCCEEDED" /\ result[run[d]] = "none"
    BY <2>1, Alone DEF Earned, Answers
  <2>3. ASSUME pc'[d] = "terminal"
        PROVE  result'[run[d]] \in {"none", TargetResult(proc[hnd[d]])}
    <3>1. RecordResult(d)
      BY <1>3, <2>3 DEF RecordFailure, Step
    <3> QED BY <2>2, <3>1 DEF RecordResult, WriteResult
  <2>4. ASSUME NEW c \in Calls \ {d}, pc'[c] = "terminal"
        PROVE  result'[run'[c]] \in {"none", TargetResult(proc'[hnd'[c]])}
    <3>1. pc[c] = "terminal" /\ pc[c] \in Unsettled
      BY <2>1, <2>4 DEF Unsettled
    <3>2. run[c] # run[d] /\ run[c] \in Runs
      BY <2>1, <3>1, Alone
    <3> QED BY <2>1, <3>1, <3>2 DEF Earned
  <2> QED BY <2>1, <2>2, <2>3, <2>4
<1>4. ASSUME NEW d \in Runs, WriteDenial(d)
      PROVE  /\ \A c \in Calls : pc'[c] = "terminal" =>
                  result'[run'[c]] \in {"none", TargetResult(proc'[hnd'[c]])}
             /\ \A r \in Runs : state[r] = "SUCCEEDED" => result'[r] = result[r]
  <2>1. /\ cpc[d] = "deny_result" /\ UNCHANGED <<pc, run, hnd, proc>>
        /\ \A r \in Runs \ {d} : result'[r] = result[r]
    BY <1>4 DEF WriteDenial, WriteResult, CreateStep, calls, procs
  <2>2. state[d] # "SUCCEEDED"
    BY <2>1 DEF Earned
  <2>3. ASSUME NEW c \in Calls, pc[c] = "terminal"
        PROVE  run[c] \in Runs \ {d}
    BY <2>1, <2>3, Alone DEF Unsettled
  <2> QED BY <2>1, <2>2, <2>3 DEF Earned
<1> QED BY <1>2, <1>3, <1>4, Writers DEF ResultWriter

(* The one step that makes a run succeed. *)
LEMMA SuccessStep ==
  ASSUME TypeOK, TypeOK', IInv, [Next]_vars, NEW r \in Runs,
         state[r] # "SUCCEEDED", state'[r] = "SUCCEEDED"
  PROVE  \E c \in Calls : /\ Terminate(c) /\ run[c] = r
                          /\ TargetState(proc[hnd[c]]) = "SUCCEEDED"
<1> USE DEF TypeOK, StoreTypeOK, OrchestratorTypeOK
<1>1. ASSUME NEW q, NEW to, TransitionState(q, to) \/ TransitionFails(q, to)
      PROVE  to = "SUCCEEDED" /\ q = r
  BY <1>1 DEF TransitionState, TransitionFails
<1>2. \A q \in Runs : ~BeginCreate(q) /\ ~WriteQueued(q) /\ ~Deny(q) /\ ~RecoverOrphan(q)
  BY <1>1 DEF BeginCreate, WriteQueued, Deny, RecoverOrphan, INITIAL_RUN_STATE
<1>3. \A c \in Calls : ~Prepare(c) /\ ~MarkRunning(c) /\ ~FailStart(c) /\ ~Validate(c)
  BY <1>1 DEF Prepare, MarkRunning, FailStart, Validate, TryTransition
<1>4. PICK c \in Calls : Terminate(c)
  BY <1>2, <1>3, Writers DEF StateWriter
<1>5. run[c] = r /\ TargetState(proc[hnd[c]]) = "SUCCEEDED"
  BY <1>1, <1>4 DEF Terminate, TryTransition
<1> QED BY <1>4, <1>5

LEMMA EarnedStep ==
  ASSUME TypeOK, TypeOK', IInv, Answers, Earned, [Next]_vars
  PROVE  Earned'
<1> USE DEF TypeOK, StoreTypeOK, OrchestratorTypeOK
<1>1. \A c \in Calls : pc'[c] \in Unsettled => state'[run'[c]] # "SUCCEEDED"
  <2> SUFFICES ASSUME NEW c \in Calls, pc'[c] \in Unsettled, state'[run'[c]] = "SUCCEEDED"
               PROVE  FALSE
    OBVIOUS
  <2>1. run'[c] = run[c] /\ pc[c] \in Unsettled \cup {"prepare"}
    BY CallMoves
  <2>2. run[c] \in Runs /\ state[run[c]] # "SUCCEEDED"
    BY <2>1, Alone DEF Earned, IInv, Launches
  <2>3. PICK d \in Calls : Terminate(d) /\ run[d] = run[c]
    BY <2>1, <2>2, SuccessStep
  <2>4. pc[d] \in Unsettled /\ pc'[d] = "forget"
    BY <2>3 DEF Terminate, Step, Unsettled
  <2>5. d = c
    BY <2>1, <2>3, <2>4, Alone
  <2> QED BY <2>4, <2>5 DEF Unsettled, Unanswered
<1>2. \A r \in Runs : cpc'[r] = "deny_result" => state'[r] = "FAILED"
  BY CreatesAdvance, StatesAdvance DEF Earned, TERMINAL_RUN_STATES
<1>3. ASSUME NEW r \in Runs, state'[r] = "SUCCEEDED"
      PROVE  /\ pidOf'[r] # NoPid /\ procRun'[pidOf'[r]] = r
             /\ proc'[pidOf'[r]] = "claims_success"
             /\ result'[r] \in {"none", "succeeded"}
  <2>1. CASE state[r] = "SUCCEEDED"
    <3>1. /\ pidOf[r] \in Pids /\ procRun[pidOf[r]] = r /\ proc[pidOf[r]] = "claims_success"
          /\ result[r] \in {"none", "succeeded"}
      BY <2>1 DEF Earned, SuccessIsEarned
    <3>2. pidOf'[r] = pidOf[r] /\ result'[r] = result[r]
      BY <2>1, RecordedStep, ResultStep
    <3>3. procRun'[pidOf[r]] = r /\ proc'[pidOf[r]] = "claims_success"
      BY <3>1, ProcsAdvance
    <3> QED BY <3>1, <3>2, <3>3, NoPidAssumption DEF NoPidAssumption
  <2>2. CASE state[r] # "SUCCEEDED"
    <3>1. PICK c \in Calls : /\ Terminate(c) /\ run[c] = r
                             /\ TargetState(proc[hnd[c]]) = "SUCCEEDED"
      BY <1>3, <2>2, SuccessStep
    <3>2. pc[c] = "terminal" /\ UNCHANGED <<pidOf, proc, procRun, result>>
      BY <3>1 DEF Terminate, Step, procs
    <3>3. hnd[c] \in Pids /\ procRun[hnd[c]] = r /\ pidOf[r] = hnd[c]
      BY <3>1, <3>2 DEF Earned, Spawned, Recorded, Ended
    <3>4. proc[hnd[c]] = "claims_success"
      BY <3>1 DEF TargetState
    <3>5. result[r] \in {"none", "succeeded"}
      BY <3>1, <3>2, <3>4 DEF Earned, TargetResult
    <3> QED BY <3>2, <3>3, <3>4, <3>5, NoPidAssumption DEF NoPidAssumption
  <2> QED BY <2>1, <2>2
<1> QED BY <1>1, <1>2, <1>3, SpawnedStep, RecordedStep, ResultStep DEF Earned, SuccessIsEarned

(* "Terminal state is never inferred": if callers start only runs whose     *)
(* createTask has ended, a run is SUCCEEDED only if the worker recorded for *)
(* it exited on its own with exactly one valid claim of success, and no     *)
(* other result is on disk (#finalize), whatever failed or crashed.         *)
THEOREM SuccessEarned ==
  ASSUME Announced
  PROVE  Spec => []SuccessIsEarned
<1>1. TypeOK /\ TypeOK' /\ IInv /\ Answers /\ Earned /\ [Next]_vars => Answers' /\ Earned'
  BY AnswersStep, EarnedStep
<1>2. Earned => SuccessIsEarned
  BY DEF Earned
<1> QED BY <1>1, <1>2, TypeCorrect, Inductive, InitAnswers, InitEarned, PTL DEF Spec

=============================================================================
