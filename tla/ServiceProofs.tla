---------------------------- MODULE ServiceProofs -----------------------------
(***************************************************************************)
(* What holds of the daemon, for every set of runs, calls and processes and*)
(* any number of crashes and restarts, if callers start only runs whose    *)
(* createTask has ended (Announced): it implements RunLedger whatever      *)
(* fails; and as long as state.json and the adapter's transcript can be    *)
(* read and written, it owns what is mid-flight, tells a canceller the     *)
(* truth, and leaves nothing running behind.                               *)
(***************************************************************************)
EXTENDS AgentdProofs

-----------------------------------------------------------------------------
(* What the ledger needs of a daemon under way: a call that has not settled*)
(* its run has it active; what it is about to conclude is on disk, unless   *)
(* that could not be written; and a run still being created has no process. *)
Wrote(r, a) == result[r] = a \/ ("result" \in Faults /\ result[r] = "none")

Tracked ==
  /\ \A c \in Calls : pc[c] \in Unsettled => holdsResources(state[run[c]])
  /\ \A c \in Calls : pc[c] = "fail_state" => Wrote(run[c], "failed")
  /\ \A c \in Calls : pc[c] = "terminal" => Wrote(run[c], TargetResult(proc[hnd[c]]))
  /\ \A r \in Runs : cpc[r] # "idle" => \A p \in Pids : procRun[p] # r
  /\ \A r \in Runs : cpc[r] \in {"deny", "deny_write"} => verdict[r] = "deny"
  /\ \A p \in Pids : proc[p] = "unused" => procRun[p] = NoRun

LEMMA InitTracked == Init => Tracked
BY DEF Init, StoreInit, OrchestratorInit, Tracked, Unsettled, Unanswered

(* Who writes a run's state, its result, and a process' run. *)
LEMMA StateSteps ==
  ASSUME TypeOK, [Next]_vars, NEW q \in Runs
  PROVE  \/ state'[q] = state[q]
         \/ BeginCreate(q) \/ WriteQueued(q) \/ Deny(q) \/ RecoverOrphan(q)
         \/ \E d \in Calls : /\ run[d] = q
                             /\ \/ Prepare(d) \/ MarkRunning(d) \/ FailStart(d)
                                \/ Validate(d) \/ Terminate(d)
<1> USE DEF TypeOK, StoreTypeOK
<1>1. ASSUME NEW r, NEW to, TransitionState(r, to) \/ TransitionFails(r, to), r # q
      PROVE  state'[q] = state[q]
  BY <1>1 DEF TransitionState, TransitionFails
<1>2. ASSUME NEW r \in Runs, r # q,
             BeginCreate(r) \/ WriteQueued(r) \/ Deny(r) \/ RecoverOrphan(r)
      PROVE  state'[q] = state[q]
  BY <1>1, <1>2 DEF BeginCreate, WriteQueued, Deny, RecoverOrphan
<1>3. ASSUME NEW d \in Calls, run[d] # q,
             Prepare(d) \/ MarkRunning(d) \/ FailStart(d) \/ Validate(d) \/ Terminate(d)
      PROVE  state'[q] = state[q]
  BY <1>1, <1>3 DEF Prepare, MarkRunning, FailStart, Validate, Terminate, TryTransition
<1> QED BY <1>2, <1>3, Writers DEF StateWriter

LEMMA ResultSteps ==
  ASSUME TypeOK, [Next]_vars, NEW q \in Runs
  PROVE  \/ result'[q] = result[q]
         \/ WriteDenial(q)
         \/ \E d \in Calls : run[d] = q /\ (RecordFailure(d) \/ RecordResult(d))
<1> USE DEF TypeOK, StoreTypeOK, WriteResult
<1>1. ASSUME NEW r \in Runs, r # q, WriteDenial(r) PROVE result'[q] = result[q]
  BY <1>1 DEF WriteDenial
<1>2. ASSUME NEW d \in Calls, run[d] # q, RecordFailure(d) \/ RecordResult(d)
      PROVE  result'[q] = result[q]
  BY <1>2 DEF RecordFailure, RecordResult
<1> QED BY <1>1, <1>2, Writers DEF ResultWriter

LEMMA ProcRunSteps ==
  ASSUME [Next]_vars
  PROVE  UNCHANGED procRun \/ \E d \in Calls : Spawn(d)
<1> USE DEF procs, orchestrator
<1>1. ASSUME NEW c \in Calls, startRun(c) PROVE UNCHANGED procRun \/ Spawn(c)
  BY <1>1 DEF startRun, TakeLock, RunLocked, CheckPrepare, Prepare, Provision, PersistPid,
              MarkRunning, Abandon, RecordFailure, FailStart
<1>2. ASSUME NEW c \in Calls, finalize(c) \/ Unlock(c) PROVE UNCHANGED procRun
  BY <1>2 DEF finalize, Collect, CompletionRejects, Ingest, MarkIngested, Conclude, Validate,
              RecordResult, Terminate, Forget, Unlock
<1>3. CASE recoverRuns \/ \E r \in Runs : createTask(r)
  BY <1>3 DEF recoverRuns, RecoverInspect, RecoverStop, RecoverOrphan, RecoverDone, createTask,
              BeginCreate, WriteQueued, WriteAudit, MarkAudit, CheckDenial, Deny, WriteDenial
<1>4. CASE \/ Boot \/ Signal \/ DrainSnapshot \/ Exit \/ Crash \/ UNCHANGED vars
           \/ \E c \in Calls, r \in Runs : BeginStart(c, r)
           \/ \E r \in Runs : CancelRun(r) \/ CancelReply(r)
           \/ \E p \in Pids : WorkerEnds(p) \/ StrayEnds(p)
  BY <1>4 DEF Boot, Signal, DrainSnapshot, Exit, Crash, Vanish, BeginStart, CancelRun,
              CancelReply, WorkerEnds, StrayEnds, vars
<1> QED BY <1>1, <1>2, <1>3, <1>4 DEF Next, Orchestrate

(* Only createTask moves a creation on, and only it decides a verdict. *)
LEMMA CreateMoves ==
  ASSUME TypeOK, [Next]_vars, NEW q \in Runs
  PROVE  /\ cpc'[q] # "idle" => createTask(q) \/ cpc'[q] = cpc[q]
         /\ BeginCreate(q) \/ verdict'[q] = verdict[q]
<1> USE DEF TypeOK, OrchestratorTypeOK, creates, CreateStep, orchestrator
<1>1. ASSUME NEW r \in Runs, r # q, createTask(r)
      PROVE  cpc'[q] = cpc[q] /\ verdict'[q] = verdict[q]
  BY <1>1 DEF createTask, BeginCreate, WriteQueued, WriteAudit, MarkAudit, CheckDenial, Deny,
              WriteDenial
<1>2. ASSUME createTask(q), ~BeginCreate(q) PROVE UNCHANGED verdict
  BY <1>2 DEF createTask, WriteQueued, WriteAudit, MarkAudit, CheckDenial, Deny, WriteDenial
<1>3. ASSUME NEW c \in Calls, startRun(c) PROVE UNCHANGED <<cpc, verdict>>
  BY <1>3 DEF startRun, TakeLock, RunLocked, CheckPrepare, Prepare, Provision, Spawn, PersistPid,
              MarkRunning, Abandon, RecordFailure, FailStart
<1>4. ASSUME NEW c \in Calls, finalize(c) \/ Unlock(c) PROVE UNCHANGED <<cpc, verdict>>
  BY <1>4 DEF finalize, Collect, CompletionRejects, Ingest, MarkIngested, Conclude, Validate,
              RecordResult, Terminate, Forget, Unlock
<1>5. CASE Exit \/ Crash
  BY <1>5 DEF Exit, Crash, Vanish
<1>6. CASE \/ Boot \/ recoverRuns \/ Signal \/ DrainSnapshot \/ UNCHANGED vars
           \/ \E c \in Calls, r \in Runs : BeginStart(c, r)
           \/ \E r \in Runs : CancelRun(r) \/ CancelReply(r)
           \/ \E p \in Pids : WorkerEnds(p) \/ StrayEnds(p)
  BY <1>6 DEF Boot, recoverRuns, RecoverInspect, RecoverStop, RecoverOrphan, RecoverDone, Signal,
              DrainSnapshot, vars, BeginStart, CancelRun, CancelReply, WorkerEnds, StrayEnds
<1> QED BY <1>1, <1>2, <1>3, <1>4, <1>5, <1>6 DEF Next, Orchestrate

-----------------------------------------------------------------------------
(* While a call has the lock, only the call writes its run's state.         *)
LEMMA OwnState ==
  ASSUME TypeOK, IInv, [Next]_vars, NEW c \in Calls, HoldsLock(c),
         state'[run[c]] # state[run[c]]
  PROVE  Prepare(c) \/ MarkRunning(c) \/ FailStart(c) \/ Validate(c) \/ Terminate(c)
<1> DEFINE q == run[c]
<1>1. q \in Runs /\ cpc[q] = "idle" /\ state[q] # "none" /\ Accepting
  BY HolderOwns DEF IInv, Ownership
<1>2. ~BeginCreate(q) /\ ~WriteQueued(q) /\ ~Deny(q)
  BY <1>1 DEF BeginCreate, WriteQueued, Deny, CreateStep
<1>3. ~RecoverOrphan(q)
  BY <1>1 DEF RecoverOrphan, RecoverStep, IInv, Ownership, Accepting
<1>4. PICK d \in Calls : /\ run[d] = q
                         /\ \/ Prepare(d) \/ MarkRunning(d) \/ FailStart(d)
                            \/ Validate(d) \/ Terminate(d)
  BY <1>1, <1>2, <1>3, StateSteps
<1>5. HoldsLock(d)
  BY <1>4 DEF Prepare, MarkRunning, FailStart, Validate, Terminate, Step, HoldsLock, Launching,
              Finishing
<1> QED BY <1>4, <1>5, HolderOwns DEF IInv

(* ... and its result. *)
LEMMA OwnResult ==
  ASSUME TypeOK, IInv, [Next]_vars, NEW c \in Calls, pc[c] \in Unsettled,
         result'[run[c]] # result[run[c]]
  PROVE  RecordFailure(c) \/ RecordResult(c)
<1>1. run[c] \in Runs /\ cpc[run[c]] = "idle"
  BY Alone
<1>2. ~WriteDenial(run[c])
  BY <1>1 DEF WriteDenial, CreateStep
<1>3. PICK d \in Calls : run[d] = run[c] /\ (RecordFailure(d) \/ RecordResult(d))
  BY <1>1, <1>2, ResultSteps
<1>4. pc[d] \in Unsettled
  BY <1>3 DEF RecordFailure, RecordResult, Step, Unsettled, Unanswered
<1> QED BY <1>3, <1>4, Alone

LEMMA ActiveStep ==
  ASSUME TypeOK, IInv, Tracked, [Next]_vars, NEW c \in Calls, pc'[c] \in Unsettled
  PROVE  holdsResources(state'[run'[c]])
<1> USE DEF TypeOK, StoreTypeOK, OrchestratorTypeOK
<1>1. /\ run'[c] = run[c] /\ run[c] \in Runs /\ pc[c] \in Unsettled \cup {"prepare"}
      /\ (pc'[c] = pc[c] /\ hnd'[c] = hnd[c]) \/ startRun(c) \/ finalize(c)
  BY CallMoves, Alone
<1>2. CASE pc[c] = "prepare"
  <2>1. pc'[c] # pc[c] /\ ~finalize(c)
    BY <1>2 DEF Unsettled, Unanswered, finalize, Collect, CompletionRejects, Ingest, MarkIngested,
                Conclude, Validate, RecordResult, Terminate, Forget, Step
  <2>2. Prepare(c)
    BY <1>1, <1>2, <2>1 DEF startRun, TakeLock, RunLocked, CheckPrepare, Provision, Spawn,
         PersistPid, MarkRunning, Abandon, RecordFailure, FailStart, Step
  <2>3. state' = [state EXCEPT ![run[c]] = "PREPARING"]
    BY <2>2 DEF Prepare, Step, Unsettled, Unanswered
  <2> QED BY <1>1, <2>3 DEF holdsResources
<1>3. CASE pc[c] \in Unsettled /\ state'[run[c]] = state[run[c]]
  BY <1>1, <1>3 DEF Tracked
<1>4. CASE pc[c] \in Unsettled /\ state'[run[c]] # state[run[c]]
  <2>1. pc[c] # "prepare"
    BY <1>4 DEF Unsettled, Unanswered
  <2>2. MarkRunning(c) \/ Validate(c)
    BY <1>4, <2>1, Alone, OwnState DEF Prepare, FailStart, Terminate, Step, Unsettled, Unanswered
  <2>3. \E s \in {"RUNNING", "VALIDATING"} : state' = [state EXCEPT ![run[c]] = s]
    BY <1>4, <2>2 DEF MarkRunning, Validate, TransitionState, TransitionFails
  <2> QED BY <1>1, <2>3 DEF holdsResources
<1> QED BY <1>1, <1>2, <1>3, <1>4

(* A call moves to its last step by writing the result. *)
LEMMA WroteStep ==
  ASSUME TypeOK, TypeOK', IInv, Answers, Earned, Tracked, [Next]_vars, NEW c \in Calls
  PROVE  /\ pc'[c] = "fail_state" => Wrote(run[c], "failed")' /\ run'[c] = run[c]
         /\ pc'[c] = "terminal" =>
              Wrote(run[c], TargetResult(proc[hnd[c]]))' /\ run'[c] = run[c]
<1> USE DEF TypeOK, StoreTypeOK, OrchestratorTypeOK
<1>1. ASSUME pc'[c] \in {"fail_state", "terminal"}
      PROVE  /\ run'[c] = run[c] /\ run[c] \in Runs /\ pc[c] \in Unsettled \cup {"prepare"}
             /\ (pc'[c] = pc[c] /\ hnd'[c] = hnd[c]) \/ startRun(c) \/ finalize(c)
  BY <1>1, CallMoves, Alone DEF Unsettled
<1>2. ASSUME pc'[c] = "fail_state" PROVE RecordFailure(c) \/ pc[c] = "fail_state"
  <2>1. ~finalize(c)
    BY <1>2 DEF finalize, Collect, CompletionRejects, Ingest, MarkIngested, Conclude, Validate,
                RecordResult, Terminate, Forget, Step
  <2> QED BY <1>1, <1>2, <2>1 DEF startRun, TakeLock, RunLocked, CheckPrepare, Prepare, Provision,
            Spawn, PersistPid, MarkRunning, Abandon, FailStart, Step
<1>3. ASSUME pc'[c] = "terminal" PROVE RecordResult(c) \/ pc[c] = "terminal"
  <2>1. ~startRun(c)
    BY <1>3 DEF startRun, TakeLock, RunLocked, CheckPrepare, Prepare, Provision, Spawn, PersistPid,
                MarkRunning, Abandon, RecordFailure, FailStart, Step
  <2> QED BY <1>1, <1>3, <2>1 DEF finalize, Collect, CompletionRejects, Ingest, MarkIngested,
            Conclude, Validate, Terminate, Forget, Step
<1>4. CASE RecordFailure(c) \/ RecordResult(c)
  <2>1. result[run[c]] = "none" /\ run[c] \in Runs /\ UNCHANGED <<run, hnd, proc>>
    BY <1>4, Alone DEF RecordFailure, RecordResult, Step, Answers, Unanswered, Unsettled, procs
  <2> QED BY <1>4, <2>1 DEF RecordFailure, RecordResult, Step, WriteResult, Wrote
<1>5. CASE pc[c] = "fail_state" /\ pc'[c] = "fail_state"
  <2>1. result'[run[c]] = result[run[c]]
    BY <1>5, OwnResult DEF RecordFailure, RecordResult, Step, Unsettled
  <2> QED BY <1>1, <1>5, <2>1 DEF Tracked, Wrote
<1>6. CASE pc[c] = "terminal" /\ pc'[c] = "terminal"
  <2>1. result'[run[c]] = result[run[c]]
    BY <1>6, OwnResult DEF RecordFailure, RecordResult, Step, Unsettled
  <2>2. hnd'[c] = hnd[c] /\ proc'[hnd[c]] = proc[hnd[c]]
    BY <1>6, SpawnedStep DEF Ended
  <2> QED BY <1>1, <1>6, <2>1, <2>2 DEF Tracked, Wrote
<1> QED BY <1>2, <1>3, <1>4, <1>5, <1>6

LEMMA TrackedStep ==
  ASSUME TypeOK, TypeOK', IInv, Answers, Earned, Tracked, [Next]_vars
  PROVE  Tracked'
<1> USE DEF TypeOK, StoreTypeOK, OrchestratorTypeOK
<1>2. ASSUME NEW r \in Runs, cpc'[r] # "idle", NEW p \in Pids
      PROVE  procRun'[p] # r
  <2>1. CASE createTask(r)
    <3>1. procRun' = procRun
      BY <2>1 DEF createTask, BeginCreate, WriteQueued, WriteAudit, MarkAudit, CheckDenial, Deny,
                  WriteDenial, procs, store
    <3>2. cpc[r] # "idle" \/ state[r] = "none"
      BY <2>1 DEF createTask, BeginCreate, WriteQueued, WriteAudit, MarkAudit, CheckDenial,
                  Deny, WriteDenial,
                  CreateStep
    <3>3. procRun[p] # NoRun => Started(state[procRun[p]])
      BY DEF IInv, Launches
    <3> QED BY <3>1, <3>2, <3>3, NoneAssumption DEF Tracked, Started, NoneAssumption
  <2>2. CASE cpc'[r] = cpc[r] /\ UNCHANGED procRun
    BY <1>2, <2>2 DEF Tracked
  <2>3. ASSUME NEW d \in Calls, Spawn(d), cpc'[r] = cpc[r] PROVE procRun'[p] # r
    <3>1. run[d] # r
      <4>1. pc[d] = "spawn"
        BY <2>3 DEF Spawn, Step
      <4>2. cpc[run[d]] = "idle"
        BY <4>1 DEF IInv, Ownership
      <4> QED BY <1>2, <2>3, <4>2
    <3>2. procRun'[p] \in {procRun[p], run[d]}
      BY <2>3 DEF Spawn, procs
    <3> QED BY <1>2, <2>3, <3>1, <3>2 DEF Tracked
  <2> QED BY <1>2, <2>1, <2>2, <2>3, CreateMoves, ProcRunSteps
<1>3. ASSUME NEW r \in Runs, cpc'[r] \in {"deny", "deny_write"} PROVE verdict'[r] = "deny"
  <2>1. CASE createTask(r)
    BY <1>3, <2>1 DEF createTask, BeginCreate, WriteQueued, WriteAudit, MarkAudit, CheckDenial,
                      Deny,
                      WriteDenial, CreateStep, Tracked
  <2>2. CASE ~createTask(r)
    BY <1>3, <2>2, CreateMoves DEF createTask, Tracked
  <2> QED BY <2>1, <2>2
<1>4. ASSUME NEW c \in Calls, pc'[c] = "terminal"
      PROVE  Wrote(run[c], TargetResult(proc[hnd[c]]))' /\ run'[c] = run[c]
  BY <1>4, WroteStep
<1>5. ASSUME NEW c \in Calls, pc'[c] = "fail_state"
      PROVE  Wrote(run[c], "failed")' /\ run'[c] = run[c]
  BY <1>5, WroteStep
<1>6. ASSUME NEW p \in Pids, proc'[p] = "unused" PROVE procRun'[p] = NoRun
  <2>1. proc[p] = "unused" /\ procRun[p] = NoRun
    BY <1>6, ProcsAdvance DEF Tracked
  <2>2. ASSUME NEW d \in Calls, Spawn(d) PROVE procRun'[p] = procRun[p]
    BY <1>6, <2>2 DEF Spawn, procs
  <2> QED BY <2>1, <2>2, ProcRunSteps
<1> QED BY <1>2, <1>3, <1>4, <1>5, <1>6, ActiveStep DEF Tracked

-----------------------------------------------------------------------------
(* The refinement, one step of the daemon at a time. *)

LEMMA PhaseMove ==
  ASSUME TypeOK, NEW q \in Runs, NEW s \in StateFile, state' = [state EXCEPT ![q] = s]
  PROVE  [r \in Runs |-> PhaseOf(state'[r])]
           = [[r \in Runs |-> PhaseOf(state[r])] EXCEPT ![q] = PhaseOf(s)]
BY DEF TypeOK, StoreTypeOK

(* Where a run must be for the table to let it go there. *)
LEMMA TableSources ==
  ASSUME NEW s, NEW to \in RUN_STATES, CanTransition(s, to)
  PROVE  /\ to \in {"RUNNING", "VALIDATING", "ORPHANED"} => holdsResources(s)
         /\ s \notin {"none", "incomplete"}
<1>1. s \in RUN_STATES /\ to \in TRANSITIONS[s]
  BY DEF CanTransition
<1> QED BY <1>1 DEF TRANSITIONS, RUN_STATES, holdsResources

LEMMA ActivePhase ==
  ASSUME NEW s, holdsResources(s)
  PROVE  PhaseOf(s) = "active"
BY DEF holdsResources, PhaseOf

LEMMA CreationStep ==
  ASSUME TypeOK, IInv, Answers, Earned, Tracked, NEW q \in Runs, createTask(q)
  PROVE  [Ledger!Next]_(Ledger!ledger)
<1> USE DEF TypeOK, StoreTypeOK, OrchestratorTypeOK, Ledger!ledger
<1>1. CASE BeginCreate(q)
  <2>1. /\ UNCHANGED <<result, procRun>> /\ state[q] = "none"
        /\ state' = [state EXCEPT ![q] = "incomplete"]
    BY <1>1 DEF BeginCreate, procs
  <2>2. \A r \in Runs : PhaseOf(state'[r]) = PhaseOf(state[r])
    BY <2>1 DEF PhaseOf
  <2> QED BY <2>1, <2>2
<1>2. CASE WriteQueued(q)
  <2>1. UNCHANGED <<result, procRun>> /\ state[q] = "incomplete"
    BY <1>2 DEF WriteQueued, procs, CreateStep, IInv, Launches
  <2>2. state' = state \/ state' = [state EXCEPT ![q] = "QUEUED"]
    BY <1>2 DEF WriteQueued, INITIAL_RUN_STATE
  <2>3. CASE state' = state
    BY <2>1, <2>3
  <2>4. CASE state' = [state EXCEPT ![q] = "QUEUED"]
    <3>1. PhaseOf("QUEUED") = "accepted" /\ PhaseOf(state[q]) = "unknown"
      BY <2>1 DEF PhaseOf
    <3>2. Ledger!Accept(q)
      BY <2>1, <2>4, <3>1, PhaseMove DEF Ledger!Accept, Ledger!Move, StateFile, RUN_STATES
    <3> QED BY <3>2 DEF Ledger!Next
  <2> QED BY <2>2, <2>3, <2>4
<1>3. CASE Deny(q)
  <2>1. UNCHANGED <<result, procRun>> /\ state[q] = "QUEUED"
    BY <1>3 DEF Deny, procs, CreateStep, IInv, Launches
  <2>2. state' = state \/ state' = [state EXCEPT ![q] = "FAILED"]
    BY <1>3 DEF Deny
  <2>3. CASE state' = state
    BY <2>1, <2>3
  <2>4. CASE state' = [state EXCEPT ![q] = "FAILED"]
    <3>1. PhaseOf("FAILED") = "failed" /\ PhaseOf(state[q]) = "accepted"
      BY <2>1 DEF PhaseOf
    <3>2. Ledger!Refuse(q)
      BY <2>1, <2>4, <3>1, PhaseMove DEF Ledger!Refuse, Ledger!Move, StateFile, RUN_STATES
    <3> QED BY <3>2 DEF Ledger!Next
  <2> QED BY <2>2, <2>3, <2>4
<1>4. CASE WriteDenial(q)
  <2>1. /\ UNCHANGED <<state, procRun>> /\ state[q] = "FAILED" /\ result[q] = "none"
        /\ ~\E p \in Pids : procRun[p] = q
    BY <1>4 DEF WriteDenial, procs, CreateStep, Tracked, Answers, Earned
  <2>2. result' = result \/ result' = [result EXCEPT ![q] = "blocked"]
    BY <1>4 DEF WriteDenial, WriteResult
  <2>3. CASE result' = result
    BY <2>1, <2>3
  <2>4. CASE result' = [result EXCEPT ![q] = "blocked"]
    <3>1. PhaseOf(state[q]) = "failed"
      BY <2>1 DEF PhaseOf
    <3>2. Ledger!Explain(q)
      BY <2>1, <2>4, <3>1 DEF Ledger!Explain
    <3> QED BY <3>2 DEF Ledger!Next
  <2> QED BY <2>2, <2>3, <2>4
<1>5. CASE WriteAudit(q) \/ MarkAudit(q) \/ CheckDenial(q)
  BY <1>5 DEF WriteAudit, MarkAudit, CheckDenial, procs, store
<1> QED BY <1>1, <1>2, <1>3, <1>4, <1>5 DEF createTask

LEMMA LaunchStep ==
  ASSUME TypeOK, IInv, Tracked, NEW c \in Calls, Spawn(c), NEW q \in Runs, run[c] = q
  PROVE  [Ledger!Next]_(Ledger!ledger)
<1> USE DEF TypeOK, StoreTypeOK, OrchestratorTypeOK, Ledger!ledger
<1>1. UNCHANGED <<state, result>> /\ pc[c] = "spawn"
  BY DEF Spawn, store, Step
<1>2. CASE UNCHANGED procRun
  BY <1>1, <1>2
<1>3. ASSUME NEW p \in Pids, procRun' = [procRun EXCEPT ![p] = q], procRun[p] = NoRun
      PROVE  Ledger!Next
  <2>1. ~\E x \in Pids : procRun[x] = q
    BY <1>1 DEF IInv, Launches
  <2>2. PhaseOf(state[q]) = "active"
    BY <1>1, ActivePhase DEF Tracked, Unsettled, Unanswered
  <2>3. [r \in Runs |-> \E x \in Pids : procRun'[x] = r]
          = [[r \in Runs |-> \E x \in Pids : procRun[x] = r] EXCEPT ![q] = TRUE]
    <3>1. \A r \in Runs : (\E x \in Pids : procRun'[x] = r)
                            <=> (r = q \/ \E x \in Pids : procRun[x] = r)
      BY <1>3, NoneAssumption DEF NoneAssumption
    <3> QED BY <3>1
  <2>4. Ledger!Launch(q)
    BY <1>1, <2>1, <2>2, <2>3 DEF Ledger!Launch
  <2> QED BY <2>4 DEF Ledger!Next
<1>4. \/ UNCHANGED procRun
      \/ \E p \in Pids : procRun' = [procRun EXCEPT ![p] = q] /\ procRun[p] = NoRun
  BY DEF Spawn, procs, Tracked
<1> QED BY <1>2, <1>3, <1>4

(* An answer is written for an active run that has none. *)
LEMMA AnswerStep ==
  ASSUME TypeOK, IInv, Answers, Earned, Tracked, NEW c \in Calls, NEW q \in Runs, run[c] = q,
         RecordFailure(c) \/ RecordResult(c)
  PROVE  [Ledger!Next]_(Ledger!ledger)
<1> USE DEF TypeOK, StoreTypeOK, OrchestratorTypeOK, Ledger!ledger
<1>1. UNCHANGED <<state, procRun>> /\ pc[c] \in {"fail", "result"}
  BY DEF RecordFailure, RecordResult, procs, Step
<1>2. result[q] = "none" /\ PhaseOf(state[q]) = "active"
  BY <1>1, ActivePhase DEF Answers, Unanswered, Tracked, Unsettled
<1>3. PICK a : /\ WriteResult(q, a)
               /\ a \in {"failed"} \cup (IF pc[c] = "result" THEN {TargetResult(proc[hnd[c]])} ELSE {})
  BY <1>1 DEF RecordFailure, RecordResult, Step
<1>4. a \in Ledger!Answers \ {"none", "blocked"}
  BY <1>3 DEF TargetResult, Ledger!Answers
<1>5. a \in {"succeeded", "cancelled", "timed_out"} => \E p \in Pids : procRun[p] = q
  BY <1>1, <1>3 DEF Earned, Spawned, Recorded, Ended
<1>6. CASE result' = result
  BY <1>1, <1>6
<1>7. CASE result' = [result EXCEPT ![q] = a]
  <2>1. Ledger!Answer(q)
    BY <1>1, <1>2, <1>4, <1>5, <1>7 DEF Ledger!Answer
  <2> QED BY <2>1 DEF Ledger!Next
<1> QED BY <1>3, <1>6, <1>7 DEF WriteResult

(* A run is activated by Prepare and stays active until it is concluded.    *)
LEMMA AdvanceStep ==
  ASSUME TypeOK, IInv, NEW c \in Calls, NEW q \in Runs, run[c] = q,
         Prepare(c) \/ MarkRunning(c) \/ Validate(c)
  PROVE  [Ledger!Next]_(Ledger!ledger)
<1> USE DEF TypeOK, StoreTypeOK, OrchestratorTypeOK, Ledger!ledger
<1>1. UNCHANGED <<result, procRun>>
  BY DEF Prepare, MarkRunning, Validate, procs
<1>2. CASE UNCHANGED state
  BY <1>1, <1>2
<1>3. CASE Prepare(c) /\ ~UNCHANGED state
  <2>1. state[q] = "QUEUED" /\ state' = [state EXCEPT ![q] = "PREPARING"]
    BY <1>3 DEF Prepare, Step, IInv, Launches
  <2>2. PhaseOf("PREPARING") = "active" /\ PhaseOf(state[q]) = "accepted"
    BY <2>1 DEF PhaseOf
  <2>3. [r \in Runs |-> PhaseOf(state'[r])]
          = [[r \in Runs |-> PhaseOf(state[r])] EXCEPT ![q] = "active"]
    <3>1. "PREPARING" \in StateFile
      BY DEF StateFile, RUN_STATES
    <3> QED BY <2>1, <2>2, <3>1, PhaseMove
  <2>4. Ledger!Activate(q)
    BY <1>1, <2>2, <2>3 DEF Ledger!Activate, Ledger!Move
  <2> QED BY <2>4 DEF Ledger!Next
<1>4. CASE (MarkRunning(c) \/ Validate(c)) /\ ~UNCHANGED state
  <2>1. PICK to \in {"RUNNING", "VALIDATING"} :
          CanTransition(state[q], to) /\ state' = [state EXCEPT ![q] = to]
    BY <1>4 DEF MarkRunning, Validate, TransitionState, TransitionFails
  <2>2. PhaseOf(to) = "active" /\ PhaseOf(state[q]) = "active"
    BY <2>1, TableSources, ActivePhase DEF holdsResources, RUN_STATES
  <2>3. \A r \in Runs : PhaseOf(state'[r]) = PhaseOf(state[r])
    BY <2>1, <2>2
  <2> QED BY <1>1, <2>3
<1> QED BY <1>2, <1>3, <1>4

(* A conclusion is the one that was written down. *)
LEMMA ConclusionStep ==
  ASSUME TypeOK, Earned, Tracked, NEW c \in Calls, NEW q \in Runs, run[c] = q,
         FailStart(c) \/ Terminate(c)
  PROVE  [Ledger!Next]_(Ledger!ledger)
<1> USE DEF TypeOK, StoreTypeOK, OrchestratorTypeOK, Ledger!ledger
<1>1. UNCHANGED <<result, procRun>>
  BY DEF FailStart, Terminate, procs
<1>2. PhaseOf(state[q]) = "active"
  BY ActivePhase DEF FailStart, Terminate, Step, Tracked, Unsettled
<1>3. PICK to \in {"SUCCEEDED", "FAILED", "CANCELLED"}, a \in ResultFile :
        /\ UNCHANGED state \/ state' = [state EXCEPT ![q] = to]
        /\ Wrote(q, a) /\ Ledger!ConclusionOf(a) = PhaseOf(to)
        /\ to # "FAILED" => \E p \in Pids : procRun[p] = q
  <2>1. CASE FailStart(c)
    <3>1. UNCHANGED state \/ state' = [state EXCEPT ![q] = "FAILED"]
      BY <2>1 DEF FailStart, TryTransition, TransitionState, TransitionFails
    <3>2. Wrote(q, "failed")
      BY <2>1 DEF FailStart, Step, Tracked
    <3>3. Ledger!ConclusionOf("failed") = PhaseOf("FAILED")
      BY DEF Ledger!ConclusionOf, PhaseOf
    <3> QED BY <3>1, <3>2, <3>3 DEF ResultFile
  <2>2. CASE Terminate(c)
    <3> DEFINE o == proc[hnd[c]]
    <3>1. UNCHANGED state \/ state' = [state EXCEPT ![q] = TargetState(o)]
      BY <2>2 DEF Terminate, TryTransition, TransitionState, TransitionFails
    <3>2. Wrote(q, TargetResult(o))
      BY <2>2 DEF Terminate, Step, Tracked
    <3>3. Ledger!ConclusionOf(TargetResult(o)) = PhaseOf(TargetState(o))
      BY DEF Ledger!ConclusionOf, PhaseOf, TargetResult, TargetState
    <3>4. \E p \in Pids : procRun[p] = q
      BY <2>2 DEF Terminate, Step, Earned, Spawned, Recorded, Ended
    <3>5. TargetState(o) \in {"SUCCEEDED", "FAILED", "CANCELLED"} /\ TargetResult(o) \in ResultFile
      BY DEF TargetState, TargetResult, ResultFile
    <3> HIDE DEF o
    <3> QED BY <3>1, <3>2, <3>3, <3>4, <3>5
  <2> QED BY <2>1, <2>2
<1>4. CASE UNCHANGED state
  BY <1>1, <1>4
<1>5. CASE state' = [state EXCEPT ![q] = to]
  <2>1. /\ PhaseOf(to) \in Ledger!Concluded
        /\ PhaseOf(to) \in {"succeeded", "cancelled"} => to # "FAILED"
    BY DEF PhaseOf, Ledger!Concluded
  <2>2. \/ Ledger!ConclusionOf(result[q]) = PhaseOf(to)
        \/ "result" \in Faults /\ result[q] = "none"
    BY <1>3 DEF Wrote
  <2>3. [r \in Runs |-> PhaseOf(state'[r])]
          = [[r \in Runs |-> PhaseOf(state[r])] EXCEPT ![q] = PhaseOf(to)]
    BY <1>5, PhaseMove DEF StateFile, RUN_STATES
  <2>4. Ledger!Move(q, "active", PhaseOf(to))
    BY <1>2, <2>3 DEF Ledger!Move
  <2>5. Ledger!Conclude(q)
    BY <1>1, <1>3, <2>1, <2>2, <2>4 DEF Ledger!Conclude
  <2> QED BY <2>5 DEF Ledger!Next
<1> QED BY <1>3, <1>4, <1>5

(* Recovery concludes nothing. *)
LEMMA LossStep ==
  ASSUME TypeOK, NEW q \in Runs, RecoverOrphan(q)
  PROVE  [Ledger!Next]_(Ledger!ledger)
<1> USE DEF TypeOK, StoreTypeOK, OrchestratorTypeOK, Ledger!ledger
<1>1. UNCHANGED <<result, procRun>>
  BY DEF RecoverOrphan, orchestrator, procs
<1>2. CASE UNCHANGED state
  BY <1>1, <1>2
<1>3. CASE ~UNCHANGED state
  <2>1. CanTransition(state[q], "ORPHANED") /\ state' = [state EXCEPT ![q] = "ORPHANED"]
    BY <1>3 DEF RecoverOrphan, TransitionState, TransitionFails
  <2>2. PhaseOf("ORPHANED") = "lost" /\ PhaseOf(state[q]) = "active"
    BY <2>1, TableSources, ActivePhase DEF PhaseOf, RUN_STATES
  <2>3. [r \in Runs |-> PhaseOf(state'[r])]
          = [[r \in Runs |-> PhaseOf(state[r])] EXCEPT ![q] = "lost"]
    <3>1. "ORPHANED" \in StateFile
      BY DEF StateFile, RUN_STATES
    <3> QED BY <2>1, <2>2, <3>1, PhaseMove
  <2>4. Ledger!Lose(q)
    BY <1>1, <2>2, <2>3 DEF Ledger!Lose, Ledger!Move
  <2> QED BY <2>4 DEF Ledger!Next
<1> QED BY <1>2, <1>3

(* Every other step is one the ledger does not see. *)
LEMMA UnseenStep ==
  ASSUME UNCHANGED <<state, result, procRun>>
  PROVE  [Ledger!Next]_(Ledger!ledger)
BY DEF Ledger!ledger

LEMMA LedgerStep ==
  ASSUME TypeOK, TypeOK', IInv, Answers, Earned, Tracked, [Next]_vars
  PROVE  [Ledger!Next]_(Ledger!ledger)
<1>1. ASSUME NEW c \in Calls,
             \/ Spawn(c) \/ RecordFailure(c) \/ RecordResult(c) \/ Prepare(c) \/ MarkRunning(c)
             \/ Validate(c) \/ FailStart(c) \/ Terminate(c)
      PROVE  [Ledger!Next]_(Ledger!ledger)
  <2>1. pc[c] \in Unsettled \cup {"prepare"}
    BY <1>1 DEF Spawn, RecordFailure, RecordResult, Prepare, MarkRunning, Validate, FailStart,
                Terminate, Step, Unsettled, Unanswered
  <2>2. PICK q \in Runs : run[c] = q
    BY <2>1, Alone
  <2> QED BY <1>1, <2>2, LaunchStep, AnswerStep, AdvanceStep, ConclusionStep
<1>2. ASSUME NEW r \in Runs, createTask(r) \/ RecoverOrphan(r)
      PROVE  [Ledger!Next]_(Ledger!ledger)
  BY <1>2, CreationStep, LossStep
<1>3. CASE /\ \A r \in Runs : ~createTask(r) /\ ~RecoverOrphan(r)
           /\ \A c \in Calls : /\ ~Spawn(c) /\ ~RecordFailure(c) /\ ~RecordResult(c)
                               /\ ~Prepare(c) /\ ~MarkRunning(c) /\ ~Validate(c)
                               /\ ~FailStart(c) /\ ~Terminate(c)
  <2>1. UNCHANGED procRun
    BY <1>3, ProcRunSteps
  <2>2. UNCHANGED <<state, result>>
    BY <1>3, Writers DEF StateWriter, ResultWriter, createTask
  <2> QED BY <2>1, <2>2, UnseenStep
<1> QED BY <1>1, <1>2, <1>3

(* If callers start only runs whose createTask has ended, the daemon keeps  *)
(* the ledger's promises, through every race of starts, cancels and         *)
(* recovery, every failed write, every crash and every restart: acceptance  *)
(* before anything else, a single launch, an answer before a conclusion and *)
(* in agreement with it, no conclusion for a run whose outcome was lost,    *)
(* and nothing rewritten.                                                   *)
THEOREM KeepsLedger ==
  ASSUME Announced
  PROVE  Spec => ImplementsLedger
<1>1. Init => Ledger!Init
  <2> SUFFICES ASSUME Init PROVE Ledger!Init
    OBVIOUS
  <2>1. \A r \in Runs : PhaseOf(state[r]) = "unknown"
    BY DEF Init, StoreInit, PhaseOf
  <2>2. \A r \in Runs : ~\E p \in Pids : procRun[p] = r
    BY NoneAssumption DEF Init, OrchestratorInit, NoneAssumption
  <2>3. result = [r \in Runs |-> "none"]
    BY DEF Init, StoreInit
  <2> QED BY <2>1, <2>2, <2>3 DEF Ledger!Init
<1>2. TypeOK /\ TypeOK' /\ IInv /\ Answers /\ Earned /\ Tracked /\ [Next]_vars
           => Answers' /\ Earned' /\ Tracked' /\ [Ledger!Next]_(Ledger!ledger)
  BY AnswersStep, EarnedStep, TrackedStep, LedgerStep
<1> QED BY <1>1, <1>2, TypeCorrect, Inductive, InitAnswers, InitEarned, InitTracked,
           PTL DEF Spec, ImplementsLedger, Ledger!Spec

-----------------------------------------------------------------------------
(* When writing a result never fails, a terminal run always has the one it  *)
(* was concluded by.                                                        *)
Knowable ==
  \A r \in Runs : state[r] \in TERMINAL_RUN_STATES /\ verdict[r] # "deny" =>
    Agrees(state[r], result[r])

LEMMA KnowableStep ==
  ASSUME "result" \notin Faults, TypeOK, TypeOK', IInv, Answers, Earned, Tracked, Knowable,
         [Next]_vars
  PROVE  Knowable'
<1> SUFFICES ASSUME NEW r \in Runs, state'[r] \in TERMINAL_RUN_STATES, verdict'[r] # "deny"
             PROVE  Agrees(state'[r], result'[r])
  BY DEF Knowable
<1> USE DEF TypeOK, StoreTypeOK, OrchestratorTypeOK
<1>1. ~BeginCreate(r)
  BY DEF BeginCreate, TERMINAL_RUN_STATES
<1>2. verdict'[r] = verdict[r]
  BY <1>1, CreateMoves
<1>3. CASE state[r] \in TERMINAL_RUN_STATES
  <2>1. state'[r] = state[r] /\ Agrees(state[r], result[r])
    BY <1>2, <1>3, StatesAdvance DEF Knowable
  <2>2. result[r] # "none"
    BY <1>3, <2>1 DEF Agrees, TERMINAL_RUN_STATES
  <2> QED BY <2>1, <2>2, AnswersStep
<1>4. CASE state[r] \notin TERMINAL_RUN_STATES
  <2>1. ~WriteQueued(r) /\ ~RecoverOrphan(r)
    BY <1>4 DEF WriteQueued, INITIAL_RUN_STATE, RecoverOrphan, TransitionState, TransitionFails,
                TERMINAL_RUN_STATES
  <2>2. ~Deny(r)
    BY <1>2 DEF Deny, CreateStep, Tracked
  <2>3. PICK c \in Calls : /\ run[c] = r
                           /\ \/ Prepare(c) \/ MarkRunning(c) \/ FailStart(c)
                              \/ Validate(c) \/ Terminate(c)
    BY <1>1, <1>4, <2>1, <2>2, StateSteps
  <2>4. FailStart(c) \/ Terminate(c)
    BY <1>4, <2>3 DEF Prepare, MarkRunning, Validate, TransitionState, TransitionFails,
                      TERMINAL_RUN_STATES
  <2>5. result' = result
    BY <2>4 DEF FailStart, Terminate
  <2>6. CASE FailStart(c)
    <3>1. state'[r] = "FAILED" /\ result[r] = "failed"
      BY <1>4, <2>3, <2>6 DEF FailStart, TryTransition, TransitionState, TransitionFails, Step,
                              Tracked, Wrote
    <3> QED BY <2>5, <3>1 DEF Agrees
  <2>7. CASE Terminate(c)
    <3>1. state'[r] = TargetState(proc[hnd[c]]) /\ result[r] = TargetResult(proc[hnd[c]])
      BY <1>4, <2>3, <2>7 DEF Terminate, TryTransition, TransitionState, TransitionFails, Step,
                              Tracked, Wrote
    <3> QED BY <2>5, <3>1 DEF Agrees, TargetState, TargetResult
  <2> QED BY <2>4, <2>6, <2>7
<1> QED BY <1>3, <1>4

(* An admitted run that is terminal has its result on disk, and the two     *)
(* agree, at every moment a reader could look and after every crash,        *)
(* whatever else fails: #finalize and #failBeforeLaunch write the result    *)
(* first.                                                                   *)
(* Callers start only runs whose createTask has ended (Announced).          *)
THEOREM OutcomeKnown ==
  ASSUME Announced, "result" \notin Faults
  PROVE  Spec => []OutcomeIsKnowable
<1>1. Init => Knowable
  BY DEF Init, StoreInit, OrchestratorInit, Knowable, TERMINAL_RUN_STATES
<1>2. TypeOK /\ TypeOK' /\ IInv /\ Answers /\ Earned /\ Tracked /\ Knowable /\ [Next]_vars
           => Answers' /\ Earned' /\ Tracked' /\ Knowable'
  BY AnswersStep, EarnedStep, TrackedStep, KnowableStep
<1>3. Knowable => OutcomeIsKnowable
  BY DEF Knowable, OutcomeIsKnowable
<1> QED BY <1>1, <1>2, <1>3, TypeCorrect, Inductive, InitAnswers, InitEarned, InitTracked,
           PTL DEF Spec

-----------------------------------------------------------------------------
Sound == "state" \notin Faults /\ "adapter" \notin Faults

-----------------------------------------------------------------------------
(* What a call that has the lock knows of its run's state. *)
Prepared == {"provision", "spawn", "persist", "launch", "abandon", "fail", "fail_state"}
Underway == {"supervise", "ingest", "mark", "conclude", "validate"}

StagedAt(c) ==
  /\ pc[c] \in Prepared => state[run[c]] = "PREPARING"
  /\ pc[c] \in Underway => state[run[c]] = "RUNNING"
  /\ pc[c] = "validate" => proc[hnd[c]] \in CleanExits
  /\ pc[c] \in {"result", "terminal"} =>
       state[run[c]] = IF proc[hnd[c]] \in CleanExits THEN "VALIDATING" ELSE "RUNNING"
  /\ pc[c] \in {"check", "prepare", "unlock_start"} => ~holdsResources(state[run[c]])
  /\ pc[c] \in {"forget", "unlock"} => state[run[c]] \in TERMINAL_RUN_STATES

Staged == \A c \in Calls : StagedAt(c)

(* What recovery has settled is no longer mid-flight, or it has failed.     *)
Swept ==
  daemon = "recovering" /\ ~failure =>
    \A r \in Runs : rec[r] = "settled" => ~holdsResources(state[r])

Service == Staged /\ Swept /\ ActiveMeansOwned

LEMMA InitService == Init => Service
BY DEF Init, StoreInit, OrchestratorInit, Service, Staged, StagedAt, Swept, ActiveMeansOwned,
       Accepting, Prepared, Underway, holdsResources

(* Only its own steps move a call that has the lock. *)
LEMMA HolderMoves ==
  ASSUME TypeOK, [Next]_vars, NEW c \in Calls, HoldsLock(c)'
  PROVE  /\ run'[c] = run[c]
         /\ (pc'[c] = pc[c] /\ hnd'[c] = hnd[c]) \/ startRun(c) \/ finalize(c)
<1> USE DEF TypeOK, OrchestratorTypeOK, calls, Step, HoldsLock, Launching, Finishing
<1>1. ASSUME NEW d \in Calls, startRun(d)
      PROVE  /\ run' = run
             /\ d # c => pc'[c] = pc[c] /\ hnd'[c] = hnd[c]
  BY <1>1 DEF startRun, TakeLock, RunLocked, CheckPrepare, Prepare, Provision, Spawn, PersistPid,
              MarkRunning, Abandon, RecordFailure, FailStart
<1>2. ASSUME NEW d \in Calls, finalize(d) \/ Unlock(d)
      PROVE  /\ run' = run
             /\ d # c \/ Unlock(d) => pc'[c] = pc[c] /\ hnd'[c] = hnd[c]
  BY <1>2 DEF finalize, Collect, CompletionRejects, Ingest, MarkIngested, Conclude, Validate,
              RecordResult, Terminate, Forget, Unlock
<1>3. ASSUME NEW d \in Calls, NEW r \in Runs, BeginStart(d, r)
      PROVE  pc'[c] = pc[c] /\ run'[c] = run[c] /\ hnd'[c] = hnd[c]
  BY <1>3 DEF BeginStart
<1>4. ~Exit /\ ~Crash
  BY DEF Exit, Crash, Vanish
<1>5. CASE \/ Boot \/ recoverRuns \/ Signal \/ DrainSnapshot \/ UNCHANGED vars
           \/ \E r \in Runs : createTask(r) \/ CancelRun(r) \/ CancelReply(r)
           \/ \E p \in Pids : WorkerEnds(p) \/ StrayEnds(p)
  BY <1>5 DEF Boot, recoverRuns, RecoverInspect, RecoverStop, RecoverOrphan, RecoverDone,
              Signal, DrainSnapshot, vars, createTask, BeginCreate, WriteQueued, WriteAudit,
              MarkAudit, CheckDenial, Deny, WriteDenial, CancelRun, CancelReply, WorkerEnds,
              StrayEnds,
              orchestrator
<1> QED BY <1>1, <1>2, <1>3, <1>4, <1>5 DEF Next, Orchestrate

(* The transitions the daemon asks for are all in the table. *)
LEMMA TableAllows ==
  /\ CanTransition("PREPARING", "RUNNING") /\ CanTransition("PREPARING", "FAILED")
  /\ CanTransition("RUNNING", "VALIDATING")
  /\ CanTransition("RUNNING", "FAILED") /\ CanTransition("RUNNING", "CANCELLED")
  /\ CanTransition("VALIDATING", "SUCCEEDED") /\ CanTransition("VALIDATING", "FAILED")
BY DEF CanTransition, TRANSITIONS, RUN_STATES

LEMMA StartStaged ==
  ASSUME NEW c \in Calls, Sound, TypeOK, IInv, StagedAt(c), ActiveMeansOwned, startRun(c),
         HoldsLock(c)'
  PROVE  StagedAt(c)'
<1> USE DEF TypeOK, StoreTypeOK, OrchestratorTypeOK, StagedAt, Prepared, Underway, Step
<1>1. run[c] \in Runs /\ UNCHANGED run
  BY DEF startRun, TakeLock, RunLocked, CheckPrepare, Prepare, Provision, Spawn, PersistPid,
         MarkRunning, Abandon, RecordFailure, FailStart, IInv, Ownership
<1>2. CASE TakeLock(c)
  <2>1. pc[c] = "lock" /\ pc' = [pc EXCEPT ![c] = "check"] /\ UNCHANGED state /\ ~lock[run[c]]
    BY <1>2 DEF TakeLock, AcquireLock
  <2>2. Accepting /\ \A d \in Calls : HoldsLock(d) => run[d] # run[c]
    BY <2>1 DEF IInv, Ownership
  <2>3. ~holdsResources(state[run[c]])
    BY <1>1, <2>2 DEF ActiveMeansOwned
  <2> QED BY <1>1, <2>1, <2>3
<1>3. CASE RunLocked(c)
  BY <1>3 DEF RunLocked, HoldsLock, Launching, Finishing
<1>4. CASE CheckPrepare(c)
  BY <1>4 DEF CheckPrepare, store
<1>5. CASE Prepare(c)
  BY <1>1, <1>5 DEF Prepare, Sound
<1>6. CASE Provision(c) \/ Spawn(c) \/ PersistPid(c) \/ RecordFailure(c)
  BY <1>1, <1>6 DEF Provision, Spawn, PersistPid, RecordFailure, store
<1>7. CASE MarkRunning(c)
  <2>1. state[run[c]] = "PREPARING"
    BY <1>7 DEF MarkRunning
  <2>2. ~TransitionFails(run[c], "RUNNING")
    BY <2>1, TableAllows DEF TransitionFails, Sound
  <2>3. pc' = [pc EXCEPT ![c] = "supervise"] /\ state' = [state EXCEPT ![run[c]] = "RUNNING"]
    BY <1>7, <2>2 DEF MarkRunning, TransitionState
  <2> QED BY <1>1, <2>3
<1>8. CASE Abandon(c)
  BY <1>1, <1>8 DEF Abandon, Sound, store
<1>9. CASE FailStart(c)
  <2>1. pc' = [pc EXCEPT ![c] = "unlock_start"] /\ state[run[c]] = "PREPARING"
    BY <1>9 DEF FailStart
  <2>2. state' = [state EXCEPT ![run[c]] = "FAILED"]
    BY <1>9, <2>1, TableAllows DEF FailStart, TryTransition, TransitionState, TransitionFails, Sound
  <2> QED BY <1>1, <2>1, <2>2 DEF holdsResources
<1> QED BY <1>2, <1>3, <1>4, <1>5, <1>6, <1>7, <1>8, <1>9 DEF startRun

LEMMA FinalizeStaged ==
  ASSUME NEW c \in Calls, Sound, TypeOK, IInv, StagedAt(c), finalize(c)
  PROVE  StagedAt(c)'
<1> USE DEF TypeOK, StoreTypeOK, OrchestratorTypeOK, StagedAt, Prepared, Underway, Step
<1>1. run[c] \in Runs /\ UNCHANGED <<run, hnd, proc>>
  BY DEF finalize, Collect, CompletionRejects, Ingest, MarkIngested, Conclude, Validate,
         RecordResult, Terminate, Forget, procs, IInv, Ownership
<1>2. CASE Collect(c) \/ CompletionRejects(c) \/ Ingest(c) \/ MarkIngested(c) \/ RecordResult(c)
  BY <1>1, <1>2 DEF Collect, CompletionRejects, Ingest, MarkIngested, RecordResult, Sound, store
<1>3. CASE Conclude(c)
  BY <1>1, <1>3 DEF Conclude, Sound, store
<1>4. CASE Validate(c)
  <2>1. state[run[c]] = "RUNNING" /\ proc[hnd[c]] \in CleanExits
    BY <1>4 DEF Validate
  <2>2. ~TransitionFails(run[c], "VALIDATING")
    BY <2>1, TableAllows DEF TransitionFails, Sound
  <2>3. pc' = [pc EXCEPT ![c] = "result"] /\ state' = [state EXCEPT ![run[c]] = "VALIDATING"]
    BY <1>4, <2>2 DEF Validate, TransitionState
  <2> QED BY <1>1, <2>1, <2>3
<1>5. CASE Terminate(c)
  <2> DEFINE o == proc[hnd[c]]
  <2>1. pc' = [pc EXCEPT ![c] = "forget"]
        /\ state[run[c]] = IF o \in CleanExits THEN "VALIDATING" ELSE "RUNNING"
    BY <1>5 DEF Terminate
  <2>2. /\ TargetState(o) \in TERMINAL_RUN_STATES
        /\ TargetState(o) = "SUCCEEDED" => o \in CleanExits
        /\ TargetState(o) = "CANCELLED" => o \notin CleanExits
    BY DEF TargetState, CleanExits, TERMINAL_RUN_STATES
  <2>3. CanTransition(state[run[c]], TargetState(o))
    BY <2>1, <2>2, TableAllows DEF TERMINAL_RUN_STATES
  <2>4. state' = [state EXCEPT ![run[c]] = TargetState(o)]
    BY <1>5, <2>3 DEF Terminate, TryTransition, TransitionState, TransitionFails, Sound
  <2> QED BY <1>1, <2>1, <2>2, <2>4
<1>6. CASE Forget(c)
  BY <1>1, <1>6 DEF Forget, store
<1> QED BY <1>2, <1>3, <1>4, <1>5, <1>6 DEF finalize

LEMMA StagedStep ==
  ASSUME Sound, TypeOK, TypeOK', IInv, Earned, Service, [Next]_vars
  PROVE  Staged'
<1> SUFFICES ASSUME NEW c \in Calls PROVE StagedAt(c)'
  BY DEF Staged
<1>1. StagedAt(c) /\ ActiveMeansOwned
  BY DEF Service, Staged
<1>2. CASE ~HoldsLock(c)'
  BY <1>2 DEF HoldsLock, Launching, Finishing, StagedAt, Prepared, Underway
<1>3. CASE HoldsLock(c)' /\ (startRun(c) \/ finalize(c))
  BY <1>1, <1>3, StartStaged, FinalizeStaged
<1>4. CASE HoldsLock(c)' /\ pc'[c] = pc[c] /\ hnd'[c] = hnd[c] /\ ~startRun(c) /\ ~finalize(c)
  <2>1. HoldsLock(c) /\ run'[c] = run[c]
    BY <1>4, HolderMoves DEF HoldsLock
  <2>2. state'[run[c]] = state[run[c]]
    BY <1>4, <2>1, OwnState DEF startRun, finalize
  <2>3. pc[c] \in Ended => proc[hnd[c]] # "alive" /\ proc[hnd[c]] # "unused" /\ hnd[c] \in Pids
    BY DEF Earned, Spawned, Recorded
  <2>4. pc[c] \in Ended => proc'[hnd[c]] = proc[hnd[c]]
    BY <2>3, ProcsAdvance
  <2> QED BY <1>1, <1>4, <2>1, <2>2, <2>4 DEF StagedAt, Ended
<1> QED BY <1>2, <1>3, <1>4, HolderMoves

(* A holder keeps the lock until it gives it back. *)
LEMMA HolderStays ==
  ASSUME TypeOK, IInv, [Next]_vars, NEW c \in Calls, HoldsLock(c), Accepting'
  PROVE  run'[c] = run[c] /\ (HoldsLock(c)' \/ Unlock(c))
<1> USE DEF TypeOK, OrchestratorTypeOK, calls, Step
<1>1. ASSUME NEW d \in Calls, startRun(d)
      PROVE  run' = run /\ HoldsLock(c)'
  BY <1>1 DEF startRun, TakeLock, RunLocked, CheckPrepare, Prepare, Provision, Spawn, PersistPid,
              MarkRunning, Abandon, RecordFailure, FailStart, HoldsLock, Launching, Finishing
<1>2. ASSUME NEW d \in Calls, finalize(d)
      PROVE  run' = run /\ HoldsLock(c)'
  BY <1>2 DEF finalize, Collect, CompletionRejects, Ingest, MarkIngested, Conclude, Validate,
              RecordResult, Terminate, Forget, HoldsLock, Launching, Finishing
<1>3. ASSUME NEW d \in Calls, Unlock(d) PROVE run' = run /\ (d = c \/ pc'[c] = pc[c])
  BY <1>3 DEF Unlock
<1>4. ASSUME NEW d \in Calls, NEW r \in Runs, BeginStart(d, r)
      PROVE  pc'[c] = pc[c] /\ run'[c] = run[c]
  BY <1>4 DEF BeginStart, HoldsLock, Launching, Finishing
<1>5. ~Exit /\ ~Crash
  BY DEF Exit, Crash, Vanish, Accepting
<1>6. CASE \/ Boot \/ recoverRuns \/ Signal \/ DrainSnapshot \/ UNCHANGED vars
           \/ \E r \in Runs : createTask(r) \/ CancelRun(r) \/ CancelReply(r)
           \/ \E p \in Pids : WorkerEnds(p) \/ StrayEnds(p)
  BY <1>6 DEF Boot, recoverRuns, RecoverInspect, RecoverStop, RecoverOrphan, RecoverDone,
              Signal, DrainSnapshot, vars, createTask, BeginCreate, WriteQueued, WriteAudit,
              MarkAudit, CheckDenial, Deny, WriteDenial, CancelRun, CancelReply, WorkerEnds,
              StrayEnds,
              orchestrator, HoldsLock
<1> QED BY <1>1, <1>2, <1>3, <1>4, <1>5, <1>6 DEF Next, Orchestrate, HoldsLock

(* What a step other than a call's does to a run's state is to create it,   *)
(* deny it or give it up.                                                   *)
LEMMA ActiveBy ==
  ASSUME TypeOK, [Next]_vars, NEW r \in Runs, holdsResources(state'[r])
  PROVE  \/ state'[r] = state[r]
         \/ \E d \in Calls : run[d] = r /\ HoldsLock(d) /\ HoldsLock(d)' /\ run'[d] = r
<1> USE DEF TypeOK, StoreTypeOK, OrchestratorTypeOK
<1>1. ASSUME BeginCreate(r) \/ WriteQueued(r) \/ Deny(r) \/ RecoverOrphan(r)
      PROVE  state'[r] = state[r]
  BY <1>1 DEF BeginCreate, WriteQueued, Deny, RecoverOrphan, TransitionState, TransitionFails,
              INITIAL_RUN_STATE, holdsResources
<1>2. ASSUME NEW d \in Calls, run[d] = r,
             Prepare(d) \/ MarkRunning(d) \/ FailStart(d) \/ Validate(d) \/ Terminate(d)
      PROVE  HoldsLock(d) /\ HoldsLock(d)' /\ run'[d] = r
  BY <1>2 DEF Prepare, MarkRunning, FailStart, Validate, Terminate, Step, HoldsLock, Launching,
              Finishing
<1> QED BY <1>1, <1>2, StateSteps

LEMMA OrchestrateKeepsDaemon ==
  ASSUME Orchestrate
  PROVE  UNCHANGED daemon
<1>1. ASSUME NEW r \in Runs, createTask(r) \/ CancelRun(r) \/ CancelReply(r)
      PROVE  UNCHANGED daemon
  BY <1>1 DEF createTask, BeginCreate, WriteQueued, WriteAudit, MarkAudit, CheckDenial, Deny,
              WriteDenial,
              CancelRun, CancelReply
<1>2. ASSUME NEW c \in Calls, startRun(c) PROVE UNCHANGED daemon
  BY <1>2 DEF startRun, TakeLock, RunLocked, CheckPrepare, Prepare, Provision, Spawn, PersistPid,
              MarkRunning, Abandon, RecordFailure, FailStart
<1>3. ASSUME NEW c \in Calls, finalize(c) \/ Unlock(c) PROVE UNCHANGED daemon
  BY <1>3 DEF finalize, Collect, CompletionRejects, Ingest, MarkIngested, Conclude, Validate,
              RecordResult, Terminate, Forget, Unlock
<1> QED BY <1>1, <1>2, <1>3 DEF Orchestrate, BeginStart, WorkerEnds, StrayEnds

LEMMA DaemonMoves ==
  ASSUME [Next]_vars, daemon' # daemon
  PROVE  Boot \/ RecoverDone \/ Signal \/ DrainSnapshot \/ Exit \/ Crash
BY OrchestrateKeepsDaemon DEF Next, recoverRuns, RecoverInspect, RecoverStop, RecoverOrphan, vars

LEMMA OwnedStep ==
  ASSUME TypeOK, TypeOK', IInv, Service, [Next]_vars
  PROVE  ActiveMeansOwned'
<1> SUFFICES ASSUME Accepting', NEW r \in Runs, holdsResources(state'[r])
             PROVE  \E c \in Calls : HoldsLock(c)' /\ run'[c] = r
  BY DEF ActiveMeansOwned
<1> USE DEF TypeOK, StoreTypeOK, OrchestratorTypeOK
<1>1. CASE state'[r] # state[r]
  BY <1>1, ActiveBy
<1>2. CASE state'[r] = state[r] /\ Accepting
  <2>1. PICK c \in Calls : HoldsLock(c) /\ run[c] = r
    BY <1>2 DEF Service, ActiveMeansOwned
  <2>2. ~Unlock(c)
    BY <1>2, <2>1 DEF Unlock, Step, Service, Staged, StagedAt, holdsResources, TERMINAL_RUN_STATES
  <2> QED BY <2>1, <2>2, HolderStays
<1>3. CASE state'[r] = state[r] /\ ~Accepting
  <2>1. RecoverDone
    BY <1>3, DaemonMoves DEF Accepting, Boot, Signal, DrainSnapshot, Exit, Crash, Vanish, Off
  <2>2. daemon = "recovering" /\ ~failure /\ rec[r] = "settled"
    BY <2>1 DEF RecoverDone, Accepting
  <2> QED BY <1>3, <2>2 DEF Service, Swept
<1> QED BY <1>1, <1>2, <1>3

(* Outside recovery's own steps, nothing happens to its work list.          *)
LEMMA RecoveryFrame ==
  ASSUME TypeOK, IInv, [Next]_vars, daemon' = "recovering"
  PROVE  \/ Boot
         \/ \E r \in Runs : RecoverInspect(r) \/ RecoverStop(r) \/ RecoverOrphan(r)
         \/ daemon = "recovering" /\ UNCHANGED <<rec, failure, state>>
<1>1. ~Signal /\ ~DrainSnapshot /\ ~Exit /\ ~Crash /\ ~RecoverDone
  BY DEF Signal, DrainSnapshot, Exit, Crash, Vanish, Off, RecoverDone
<1>2. CASE UNCHANGED vars
  BY <1>2 DEF vars, store
<1>3. CASE Orchestrate
  <2>1. UNCHANGED daemon
    BY <1>3, OrchestrateKeepsDaemon
  <2>2. /\ ~Accepting
        /\ \A c \in Calls : pc[c] = "idle" /\ \A r \in Runs : cpc[r] = "idle"
    BY <2>1 DEF Accepting, IInv, Ownership
  <2>3. ASSUME NEW r \in Runs, cpc[r] = "idle" PROVE ~createTask(r)
    BY <2>2, <2>3 DEF createTask, BeginCreate, WriteQueued, WriteAudit, MarkAudit, CheckDenial,
                      Deny,
                      WriteDenial, CreateStep
  <2>4. ASSUME NEW c \in Calls PROVE ~startRun(c) /\ ~finalize(c) /\ ~Unlock(c)
    BY <2>2, <2>4 DEF startRun, TakeLock, RunLocked, CheckPrepare, Prepare, Provision, Spawn,
                PersistPid, MarkRunning, Abandon, RecordFailure, FailStart, finalize, Collect,
                CompletionRejects, Ingest, MarkIngested, Conclude, Validate, RecordResult, Terminate,
                Forget, Unlock, Step
  <2>5. \A r \in Runs : cpc[r] = "idle"
    BY <2>2 DEF IInv, Ownership
  <2>6. UNCHANGED state
    BY <1>3, <2>3, <2>4, <2>5 DEF Orchestrate, CancelRun, CancelReply, BeginStart, WorkerEnds,
                                  StrayEnds, store
  <2> QED BY <1>3, <2>1, <2>6 DEF Orchestrate
<1> QED BY <1>1, <1>2, <1>3 DEF Next, recoverRuns

LEMMA SweptStep ==
  ASSUME TypeOK, TypeOK', IInv, Service, [Next]_vars
  PROVE  Swept'
<1> SUFFICES ASSUME daemon' = "recovering", ~failure', NEW q \in Runs, rec'[q] = "settled"
             PROVE  ~holdsResources(state'[q])
  BY DEF Swept
<1> USE DEF TypeOK, StoreTypeOK
<1>1. CASE Boot
  BY <1>1 DEF Boot, store, holdsResources
<1>2. ASSUME daemon = "recovering", ~failure, rec[q] = "settled" PROVE ~holdsResources(state[q])
  BY <1>2 DEF Service, Swept
<1>3. ASSUME NEW r \in Runs, RecoverInspect(r) PROVE ~holdsResources(state'[q])
  <2>1. daemon = "recovering" /\ UNCHANGED state /\ ~failure
    BY <1>3 DEF RecoverInspect
  <2>2. CASE q = r
    BY <1>3, <2>1, <2>2 DEF RecoverInspect, RecoverStep, NeedsRecovery, holdsResources, RUN_STATES,
                            TERMINAL_RUN_STATES
  <2>3. CASE q # r
    BY <1>2, <1>3, <2>1, <2>3 DEF RecoverInspect, RecoverStep
  <2> QED BY <2>2, <2>3
<1>4. ASSUME NEW r \in Runs, RecoverStop(r) PROVE ~holdsResources(state'[q])
  <2>1. daemon = "recovering" /\ UNCHANGED state /\ ~failure
    BY <1>4 DEF RecoverStop, store
  <2>2. q # r /\ rec[q] = "settled"
    BY <1>4 DEF RecoverStop, RecoverStep
  <2> QED BY <1>2, <2>1, <2>2
<1>5. ASSUME NEW r \in Runs, RecoverOrphan(r) PROVE ~holdsResources(state'[q])
  <2>1. daemon = "recovering" /\ ~failure /\ state' = [state EXCEPT ![r] = "ORPHANED"]
    BY <1>5 DEF RecoverOrphan, TransitionState
  <2>2. q # r => rec[q] = "settled"
    BY <1>5 DEF RecoverOrphan, RecoverStep
  <2> QED BY <1>2, <2>1, <2>2 DEF holdsResources
<1>6. CASE daemon = "recovering" /\ UNCHANGED <<rec, failure, state>>
  BY <1>2, <1>6
<1> QED BY <1>1, <1>3, <1>4, <1>5, <1>6, RecoveryFrame

(* No client ever sees a run mid-flight that this life of the daemon is not *)
(* working on, as long as state.json can be read and written and the        *)
(* adapter can finish its transcript (recoverRuns before the socket opens;  *)
(* #finalize and #failBeforeLaunch before the lock goes).                   *)
(* Callers start only runs whose createTask has ended (Announced).          *)
THEOREM ActiveOwned ==
  ASSUME Announced, Sound
  PROVE  Spec => []ActiveMeansOwned
<1>1. TypeOK /\ TypeOK' /\ IInv /\ Answers /\ Earned /\ Service /\ [Next]_vars
           => Answers' /\ Earned' /\ Service'
  BY AnswersStep, EarnedStep, StagedStep, OwnedStep, SweptStep DEF Service
<1>2. Service => ActiveMeansOwned
  BY DEF Service
<1> QED BY <1>1, <1>2, TypeCorrect, Inductive, InitAnswers, InitEarned, InitService, PTL DEF Spec

-----------------------------------------------------------------------------
(* The finalisation a canceller waits for is of its own run, and when it is *)
(* done the run is terminal.                                                *)
Waits ==
  /\ \A r \in Runs : finalizing[r] # NoCall =>
       run[finalizing[r]] = r /\ pc[finalizing[r]] \in Finishing \ {"unlock"}
  /\ \A r \in Runs : canceller[r] # NoCall =>
       /\ run[canceller[r]] = r
       /\ pc[canceller[r]] \in Finishing \cup {"done"}
       /\ pc[canceller[r]] = "done" => state[r] \in TERMINAL_RUN_STATES
  /\ CancelReplyIsDurable

LEMMA InitWaits == Init => Waits
BY DEF Init, StoreInit, OrchestratorInit, Waits, CancelReplyIsDurable

(* Who writes the maps of the service. *)
LEMMA MapMoves ==
  ASSUME [Next]_vars, ~Exit, ~Crash
  PROVE  /\ UNCHANGED finalizing \/ \E d \in Calls : MarkRunning(d) \/ Forget(d)
         /\ UNCHANGED <<canceller, reply>> \/ \E r \in Runs : CancelRun(r) \/ CancelReply(r)
<1> USE DEF maps, cancels, orchestrator
<1>1. ASSUME NEW r \in Runs, createTask(r) PROVE UNCHANGED <<maps, cancels>>
  BY <1>1 DEF createTask, BeginCreate, WriteQueued, WriteAudit, MarkAudit, CheckDenial, Deny,
              WriteDenial
<1>2. ASSUME NEW c \in Calls, startRun(c), ~MarkRunning(c) PROVE UNCHANGED <<maps, cancels>>
  BY <1>2 DEF startRun, TakeLock, RunLocked, CheckPrepare, Prepare, Provision, Spawn, PersistPid,
              Abandon, RecordFailure, FailStart
<1>3. ASSUME NEW c \in Calls, finalize(c) \/ Unlock(c), ~Forget(c)
      PROVE  UNCHANGED <<finalizing, cancels>>
  BY <1>3 DEF finalize, Collect, CompletionRejects, Ingest, MarkIngested, Conclude, Validate,
              RecordResult, Terminate, Unlock
<1>4. ASSUME NEW c \in Calls, MarkRunning(c) \/ Forget(c) PROVE UNCHANGED cancels
  BY <1>4 DEF MarkRunning, Forget
<1>5. CASE recoverRuns \/ Boot \/ Signal \/ DrainSnapshot \/ UNCHANGED vars
  BY <1>5 DEF recoverRuns, RecoverInspect, RecoverStop, RecoverOrphan, RecoverDone, Boot, Signal,
              DrainSnapshot, vars
<1>6. CASE \/ \E c \in Calls, r \in Runs : BeginStart(c, r)
           \/ \E r \in Runs : CancelRun(r) \/ CancelReply(r)
           \/ \E p \in Pids : WorkerEnds(p) \/ StrayEnds(p)
  BY <1>6 DEF BeginStart, CancelRun, CancelReply, WorkerEnds, StrayEnds
<1> QED BY <1>1, <1>2, <1>3, <1>4, <1>5, <1>6 DEF Next, Orchestrate

(* A finalisation goes on to its end, and then stays there. *)
LEMMA FinishingStays ==
  ASSUME TypeOK, [Next]_vars, ~Exit, ~Crash, NEW c \in Calls, pc[c] \in Finishing \cup {"done"}
  PROVE  /\ run'[c] = run[c]
         /\ pc'[c] \in Finishing \cup {"done"}
         /\ pc'[c] = "done" => pc[c] = "done" \/ pc[c] = "unlock"
         /\ pc'[c] = "unlock" => pc[c] = "unlock" \/ Forget(c)
<1> USE DEF TypeOK, OrchestratorTypeOK, calls, Step
<1>1. ASSUME NEW d \in Calls, startRun(d)
      PROVE  run' = run /\ pc'[c] = pc[c]
  BY <1>1 DEF startRun, TakeLock, RunLocked, CheckPrepare, Prepare, Provision, Spawn, PersistPid,
              MarkRunning, Abandon, RecordFailure, FailStart, Finishing
<1>2. ASSUME NEW d \in Calls, finalize(d) \/ Unlock(d)
      PROVE  /\ run' = run
             /\ d # c => pc'[c] = pc[c]
             /\ pc'[c] \in Finishing \cup {"done"}
             /\ pc'[c] = "done" => pc[c] = "done" \/ pc[c] = "unlock"
             /\ pc'[c] = "unlock" => pc[c] = "unlock" \/ d = c
  BY <1>2 DEF finalize, Collect, CompletionRejects, Ingest, MarkIngested, Conclude, Validate,
              RecordResult, Terminate, Forget, Unlock, Finishing
<1>3. ASSUME finalize(c) \/ Unlock(c), pc'[c] = "unlock" PROVE Forget(c)
  BY <1>3 DEF finalize, Collect, CompletionRejects, Ingest, MarkIngested, Conclude, Validate,
              RecordResult, Terminate, Unlock
<1>4. ASSUME NEW d \in Calls, NEW r \in Runs, BeginStart(d, r)
      PROVE  pc'[c] = pc[c] /\ run'[c] = run[c]
  BY <1>4 DEF BeginStart, Finishing
<1>5. CASE \/ Boot \/ recoverRuns \/ Signal \/ DrainSnapshot \/ UNCHANGED vars
           \/ \E r \in Runs : createTask(r) \/ CancelRun(r) \/ CancelReply(r)
           \/ \E p \in Pids : WorkerEnds(p) \/ StrayEnds(p)
  BY <1>5 DEF Boot, recoverRuns, RecoverInspect, RecoverStop, RecoverOrphan, RecoverDone,
              Signal, DrainSnapshot, vars, createTask, BeginCreate, WriteQueued, WriteAudit,
              MarkAudit, CheckDenial, Deny, WriteDenial, CancelRun, CancelReply, WorkerEnds,
              StrayEnds,
              orchestrator
<1> QED BY <1>1, <1>2, <1>3, <1>4, <1>5 DEF Next, Orchestrate

LEMMA WaitsStep ==
  ASSUME TypeOK, TypeOK', IInv, Service, Waits, [Next]_vars
  PROVE  Waits'
<1> USE DEF TypeOK, StoreTypeOK, OrchestratorTypeOK
<1>1. CASE Exit \/ Crash
  BY <1>1 DEF Exit, Crash, Vanish, store, Waits, CancelReplyIsDurable
<1>2. CASE ~Exit /\ ~Crash
  <2>1. ASSUME NEW r \in Runs, finalizing'[r] # NoCall
        PROVE  run'[finalizing'[r]] = r /\ pc'[finalizing'[r]] \in Finishing \ {"unlock"}
    <3>1. CASE \E d \in Calls : MarkRunning(d) /\ finalizing' # finalizing /\ run[d] = r
      <4>1. PICK d \in Calls : MarkRunning(d) /\ finalizing' # finalizing /\ run[d] = r
        BY <3>1
      <4>2. /\ finalizing' = [finalizing EXCEPT ![r] = d]
            /\ pc' = [pc EXCEPT ![d] = "supervise"] /\ UNCHANGED run
        BY <4>1 DEF MarkRunning, Step, maps
      <4> QED BY <4>1, <4>2 DEF Finishing
    <3>2. CASE finalizing'[r] = finalizing[r]
      <4>1. PICK c \in Calls : c = finalizing[r] /\ run[c] = r /\ pc[c] \in Finishing \ {"unlock"}
        BY <2>1, <3>2 DEF Waits
      <4>2. ~Forget(c)
        BY <2>1, <3>2, <4>1 DEF Forget
      <4>3. run'[c] = r /\ pc'[c] \in Finishing \ {"unlock"}
        <5>1. pc'[c] # "done" /\ pc'[c] # "unlock"
          BY <1>2, <4>1, <4>2, FinishingStays DEF Finishing
        <5> QED BY <1>2, <4>1, <5>1, FinishingStays
      <4> QED BY <3>2, <4>1, <4>3
    <3>3. \/ finalizing'[r] = finalizing[r]
          \/ \E d \in Calls : MarkRunning(d) /\ finalizing' # finalizing /\ run[d] = r
      <4>1. ASSUME NEW d \in Calls, MarkRunning(d), finalizing' # finalizing, run[d] # r
            PROVE  finalizing'[r] = finalizing[r]
        BY <4>1 DEF MarkRunning, maps
      <4>2. ASSUME NEW d \in Calls, Forget(d) PROVE finalizing'[r] = finalizing[r]
        BY <2>1, <4>2 DEF Forget
      <4> QED BY <1>2, <4>1, <4>2, MapMoves
    <3> QED BY <3>1, <3>2, <3>3
  <2>2. ASSUME NEW r \in Runs, canceller'[r] # NoCall
        PROVE  /\ run'[canceller'[r]] = r
               /\ pc'[canceller'[r]] \in Finishing \cup {"done"}
               /\ pc'[canceller'[r]] = "done" => state'[r] \in TERMINAL_RUN_STATES
    <3>1. PICK c \in Calls : /\ canceller'[r] = c /\ run[c] = r
                             /\ pc[c] \in Finishing \cup {"done"}
                             /\ pc[c] = "done" => state[r] \in TERMINAL_RUN_STATES
      <4>1. canceller'[r] = canceller[r] \/ (canceller'[r] = finalizing[r])
        <5>1. ASSUME NEW q \in Runs, CancelRun(q) \/ CancelReply(q)
              PROVE  canceller'[r] = canceller[r] \/ canceller'[r] = finalizing[r]
          BY <2>2, <5>1 DEF CancelRun, CancelReply
        <5> QED BY <1>2, <5>1, MapMoves
      <4>2. CASE canceller'[r] = canceller[r]
        BY <2>2, <4>2 DEF Waits
      <4>3. CASE canceller'[r] = finalizing[r]
        BY <2>2, <4>3 DEF Waits, Finishing
      <4> QED BY <4>1, <4>2, <4>3
    <3>2. /\ run'[c] = r /\ pc'[c] \in Finishing \cup {"done"}
          /\ pc'[c] = "done" => pc[c] \in {"done", "unlock"}
      BY <1>2, <3>1, FinishingStays
    <3>3. pc[c] = "unlock" => state[r] \in TERMINAL_RUN_STATES
      BY <3>1 DEF Service, Staged, StagedAt
    <3> QED BY <3>1, <3>2, <3>3, StatesAdvance
  <2>3. ASSUME NEW r \in Runs, reply'[r] # "none"
        PROVE  reply'[r] \in TERMINAL_RUN_STATES /\ state'[r] = reply'[r]
    <3>1. reply'[r] \in TERMINAL_RUN_STATES /\ state[r] = reply'[r]
      <4>1. CASE reply'[r] = reply[r]
        BY <2>3, <4>1 DEF Waits, CancelReplyIsDurable
      <4>2. CASE CancelReply(r)
        BY <4>2 DEF CancelReply, Waits
      <4>3. ASSUME NEW q \in Runs, q # r, CancelRun(q) \/ CancelReply(q)
            PROVE  reply'[r] = reply[r]
        BY <4>3 DEF CancelRun, CancelReply
      <4>4. CancelRun(r) => reply' = reply
        BY DEF CancelRun
      <4> QED BY <1>2, <4>1, <4>2, <4>3, <4>4, MapMoves
    <3> QED BY <3>1, StatesAdvance
  <2> QED BY <2>1, <2>2, <2>3 DEF Waits, CancelReplyIsDurable
<1> QED BY <1>1, <1>2

(* What cancelRun tells its caller is terminal and stays true: it waits for *)
(* the finalisation it captured, and that ends in a terminal state.         *)
(* Callers start only runs whose createTask has ended (Announced).          *)
THEOREM CancelDurable ==
  ASSUME Announced, Sound
  PROVE  Spec => []CancelReplyIsDurable
<1>1. Init => Service /\ Waits
  BY InitService, InitWaits
<1>2. TypeOK /\ TypeOK' /\ IInv /\ Answers /\ Earned /\ Service /\ Waits /\ [Next]_vars
           => Answers' /\ Earned' /\ Service' /\ Waits'
  BY AnswersStep, EarnedStep, StagedStep, OwnedStep, SweptStep, WaitsStep DEF Service
<1>3. Waits => CancelReplyIsDurable
  BY DEF Waits
<1> QED BY <1>1, <1>2, <1>3, TypeCorrect, Inductive, InitAnswers, InitEarned, PTL DEF Spec

-----------------------------------------------------------------------------
(* Every live worker is somebody's: a call's, the next recovery's, or, the  *)
(* daemon having died before its pid was on disk, nobody's and the run is   *)
(* known to be lost.                                                        *)
Attended == {"persist", "launch", "abandon", "supervise"}

Minded ==
  \A p \in Pids : proc[p] = "alive" =>
    /\ procRun[p] \in Runs
    /\ \/ state[procRun[p]] = "ORPHANED"
       \/ \E c \in Calls : pc[c] \in Attended /\ hnd[c] = p
       \/ ~Accepting /\ holdsResources(state[procRun[p]])

LEMMA InitMinded == Init => Minded
BY DEF Init, OrchestratorInit, Minded

(* A process is born attended. *)
LEMMA ProcBorn ==
  ASSUME TypeOK, [Next]_vars, NEW p \in Pids, proc[p] # "alive", proc'[p] = "alive"
  PROVE  \E d \in Calls : /\ Spawn(d) /\ pc'[d] = "persist" /\ hnd'[d] = p
                          /\ procRun'[p] = run[d]
<1> USE DEF TypeOK, OrchestratorTypeOK, procs
<1>1. ASSUME NEW c \in Calls, startRun(c)
      PROVE  Spawn(c) /\ pc'[c] = "persist" /\ hnd'[c] = p /\ procRun'[p] = run[c]
  <2>1. Spawn(c)
    BY <1>1 DEF startRun, TakeLock, RunLocked, CheckPrepare, Prepare, Provision, PersistPid,
                MarkRunning, Abandon, RecordFailure, FailStart
  <2> QED BY <2>1 DEF Spawn, Step
<1>2. ASSUME NEW c \in Calls, finalize(c) \/ Unlock(c) PROVE UNCHANGED proc
  BY <1>2 DEF finalize, Collect, CompletionRejects, Ingest, MarkIngested, Conclude, Validate,
              RecordResult, Terminate, Forget, Unlock
<1>3. ASSUME NEW q \in Pids PROVE ~WorkerEnds(q) /\ ~StrayEnds(q)
  <2>1. "alive" \notin Outcomes
    BY DEF Outcomes, CleanExits, Forced
  <2> QED BY <2>1, EndingsAssumption DEF WorkerEnds, StrayEnds, EndingsAssumption, Outcomes
<1>4. ~recoverRuns
  BY DEF recoverRuns, RecoverInspect, RecoverStop, RecoverOrphan, RecoverDone, orchestrator
<1>5. CASE \/ Boot \/ Signal \/ DrainSnapshot \/ Exit \/ Crash \/ UNCHANGED vars
           \/ \E r \in Runs : createTask(r) \/ CancelRun(r) \/ CancelReply(r)
           \/ \E c \in Calls, r \in Runs : BeginStart(c, r)
  BY <1>5 DEF Boot, Signal, DrainSnapshot, Exit, Crash, Vanish, vars, createTask, BeginCreate,
              WriteQueued, WriteAudit, MarkAudit, CheckDenial, Deny, WriteDenial, CancelRun,
              CancelReply,
              BeginStart, orchestrator
<1> QED BY <1>1, <1>2, <1>3, <1>4, <1>5 DEF Next, Orchestrate

(* A live worker stays attended while the daemon lives. *)
LEMMA AttendedStays ==
  ASSUME Sound, TypeOK, TypeOK', IInv, [Next]_vars, Accepting', NEW c \in Calls,
         pc[c] \in Attended, proc[hnd[c]] = "alive"
  PROVE  pc'[c] \in Attended /\ hnd'[c] = hnd[c]
<1> USE DEF TypeOK, OrchestratorTypeOK, Step
<1>1. HoldsLock(c)
  BY DEF Attended, HoldsLock, Launching, Finishing
<1>2. ~Unlock(c)
  BY DEF Unlock, Attended
<1>3. (pc'[c] = pc[c] /\ hnd'[c] = hnd[c]) \/ startRun(c) \/ finalize(c)
  BY <1>1, <1>2, HolderStays, HolderMoves
<1>4. CASE pc'[c] = pc[c] /\ hnd'[c] = hnd[c]
  BY <1>4
<1>5. CASE startRun(c)
  BY <1>5 DEF startRun, TakeLock, RunLocked, CheckPrepare, Prepare, Provision, Spawn, PersistPid,
              MarkRunning, Abandon, RecordFailure, FailStart, Attended
<1>6. CASE finalize(c)
  BY <1>6 DEF finalize, Collect, CompletionRejects, Ingest, MarkIngested, Conclude, Validate,
              RecordResult, Terminate, Forget, Attended, calls
<1> QED BY <1>3, <1>4, <1>5, <1>6

(* Nothing moves on a run whose outcome was lost. *)
LEMMA OrphanStays ==
  ASSUME TypeOK, IInv, Tracked, Service, [Next]_vars, NEW r \in Runs, state[r] = "ORPHANED"
  PROVE  state'[r] = "ORPHANED"
<1> USE DEF TypeOK, StoreTypeOK
<1>1. ~BeginCreate(r) /\ ~WriteQueued(r) /\ ~Deny(r)
  BY DEF BeginCreate, WriteQueued, Deny, CreateStep, IInv, Launches
<1>2. RecoverOrphan(r) => state'[r] = "ORPHANED"
  BY DEF RecoverOrphan, TransitionState, TransitionFails
<1>3. ASSUME NEW d \in Calls, run[d] = r
      PROVE  ~Prepare(d) /\ ~MarkRunning(d) /\ ~FailStart(d) /\ ~Validate(d) /\ ~Terminate(d)
  BY <1>3 DEF Prepare, MarkRunning, FailStart, Validate, Terminate, Step, IInv, Launches, Service,
              Staged, StagedAt, Prepared, Underway
<1> QED BY <1>1, <1>2, <1>3, StateSteps

(* While no daemon accepts calls, only recovery writes a state. *)
LEMMA QuietStates ==
  ASSUME TypeOK, IInv, [Next]_vars, ~Accepting, NEW r \in Runs
  PROVE  state'[r] = state[r] \/ RecoverOrphan(r)
<1>1. ~BeginCreate(r) /\ ~WriteQueued(r) /\ ~Deny(r)
  BY DEF BeginCreate, WriteQueued, Deny, CreateStep, IInv, Ownership
<1>2. ASSUME NEW d \in Calls
      PROVE  ~Prepare(d) /\ ~MarkRunning(d) /\ ~FailStart(d) /\ ~Validate(d) /\ ~Terminate(d)
  <2>1. pc[d] = "idle"
    BY DEF IInv, Ownership
  <2> QED BY <2>1 DEF Prepare, MarkRunning, FailStart, Validate, Terminate, Step
<1> QED BY <1>1, <1>2, StateSteps

LEMMA MindedStep ==
  ASSUME Sound, TypeOK, TypeOK', IInv, Earned, Tracked, Service, Minded, [Next]_vars
  PROVE  Minded'
<1> SUFFICES ASSUME NEW p \in Pids, proc'[p] = "alive"
             PROVE  /\ procRun'[p] \in Runs
                    /\ \/ state'[procRun'[p]] = "ORPHANED"
                       \/ \E c \in Calls : pc'[c] \in Attended /\ hnd'[c] = p
                       \/ ~Accepting' /\ holdsResources(state'[procRun'[p]])
  BY DEF Minded, Accepting
<1> USE DEF TypeOK, StoreTypeOK, OrchestratorTypeOK
<1>1. CASE proc[p] # "alive"
  <2>1. PICK d \in Calls : Spawn(d) /\ pc'[d] = "persist" /\ hnd'[d] = p /\ procRun'[p] = run[d]
    BY <1>1, ProcBorn
  <2>2. run[d] \in Runs
    BY <2>1 DEF Spawn, Step, IInv, Ownership
  <2> QED BY <2>1, <2>2 DEF Attended
<1>2. CASE proc[p] = "alive"
  <2>1. procRun'[p] = procRun[p]
    BY <1>2, ProcsAdvance
  <2>2. PICK r \in Runs : procRun[p] = r
    BY <1>2 DEF Minded
  <2>3. CASE state[r] = "ORPHANED"
    BY <2>1, <2>2, <2>3, OrphanStays
  <2>4. ASSUME NEW c \in Calls, pc[c] \in Attended, hnd[c] = p
        PROVE  \/ \E d \in Calls : pc'[d] \in Attended /\ hnd'[d] = p
               \/ ~Accepting' /\ holdsResources(state'[r])
    <3>1. CASE Accepting'
      BY <1>2, <2>4, <3>1, AttendedStays
    <3>2. CASE ~Accepting'
      <4>1. Exit \/ Crash
        <5>1. Accepting
          BY <2>4 DEF Attended, IInv, Ownership
        <5> QED BY <3>2, <5>1, DaemonMoves DEF Accepting, Boot, RecoverDone, Signal, DrainSnapshot, Off
      <4>2. UNCHANGED state
        BY <4>1 DEF Exit, Crash, Vanish, store
      <4>3. run[c] = r
        BY <2>2, <2>4 DEF Earned, Attended, Spawned, Recorded
      <4>4. state[r] \in {"PREPARING", "RUNNING"}
        BY <2>4, <4>3 DEF Service, Staged, StagedAt, Attended, Prepared, Underway
      <4> QED BY <3>2, <4>2, <4>4 DEF holdsResources
    <3> QED BY <3>1, <3>2
  <2>5. CASE ~Accepting /\ holdsResources(state[r])
    <3>1. CASE Accepting'
      <4>1. RecoverDone
        BY <2>5, <3>1, DaemonMoves DEF Accepting, Boot, Signal, DrainSnapshot, Exit, Crash, Vanish, Off
      <4>2. daemon = "recovering" /\ ~failure /\ rec[r] = "settled"
        BY <3>1, <4>1 DEF RecoverDone, Accepting
      <4> QED BY <2>5, <4>2 DEF Service, Swept
    <3>2. CASE ~Accepting'
      <4>1. state'[r] = state[r] \/ RecoverOrphan(r)
        BY <2>5, QuietStates
      <4>2. RecoverOrphan(r) => state'[r] = "ORPHANED" \/ state'[r] = state[r]
        BY DEF RecoverOrphan, TransitionState, TransitionFails
      <4> QED BY <2>1, <2>2, <2>5, <3>2, <4>1, <4>2
    <3> QED BY <3>1, <3>2
  <2>6. \/ state[r] = "ORPHANED"
        \/ \E c \in Calls : pc[c] \in Attended /\ hnd[c] = p
        \/ ~Accepting /\ holdsResources(state[r])
    BY <1>2, <2>2 DEF Minded
  <2> QED BY <2>1, <2>2, <2>3, <2>4, <2>5, <2>6
<1> QED BY <1>1, <1>2

-----------------------------------------------------------------------------
(* A worker whose pid is on record is stopped before its run is given up.   *)
Verifiable == Faults \cap {"metadata", "probe", "kill"} = {}

Stopped ==
  \A p \in Pids : proc[p] = "alive" /\ pidOf[procRun[p]] = p =>
    state[procRun[p]] # "ORPHANED" /\ rec[procRun[p]] # "orphan"

LEMMA InitStopped == Init => Stopped
BY DEF Init, OrchestratorInit, Stopped

(* Only recovery's second step makes a run one to be given up.              *)
LEMMA RecMoves ==
  ASSUME TypeOK, IInv, [Next]_vars, NEW r \in Runs, ~RecoverStop(r), rec[r] # "orphan"
  PROVE  rec'[r] # "orphan"
<1> USE DEF TypeOK
<1>1. ASSUME NEW q \in Runs, RecoverInspect(q) \/ RecoverOrphan(q)
      PROVE  rec'[r] # "orphan"
  BY <1>1 DEF RecoverInspect, RecoverOrphan, RecoverStep
<1>2. ASSUME NEW q \in Runs, RecoverStop(q) PROVE rec'[r] # "orphan"
  BY <1>2 DEF RecoverStop, RecoverStep
<1> QED BY <1>1, <1>2 DEF Next, vars, recoverRuns, RecoverDone, Boot, Signal, DrainSnapshot, Exit,
          Crash, Vanish, Orchestrate

LEMMA StoppedStep ==
  ASSUME Sound, Verifiable, TypeOK, TypeOK', IInv, Earned, Tracked, Service, Minded, Stopped,
         [Next]_vars
  PROVE  Stopped'
<1> SUFFICES ASSUME NEW p \in Pids, proc'[p] = "alive", pidOf'[procRun'[p]] = p
             PROVE  state'[procRun'[p]] # "ORPHANED" /\ rec'[procRun'[p]] # "orphan"
  BY DEF Stopped
<1> USE DEF TypeOK, StoreTypeOK, OrchestratorTypeOK
(* A call about to launch or to record has its run PREPARING, while recovery *)
(* is over.                                                                 *)
<1>1. ASSUME NEW d \in Calls, Spawn(d) \/ PersistPid(d)
      PROVE  state'[run[d]] # "ORPHANED" /\ rec'[run[d]] # "orphan"
  <2>1. pc[d] \in {"spawn", "persist"} /\ UNCHANGED state
    BY <1>1 DEF Spawn, PersistPid, Step, store
  <2>2. run[d] \in Runs /\ Accepting
    BY <2>1 DEF IInv, Ownership
  <2>3. rec[run[d]] = "settled"
    BY <2>2 DEF IInv, Ownership, Accepting
  <2>4. state[run[d]] = "PREPARING"
    BY <2>1 DEF Service, Staged, StagedAt, Prepared
  <2>5. ~RecoverStop(run[d])
    BY <2>3 DEF RecoverStop, RecoverStep
  <2> QED BY <2>1, <2>2, <2>3, <2>4, <2>5, RecMoves
<1>2. CASE proc[p] # "alive"
  BY <1>1, <1>2, ProcBorn
<1>3. CASE proc[p] = "alive"
  <2>1. procRun'[p] = procRun[p]
    BY <1>3, ProcsAdvance
  <2>2. PICK r \in Runs : procRun[p] = r
    BY <1>3 DEF Minded
  <2>3. CASE pidOf[r] # p
    <3>1. PICK d \in Calls : PersistPid(d)
      BY <2>1, <2>2, <2>3, PidWriter
    <3>2. run[d] = r
      BY <2>1, <2>2, <2>3, <3>1 DEF PersistPid, RecordPid, RecordPidFails
    <3> QED BY <1>1, <2>1, <2>2, <3>1, <3>2
  <2>4. CASE pidOf[r] = p
    <3>1. state[r] # "ORPHANED" /\ rec[r] # "orphan"
      BY <1>3, <2>2, <2>4 DEF Stopped
    <3>2. state'[r] # "ORPHANED"
      <4>1. ~RecoverOrphan(r)
        BY <3>1 DEF RecoverOrphan, RecoverStep
      <4>2. ASSUME NEW d \in Calls, run[d] = r,
                   Prepare(d) \/ MarkRunning(d) \/ FailStart(d) \/ Validate(d) \/ Terminate(d)
            PROVE  state'[r] # "ORPHANED"
        BY <3>1, <4>2 DEF Prepare, MarkRunning, FailStart, Validate, Terminate, TryTransition,
             TransitionState, TransitionFails, TargetState
      <4>3. BeginCreate(r) \/ WriteQueued(r) \/ Deny(r) => state'[r] # "ORPHANED"
        BY <3>1 DEF BeginCreate, WriteQueued, Deny, TransitionState, TransitionFails,
             INITIAL_RUN_STATE
      <4> QED BY <3>1, <4>1, <4>2, <4>3, StateSteps
    <3>3. rec'[r] # "orphan"
      <4>1. ~RecoverStop(r)
        BY <1>3, <2>2, <2>4, NoPidAssumption DEF RecoverStop, Verifiable, NoPidAssumption
      <4> QED BY <3>1, <4>1, RecMoves
    <3> QED BY <2>1, <2>2, <3>2, <3>3
  <2> QED BY <2>3, <2>4
<1> QED BY <1>2, <1>3

(* While the daemon serves, a worker alive on the host is supervised or its *)
(* pid never reached metadata.json: recovery stops every recorded worker it *)
(* can read about, vouch for and kill, before the socket opens.             *)
(* Callers start only runs whose createTask has ended (Announced).          *)
THEOREM NoStray ==
  ASSUME Announced, Sound, Verifiable
  PROVE  Spec => []NoRecordedStray
<1>1. Init => Service /\ Minded /\ Stopped
  BY InitService, InitMinded, InitStopped
<1>2. TypeOK /\ TypeOK' /\ IInv /\ Answers /\ Earned /\ Tracked /\ Service /\ Minded /\ Stopped
        /\ [Next]_vars
           => Answers' /\ Earned' /\ Tracked' /\ Service' /\ Minded' /\ Stopped'
  BY AnswersStep, EarnedStep, TrackedStep, StagedStep, OwnedStep, SweptStep, MindedStep,
     StoppedStep DEF Service
<1>3. Minded /\ Stopped => NoRecordedStray
  BY DEF Minded, Stopped, NoRecordedStray, Attended, Supervised, HoldsLock, Launching, Finishing
<1> QED BY <1>1, <1>2, <1>3, TypeCorrect, Inductive, InitAnswers, InitEarned, InitTracked,
           PTL DEF Spec

-----------------------------------------------------------------------------
(* A shutdown waits for everything that still has a run in hand: a call     *)
(* between its registration and Forget is in #finalizing, and in what a     *)
(* drain waits for.                                                         *)
Registered == Finishing \ {"unlock"}

Drained ==
  /\ \A c \in Calls : pc[c] \in Registered => finalizing[run[c]] = c
  /\ daemon = "draining" =>
       \A c \in Calls : pc[c] \notin Starting /\ (pc[c] \in Registered => c \in drainSet)
  /\ StopIsClean

LEMMA InitDrained == Init => Drained
BY DEF Init, OrchestratorInit, Drained, Registered, Finishing, StopIsClean

LEMMA RegisteredStep ==
  ASSUME TypeOK, TypeOK', IInv, Drained, [Next]_vars, ~Exit, ~Crash,
         NEW c \in Calls, pc'[c] \in Registered
  PROVE  finalizing'[run'[c]] = c /\ (MarkRunning(c) \/ pc[c] \in Registered)
<1> USE DEF TypeOK, OrchestratorTypeOK
<1>1. HoldsLock(c)'
  BY DEF HoldsLock, Registered
<1>2. run'[c] = run[c] /\ ((pc'[c] = pc[c] /\ hnd'[c] = hnd[c]) \/ startRun(c) \/ finalize(c))
  BY <1>1, HolderMoves
<1>3. MarkRunning(c) \/ pc[c] \in Registered
  <2>1. CASE startRun(c)
    BY <2>1 DEF startRun, TakeLock, RunLocked, CheckPrepare, Prepare, Provision, Spawn, PersistPid,
                Abandon, RecordFailure, FailStart, Step, Registered, Finishing
  <2>2. CASE finalize(c)
    BY <2>2 DEF finalize, Collect, CompletionRejects, Ingest, MarkIngested, Conclude, Validate,
                RecordResult, Terminate, Forget, Step, Registered, Finishing
  <2> QED BY <1>2, <2>1, <2>2
<1>4. CASE MarkRunning(c)
  <2>1. pc[c] = "launch"
    BY <1>4 DEF MarkRunning, Step
  <2>2. run[c] \in Runs
    BY <2>1 DEF IInv, Ownership
  <2> QED BY <1>2, <1>4, <2>2 DEF MarkRunning, Step, Registered, Finishing
<1>5. CASE pc[c] \in Registered /\ ~MarkRunning(c)
  <2>1. HoldsLock(c) /\ finalizing[run[c]] = c
    BY <1>5 DEF HoldsLock, Registered, Drained
  <2>2. ~Forget(c)
    BY DEF Forget, Step, Registered
  <2>3. ASSUME NEW d \in Calls, d # c, MarkRunning(d) \/ Forget(d)
        PROVE  finalizing'[run[c]] = finalizing[run[c]]
    <3>1. HoldsLock(d)
      BY <2>3 DEF MarkRunning, Forget, Step, HoldsLock, Launching, Finishing
    <3>2. run[d] # run[c]
      BY <2>1, <2>3, <3>1, HolderOwns DEF IInv
    <3>3. PICK q \in Runs : q = run[c]
      BY <2>1, HolderOwns DEF IInv
    <3>4. CASE finalizing' = finalizing
      BY <3>4
    <3>5. CASE \E x \in Calls \cup {NoCall} :
                 finalizing' = [finalizing EXCEPT ![run[d]] = x]
      BY <3>2, <3>3, <3>5
    <3>6. MarkRunning(d) => \/ finalizing' = finalizing
                          \/ \E x \in Calls \cup {NoCall} :
                               finalizing' = [finalizing EXCEPT ![run[d]] = x]
      BY DEF MarkRunning, maps
    <3>7. Forget(d) => \E x \in Calls \cup {NoCall} :
                         finalizing' = [finalizing EXCEPT ![run[d]] = x]
      BY DEF Forget
    <3> QED BY <2>3, <3>4, <3>5, <3>6, <3>7
  <2>4. finalizing'[run[c]] = finalizing[run[c]]
    BY <1>5, <2>2, <2>3, MapMoves
  <2> QED BY <1>2, <1>3, <2>1, <2>4
<1> QED BY <1>3, <1>4, <1>5

(* No call is admitted, and the drain's list does not change, once draining.*)
LEMMA DrainingFrame ==
  ASSUME TypeOK, IInv, Drained, [Next]_vars, daemon = "draining", daemon' = "draining",
         NEW c \in Calls
  PROVE  pc'[c] \notin Starting /\ UNCHANGED drainSet
<1> USE DEF TypeOK, OrchestratorTypeOK, calls, Step
<1>1. \A d \in Calls : pc[d] \notin Starting
  BY DEF Drained
<1>2. \A d \in Calls : ~startRun(d)
  BY <1>1 DEF startRun, TakeLock, RunLocked, CheckPrepare, Prepare, Provision, Spawn,
              PersistPid, MarkRunning, Abandon, RecordFailure, FailStart, Starting, Launching
<1>3. ASSUME NEW d \in Calls, finalize(d) \/ Unlock(d) PROVE pc'[c] \notin Starting
  BY <1>1, <1>3 DEF finalize, Collect, CompletionRejects, Ingest, MarkIngested, Conclude, Validate,
              RecordResult, Terminate, Forget, Unlock, Starting, Launching
<1>4. ~Exit /\ ~Crash /\ ~Boot /\ ~RecoverDone /\ ~Signal /\ ~DrainSnapshot
  BY DEF Exit, Crash, Vanish, Off, Boot, RecoverDone, Signal, DrainSnapshot
<1>5. \A r \in Runs : ~RecoverInspect(r) /\ ~RecoverStop(r) /\ ~RecoverOrphan(r)
  BY DEF RecoverInspect, RecoverStop, RecoverOrphan, RecoverStep, IInv, Ownership
<1>6. ASSUME NEW r \in Runs, createTask(r) \/ CancelRun(r) \/ CancelReply(r)
      PROVE  UNCHANGED pc
  <2>1. createTask(r) => UNCHANGED calls
    BY DEF createTask, BeginCreate, WriteQueued, WriteAudit, MarkAudit, CheckDenial, Deny,
           WriteDenial
  <2>2. CancelRun(r) \/ CancelReply(r) => UNCHANGED calls
    BY DEF CancelRun, CancelReply
  <2> QED BY <1>6, <2>1, <2>2
<1>7. \A d \in Calls, r \in Runs : ~BeginStart(d, r)
  BY DEF BeginStart
<1>8. ASSUME NEW p \in Pids, WorkerEnds(p) \/ StrayEnds(p) PROVE UNCHANGED pc
  BY <1>8 DEF WorkerEnds, StrayEnds
<1>9. UNCHANGED drainSet /\ (Orchestrate \/ UNCHANGED vars)
  BY <1>4, <1>5 DEF Next, recoverRuns, Orchestrate, vars
<1>10. CASE UNCHANGED vars
  BY <1>1, <1>9, <1>10 DEF vars, orchestrator
<1>11. CASE Orchestrate
  BY <1>1, <1>2, <1>3, <1>6, <1>7, <1>8, <1>9, <1>11 DEF Orchestrate
<1> QED BY <1>9, <1>10, <1>11

LEMMA StopStep ==
  ASSUME Sound, TypeOK, TypeOK', IInv, Service, Minded, Drained, [Next]_vars,
         daemon' = "stopped"
  PROVE  StopIsClean'
<1> USE DEF TypeOK, StoreTypeOK, OrchestratorTypeOK
<1>1. CASE daemon = "stopped"
  <2>1. ~Accepting /\ ~Accepting'
    BY <1>1 DEF Accepting
  <2>2. \A r \in Runs : state'[r] = state[r]
    <3>1. \A r \in Runs : ~RecoverOrphan(r)
      BY <1>1 DEF RecoverOrphan, RecoverStep, IInv, Ownership
    <3> QED BY <2>1, <3>1, QuietStates
  <2>3. \A p \in Pids : proc'[p] = "alive" => proc[p] = "alive"
    <3>1. \A d \in Calls : ~Spawn(d)
      BY <2>1 DEF Spawn, Step, IInv, Ownership
    <3> QED BY <3>1, ProcBorn
  <2>4. \A p \in Pids : proc[p] = "alive" => procRun'[p] = procRun[p] /\ procRun[p] \in Runs
    BY ProcsAdvance DEF Minded
  <2> QED BY <1>1, <2>2, <2>3, <2>4 DEF Drained, StopIsClean
<1>2. CASE daemon # "stopped"
  <2>1. Exit
    BY <1>2, DaemonMoves DEF Boot, RecoverDone, Signal, DrainSnapshot, Crash, Vanish
  <2>2. /\ daemon = "draining" /\ \A c \in drainSet : pc[c] = "done"
        /\ UNCHANGED <<state, proc, procRun>>
    BY <2>1 DEF Exit, Vanish, store
  <2>3. \A c \in Calls : pc[c] \notin Starting /\ pc[c] \notin Registered
    BY <2>2 DEF Drained, Registered, Finishing
  <2>4. \A r \in Runs : ~holdsResources(state[r])
    <3> SUFFICES ASSUME NEW r \in Runs, holdsResources(state[r]) PROVE FALSE
      OBVIOUS
    <3>1. PICK c \in Calls : HoldsLock(c) /\ run[c] = r
      BY <2>2 DEF Service, ActiveMeansOwned, Accepting
    <3>2. pc[c] = "unlock"
      BY <2>3, <3>1 DEF HoldsLock, Starting, Registered
    <3> QED BY <3>1, <3>2 DEF Service, Staged, StagedAt, TERMINAL_RUN_STATES, holdsResources
  <2>5. \A p \in Pids : proc[p] = "alive" => state[procRun[p]] = "ORPHANED"
    BY <2>2, <2>3 DEF Minded, Accepting, Attended, Starting, Launching, Registered, Finishing
  <2> QED BY <2>2, <2>4, <2>5 DEF StopIsClean
<1> QED BY <1>1, <1>2

LEMMA DrainedStep ==
  ASSUME Sound, TypeOK, TypeOK', IInv, Service, Minded, Drained, [Next]_vars
  PROVE  Drained'
<1> USE DEF TypeOK, OrchestratorTypeOK
<1>1. StopIsClean'
  BY StopStep DEF StopIsClean
<1>2. CASE Exit \/ Crash
  BY <1>1, <1>2 DEF Exit, Crash, Vanish, Off, Drained, Registered, Finishing
<1>3. CASE ~Exit /\ ~Crash
  <2>1. \A c \in Calls : pc'[c] \in Registered => finalizing'[run'[c]] = c
    BY <1>3, RegisteredStep
  <2>2. ASSUME daemon' = "draining", NEW c \in Calls
        PROVE  pc'[c] \notin Starting /\ (pc'[c] \in Registered => c \in drainSet')
    <3>1. CASE daemon = "draining"
      <4>1. pc'[c] \notin Starting /\ drainSet' = drainSet
        BY <2>2, <3>1, DrainingFrame
      <4>2. ~MarkRunning(c)
        BY <3>1 DEF MarkRunning, Step, Drained, Starting, Launching
      <4> QED BY <1>3, <3>1, <4>1, <4>2, RegisteredStep DEF Drained
    <3>2. CASE daemon # "draining"
      <4>1. DrainSnapshot
        BY <1>3, <2>2, <3>2, DaemonMoves DEF Boot, RecoverDone, Signal
      <4>2. /\ pc[c] \notin Starting /\ UNCHANGED <<pc, run>>
            /\ drainSet' = {finalizing[r] : r \in Runs} \ {NoCall}
        BY <4>1 DEF DrainSnapshot, calls
      <4>3. pc[c] \in Registered => run[c] \in Runs /\ finalizing[run[c]] = c
        BY DEF Drained, IInv, Ownership, Registered, Finishing
      <4> QED BY <4>2, <4>3, NoneAssumption DEF NoneAssumption
    <3> QED BY <3>1, <3>2
  <2> QED BY <1>1, <2>1, <2>2 DEF Drained
<1> QED BY <1>2, <1>3

(* After an intentional shutdown no run is mid-flight, and no worker is     *)
(* alive but of a run already known to be lost: #drain waits for every      *)
(* admitted start and for every finalisation it can see, and what it cannot *)
(* see any more has settled its run.                                        *)
(* Callers start only runs whose createTask has ended (Announced).          *)
THEOREM CleanStop ==
  ASSUME Announced, Sound
  PROVE  Spec => []StopIsClean
<1>1. Init => Service /\ Minded /\ Drained
  BY InitService, InitMinded, InitDrained
<1>2. TypeOK /\ TypeOK' /\ IInv /\ Answers /\ Earned /\ Tracked /\ Service /\ Minded /\ Drained
        /\ [Next]_vars
           => Answers' /\ Earned' /\ Tracked' /\ Service' /\ Minded' /\ Drained'
  BY AnswersStep, EarnedStep, TrackedStep, StagedStep, OwnedStep, SweptStep, MindedStep,
     DrainedStep DEF Service
<1>3. Drained => StopIsClean
  BY DEF Drained
<1> QED BY <1>1, <1>2, <1>3, TypeCorrect, Inductive, InitAnswers, InitEarned, InitTracked,
           PTL DEF Spec

=============================================================================
