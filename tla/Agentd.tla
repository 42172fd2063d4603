-------------------------------- MODULE Agentd --------------------------------
(***************************************************************************)
(* The daemon as a whole: one agentd process at a time (daemon-lock.ts),   *)
(* booting through recovery (cli.ts, recovery.ts), serving, draining on a  *)
(* signal, or dying at any step and being started again over the same run  *)
(* store.  MaxBoots bounds how often it is started.                        *)
(***************************************************************************)
EXTENDS Orchestrator

CONSTANT MaxBoots

ASSUME MaxBootsAssumption == MaxBoots \in Nat \ {0}

VARIABLES
  boots,     \* how often agentd was started
  rec,       \* recoverRuns: what is left to do per run
  failure,   \* recoverRuns: something went wrong
  drainSet   \* #drain: the finalisations it waits for

vars == <<store, daemon, orchestrator, boots, rec, failure, drainSet>>

Off == {"down", "refused", "stopped"}

TypeOK ==
  /\ StoreTypeOK
  /\ OrchestratorTypeOK
  /\ daemon \in Off \cup {"recovering", "open", "closing", "draining"}
  /\ boots \in 0..MaxBoots
  /\ rec \in [Runs -> {"settled", "todo", "stop", "orphan"}]
  /\ failure \in BOOLEAN
  /\ drainSet \subseteq Calls

Init ==
  /\ StoreInit
  /\ OrchestratorInit
  /\ daemon = "down"
  /\ boots = 0
  /\ rec = [r \in Runs |-> "settled"]
  /\ failure = FALSE
  /\ drainSet = {}

-----------------------------------------------------------------------------
(* Death of the process: everything in memory goes, every file stays, and  *)
(* a worker, in a process group of its own, stays alive.                   *)

Vanish(to) ==
  /\ daemon' = to
  /\ cpc' = [r \in Runs |-> "idle"]
  /\ pc' = [c \in Calls |-> "idle"]
  /\ run' = [c \in Calls |-> NoRun]
  /\ hnd' = [c \in Calls |-> NoPid]
  /\ running' = [r \in Runs |-> NoCall]
  /\ finalizing' = [r \in Runs |-> NoCall]
  /\ canceller' = [r \in Runs |-> NoCall]
  /\ asked' = [p \in Pids |-> FALSE]
  /\ rec' = [r \in Runs |-> "settled"]
  /\ failure' = FALSE
  /\ drainSet' = {}
  /\ UNCHANGED <<store, verdict, proc, procRun, reply, boots>>

Crash == daemon \notin Off /\ Vanish("down")

-----------------------------------------------------------------------------
(* commandStart up to the socket, with recoverRuns.  Each run's treatment   *)
(* reads and writes only that run's files, so the walk takes them in any    *)
(* order where the code goes oldest first.                                  *)

Boot ==
  /\ daemon \in Off
  /\ boots < MaxBoots
  /\ boots' = boots + 1
  /\ daemon' = "recovering"
  /\ rec' = [r \in Runs |-> IF state[r] = "none" THEN "settled" ELSE "todo"]
  /\ UNCHANGED <<store, orchestrator, failure, drainSet>>

RecoverStep(r, from, to) ==
  /\ rec[r] = from
  /\ from = "todo" => \A q \in Runs : rec[q] \in {"settled", "todo"}
  /\ rec' = [rec EXCEPT ![r] = to]

(* The lock is cleared whatever the state; an unreadable state is a failure *)
(* and the run is left alone.                                               *)
RecoverInspect(r) ==
  /\ \/ /\ state[r] \notin RUN_STATES \/ "state" \in Faults
        /\ RecoverStep(r, "todo", "settled")
        /\ failure' = TRUE
        /\ UNCHANGED lock
     \/ /\ state[r] \in RUN_STATES
        /\ RecoverStep(r, "todo", IF NeedsRecovery(state[r]) THEN "stop" ELSE "settled")
        /\ \/ ReleaseLock(r) /\ UNCHANGED failure
           \/ ReleaseLockFails /\ failure' = TRUE
  /\ UNCHANGED <<state, result, log, lastSeq, pidOf, daemon, orchestrator, boots, drainSet>>

(* Recovery that settles the run and leaves its worker to itself. *)
KeepSurvivor(r) ==
  /\ RecoverStep(r, "stop", "orphan")
  /\ UNCHANGED <<store, daemon, procs, failure, calls, maps, cancels, creates, boots,
                 drainSet>>

(* A recorded worker that can be verified alive is stopped: "kill" says it  *)
(* may outlive SIGKILL, "probe" that ps may not vouch for its start time.   *)
(* Without readable metadata the run is left as it is.                      *)
RecoverStop(r) ==
  /\ LET p == pidOf[r]
         alive == p # NoPid /\ proc[p] = "alive"
     IN \/ /\ RecoverStep(r, "stop", "orphan")
           /\ \/ ~alive /\ UNCHANGED <<proc, failure>>
              \/ alive /\ proc' = [proc EXCEPT ![p] = "gone"] /\ UNCHANGED failure
              \/ alive /\ "kill" \in Faults /\ failure' = TRUE /\ UNCHANGED proc
              \/ alive /\ "probe" \in Faults /\ UNCHANGED <<proc, failure>>
        \/ /\ "metadata" \in Faults
           /\ RecoverStep(r, "stop", "settled")
           /\ failure' = TRUE
           /\ UNCHANGED proc
  /\ UNCHANGED <<store, daemon, procRun, asked, calls, maps, cancels, creates, boots,
                 drainSet>>

RecoverOrphan(r) ==
  /\ RecoverStep(r, "orphan", "settled")
  /\ \/ TransitionState(r, "ORPHANED") /\ UNCHANGED failure
     \/ TransitionFails(r, "ORPHANED") /\ failure' = TRUE
  /\ UNCHANGED <<result, log, lastSeq, pidOf, lock, daemon, orchestrator, boots, drainSet>>

(* Listen, or exit with code 1. *)
RecoverDone ==
  /\ daemon = "recovering"
  /\ \A r \in Runs : rec[r] = "settled"
  /\ daemon' = IF failure THEN "refused" ELSE "open"
  /\ failure' = FALSE
  /\ UNCHANGED <<store, orchestrator, boots, rec, drainSet>>

recoverRuns == (\E r \in Runs : RecoverInspect(r) \/ RecoverStop(r) \/ RecoverOrphan(r))
                 \/ RecoverDone

-----------------------------------------------------------------------------
(* SIGTERM: no new starts, wait for the admitted ones, cancel what runs,    *)
(* wait for the finalisations, exit.  Calls to createTask are not waited    *)
(* for.                                                                     *)

Signal ==
  /\ daemon = "open"
  /\ daemon' = "closing"
  /\ UNCHANGED <<store, orchestrator, boots, rec, failure, drainSet>>

CancelAll ==
  asked' = [p \in Pids |-> asked[p] \/ (proc[p] = "alive"
                             /\ \E r \in Runs : running[r] # NoCall /\ hnd[running[r]] = p)]

DrainSnapshotEarly ==
  /\ daemon = "closing"
  /\ daemon' = "draining"
  /\ drainSet' = {finalizing[r] : r \in Runs} \ {NoCall}
  /\ CancelAll
  /\ UNCHANGED <<store, calls, maps, proc, procRun, cancels, creates, boots, rec, failure>>

DrainSnapshot ==
  /\ daemon = "closing"
  /\ \A c \in Calls : pc[c] \notin Starting
  /\ daemon' = "draining"
  /\ drainSet' = {finalizing[r] : r \in Runs} \ {NoCall}
  /\ CancelAll
  /\ UNCHANGED <<store, calls, maps, proc, procRun, cancels, creates, boots, rec, failure>>

Exit ==
  /\ daemon = "draining"
  /\ \A c \in drainSet : pc[c] = "done"
  /\ Vanish("stopped")

-----------------------------------------------------------------------------

Orchestrate ==
  /\ \/ \E r \in Runs : createTask(r) \/ CancelRun(r) \/ CancelReply(r)
     \/ \E c \in Calls, r \in Runs : BeginStart(c, r)
     \/ \E c \in Calls : startRun(c) \/ finalize(c) \/ Unlock(c)
     \/ \E p \in Pids : WorkerEnds(p) \/ StrayEnds(p)
  /\ UNCHANGED <<boots, rec, failure, drainSet>>

Next == Boot \/ recoverRuns \/ Signal \/ DrainSnapshot \/ Exit \/ Crash \/ Orchestrate

Spec == Init /\ [][Next]_vars

(* The event loop runs what is ready: every await on the daemon's own disk  *)
(* settles, and a supervised worker is ended by its hard timeout at the     *)
(* latest.  No caller is obliged to call, nobody is obliged to restart the  *)
(* daemon, and it may crash at any time.                                    *)
Fairness ==
  /\ WF_vars(recoverRuns)
  /\ WF_vars(DrainSnapshot) /\ WF_vars(Exit)
  /\ \A r \in Runs : WF_vars(CancelReply(r) /\ UNCHANGED <<boots, rec, failure, drainSet>>)
  /\ \A c \in Calls : WF_vars((startRun(c) \/ finalize(c) \/ Unlock(c))
                              /\ UNCHANGED <<boots, rec, failure, drainSet>>)
  /\ \A p \in Pids : WF_vars(WorkerEnds(p) /\ UNCHANGED <<boots, rec, failure, drainSet>>)

FairSpec == Spec /\ Fairness

-----------------------------------------------------------------------------
(***************************************************************************)
(* Properties.                                                             *)
(***************************************************************************)

(* In every run but early_start, callers start only runs whose createTask   *)
(* has ended (Announced).  The code does not enforce it: early_start shows  *)
(* what a start that does not wait does, and the comments name the          *)
(* properties that break with it.                                           *)

(* At most one worker is ever spawned for a run, whatever starts race and   *)
(* wherever the daemon dies: PREPARING is durable before the spawn, and no  *)
(* state leads back to QUEUED (#startWithLock, #startLocked).  It asks      *)
(* nothing of the callers.                                                  *)
LaunchedAtMostOnce ==
  \A p, q \in Pids : procRun[p] = procRun[q] /\ procRun[p] # NoRun => p = q

(* The read-then-write of transitionState and writeResult needs the lock:    *)
(* it admits one startRun call at a time to a run, from before the call's   *)
(* first read to after its last write, is there for as long as the call,    *)
(* and recovery works on no run that a start or a createTask is at work on, *)
(* whatever crashed before.  It asks nothing of the callers, and does not   *)
(* say that the lock keeps createTask out, which takes none (early_start).  *)
HolderIsAlone ==
  /\ \A c, d \in Calls : HoldsLock(c) /\ HoldsLock(d) /\ run[c] = run[d] => c = d
  /\ \A c \in Calls : HoldsLock(c) => lock[run[c]] /\ rec[run[c]] = "settled"
  /\ \A r \in Runs : cpc[r] # "idle" => rec[r] = "settled"

(* "Terminal state is never inferred": while Announced, a SUCCEEDED run had *)
(* a recorded worker that exited cleanly with exactly one valid claim of    *)
(* success, and no other result was written for it (#finalize).  The        *)
(* "blocked" of a denial that an early start overtook would stay beside     *)
(* SUCCEEDED: #terminate ignores that its own writeResult is refused.       *)
SuccessIsEarned ==
  \A r \in Runs : state[r] = "SUCCEEDED" =>
    /\ pidOf[r] # NoPid /\ procRun[pidOf[r]] = r /\ proc[pidOf[r]] = "claims_success"
    /\ result[r] \in {"none", "succeeded"}

(* While Announced, neither a terminal state nor a result is ever           *)
(* rewritten, by another start, a late finalisation, recovery or a later    *)
(* life of the daemon.  A start that came before createTask's answer can    *)
(* rewrite FAILED (StatesFollowTable).                                      *)
OutcomeNeverRewritten ==
  [][\A r \in Runs : /\ state[r] \in TERMINAL_RUN_STATES => state'[r] = state[r]
                     /\ result[r] # "none" => result'[r] = result[r]]_<<state, result>>

(* No client ever sees a run still claiming to be mid-flight that this life *)
(* of the daemon is not working on (cli.ts: recovery runs before the socket *)
(* opens; #finalizing settles every run it owns).                           *)
ActiveMeansOwned ==
  Accepting => \A r \in Runs : holdsResources(state[r]) =>
    \E c \in Calls : HoldsLock(c) /\ run[c] = r

Agrees(s, a) ==
  CASE s = "SUCCEEDED" -> a = "succeeded"
    [] s = "CANCELLED" -> a = "cancelled"
    [] OTHER -> a \in {"failed", "timed_out"}

(* An admitted run that is terminal has its result on disk, and the two     *)
(* agree, at every moment a reader could look and after every crash.        *)
OutcomeIsKnowable ==
  \A r \in Runs : state[r] \in TERMINAL_RUN_STATES /\ verdict[r] = "allow" =>
    Agrees(state[r], result[r])

(* While the daemon serves, a worker alive on the host is supervised, or    *)
(* its pid never reached metadata.json (the crash between spawn and record).*)
NoRecordedStray ==
  Accepting => \A p \in Pids : proc[p] = "alive" =>
    Supervised(p) \/ pidOf[procRun[p]] # p

(* After an intentional shutdown no run is mid-flight and no worker the     *)
(* daemon supervised is alive (#drain).  A run.lock may be left: #finalizing *)
(* forgets a run just before its lock is given back, and the drain does not  *)
(* wait for what it no longer sees.                                         *)
StopIsClean ==
  daemon = "stopped" =>
    /\ \A r \in Runs : ~holdsResources(state[r])
    /\ \A p \in Pids : proc[p] = "alive" => state[procRun[p]] = "ORPHANED"

(* What cancelRun tells its caller is terminal and stays true.              *)
CancelReplyIsDurable ==
  \A r \in Runs : reply[r] # "none" =>
    reply[r] \in TERMINAL_RUN_STATES /\ state[r] = reply[r]

(* A prepared run reaches a terminal or indeterminate state, or the daemon  *)
(* is gone.                                                                 *)
RunsSettle ==
  \A r \in Runs : state[r] = "PREPARING" ~>
    (state[r] \in TERMINAL_RUN_STATES \cup {"ORPHANED"} \/ daemon \in Off)

(* A shutdown ends, with starts still in flight when it began.              *)
ShutdownEnds == daemon = "closing" ~> daemon \in Off

(* A cancelRun that found its run live is answered.                         *)
CancelAnswered ==
  \A r \in Runs : canceller[r] # NoCall ~> (canceller[r] = NoCall)

(* The daemon implements the ledger: while Announced, and whatever writes    *)
(* fail and wherever it crashes, what a caller can observe of a run moves   *)
(* only as RunLedger promises.  An early start can take a refused run from  *)
(* concluded back to active, which the ledger forbids.                      *)
PhaseOf(s) ==
  CASE s \in {"none", "incomplete"} -> "unknown"
    [] s = "QUEUED" -> "accepted"
    [] s = "ORPHANED" -> "lost"
    [] s = "SUCCEEDED" -> "succeeded"
    [] s = "FAILED" -> "failed"
    [] s = "CANCELLED" -> "cancelled"
    [] OTHER -> "active"

Ledger == INSTANCE RunLedger WITH
  phase <- [r \in Runs |-> PhaseOf(state[r])],
  launched <- [r \in Runs |-> \E p \in Pids : procRun[p] = r],
  answer <- result,
  Durable <- "result" \notin Faults

ImplementsLedger == Ledger!Spec

-----------------------------------------------------------------------------
(***************************************************************************)
(* What the repository says of the daemon and the daemon does not do; each *)
(* has a run that finds the counterexample.                                *)
(***************************************************************************)

(* The check happens against the state on disk "so a stale in-memory view   *)
(* cannot drive an illegal transition" (transitionState): state.json moves  *)
(* only along the table.  It does while Announced; a start that read QUEUED *)
(* before createTask wrote FAILED writes PREPARING over it.                 *)
StatesFollowTable ==
  [][\A r \in Runs : state[r] \in RUN_STATES /\ state'[r] # state[r] =>
       CanTransition(state[r], state'[r])]_state

(* "Result before terminal state, as everywhere else": a terminal run has a *)
(* result on disk, a denied one included (createTask, #terminate).          *)
TerminalHasResult ==
  \A r \in Runs : state[r] \in TERMINAL_RUN_STATES => result[r] # "none"

(* "The policy decision is on the event log before the worker exists":      *)
(* whichever daemon launched it (createTask, #startLocked).                 *)
DecisionBeforeWorker ==
  \A p \in Pids : procRun[p] # NoRun => log[procRun[p]][0] = "allow"

(* A daemon refuses to serve until a surviving worker has been stopped      *)
(* (recoverRuns on RECOVERY_INCOMPLETE, and the boot that follows it).      *)
ServesOnlyWhenStopped ==
  Accepting => \A r \in Runs : state[r] = "ORPHANED" /\ pidOf[r] # NoPid =>
    proc[pidOf[r]] # "alive"

(* A crash in the middle of createTask leaves a directory that recovery can *)
(* recognise as incomplete: without it, nothing makes recovery fail.        *)
IncompleteIsRecognised ==
  daemon = "refused" => \A r \in Runs : state[r] # "incomplete"

=============================================================================
