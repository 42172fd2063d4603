# agentd: a verification development

TLA+ models of the daemon in this repository (`apps/agentd` over `packages/*`), the
TLC runs that check them on small instances, and TLAPS proofs of the facts the rest
of the program leans on. Paths below are relative to the repository's root.

    tlc -config agentd_crash.cfg MCAgentd       # one of the runs listed below
    tlapm AgentdProofs.tla                      # one of the eight proof modules

## 1. The system

`agentd` is a single-host daemon that takes tasks over a local socket, decides by
policy whether each may run, and runs a coding-agent CLI for it in a worktree and a
sandbox, under a process supervisor. Everything a client can learn of a run is in
files of the run's directory; the Pi extension and the cmux projection only read.
The design promise, repeated in the comments of `orchestrator.ts`, is that *a crash
at any point leaves a recoverable record*.

| component | state | operations | correctness |
|---|---|---|---|
| run state machine (`core/state-machine.ts`, `protocol/run-state.ts`) | none | `canTransition`, `recoveryStateFor`, `holdsResources` | terminal is terminal; recovery reaches every mid-flight state |
| run store (`core/run-store.ts`, `core/atomic.ts`) | per run: `task.json`, `metadata.json`, `state.json`, `result.json`, `events.ndjson`, `run.lock` | `create`, `transitionState`, `writeResult`, `updateMetadata`, `appendEvents`, `acquireLock`, `releaseLock` | a write happens as a whole or not at all; append is idempotent by sequence; one result |
| orchestrator (`agentd/orchestrator.ts`) | the maps `#running`, `#finalizing`, the set of admitted starts; one handle per worker | `createTask`, `startRun`, `#finalize`, `cancelRun`, `shutdown` | one worker per run; result before terminal state; success earned; every prepared run settles |
| boot recovery (`agentd/recovery.ts`) | none of its own | `recoverRuns` | before the socket opens no run is mid-flight and no recorded worker lives |
| daemon life cycle (`agentd/cli.ts`, `daemon-lock.ts`) | phase of the process, SQLite lock | boot, signal, drain, exit | one daemon at a time; a shutdown ends and is clean |
| process supervisor (`process-supervisor/*`) | child, timers, sinks, first termination cause | `superviseProcess`, `cancel`, pid liveness | the first cause names the outcome; what is dropped is named; the group dies; never a stranger's pid |
| worktree manager (`worktrees/*`) | claim records keyed by path, git worktrees | `prepare`, `release`, listing | a path is never given to two runs; release removes no work |
| policy (`policy/*`), sandbox (`sandbox/*`) | none, but for a remembered probe | `decide`, `select`, `prepare` | first denial wins; "required" never degrades; containment holds when the worker starts, not only at admission |
| protocol codec (`protocol/*`) | the splitter's buffer | `push`, `finish`, schemas | reading in two goes is reading in one |
| adapters (`adapters/*`) | the tool calls still open | `start`, `readEvents`, `translate` | success only on one whole result; a denied tool is no success |
| RPC server, client (`agentd/server.ts`, `client.ts`, `rpc.ts`) | per connection: hello done, requests in flight | dispatch, timeout | no command before hello; each call gets its own answer, and every call ends |
| Pi extension (`apps/pi-extension`), cmux projection (`packages/cmux`) | cursor, layouts, once-only guards | `createAndStart`, `watch`, `publish`, `createRunLayout` | nothing shown twice, one notification, one layout per run |
| observability, testkit, configuration | none a property is about | | |

**How they interact.** The server dispatches each request to an orchestrator method;
handlers of different requests interleave at every `await`. `startRun` takes
`run.lock`, moves the run to PREPARING, calls worktrees, sandbox, adapter and
supervisor, records the pid, marks the run RUNNING and answers; the handle's
`completed` promise later drives `#finalize`, which ingests events, validates the
worker's claim, writes the result and then the terminal state, and gives the lock
back. `cancelRun` reaches a worker only through `#running`. A signal closes the
gate, waits for the admitted starts, cancels what runs and waits for what
`#finalizing` holds. Death takes the maps and leaves the files *and the workers*
(they have a process group of their own); the next boot runs `recoverRuns` over the
files before the socket opens.

**What is hard.** Interleavings of starts, cancels, finalisations and a shutdown at
every await; a crash between any two durable writes, then a restart over what they
left; writes that report an error after taking effect; workers that outlive their
daemon; shutdown racing a start; and two files (`result.json`, `state.json`) that
must agree without a transaction. `PROJECT.json` lists each hazard at its line.

## 2. Modules

| module | models | state |
|---|---|---|
| `RunStates` | the lifecycle vocabulary and its table | constant operators |
| `RunStore` | what survives a crash: the run directory, each operation on it and how it fails | `state result log lastSeq pidOf lock` |
| `Orchestrator` | `createTask`, `startRun`, `#finalize`, `cancelRun`, and the worker processes | `cpc verdict pc run hnd running finalizing proc procRun asked canceller reply`, and the daemon's phase |
| `Agentd` | composes the above with boot, recovery, signal, drain, exit, crash; properties | `boots rec failure drainSet` |
| `RunLedger` | abstract specification: what a caller may rely on of a run | `phase launched answer` |
| `Worktrees` | `WorktreeManager.provision` and `release` over the records and git, for several runs at once | `holder facts tree listed worked pc path keep` |
| `WorkerOutcomes`, `WorkerContract` | what a worker can come to; abstract specification: what a launched worker promises the orchestrator | `outcome asked` |
| `Folding` | a loop over a sequence that carries a value along, and the induction over such loops | constant operators |
| `NdjsonStream`, `Normalizers`, `Adapters` | the line splitter, the providers' record translators, how an adapter closes and reads a transcript; their loops are instances of `Folding` | constant operators |
| `Supervisor` | process group, pipes, bounded sinks, timers, signals, close | `leader helper said writes pipe queue file limited broken reason hard grace settled budget` |
| `Survivor` | pid liveness and the stopping of survivors, with recycled pids | `rec stranger signalled` |
| `Worker` | composes the five above: one worker from spawn to verdict, for each kind, and a crash before it | `kind stage misread outcome asked` |
| `Admission` | policy rules, path resolution, sandbox selection, the host provider's `prepare` | constant operators |
| `Rpc` | one client connection, its calls, the server's handlers, the daemon's lives | `phase life link presented authenticated requests handling replies calls nextId` |
| `RunFeed` | one run as its readers find it in the store | `state events` |
| `Layout` | `RunLayoutStore` and `createRunLayout` | `byRunId inFlight made creator` |
| `Projection` | the Pi watch with its cmux sink, and `logs --follow` | `watch since shown counted notified notices tail printed` |
| `Frontend` | composes the five above: one Pi session and its task, over the socket | `session follows task denial placement` |
| `MCAgentd`, `MCWorktrees`, `MCWorker`, `MCFrontend` | TLC instances | |
| `AgentdProofs` <- `ServiceProofs`, `WorktreesProofs`, `WorkerProofs` <- `TranscriptProofs`, `FrontendProofs` <- `SessionProofs` | TLAPS proofs (`Folding` holds its own) | |

`RunStates` <- `RunStore` <- `Orchestrator` <- `Agentd` <- `MCAgentd`, and
`AgentdProofs` <- `ServiceProofs`;
`Agentd` instantiates `RunLedger` under a refinement mapping. The other three compositions open
up what `Orchestrator` takes as one step, each under the promise the core relies on:

* `Worktrees`: `Provision` and the releases of `#closeWorkspace` and `#failBeforeLaunch`. It relies
  on one fact proved of the core, that a run is provisioned once.
* `Worker`: `WorkerEnds`. `WorkerContract` is that action as a specification, and `Worker` is shown
  and proved to implement it; `WorkerOutcomes` is shared, so the two speak of the same endings.
* `Frontend`: the callers, who are the free choice of `Next` in the core, and the verdicts of
  `BeginCreate` and `Provision`. It sees a run as `RunFeed`, whose states move by the core's table.

**Granularity.** JavaScript runs one handler at a time, so an action is the code
between two awaits that matter: a durable write, a process event, a look at a shared
map. `pc[c]` is where the `startRun` call `c` is; the same `c` goes on as that run's
finalisation (in the code, the promise stored in `#finalizing`). `transitionState`
is a read followed by a write; it is split in two (`CheckPrepare`, `Prepare`) on the
way to PREPARING, where callers race for it, and in `createTask`'s denial (`CheckDenial`,
`Deny`). Past that the holder of the lock has its run to itself (`HolderIsAlone`, checked
and proved) as long as `createTask`, which takes no lock, is done with the run, so
merging the two elsewhere loses no behaviour then. That callers wait for `createTask` is an
assumption about them, `Announced`, which the code does not enforce: see *Failures*.

**Correspondence.** Actions carry the name of the code's function or of its step,
and `map` in `PROJECT.json` gives the lines.

| code | actions |
|---|---|
| `createTask`, denial included | `BeginCreate WriteQueued WriteAudit MarkAudit CheckDenial Deny WriteDenial` |
| `startRun`, `#startWithLock`, `#startLocked` | `BeginStart TakeLock RunLocked CheckPrepare Prepare Provision Spawn PersistPid MarkRunning Unlock` |
| `#abandonLaunch`, `#failBeforeLaunch` | `Abandon RecordFailure FailStart` |
| `#finalize`, `#ingest`, `#terminate` | `Collect CompletionRejects Ingest MarkIngested Conclude Validate RecordResult Terminate Forget Unlock` |
| `cancelRun` | `CancelRun CancelReply` |
| `superviseProcess` (its contract) | `WorkerEnds` |
| `recoverRuns` | `Boot RecoverInspect RecoverStop RecoverOrphan RecoverDone` |
| `commandStart`'s `shutdown`, `#drain` | `Signal DrainSnapshot Exit` |
| death of the process, a worker without a daemon | `Crash StrayEnds` |
| `WorktreeManager.provision` | `Begin Claim MakeParent Add Describe MarkCreated` |
| `#prepareWorkspace` and the spawn; `#closeWorkspace` | `Launch`; `Finish` |
| `WorktreeManager.release` | `ProveOwnership CheckListed Remove Prune Sweep Close` |
| `superviseProcess`, `boundedSink`, `terminate`, `close` | `Say LeaderExits HelperEnds HardTimeout Cancel Escalate Pump EndWrite WriteFails Discard Close` |
| each runner's `completed`, `readEvents`, `translate`; `#finalize`'s judgement | `Complete CompleteFails`; `readSelectedWorkerEvents`, `Judge` in `Finalize`; `FinalizeFails` |
| `verifyWorkerAlive`, `defaultStopSurvivingWorker` | `Probe PollSeesItGone KillSurvivor` |
| `connectToDaemon`, `call`, its timer, `socket.on` | `ReadToken Connect Greeted Call Expire Deliver DeliverTooLarge SeeClose` |
| `handleConnection`, `dispatch`, `#drain`, `server.close` | `Dispatch Answer GoOn StopAccepting CloseServer Exit Restart` |
| `createAndStart` and its handlers | `AskCreate Admit Audit Deny Created AskStart BeginStart Place Launch Started` |
| `decide`, `assertContained`, `select`, `prepare` | the operators of those names in `Admission` |
| `snapshot`, `watch`, `follow`, `publish`, `dispose` | `BeginFollow Poll ReadRun TakeSnapshot SinkStep SinkFails Advance Abort Reactivate` |
| `runOnce`, `createRunLayout`; `commandLogs` | `RunOnce CmuxAnswers CmuxFails`; `TailReads TailChecks` |

In `Worker` text is a sequence of units: a record is two halves and a newline, enough for a line
that is torn, cut by a budget, or glued to what follows. A record is the fields the translators
look at. The readers decode bytes as UTF-8 and count the bytes of the text that gives; what is no UTF-8
becomes U+FFFD, three bytes long. So a `Wide` record has a character across its halves, a `Raw` one a byte
that is no UTF-8, and `byteLength` counts each such `Stray` as one unit more than was read.
A Claude message has one block. In `Frontend` a reply carries the state or the page of
sequence numbers the handler read; a path is a sequence of names, a checkout the links in it.

In `Worktrees` a path is a canonical path, `Within` says which lies in which, and a record is
its holder and the set of its two dates. What git does to a directory (`Free`, `Without`) was
modelled from how the code uses it: `add` takes a missing or empty directory, `remove --force`
deletes the directory with everything in it.

Definitions that no action uses and whose comment describes a slip
(`AcquireLockShared`, `PrepareInMemory`, `ConcludeStateFirst`, `DrainSnapshotEarly`,
...) are variants of the definition they precede. They name the bugs the properties
are there to catch: put in its place, each makes its property fail in the same run.

**Failures.** `Faults` says which kinds of file may fail (`"state"`, `"result"`,
`"metadata"`, `"events"`, `"lock"`) and which outside facts may go wrong:
`"adapter"`, an adapter's `completed` rejects, or the read of its transcript does (`Ingest`); `"probe"`, `ps` cannot vouch for a
worker's start time; `"kill"`, a worker is not confirmed dead after SIGKILL. `"early"` is no failure but
a caller: one that starts a run before the `task.create` that makes it has answered, with an id taken from
`agentd runs`, where a QUEUED run is listed at once. Nothing in `startRun` refuses it, and the two then
write the run beside each other. Without `"early"` (`Announced`) callers start only what `createTask` is done
with, as `createAndStart` of the Pi extension and `agentd verify` (`cli.ts:354-361`) do. In `Worktrees`, `"git"` and `"disk"`: a
git command may fail after it took effect, a record may fail to be read or written. A
failing write may or may not have taken effect (`atomicWriteFile` flushes the
directory *after* the rename); a failing read makes `writeResult` overwrite. A failed
spawn and a failed workspace are possible in every run and need no fault. In `Worker`: `"disk"`, a
write to a transcript fails, the adapter's append included; `"read"`, a transcript cannot be read
back (for the adapter's own reading, which makes it malformed, or in `#finalize`, which is then rejected
and leaves the run RUNNING); `"ps"`, `ps` has no answer; `"clock"` (in no run), it has a wrong one, which only makes
recovery call a survivor dead. In `Frontend`: `"large"`, a reply over the message limit; `"crash"`;
and with `Flaky` any call to cmux fails, before or after it took effect.

## 3. Runs

Deadlock is not checked: a daemon that nobody starts again stays down and the number
of starts is bounded, a worker's story ends with its verdict, and a session ends.

| run | instance | what it shows |
|---|---|---|
| `agentd_crash` | 1 run, 2 starts, 2 pids, 3 boots, every fault but `early` | type correctness; at most one worker per run; the lock's holder is alone; success is earned; outcomes are never rewritten; the daemon implements `RunLedger` |
| `agentd_service` | 2 runs, 2 starts, 2 pids, 2 boots, no fault | what a client sees while the daemon serves: a mid-flight run has an owner, a terminal run has the result that agrees with it, no recorded worker is stray, a shutdown is clean, a cancel's answer stays true |
| `agentd_liveness` | 1 run, 2 starts, 2 pids, 2 boots, faults except `state`, `result`, `adapter` | a prepared run settles, a shutdown ends, a cancel is answered; `RunLedger` in its strong form (an answer is always durable) |
| `denied_result`, `decision_first`, `unkillable_worker`, `incomplete_create` | 1 run, 1 start, 1 pid, at most 3 boots | the first four disagreements of section 6 |
| `worktrees` | 3 runs, 2 unrelated paths (free or taken at first), `git` and `disk` faults, crashes | no two runs share a workspace, every worktree is claimed, no worker's files are deleted |
| `worker` | 1 worker of any of 5 kinds, 2 writes, budgets of 3 or 6 units, text that is and is not UTF-8, `disk`, `read` and `ps` faults | what the supervisor promises, what a transcript is worth, and `WorkerContract` |
| `frontend` | 1 session, 1 run, 11 tasks, 3 checkouts, 2 creators of a layout, 7 calls per connection, 2 lives, 2 follows, 3 events in pages of 2, `large` and `crash` faults, a failing cmux | what a client is told, what is placed where, what is shown |
| `nested_worktrees` | 2 runs on nested paths without faults | disagreement 5 |
| `early_start` | 1 run, 1 start, 1 pid, 1 boot, no fault but a caller that does not wait | disagreement 6 |

**Bounds, and why they are enough.** Runs share only the daemon's phase, the drain and
recovery's verdict, so two runs show every way one run can disturb another, and one run
is enough for what is said of a run alone. Two starts are the smallest race; a third
only meets the same lock. A call identity is used once per life of the daemon and comes
back with the next boot. Two pids allow the second launch that must not happen; a
pid is never reused here (`Worker` has the check that makes this so, and recycled pids). Three boots
let a run be left by one daemon, mishandled by a second and looked at by a third. A
worker's output is one batch of events, one sequence number; one cancel per run is in
flight, a second would wait for the same two promises. `Endings` lists one
representative of each way an outcome is treated: valid success, clean exit without a
valid claim, unclean exit, forced stop.

`worktrees` has three runs on two paths, so two always meet on one path while a third is on the
other or joins them: a winner, a loser and a late-comer on a path already released. Deeper nesting
than one path in another adds nothing that one level does not show.

`worker`: a worker writes twice, on either stream, so two records, a record and a torn one, or two
torn halves may meet; with the adapter's own result a transcript has up to three lines. `TightBudget`
cuts inside the second line, `AmpleBudget` never does. Free text is `Wide`, so a cut or a torn record may split
a character; one record of two providers is `Raw`. `Vocabulary` has, per provider, one
record of each way a translator or a judgement treats one; a line of three units is over the limit.
A helper may hold the pipes past the leader's exit. The soft timeout is left out (it adds a warning
to the result), so is a failed spawn (`Orchestrator`'s), and a pid is not recycled while its daemon
lives, since the daemon has not reaped it. A crash forgets the transcript, which no later daemon reads.

`frontend`: seven calls let a session greet, create, start and poll twice; two lives are a daemon and
its successor, two follows a session that comes back with the sink it had. Three events are more
than a page. `MCTasks` has a task for each rule and an admissible one per sandbox mode and provider;
a checkout brings nothing, a link to a secret, or a link out. To keep the parts that do not meet
from multiplying, the session lays out before it follows and follows when all creators have their
layout (they share the workspace's id only), and has the watch or the log tail, never both (they
only read the store). The sink's status, progress and log calls are one step, for only their success
matters. What nobody reads any more (the task and placement after the launch) is dropped. The
remembered probe is one made at any earlier time. The session starts what it created, after it was
created, so `Announced` holds of it; `early_start` has the caller that does not wait.

**Fairness** (`FairSpec`). Weak fairness of recovery, of the drain, of each start and
finalisation, of each cancel's answer: the event loop runs what is ready and every await
is on the daemon's own disk. Weak fairness of `WorkerEnds`: the supervisor's hard timeout
sends SIGTERM, then SIGKILL to the group. None for callers, signals, boots or crashes:
nobody has to call, and the daemon may die at any time, so each liveness property allows
"or the daemon is gone". With `"state"` faults a run whose terminal write fails stays
where it is until the next boot; with `"adapter"` faults `#finalize` never runs, or never ends; in both
a run does *not* settle in this life, so the liveness run leaves them out. A cancel
captures a finalisation that every exit path resolves, and a crash takes the waiting
caller along with the daemon.

`Worker`: weak fairness of the hard timer, of the SIGKILL timer, of the pipes and sinks (`Serve`: the
event loop gets to what is ready, and a write ends one way or the other), and of the daemon's own
steps after the close (`Settle`). None of the worker: it may ignore SIGTERM, hold its pipes and
write, or never write, for ever. `Frontend`: only the client's timers. No daemon, no handler and no
socket is fair there, and calls end all the same.

Why `agentd_service` has no faults: each of its properties is false with some failing
write, by design of the code. `writeResult`'s answer is ignored, so a failed write leaves a
terminal run without a result; a failed terminal write leaves an unowned RUNNING run.
What remains true then is what `agentd_crash` checks.

## 4. Properties

Each is defined and commented in `Agentd`, `Worktrees`, `Worker` or `Frontend` (`LayoutAgrees` in `Layout`).

* `LaunchedAtMostOnce`: PREPARING is durable before the spawn, and no state leads back.
* `HolderIsAlone`: the lock admits one start at a time to a run, and is there for as long as the start;
  recovery never works beside a start or a `createTask`. It does not say that the lock keeps `createTask`
  out, which takes none: that is left to the callers (`Announced`).
* `SuccessIsEarned`: while `Announced`, SUCCEEDED implies a recorded worker with a clean exit and one valid claim,
  and no other result beside it.
* `OutcomeNeverRewritten`: while `Announced`, as a step property, over crashes and failing reads.
* `StatesFollowTable`: `state.json` moves along the table. Proved while `Announced`, violated in `early_start`.
* `ActiveMeansOwned`, `NoRecordedStray`: recovery's promise to clients of the new daemon.
* `OutcomeIsKnowable`: result before terminal state, at every instant a reader may look.
* `StopIsClean`: a start admitted before the signal may become RUNNING after it.
* `CancelReplyIsDurable`: `cancelRun` captures the finalisation before it awaits the process.
* `RunsSettle`, `ShutdownEnds`, `CancelAnswered`: liveness.
* `ImplementsLedger`: while `Announced`, the refinement `Agentd => RunLedger`, with `phase` read off
  `state.json`, `launched` off the processes, and `answer` off `result.json`.
* `ExclusivePaths`: two writers never share a working directory, and each has the record for its own.
* `EvidenceFirst`: at every instant, so after every crash, a worktree has a record that names its run.
* `NoWorkLost`: as a step property, no directory a worker was started in is removed by anyone.
* `FirstCauseWins`, `DropIsNamed`: cancel, timeout, output limit, failing disk and natural end race, and
  one of them names the outcome; what has to be dropped while the process is open is never dropped silently.
* `TranscriptIsBoundedPrefix`, `NothingDroppedUnnamed`: what is on disk is a prefix of what was written,
  and all of it when the worker ended by itself, but for the window of disagreement 9.
* `OutcomeArrives`: the worker may do what it likes, an outcome comes.
* `SuccessIsWitnessed`, `DeniedToolNeverSucceeds`: torn, glued, duplicate and foreign results, and a
  provider that exits 0 after a denied tool.
* `ResumeAgrees`, `ToolCallsPair`: a reading resumed at a remembered offset, of text that is UTF-8 (or cut
  inside a character at its end), and names over several records.
* `StrangerSpared`: a recycled pid. It exempts a stranger that started within the tolerance of the
  worker's start, or took the pid after the look: `defaultStopSurvivingWorker` polls the pid alone.
* `ImplementsContract`: the refinement `Worker => WorkerContract`.
* `HelloFirst`: the token file and the socket may belong to different lives of the daemon.
* `FreshAnswers`, `CallsSettle`: answers overtake each other, come late, or never.
* `ViewsAreFaithful`: no event is shown twice or skipped by a watch or a tail. It does not say that all
  are shown: both stop on a terminal state with later events unread (`watch` reads state and one page in
  parallel; `logs --follow` reads the events first). Nor that they stop: the tail counts neither
  ORPHANED nor BLOCKED as terminal, so the tail of an orphaned run polls on.
* `NotifiedOnce`, `LayoutAgrees`: once-only guards under failure, retry and resumption.
* `PlacementHolds`, `IsolationHolds`: what admission found is stale when the worker is placed; the second
  look covers the links and the providers.

## 5. Proofs

`AgentdProofs` and `ServiceProofs` prove for all `Runs`, `Pids`, `Calls`, `Faults`, `Endings` and
`MaxBoots`, from the named assumptions only (`NoPid`, `NoCall` and `NoRun` are not members of
the sets they extend, `Endings` are outcomes other than a cancel, `MaxBoots` is positive), and from what
a theorem names as its hypothesis:

| theorem | states |
|---|---|
| `TypeCorrect` | `Spec => []TypeOK` |
| `OneLaunch` | `Spec => []LaunchedAtMostOnce` |
| `HoldersAlone` | `Spec => []HolderIsAlone` |
| `TableKept` | if `Announced` then `Spec => StatesFollowTable` |
| `OutcomeFinal` | if `Announced` then `Spec => OutcomeNeverRewritten` |
| `SuccessEarned` | if `Announced` then `Spec => []SuccessIsEarned` |
| `KeepsLedger` | if `Announced` then `Spec => ImplementsLedger` |
| `OutcomeKnown` | if `Announced` and `"result" \notin Faults` then `Spec => []OutcomeIsKnowable` |
| `ActiveOwned` | if `Announced` and `Sound` then `Spec => []ActiveMeansOwned` |
| `CancelDurable` | if `Announced` and `Sound` then `Spec => []CancelReplyIsDurable` |
| `NoStray` | if `Announced`, `Sound` and `Verifiable` then `Spec => []NoRecordedStray` |
| `CleanStop` | if `Announced` and `Sound` then `Spec => []StopIsClean` |

`Announced` says that callers start only runs whose `createTask` has ended. The first three theorems ask
nothing of the callers. The others are of callers that wait: `early_start` shows `StatesFollowTable` false
without it, and the rewritten FAILED of its trace is what `OutcomeNeverRewritten` and the ledger forbid.

`Sound` says that `state.json` can be written and that an adapter's transcript can: after a failed
transition, and after a rejected `completed`, the code leaves the run where it is, active and owned by
nobody, so the four theorems do not hold without it. `Verifiable` says that recovery can read
`metadata.json`, gets an answer from its probe, and that SIGKILL kills; `unkillable_worker` shows that
the last cannot be dropped. All of these faults are otherwise unrestricted: events, results and locks may
fail under `Sound`, and crashes may fall anywhere.

and `WorktreesProofs`, for all `Runs`, `Paths`, `Within` and `Faults`:

| theorem | states |
|---|---|
| `WorktreesTypeCorrect` | `Spec => []TypeOK` |
| `PathsAreExclusive` | `Spec => []ExclusivePaths` |
| `EveryWorktreeIsClaimed` | `Spec => []EvidenceFirst` |
| `WorkKept` | if `Within = {}` then `Spec => NoWorkLost` |

`WorkerProofs` and `TranscriptProofs`, for all budgets, sets of kinds, vocabularies, faults, line limits and numbers
of writes (so for transcripts of any length):

| theorem | states |
|---|---|
| `TypeCorrect` | `Spec => []TypeOK` |
| `FirstCause` | `Spec => FirstCauseWins` |
| `DropsAreNamed` | `Spec => DropIsNamed` |
| `StrangersSpared` | `Spec => []StrangerSpared` |
| `KeepsContract` | `Spec => ImplementsContract` |
| `TranscriptBounded` | `Spec => []TranscriptIsBoundedPrefix` |
| `DropsNamed` | `Spec => []NothingDroppedUnnamed` |
| `SuccessWitnessed` | `Spec => []SuccessIsWitnessed` |
| `DeniedToolFails` | `Spec => []DeniedToolNeverSucceeds` |
| `ReadingResumes` | `Spec => []ResumeAgrees` |
| `ToolsArePaired` | `Spec => []ToolCallsPair` |

Their assumptions are that a budget is two natural numbers, a line limit positive, a kind one of the
five the adapters know, and a torn record (`Partial`) a sequence.

and `FrontendProofs` and `SessionProofs`, for all tasks, checkouts, hosts, creators, page sizes and bounds:

| theorem | states |
|---|---|
| `GreetedFirst` | `Spec => []HelloFirst` |
| `OneNotification` | `Spec => []NotifiedOnce` |
| `OneLayout` | `Spec => []LayoutAgrees` |
| `AnswersAreFresh` | `Spec => []FreshAnswers` |
| `ViewsAgree` | `Spec => []ViewsAreFaithful` |
| `PlacedWhereItMay` | if `RealSecrets` then `Spec => []PlacementHolds` |
| `FirstDenialWins` | of any task, profile and links: `decide` answers with the first rule that denies, or none denies |
| `IsolatedAsAsked` | `Spec => []IsolationHolds` |
| `SessionTypeCorrect` | `Spec => []TypeOK` |

The assumptions are that the bounds are natural numbers, the page, the store and a connection's calls not
empty, and that the providers of a host come in a list, the order `select` tries them in.

`RealSecrets` says that no checkout's link moves a path of the denylist. `assertNotDenied` compares with
where such a path really leads and `PlacementHolds` with the path as listed, and a worktree has no
business with the directories above it.

*The argument.* `HolderIsAlone` is not inductive: nothing in it says why a call past
`TakeLock` has the lock to itself. `Ownership` adds that: whoever passed the lock keeps
it until `Unlock`, two calls never both hold one run's, a call under way has a run that
exists (and whose creation is over, while `Announced`), and while the daemon is off or recovering there are no calls at all,
which is why recovery may clear every lock. `LaunchedAtMostOnce` needs `Launches`: a process
belongs to a run that durably left QUEUED (no state leads back), and a
call about to spawn has no process yet, even if a denial has overwritten what it read. A call between
`CheckPrepare` and `Prepare` still has QUEUED under it while `Announced`, because it alone may write then.
`LInv` is their conjunction and inductive for all callers (`LaunchInductive`); `IInv` adds `Announced`, and
`Inductive` is `Spec => [](TypeOK /\ IInv)` from it.

For `OutcomeFinal`, states are kept by the table (`TerminalStays`, `StatesAdvance`).
Results are not kept by `writeResult`, which overwrites what it cannot read, so they
need a reason of their own: `Answers` says that a call before its result-writing step has
a run without a result, and that a run still QUEUED has none. As the call has the lock and `createTask` is
done with the run (`Ownership`), nobody else can have put one there. `IInv` and `Answers` were checked with TLC as invariants of the
instance of `agentd_crash` before they were proved.

`SuccessEarned` needs `Earned`: a call past the spawn holds a process of its own run, past `PersistPid`
that process is the one on record, past the supervision it has ended, and before the terminal
transition no result but its outcome's can be on disk, nor is the run SUCCEEDED. `KeepsLedger` takes
each kind of step to one of the ledger's or to a stutter, and needs `Tracked`: a call that has not
settled its run has it active, what it is about to conclude has been written, and a run whose creation
is under way has no process. `OutcomeKnown` is the same invariant read where no result's write fails.

`ActiveOwned` needs what a call that has the lock knows of its run's state (`Staged`) and what
recovery has reached (`Swept`): a run no call holds was made inactive by recovery, or never was. For
`CancelDurable`, `Waits` says that a canceller waits for its own run's finalisation, which is past its
registration, and that the run is terminal when that finalisation is done. For `NoStray`, `Minded` says that
every live worker has a call, or an active run that the coming recovery will look at, or a run known to be
lost, and `Stopped` that a run is not given up while a worker on its record lives. For `CleanStop`,
`Drained` says that a call between its registration and `Forget` is in `#finalizing`, and, from the
drain's snapshot on, in what the drain waits for, while no start is under way: a call that the drain does
not see has at most the lock left to give back. `Earned`, `Tracked`, `Staged`, `Swept`, `Waits`, `Minded`
and `Stopped` were checked with TLC on a small instance before they were proved.

For the worktrees, `Claims` says that a run past its claim, and a run past `#proveOwnership`, is
the holder of its path's record, and that a record gets its dates from its holder only. For
`WorkKept`, `Kept` adds that the holder of a path with work in it is past the launch and
releases with `remove: false`; the assumption on `Within` is needed where one directory's removal
must not touch another's, and `nested_worktrees` shows that it cannot be dropped.

For the worker, `KeepsContract` needs to know why a cancellation is never reported unasked and never
forgotten: reason `cancelled` comes only from `Cancel` on an open process, which is when `asked` is
set, and an open process that was asked has a reason other than `exited`. `FirstCause` and
`DropsAreNamed` need no invariant beyond the types.

`TranscriptIsBoundedPrefix` says nothing of what is between the worker and the file. `InFlight` does: there
are cuts in what the worker has said between which the chunks in the sink's queue lie, one behind the
other; the pipe is what follows the last cut, and the file reaches up to the first, unless the budget stopped
it short. `InOrder` adds that the file is within the budget, and that a broken sink queues nothing more;
`Ordered` that this holds while the worker is supervised, and that after it what was not dropped is on
disk (`Kept`), which is what `DropsNamed` reads off.

What a translator makes of a transcript is a loop over its records. `Folding` proves once, for every
`base` and `step`, what such a loop gives for no element and for one more (`FoldedEmpty`, `FoldedAppend`),
and that what every turn keeps holds at the end (`FoldedIn`). The library's induction theorems take a
predicate as parameter, which no prover here can instantiate, so the induction is over *sets*: every
set of numbers that is not empty has a least one (`Least`, from the well-foundedness of `<`), hence
`Induction` and `SeqInduction`. A proof about a loop defines the set of the sequences it is true of.
`Segments`, `Read`, the translators and `decide` are instances, so no claim below rests on a bound.

* `SuccessWitnessed`. `AtRest`, `Closed` and `Judged` keep why a verdict was given: nobody writes after the
  close, the file is what the adapter left of what was said, and the outcome is the judgement on it.
  `SplitRest` and `ReadRest` say how a text is split and read when another is appended to it; `JudgedSuccess`
  that a success needs exactly one result event and no unreadable line; the lemmas `...Counts` that the
  translators of the real providers make no result of their records. What the adapter appended is one,
  so the worker printed none of its own, and the fake worker, to which nothing is appended, just one.
* `DeniedToolFails`. An adapter that finds the error appends a failed result or none, and `JudgedSuccess`
  needs a successful one. Reading the judgement closely for this showed that the `CASE` guards of `Judge`
  and of two translators overlapped, which the code's `if`s do not; they are ordered now.
* `ReadingResumes`. `CutAnywhere` says of any point of a text what a first reading leaves: the lines up to
  the last newline, and an offset just behind it. `CutAtLine` takes the text apart there, and `ReadingsAdd`
  puts records, rejections and offsets together. `LinesFitFits` and `FitsPrefix` carry the line limit to
  both parts. Without it the property is false: a fragment over the limit is dropped at the cut, and the
  rest of its line is then a line of its own. Offsets are of the text as it is after decoding, so the
  theorem is about `WellEncoded` transcripts: `WellEncodedParts` and `StrayIsLast` say that of such a text
  only the last unit of a first reading can be stray, `WellEncodedLength` that a byte of text is then a byte
  of file, and `FragmentFits` (with `RoomForMore`) that the fragment behind the last newline is within the limit all the same.
  For others the offset drifts (item 8 of the next section).
* `ToolsArePaired`. `Faithful` relates what `#pendingTools` holds after some records to the events made of them:
  it remembers a call exactly if the latest event that names it is its start, under that name
  (`Latest`, `Remembered`). `ClaudeAdds` is the step, `ClaudePairs` the induction.

For the session, `HelloFirst` is not inductive: `Greeting` adds that a greeting on its way
carries the token this connection presented, that an open connection that was let in presented this
life's token, that a connection starts without handlers of its own, and that a daemon's life ends with
its sockets. `NotifiedOnce` needs `News`: whatever says that the run
has ended, a reply on its way, a call's answer, or the snapshot being shown, is right, for an ended run
stays ended; and `Noticed`: no notice without the guard. `LayoutAgrees` is inductive over its types.

`FreshAnswers` needs `Matched`: an id of this connection is used once while anything that carries it may
still arrive, a request, a handler or a reply that has a waiting call's id is of its method and asks from
its sequence, and what a call asked about is no newer than the store, which only grows. `Paged` and
`Tailed` carry that to the views: the page a watch adds, or a tail prints, starts where the last one
ended. For `PlacementHolds`, `Sole` says that a session's one `task.create` is under way at most once and
is over when a start is asked for, so that no denial can move a run that is being placed, and `Placing`
that one start at most is between `PREPARING` and its answer, with the run in that state throughout:
what the last look found is still so at the launch. The theorem's hypothesis is about the host alone.

`FirstDenialWins` is about the loop of `decide` (`Ruled`, over any list of rules whose names are not
`default`). For `IsolationHolds`, `NoneDenies` and `AdmittedIsCleared` read from it that a task that was let
through asks for neither network nor commits, and has a sandbox if its kind needs one (`Cleared`).
`ChosenWillDo` says of the search over the providers that what it selects will do *at that moment*, whatever
the remembered probe had said at admission. `Isolating` carries both from `Admit` to the launch: a run that
may still be started, or is being started, and is not denied is a cleared one, and a placement is by a
provider that was asked for.

`TypeOK` of the session needs the wire's types sharpened to the bounds it states: a page is no longer than
`PageSize` and holds sequence numbers the store can have (`Pages`), a cursor is one of them or -1 (`Since`),
lives and call ids stay within their bounds, and a decision is the name of a rule (`DecisionIsName`). `ShellType` has the parts that nothing else depends on.

*Only model-checked*: the liveness properties `RunsSettle`, `ShutdownEnds`, `CancelAnswered`, `OutcomeArrives` and
`CallsSettle`; fairness and `ENABLED` are out of the prover's reach. Every invariant, every action property
and both refinements that the passing runs check are stated by a theorem. TLC remains what shows that the hypotheses `Announced`, `Sound`,
`Verifiable`, `RealSecrets` and `Within = {}` are met by states in which something happens.

## 6. Where the code and its documentation disagree

1. `denied_result`. `createTask` moves a denied run to FAILED and then writes its
   result; a crash in between leaves a terminal run without one for good.
   "Result before terminal state, as everywhere else" (`orchestrator.ts:622`).
2. `decision_first`. A crash between `store.create` and `appendEvents` leaves a QUEUED run
   without a decision on its log, which the next daemon starts on request.
   "The policy decision is on the event log before the worker exists" (`orchestrator.ts:5-7`).
3. `unkillable_worker`. A worker that survives SIGKILL fails one boot; the run is ORPHANED in
   the same pass, and the next boot opens its socket with the worker alive
   (`docs/runbooks/recovery.md:35-37`).
4. `incomplete_create`. A crash inside `create`, or a shutdown that did not wait for it, leaves
   a directory without `state.json`, on which every later boot fails; the comment at
   `run-store.ts:196-199` says recovery can recognise it as incomplete.

5. `nested_worktrees`. `provision` refuses a path nested with the primary checkout, but not one
   nested with another run's worktree. If the outer run fails before its worker (its sandbox
   is refused, its spawn fails), its release deletes the inner run's files, a running worker's
   included: "safe precisely because nothing ran: there is no work in it to lose"
   (`orchestrator.ts:600-601`). `git worktree remove --force` does this without complaint.
6. `early_start`. `createTask` takes no lock and `startRun` starts whatever is QUEUED, so a start with an
   id from `agentd runs` may run beside the `createTask` of its run. The start reads QUEUED, the denial moves
   the run to FAILED, and the start writes PREPARING over it: "The check happens against the state *on disk*,
   not a caller-supplied one, so a stale in-memory view cannot drive an illegal transition"
   (`run-store.ts:296-297`). The denial then writes `blocked` without the lock ("`result.json` may only be
   written by the lock holder", `run-store.ts:468-469`), the worker runs, `#terminate` ignores that its own
   result is refused, and a refused task ends SUCCEEDED beside the result `blocked`.

Met while modelling, without a violation run of their own:

7. A `git worktree add` that reports an error after it took effect (a time
   limit), or a `describeWorktree` that fails, leaves a record without `createdAt`; release
   closes it and leaves the worktree, which no list then names. The comment at
   `manager.ts:284-286` calls that record the marker release needs to clean up safely.
8. The offset a reader remembers counts the bytes of the *decoded* text (`ndjson-stream.ts:64,81`; the
   readers decode at `codex/src/runner.ts:191` and `antigravity/src/runner.ts:282`). A byte that is no UTF-8,
   or a character cut by the byte budget, counts as the three bytes of U+FFFD, so what was meant as "the
   offset to resume from" (`ndjson-stream.ts:21`) drifts past what was read. `ResumeAgrees` is false without
   `WellEncoded`. The daemon itself reads a transcript once, from 0.
9. Chunks still in a sink when the process closes are written after `settled`: a budget or a disk that
   gives out there is not named, and the cut transcript is judged as whole (`supervisor.ts:13-15`).
10. A group member that ignores SIGTERM, with its output elsewhere, survives: the leader's exit closes the
   pipes, and `clearTimers` cancels the SIGKILL (`supervisor.ts:18-25`). The model's helper holds the pipes.
   `defaultStopSurvivingWorker` likewise polls the leader's pid only.
11. A failed `createRunLayout` leaves its workspace, and the retry makes a second one (`layout.ts:95-96`).
12. Antigravity's normaliser looks at `tool_info.error`, never at `state: "ERROR"` (`runner.ts:158-160`).
13. `#finalize` adds warnings to a valid result without validating again; one too many, or a duplicate,
    and `result.json` is unreadable under a SUCCEEDED state (`orchestrator.ts:966-967`).

And behaviours that contradict no text, but that a reader of the models meets: a helper outside the
group that holds the pipes keeps `completed` pending, and a hard timeout then relabels a worker that had
exited 0; an adapter whose append fails rejects `completed`, and nobody finalises the run; a transcript that cannot be read in `#finalize` rejects
that, and leaves the run RUNNING until the next boot (`FinalizeFails`); a result
appended behind an unterminated line spoils it; a full page of large events may exceed the message limit,
which ends the connection for every call on it; a call on a dead connection is only settled by its timer;
`createAndStart` loses the run's id when the start's answer is lost; a failed send of the terminal notice
is not repeated, since the guard is set before it.

## 7. Not modelled, and why

* Of a start that does not wait for `createTask` (`"early"`): only the two transitions that meet at QUEUED
  are split into read and write. A later write of either that falls between the other's read and write may be
  lost as well (of `metadata.json`, say); that is left out, and no theorem without `Announced` depends on it.
* `runs`, `status`, `diff`, `doctor`, `health`, `capabilities`: readers of one answer. `task.cancel` and
  `task.result` take the path of the modelled methods through `Rpc`; what they do is in `Orchestrator`.
* A second daemon: the SQLite lock is taken at its word; Windows' lock file likewise.
* An enforcing sandbox: the repository has the host provider only.
* The checks of `provision` before the claim (containment, repository identity, audit, base): one answer.
* Power loss: a claim is not flushed, so it could vanish; a crash here is the death of the process.
* Schemas but for the rules admission and the normalisers meet; artifacts; text, redaction, titles,
  configuration parsing, the transports to cmux, the testkit: data, or input and output.

## 8. Plan

| # | modules | state |
|---|---|---|
| 1 | `RunStates RunStore Orchestrator Agentd RunLedger` | modelled, checked, safety proved |
| 2 | `Worktrees` | modelled, checked, proved |
| 3 | `Supervisor Survivor Folding NdjsonStream Normalizers Adapters Worker WorkerContract` | modelled, checked, safety proved |
| 4 | `Admission Rpc RunFeed Layout Projection Frontend` | modelled, checked, safety proved |
| 5 | `early` in `Orchestrator`: `createTask` and `startRun` of one run at once | modelled, its violation checked; the properties that hold all the same proved without `Announced` |

Proofs to follow: what `select` promises beyond what a session needs of it (the first provider that will do,
and a weaker one only where none enforces); that a session's `RunFeed` is what `Agentd` shows
of a run, so that the core and its callers are composed by a theorem as well as by the shared table.
