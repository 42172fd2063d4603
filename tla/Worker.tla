-------------------------------- MODULE Worker --------------------------------
(***************************************************************************)
(* One launched worker from its spawn to the verdict on its run: the       *)
(* supervised process, the adapter that closes its transcript, the reading *)
(* and judging of that transcript (#finalize in                            *)
(* apps/agentd/src/orchestrator.ts), and the crash of the daemon at any    *)
(* point before that.                                                      *)
(***************************************************************************)
EXTENDS Survivor, Adapters

WorkerKinds == {"fake", "codex", "claude", "cursor", "antigravity"}

CONSTANTS Kinds,      \* the adapters a task may select
          Vocabulary, \* [kind |-> records its worker may print]
          Partial     \* texts a worker may print that are no whole line

ASSUME KindsAssumption == Kinds \subseteq WorkerKinds
ASSUME PartialAssumption == \A text \in Partial : text \in Seq(Range(text))

VARIABLES
  kind,    \* task.worker.kind
  stage,   \* supervised, completed (its promise resolved), or over
  misread, \* the adapter could not read the transcript back
  outcome, \* the verdict: "alive" until there is one, "unread" if there never is
  asked    \* a cancellation was asked for before the process settled

ending == <<stage, misread, outcome>>
vars == <<supervisor, survivor, kind, ending, asked>>

TypeOK ==
  /\ SupervisorTypeOK /\ SurvivorTypeOK
  /\ kind \in Kinds
  /\ stage \in {"supervised", "completed", "over", "crashed"}
  /\ misread \in BOOLEAN
  /\ outcome \in Outcomes \cup {"alive", "unread"}
  /\ asked \in BOOLEAN

Init ==
  /\ SupervisorInit /\ SurvivorInit
  /\ kind \in Kinds
  /\ stage = "supervised" /\ misread = FALSE
  /\ outcome = "alive" /\ asked = FALSE

-----------------------------------------------------------------------------
JudgeFirst(batch) ==
  IF batch.rejected > 0 THEN "malformed"
  ELSE IF Len(batch.results) = 0 THEN "missing"
  ELSE IF batch.results[1] = AgentResult("foreign") THEN "foreign"
  ELSE IF batch.results[1] = AgentResult("succeeded") THEN "claims_success"
  ELSE "claims_failure"

(* What #finalize makes of a worker that exited on its own with code 0, in  *)
(* the order of its early returns.                                          *)
Judge(batch) ==
  IF batch.rejected > 0 THEN "malformed"
  ELSE IF Len(batch.results) = 0 THEN "missing"
  ELSE IF Len(batch.results) > 1 THEN "duplicate"
  ELSE IF batch.results[1] = AgentResult("foreign") THEN "foreign"
  ELSE IF batch.results[1] = AgentResult("succeeded") THEN "claims_success"
  ELSE "claims_failure"

ExitedZero == reason = "exited" /\ leader = "zero"

-----------------------------------------------------------------------------
(* The process and its supervisor, while the daemon lives.                  *)

Alive == stage = "supervised"

Speak ==
  \/ \E r \in Vocabulary[kind] : Say("stdout", Terminated(r))
  \/ \E text \in Partial : Say("stdout", text)
  \/ Say("stderr", <<Newline>>)

(* The event loop at the pipes and the files. *)
Serve ==
  Close \/ \E s \in Streams : Pump(s) \/ Discard(s) \/ EndWrite(s) \/ WriteFails(s)

Supervise ==
  /\ Alive
  /\ Speak \/ HardTimeout \/ Escalate \/ Serve
  /\ UNCHANGED <<survivor, kind, ending, asked>>

(* The group's own moves, watched or not. *)
GroupEnds ==
  /\ LeaderExits \/ HelperEnds
  /\ UNCHANGED <<survivor, kind, ending, asked>>

AskCancel ==
  /\ Alive
  /\ Cancel
  /\ asked' = (asked \/ ~settled)
  /\ UNCHANGED <<survivor, kind, ending>>

-----------------------------------------------------------------------------
(* The runner's own completed, after the supervisor's.                      *)

Closing(sawToolError) == startSelectedWorker(kind, ExitedZero, sawToolError)

Complete ==
  /\ stage = "supervised" /\ Flushed
  /\ stage' = "completed"
  /\ \E readable \in IF "read" \in Faults THEN BOOLEAN ELSE {TRUE} :
       /\ misread' = ~readable
       /\ file' = [file EXCEPT !["stdout"] =
                     @ \o Closing(readable /\ detectToolError(file["stdout"]))]
  /\ UNCHANGED <<budget, group, pipe, queue, limited, broken, control, survivor, kind, outcome,
                 asked>>

(* appendFile fails: completed rejects, and nobody finalises the run.       *)
CompleteFails ==
  /\ stage = "supervised" /\ Flushed
  /\ "disk" \in Faults /\ Closing(FALSE) # <<>>
  /\ stage' = "over" /\ outcome' = "unread"
  /\ UNCHANGED <<supervisor, survivor, kind, misread, asked>>

(* The supervisor's reason goes first, then the exit code, then the output: *)
(* one that cannot be opened is malformed.                                  *)
Verdicts ==
  IF reason # "exited" THEN {reason}
  ELSE IF leader # "zero" THEN {"nonzero"}
  ELSE {Judge(readSelectedWorkerEvents(kind, file["stdout"], 0, TRUE))}
       \cup (IF "read" \in Faults THEN {"malformed"} ELSE {})

FinalizeRaw ==
  /\ stage = "completed"
  /\ stage' = "over"
  /\ outcome' \in IF ExitedZero THEN {Judge(readSelectedWorkerEvents(kind, file["stdout"], 0, TRUE))}
                                ELSE {reason}
  /\ UNCHANGED <<supervisor, survivor, kind, misread, asked>>

Finalize ==
  /\ stage = "completed"
  /\ stage' = "over"
  /\ outcome' \in Verdicts
  /\ UNCHANGED <<supervisor, survivor, kind, misread, asked>>

(* The transcript opens and its stat or a read throws: #finalize rejects,   *)
(* and the run stays as it was.                                             *)
FinalizeFails ==
  /\ stage = "completed"
  /\ "read" \in Faults
  /\ stage' = "over" /\ outcome' = "unread"
  /\ UNCHANGED <<supervisor, survivor, kind, misread, asked>>

-----------------------------------------------------------------------------
(* The daemon dies.  What was in its memory and in the pipes is gone.  The  *)
(* transcript stays on disk, but no later daemon reads it, so the model     *)
(* forgets it too.                                                          *)

Crash ==
  /\ stage \in {"supervised", "completed"}
  /\ stage' = "crashed" /\ outcome' = "unread"
  /\ said' = OnEach(<<>>) /\ writes' = 0 /\ file' = OnEach(<<>>)
  /\ pipe' = OnEach(<<>>) /\ queue' = OnEach(<<>>)
  /\ limited' = OnEach(FALSE) /\ broken' = OnEach(FALSE)
  /\ hard' = FALSE /\ grace' = FALSE
  /\ UNCHANGED <<budget, leader, helper, reason, settled, survivor, kind, misread, asked>>

(* The next daemon orphans the run and stops what it can identify.          *)
Recover ==
  /\ stage = "crashed"
  /\ Recycle \/ StopSurvivor
  /\ UNCHANGED <<kind, ending, asked>>

Next == Supervise \/ GroupEnds \/ AskCancel \/ Complete \/ CompleteFails \/ Finalize
          \/ FinalizeFails \/ Crash \/ Recover

Spec == Init /\ [][Next]_vars

(* Complete, CompleteFails, Finalize or FinalizeFails, by when they can     *)
(* happen and what they do to stage.                                        *)
Settle ==
  /\ (stage = "supervised" /\ Flushed) \/ stage = "completed"
  /\ stage' \in {"completed", "over"}

(* The event loop serves its timers and its pipes, and its own writes end,  *)
(* one way or the other.  Nothing is asked of the worker.                   *)
Fairness ==
  /\ WF_control(Alive /\ HardTimeout)
  /\ WF_control(Alive /\ Escalate)
  /\ WF_supervisor(Alive /\ Serve)
  /\ WF_stage(Settle)

FairSpec == Spec /\ Fairness

-----------------------------------------------------------------------------
(***************************************************************************)
(* Properties.                                                             *)
(***************************************************************************)

Dropped(s) == limited[s] \/ broken[s]

(* A worker that ended on its own is judged on everything it wrote: output  *)
(* is dropped without the run being failed for it only when the budget or   *)
(* the disk gave out after the process had closed, with the last chunks     *)
(* still in the sink (boundedSink, onOutputLimit, onOutputError).           *)
NothingDroppedUnnamed ==
  stage \in {"completed", "over"} /\ reason = "exited" =>
    \A s \in Streams : Dropped(s) \/ IsPrefix(said[s], file[s])

(* A transcript on disk is a prefix of what the worker wrote, and never     *)
(* longer than its budget until the adapter closes it (boundedSink): a      *)
(* chunk over the budget is cut, not skipped, and nothing lands behind a    *)
(* failed write.                                                            *)
TranscriptIsBoundedPrefix ==
  stage = "supervised" =>
    \A s \in Streams : IsPrefix(file[s], said[s]) /\ Len(file[s]) <= budget[s]

(* Output that has to be dropped while the process is still open names the  *)
(* outcome, whatever else is going on (onOutputLimit, onOutputError).       *)
DropIsNamed ==
  [][\A s \in Streams : ~settled /\ ~Dropped(s) /\ Dropped(s)' => reason' # "exited"]_vars

(* "First cause wins": a cancellation or a limit during the grace period    *)
(* relabels nothing, and neither does anything after the close (terminate). *)
FirstCauseWins ==
  [][/\ reason # "exited" => reason' = reason
     /\ settled => reason' = reason]_vars

Lines(text) == readSelectedWorkerEvents(kind, text, 0, TRUE)

(* A run succeeds only on one whole, unglued result: a provider that prints *)
(* a result of its own, for this run or another, only spoils the one its    *)
(* adapter appends (#finalize, and completed of each runner).  (That no     *)
(* line is unreadable and that the result is a success is Judge's own       *)
(* test, and not said here.)                                                *)
SuccessIsWitnessed ==
  outcome = "claims_success" =>
    /\ ExitedZero
    /\ LET own == ReadFrom(said["stdout"], 0, TRUE).records
       IN (\A s \in Streams : ~Dropped(s)) =>
            Len(Sorting!folded(own).results) = (IF kind = "fake" THEN 1 ELSE 0)

(* Antigravity exits 0 after a denied tool call: a transcript with a        *)
(* finished tool step that carries an error does not succeed, unless the    *)
(* adapter could not read it back (completed, detectToolError).             *)
DeniedToolNeverSucceeds ==
  kind = "antigravity" /\ outcome = "claims_success" /\ ~misread =>
    ~detectToolError(file["stdout"])

LinesFit(text) == \A line \in Range(Segments(Append(text, Newline))) : Len(line) <= MaxLine

(* The bytes are UTF-8. *)
WellEncoded(text) == \A i \in DOMAIN text : ~Stray(text, i)

(* One reading after the other, against one of the whole text. *)
AddUpTo(first, rest, whole) ==
  /\ ~rest.corrupt
  /\ first.records \o rest.records = whole.records
  /\ first.rejected + rest.rejected = whole.rejected
  /\ rest.offset = whole.offset

(* Reading what is there, remembering the offset and reading on later finds *)
(* the records and the unreadable lines that one reading finds, wherever    *)
(* the first one stopped, inside a character included, as long as no line   *)
(* is over the limit and the transcript is UTF-8 throughout.  (It need not  *)
(* be: for a byte that is not, the offset goes too far, as it counts the    *)
(* bytes of the decoded text.  And a Claude tool call still open at the cut *)
(* loses its name all the same: what the translators remember is not kept   *)
(* with the offset.)                                                        *)
ResumeAgrees ==
  LET text == file["stdout"]
  IN outcome \in CleanExits /\ LinesFit(text) /\ WellEncoded(text) =>
       \A n \in 0 .. Len(text) :
         LET first == ReadFrom(SubSeq(text, 1, n), 0, FALSE)
         IN AddUpTo(first, ReadFrom(text, first.offset, TRUE), ReadFrom(text, 0, TRUE))

(* The latest event before the i-th that names its call, 0 for none. *)
Previous(events, i) ==
  Max({0} \cup {j \in 1 .. i - 1 : events[j][1] = "tool" /\ events[j][3] = events[i][3]})

NameAt(events, j) ==
  IF j # 0 /\ events[j][2] = "started" THEN events[j][4] ELSE "unknown"

ToolsPaired(events) ==
  \A i \in DOMAIN events :
    events[i][1] = "tool" /\ events[i][2] = "completed" =>
      events[i][4] = NameAt(events, Previous(events, i))

(* A Claude tool that finishes is reported under the name it was started    *)
(* with, and a call that was never started as unknown (#pendingTools).      *)
ToolCallsPair ==
  kind = "claude" /\ outcome \in CleanExits => ToolsPaired(Lines(file["stdout"]).events)

(* Recovery signals only what it has verified: a process that had taken the *)
(* recorded pid before the daemon looked, with another start time, is never *)
(* touched (verifyWorkerAlive, recoverRuns).                                *)
StrangerSpared == signalled => stranger \in {"near", "late"}

(* Whatever the group ignores and however long it holds its pipes, the hard *)
(* timeout, the escalation and the sinks lead to an outcome, or the daemon  *)
(* is gone.                                                                 *)
OutcomeArrives == <>(stage \in {"over", "crashed"})

(* The detailed worker keeps the contract the orchestrator is built on.     *)
Contract == INSTANCE WorkerContract

ImplementsContract == Contract!Spec

=============================================================================
