------------------------------- MODULE Adapters -------------------------------
(***************************************************************************)
(* packages/adapters/*/src/runner.ts: how each adapter closes a worker's   *)
(* transcript and how it reads one, and how the orchestrator picks the     *)
(* adapter of a task.                                                      *)
(***************************************************************************)
EXTENDS NdjsonStream, Normalizers

AgentResult(status) == <<"AgentResult", status>>
IsResult(r) == r[1] = "AgentResult"
IsEvent(r) == r[1] = "AgentEvent"

-----------------------------------------------------------------------------
(* readEvents: results as they are, other records to the normalizer.        *)

Sort(found, r) ==
  IF IsResult(r) THEN [results |-> Append(found.results, r), others |-> found.others]
                 ELSE [results |-> found.results, others |-> Append(found.others, r)]

Sorting == INSTANCE Folding WITH base <- [results |-> <<>>, others |-> <<>>], step <- Sort

ReadProvider(Consume(_), text, offset, atEof) ==
  LET read == ReadFrom(text, offset, atEof)
      found == Sorting!folded(read.records)
      batch == Consume(found.others)
  IN [events |-> batch.events,
      results |-> found.results,
      rejected |-> read.rejected + batch.rejected,
      offset |-> read.offset]

readCodexEvents(text, offset, atEof) == ReadProvider(CodexConsume, text, offset, atEof)

readClaudeEvents(text, offset, atEof) == ReadProvider(ClaudeConsume, text, offset, atEof)

readCursorEvents(text, offset, atEof) == ReadProvider(CursorConsume, text, offset, atEof)

readAntigravityEvents(text, offset, atEof) ==
  ReadProvider(AntigravityConsume, text, offset, atEof)

(* The fake worker speaks the protocol itself: what is neither an event nor *)
(* a result is invalid.                                                     *)
Validate(batch, r) ==
  IF IsEvent(r) THEN [batch EXCEPT !.events = Append(@, r)]
                ELSE [batch EXCEPT !.rejected = @ + 1]

Validating == INSTANCE Folding WITH base <- Nothing, step <- Validate

validateRecords(records) == Validating!folded(records)

readWorkerEvents(text, offset, atEof) ==
  ReadProvider(validateRecords, text, offset, atEof)

readSelectedWorkerEvents(kind, text, offset, atEof) ==
  CASE kind = "codex" -> readCodexEvents(text, offset, atEof)
    [] kind = "claude" -> readClaudeEvents(text, offset, atEof)
    [] kind = "cursor" -> readCursorEvents(text, offset, atEof)
    [] kind = "antigravity" -> readAntigravityEvents(text, offset, atEof)
    [] kind = "fake" -> readWorkerEvents(text, offset, atEof)

(* normalizeAntigravityStream over the whole transcript, for its flag.      *)
detectToolError(text) ==
  LET records == ReadFrom(text, 0, TRUE).records
  IN \E i \in DOMAIN records : SawToolError(records[i])

-----------------------------------------------------------------------------
(* start: what completed appends when the process has closed.  A result     *)
(* that is no success must carry a failure record to be valid, and only     *)
(* Antigravity's runner writes one: the others append nothing then.         *)

ClosesSuccessOnly(exitedZero) ==
  IF exitedZero THEN Terminated(AgentResult("succeeded")) ELSE <<>>

startCodexWorker(exitedZero) == ClosesSuccessOnly(exitedZero)

startClaudeWorker(exitedZero) == ClosesSuccessOnly(exitedZero)

startCursorWorker(exitedZero) == ClosesSuccessOnly(exitedZero)

AntigravityByExit(exitedZero, sawToolError) ==
  Terminated(AgentResult(IF exitedZero THEN "succeeded" ELSE "failed"))

startAntigravityWorker(exitedZero, sawToolError) ==
  Terminated(AgentResult(CASE ~exitedZero -> "failed"
                           [] exitedZero /\ sawToolError -> "blocked"
                           [] OTHER -> "succeeded"))

(* The fake worker writes its own result.                                   *)
startWorker == <<>>

startSelectedWorker(kind, exitedZero, sawToolError) ==
  CASE kind = "codex" -> startCodexWorker(exitedZero)
    [] kind = "claude" -> startClaudeWorker(exitedZero)
    [] kind = "cursor" -> startCursorWorker(exitedZero)
    [] kind = "antigravity" -> startAntigravityWorker(exitedZero, sawToolError)
    [] kind = "fake" -> startWorker

=============================================================================
