------------------------------ MODULE Normalizers -----------------------------
(***************************************************************************)
(* packages/adapters/*/src/normalizer.ts: what agentd makes of the records *)
(* a provider prints, one translator per provider.                         *)
(*                                                                         *)
(* A record is a tuple of the fields the translators look at, the envelope *)
(* type first; "invalid" stands for a nested schema that does not parse    *)
(* and "untyped" for an envelope that does not.  An event is its type and  *)
(* the part of its payload a property tells apart.  A Claude message has   *)
(* one block: several are the same as several messages.                    *)
(***************************************************************************)
EXTENDS Integers, SequencesExt

Log(level) == <<"log", level>>
Tool(phase, call, name) == <<"tool", phase, call, name>>

Translated(events) == [events |-> events, rejected |-> 0, ignored |-> 0]
Rejected == [events |-> <<>>, rejected |-> 1, ignored |-> 0]
Ignored == [events |-> <<>>, rejected |-> 0, ignored |-> 1]

-----------------------------------------------------------------------------
(* Codex: <<"item.started" or "item.completed", item type, id>>,            *)
(* <<"error" or "turn.failed", message>>.                                   *)

CodexTools == [command_execution |-> "shell", file_change |-> "file_change",
               mcp_tool_call |-> "mcp", web_search |-> "web_search"]

CodexItem(r) ==
  CASE r[2] = "invalid" -> Rejected
    [] r[2] = "agent_message" /\ r[1] = "item.completed" ->
         IF r[3] = "no text" THEN Rejected ELSE Translated(<<Log("info")>>)
    [] r[2] \in DOMAIN CodexTools ->
         Translated(<<Tool(IF r[1] = "item.started" THEN "started" ELSE "completed",
                           r[3], CodexTools[r[2]])>>)
    [] OTHER -> Ignored

CodexTranslate(r) ==
  CASE r[1] = "untyped" -> Rejected
    [] r[1] \in {"item.started", "item.completed"} -> CodexItem(r)
    [] r[1] \in {"error", "turn.failed"} ->
         IF r[2] = "invalid" THEN Rejected ELSE Translated(<<Log("error")>>)
    [] OTHER -> Ignored

-----------------------------------------------------------------------------
(* Cursor: <<"assistant", text>>, <<"tool_call", subtype, id, tool>>,       *)
(* <<"result", is_error>>.                                                  *)

CursorTranslate(r) ==
  CASE r[1] = "untyped" -> Rejected
    [] r[1] = "assistant" ->
         IF r[2] \in {"invalid", "no text"} THEN Rejected ELSE Translated(<<Log("info")>>)
    [] r[1] = "tool_call" ->
         IF r[2] = "invalid" \/ r[4] = "no tool"
           THEN Rejected ELSE Translated(<<Tool(r[2], r[3], r[4])>>)
    [] r[1] = "result" /\ r[2] = "invalid" -> Rejected
    [] r[1] = "result" /\ r[2] = "is_error" -> Translated(<<Log("error")>>)
    [] OTHER -> Ignored

-----------------------------------------------------------------------------
(* Claude Code: <<"assistant" or "user", block type, tool call id, tool>>.  *)
(* pending is #pendingTools: the calls whose result is still to come.       *)

Named(pending, call) ==
  IF call \in DOMAIN pending THEN pending[call] ELSE "unknown"

ClaudeBlock(r, pending) ==
  CASE r[2] = "invalid" -> Rejected
    [] r[2] = "text" -> Translated(<<Log("info")>>)
    [] r[2] = "tool_use" -> Translated(<<Tool("started", r[3], r[4])>>)
    [] r[2] = "tool_result" ->
         Translated(<<Tool("completed", r[3], Named(pending, r[3]))>>)
    [] r[2] = "empty text" -> Translated(<<>>)
    [] OTHER -> Ignored

ClaudeTranslate(r, pending) ==
  CASE r[1] = "untyped" -> Rejected
    [] r[1] \in {"assistant", "user"} -> ClaudeBlock(r, pending)
    [] OTHER -> Ignored

ClaudePendingLost(r, pending) == pending

ClaudePending(r, pending) ==
  CASE r[1] \in {"assistant", "user"} /\ r[2] = "tool_use" ->
         [c \in DOMAIN pending \cup {r[3]} |-> IF c = r[3] THEN r[4] ELSE pending[c]]
    [] r[1] \in {"assistant", "user"} /\ r[2] = "tool_result" ->
         [c \in DOMAIN pending \ {r[3]} |-> pending[c]]
    [] OTHER -> pending

-----------------------------------------------------------------------------
(* Antigravity: <<"step_update", step type, state, tool name, tool error>>, *)
(* with <<"step_update", "agent_response", text>>.                          *)

AntigravityTool(r) ==
  IF r[4] = "no tool" THEN Rejected
  ELSE IF r[3] = "ACTIVE" THEN Translated(<<Tool("started", "step", r[4])>>)
  ELSE IF r[5] = "no error" THEN Translated(<<Tool("completed", "step", r[4])>>)
  ELSE Translated(<<Tool("completed", "step", r[4]), Log("error")>>)

AntigravityUpdate(r) ==
  CASE r[2] = "invalid" -> Rejected
    [] r[2] = "agent_response" ->
         IF r[3] = "no text" THEN Ignored ELSE Translated(<<Log("info")>>)
    [] r[2] = "tool" -> AntigravityTool(r)
    [] OTHER -> Ignored

AntigravityTranslate(r) ==
  CASE r[1] = "untyped" -> Rejected
    [] r[1] = "step_update" -> AntigravityUpdate(r)
    [] OTHER -> Ignored

(* #sawToolError: a tool step that is over and carries tool_info.error.     *)
SawToolError(r) ==
  /\ r[1] = "step_update" /\ r[2] = "tool"
  /\ r[4] # "no tool" /\ r[3] # "ACTIVE" /\ r[5] # "no error"

-----------------------------------------------------------------------------
(* The batch each normalizer makes of the records, in their order.          *)

Nothing == Translated(<<>>)

Combine(batch, t) ==
  [events |-> batch.events \o t.events, rejected |-> batch.rejected + t.rejected,
   ignored |-> batch.ignored + t.ignored]

CodexStep(batch, r) == Combine(batch, CodexTranslate(r))
CursorStep(batch, r) == Combine(batch, CursorTranslate(r))
AntigravityStep(batch, r) == Combine(batch, AntigravityTranslate(r))
ClaudeStep(seen, r) ==
  [batch |-> Combine(seen.batch, ClaudeTranslate(r, seen.pending)),
   pending |-> ClaudePending(r, seen.pending)]

Codex == INSTANCE Folding WITH base <- Nothing, step <- CodexStep
Cursor == INSTANCE Folding WITH base <- Nothing, step <- CursorStep
Antigravity == INSTANCE Folding WITH base <- Nothing, step <- AntigravityStep
Claude == INSTANCE Folding
            WITH base <- [batch |-> Nothing, pending |-> <<>>], step <- ClaudeStep

CodexConsume(records) == Codex!folded(records)

CursorConsume(records) == Cursor!folded(records)

AntigravityConsume(records) == Antigravity!folded(records)

ClaudeConsume(records) == Claude!folded(records).batch

=============================================================================
