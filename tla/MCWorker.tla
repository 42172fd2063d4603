------------------------------- MODULE MCWorker -------------------------------
(***************************************************************************)
(* A small instance of Worker for TLC.                                     *)
(***************************************************************************)
EXTENDS Worker

TightBudget == [stdout |-> 3, stderr |-> 1]
AmpleBudget == [stdout |-> 6, stderr |-> 1]
TightAndAmple == {TightBudget, AmpleBudget}

Words ==
  [fake |-> {<<"AgentEvent", "log">>, AgentResult("succeeded"), AgentResult("failed"),
             AgentResult("foreign"), <<"untyped">>},
   codex |-> {<<"item.completed", "agent_message", "text">>, <<"turn.failed", "message">>,
              <<"item.started", "command_execution", "a">>, <<"item.started", "invalid">>,
              AgentResult("succeeded")},
   claude |-> {<<"assistant", "tool_use", "a", "Bash">>, <<"user", "tool_result", "a">>,
               <<"assistant", "text">>, <<"assistant", "invalid">>},
   cursor |-> {<<"assistant", "text">>, <<"tool_call", "started", "a", "Bash">>,
               <<"tool_call", "started", "a", "no tool">>, <<"result", "is_error">>},
   antigravity |-> {<<"step_update", "tool", "DONE", "Bash", "denied">>,
                    <<"step_update", "tool", "ACTIVE", "Bash", "denied">>,
                    <<"step_update", "tool", "ERROR", "Bash", "no error">>,
                    <<"step_update", "agent_response", "text">>}]

(* Free text a model wrote, and text with a byte that is no UTF-8.          *)
Texts == {<<"AgentEvent", "log">>, <<"item.completed", "agent_message", "text">>,
          <<"assistant", "text">>, <<"step_update", "agent_response", "text">>}
Bytes == {<<"turn.failed", "message">>, <<"result", "is_error">>}

Torn == <<"AgentResult", "succeeded">>
Pieces == {Line(Torn), <<Unit(Torn, 1)>>}

=============================================================================
