------------------------------- MODULE Projection -------------------------------
(***************************************************************************)
(* The two views of a run that only read it: the Pi watch with its cmux    *)
(* sink (PiAgentdBridge.watch, CmuxStatusConsumer.follow,                  *)
(* createCmuxApiSink) and `agentd logs --follow` in the log surface        *)
(* (commandLogs in apps/agentd/src/cli.ts).  How the watch gets its        *)
(* answers is the business of the module that composes it with Rpc.        *)
(***************************************************************************)
EXTENDS RunFeed, Layout

VARIABLES
  watch,    \* off, polling, publishing, notifying, pausing, over
  since,    \* the watch's sinceSequence
  shown,    \* the snapshot being published
  counted,  \* events in the snapshots published so far
  notified, \* TerminalNotificationGuard
  notices,  \* terminal notifications cmux has been asked for
  tail,     \* off, reading, checking, over
  printed   \* sequence numbers the tail has printed

viewer == <<watch, since, shown, counted, notified, notices>>
logs == <<tail, printed>>

IsTerminal(s) == s \in {"BLOCKED", "CANCELLED", "FAILED", "ORPHANED", "SUCCEEDED"}

NoSnapshot == [run |-> "none", events |-> <<>>]

ProjectionTypeOK ==
  /\ watch \in {"off", "polling", "publishing", "notifying", "pausing", "over"}
  /\ since \in -1 .. MaxEvents
  /\ shown.run \in RUN_STATES \cup {"none"} /\ Len(shown.events) <= PageSize
  /\ counted \in Nat /\ notified \in BOOLEAN /\ notices \in Nat
  /\ tail \in {"off", "reading", "checking", "over"}
  /\ printed \in Seq(0 .. MaxEvents)

ProjectionInit ==
  /\ watch = "off" /\ since = -1 /\ shown = NoSnapshot
  /\ counted = 0 /\ notified = FALSE /\ notices = 0
  /\ tail = "off" /\ printed = <<>>

-----------------------------------------------------------------------------
(* The watch.                                                               *)

(* follow, from the start of the log, with the sink it had before.          *)
Follow ==
  /\ watch = "off" /\ watch' = "pausing"
  /\ UNCHANGED <<since, shown, counted, notified, notices>>

(* The next follow starts over.                                             *)
ForgetWatch ==
  /\ watch' = "off" /\ since' = -1 /\ counted' = 0
  /\ UNCHANGED <<shown, notified, notices>>

(* snapshot failed, or the caller aborted.                                  *)
EndWatch ==
  /\ watch' = "over"
  /\ UNCHANGED <<since, shown, counted, notified, notices>>

(* Both answers are in: onSnapshot hands them to the sink.                  *)
Publish(run, page) ==
  /\ watch = "polling" /\ watch' = "publishing"
  /\ shown' = [run |-> run, events |-> page]
  /\ counted' = counted + Len(page)
  /\ UNCHANGED <<since, notified, notices>>

(* The page is counted from its own start. *)
AdvancePage ==
  /\ since' = IF shown.events = <<>> THEN since ELSE Len(shown.events) - 1
  /\ watch' = IF IsTerminal(shown.run) THEN "over" ELSE "pausing"
  /\ shown' = NoSnapshot

(* watch, after onSnapshot: the last sequence, and the end of the run.      *)
Advance ==
  /\ since' = IF shown.events = <<>> THEN since ELSE shown.events[Len(shown.events)]
  /\ watch' = IF IsTerminal(shown.run) THEN "over" ELSE "pausing"
  /\ shown' = NoSnapshot

(* One sink for every terminal snapshot. *)
SinkStepUnguarded ==
  /\ watch \in {"publishing", "notifying"}
  /\ IF watch = "publishing" /\ IsTerminal(shown.run)
       THEN /\ watch' = "notifying" /\ notices' = notices + 1
            /\ UNCHANGED <<since, shown, notified>>
       ELSE Advance /\ UNCHANGED <<notified, notices>>
  /\ UNCHANGED counted

(* publish: the status line, the progress bar and the log line are one step,*)
(* since only their success is remembered; then the guard, set before it is *)
(* known whether the notification is sent.                                  *)
SinkStep ==
  /\ watch \in {"publishing", "notifying"}
  /\ IF watch = "publishing" /\ IsTerminal(shown.run) /\ ~notified
       THEN /\ watch' = "notifying" /\ notified' = TRUE /\ notices' = notices + 1
            /\ UNCHANGED <<since, shown>>
       ELSE Advance /\ UNCHANGED <<notified, notices>>
  /\ UNCHANGED counted

(* A call throws, follow swallows it, and the rest is not sent.             *)
SinkFails ==
  /\ watch \in {"publishing", "notifying"} /\ Flaky
  /\ Advance /\ UNCHANGED <<counted, notified, notices>>

-----------------------------------------------------------------------------
(* The log tail, started by the text sent to its surface.                   *)

TailReads ==
  /\ tail = "reading"
  /\ printed' = printed \o readEvents(IF printed = <<>> THEN -1 ELSE printed[Len(printed)],
                                      MaxEvents)
  /\ tail' = "checking"

(* core's isTerminalRunState does not count ORPHANED and BLOCKED.           *)
TailChecks ==
  /\ tail = "checking"
  /\ tail' = IF state \in TERMINAL_RUN_STATES THEN "over" ELSE "reading"
  /\ UNCHANGED printed

=============================================================================
