-------------------------------- MODULE RunFeed --------------------------------
(***************************************************************************)
(* One run as its readers find it in the store: state.json and the records *)
(* of events.ndjson (readState and readEvents in                           *)
(* packages/core/src/run-store.ts).  The daemon's own files, locks and     *)
(* failures are RunStore's; here a write is one step.  The record at       *)
(* position n carries sequence n - 1: 0 is the policy decision, the        *)
(* worker's follow.                                                        *)
(***************************************************************************)
EXTENDS Integers, Sequences, RunStates

CONSTANTS MaxEvents,  \* records a run may get
          PageSize    \* DEFAULT_EVENT_PAGE_SIZE

ASSUME FeedAssumption == MaxEvents \in Nat \ {0} /\ PageSize \in Nat \ {0}

VARIABLES state,   \* state.json, "none" before the run exists
          events   \* how many records events.ndjson has

feed == <<state, events>>

FeedTypeOK == state \in RUN_STATES \cup {"none"} /\ events \in 0 .. MaxEvents

FeedInit == state = "none" /\ events = 0

AppendRecord == events < MaxEvents /\ events' = events + 1

(* The limit is forgotten. *)
readEventsAll(since, limit) == [i \in 1 .. events - 1 - since |-> since + i]

(* The sequence numbers after `since`, the first `limit` of them.           *)
readEvents(since, limit) ==
  LET found == events - 1 - since
  IN [i \in 1 .. IF found < limit THEN found ELSE limit |-> since + i]

(* How far a run has come; a state is never followed by one of lower rank.  *)
Rank(s) ==
  CASE s = "none"       -> 0
    [] s = "QUEUED"     -> 1
    [] s = "PREPARING"  -> 2
    [] s = "RUNNING"    -> 3
    [] s = "VALIDATING" -> 4
    [] OTHER            -> 5

-----------------------------------------------------------------------------
(* #finalize, while the daemon that launched the worker lives: the worker's *)
(* events, then validation and the verdict, or a termination.               *)

Ingest == state = "RUNNING" /\ AppendRecord /\ UNCHANGED state

Conclude ==
  /\ state \in {"RUNNING", "VALIDATING"}
  /\ \E to \in {"VALIDATING", "SUCCEEDED", "FAILED", "CANCELLED"} :
       CanTransition(state, to) /\ state' = to
  /\ UNCHANGED events

(* Boot recovery: the next daemon cannot know the outcome.                  *)
Orphan ==
  /\ state' = IF state # "none" /\ NeedsRecovery(state) THEN "ORPHANED" ELSE state
  /\ UNCHANGED events

=============================================================================
