-------------------------------- MODULE Frontend --------------------------------
(***************************************************************************)
(* A Pi session that has one task run: it connects, creates and starts the *)
(* task (createAndStart), lays out a cmux workspace, and follows the run,  *)
(* while `agentd logs --follow` tails it and the daemon admits, places and *)
(* runs the task, shuts down, crashes or comes back.  Composes Rpc,        *)
(* Admission, RunFeed and Projection.                                      *)
(***************************************************************************)
EXTENDS Admission, Rpc, Projection

CONSTANTS Tasks,      \* what may be asked for
          Checkouts,  \* file systems `git worktree add` may leave, by their symbolic links
          Hosts,      \* the providers a probe may find available, as registered
          MaxFollows  \* times the session follows the run

ASSUME HostsAssumption == \A available \in Hosts : available \in Seq(Range(available))
ASSUME FollowsAssumption == MaxFollows \in Nat

VARIABLES
  session,    \* idle, creating, starting, ready, lost
  follows,
  task,       \* task.json while the daemon still reads it
  denial,     \* what createTask decided: a rule, or "default"
  placement   \* the start in progress: no provider yet, or where it will run

sessionVars == <<session, follows>>
taskVars == <<task, denial, placement>>
projection == <<viewer, logs, layout>>
vars == <<rpc, feed, projection, sessionVars, taskVars>>

NoTask == [kind |-> "none"]
NoProvider == [id |-> "none", filesystemConfinement |-> FALSE, processIsolation |-> FALSE]
NoPlacement == [provider |-> NoProvider, links |-> <<>>]

TypeOK ==
  /\ RpcTypeOK /\ FeedTypeOK /\ LayoutTypeOK /\ ProjectionTypeOK
  /\ session \in {"idle", "creating", "starting", "ready", "lost"}
  /\ follows \in 0 .. MaxFollows
  /\ task \in Tasks \cup {NoTask}
  /\ denial \in DECISIONS
  /\ placement = NoPlacement \/ placement.links \in Checkouts

Init ==
  /\ RpcInit /\ FeedInit /\ LayoutInit /\ ProjectionInit
  /\ session = "idle" /\ follows = 0
  /\ task = NoTask /\ denial = "default" /\ placement = NoPlacement

Now == [run |-> state, events |-> events]

-----------------------------------------------------------------------------
(* The connection. *)

Transport ==
  /\ ReadToken \/ Connect(Now) \/ Greeted \/ Deliver \/ DeliverTooLarge \/ SeeClose \/ Dispatch
       \/ \E id \in Waiting : Expire(id)
  /\ UNCHANGED <<feed, projection, sessionVars, taskVars>>

(* A session whose watch has ended is shut down and activated again.        *)
Reactivate ==
  /\ session = "ready" /\ watch = "over" /\ follows < MaxFollows
  /\ Dispose
  /\ ForgetWatch
  /\ UNCHANGED <<feed, logs, layout, sessionVars, taskVars>>

-----------------------------------------------------------------------------
(* createAndStart, at the session.                                          *)

AskCreate(t) ==
  /\ session = "idle" /\ agentTaskSchema(t)
  /\ Call(<<"task.create">>, -1, Now)
  /\ session' = "creating" /\ task' = t
  /\ UNCHANGED <<feed, projection, follows, denial, placement>>

(* Whatever the decision was, a created run is started.  A session that     *)
(* never learns the run's id is over.                                       *)
AskStart ==
  \E id \in DOMAIN calls :
    /\ session = "creating" /\ calls[id].method = "task.create" /\ Settled(id)
    /\ IF calls[id].outcome = "ok"
         THEN session' = "starting" /\ Call(<<"task.start">>, -1, Now)
         ELSE /\ session' = "lost" /\ calls' = Without({id})
              /\ UNCHANGED <<daemon, link, server, replies, presented, nextId>>
    /\ UNCHANGED <<feed, projection, follows, taskVars>>

(* Started, refused, or unanswered: the run is there to be followed.        *)
Started ==
  \E id \in DOMAIN calls :
    /\ session = "starting" /\ calls[id].method = "task.start" /\ Settled(id)
    /\ session' = "ready" /\ calls' = Without({id})
    /\ UNCHANGED <<daemon, link, server, replies, presented, nextId,
                   feed, projection, follows, taskVars>>

-----------------------------------------------------------------------------
(* createTask, at the daemon.  store.create and the audit are await points. *)

Handler(method, step) == {r \in handling : r.method = method /\ r.step = step}

(* #profile probes once per daemon and remembers, so the providers it found *)
(* may have been those of any earlier time.                                 *)
Admit ==
  \E r \in Handler("task.create", "begin"), probed \in Hosts, links \in Checkouts :
    /\ denial' = admit(task, canEnforceIsolation(probed), links)
    /\ state = "none" /\ state' = INITIAL_RUN_STATE
    /\ GoOn(r, "created")
    /\ UNCHANGED <<events, projection, sessionVars, task, placement>>

Audit ==
  \E r \in Handler("task.create", "created") :
    /\ AppendRecord
    /\ GoOn(r, IF denial = "default" THEN "admitted" ELSE "denied")
    /\ UNCHANGED <<state, projection, sessionVars, taskVars>>

Deny ==
  \E r \in Handler("task.create", "denied") :
    /\ CanTransition(state, "FAILED") /\ state' = "FAILED"
    /\ task' = NoTask /\ denial' = "default"
    /\ GoOn(r, "admitted")
    /\ UNCHANGED <<events, projection, sessionVars, placement>>

Created ==
  \E r \in Handler("task.create", "admitted") :
    /\ Answer(r, "ok", [run |-> state, events |-> <<>>])
    /\ UNCHANGED <<feed, projection, sessionVars, taskVars>>

-----------------------------------------------------------------------------
(* startRun, at the daemon.                                                 *)

BeginStart ==
  \E r \in Handler("task.start", "begin") :
    /\ IF CanTransition(state, "PREPARING")
         THEN state' = "PREPARING" /\ GoOn(r, "preparing")
         ELSE Answer(r, "refused", NoAnswer) /\ UNCHANGED state
    /\ UNCHANGED <<events, projection, sessionVars, taskVars>>

(* #prepareWorkspace: the checkout is there, a provider is selected and     *)
(* prepares.  A refusal is the run's (#failBeforeLaunch).                   *)
Place ==
  \E r \in Handler("task.start", "preparing"), links \in Checkouts, available \in Hosts :
    LET acceptable == select(task.sandbox, available)
        selected == available[Min(acceptable)]
    IN /\ IF acceptable # {} /\ (selected.id = "host" => prepareHost(task, links))
            THEN /\ placement' = [provider |-> selected, links |-> links]
                 /\ GoOn(r, "placed") /\ UNCHANGED <<state, task>>
            ELSE /\ CanTransition(state, "FAILED") /\ state' = "FAILED" /\ task' = NoTask
                 /\ Answer(r, "refused", NoAnswer) /\ UNCHANGED placement
       /\ UNCHANGED <<events, projection, sessionVars, denial>>

(* The worker runs, or could not be launched.  Nobody looks at the task's   *)
(* constraints or at the placement after that, and the model drops both.    *)
Launch ==
  \E r \in Handler("task.start", "placed") :
    /\ \/ /\ CanTransition(state, "RUNNING") /\ state' = "RUNNING"
          /\ Answer(r, "ok", [run |-> "RUNNING", events |-> <<>>])
       \/ /\ CanTransition(state, "FAILED") /\ state' = "FAILED"
          /\ Answer(r, "refused", NoAnswer)
    /\ task' = NoTask /\ placement' = NoPlacement
    /\ UNCHANGED <<events, projection, sessionVars, denial>>

(* The worker goes its way, and is cancelled when the daemon drains.        *)
RunAdvances ==
  /\ phase \in {"serving", "draining"}
  /\ Ingest \/ Conclude
  /\ UNCHANGED <<rpc, projection, sessionVars, taskVars>>

-----------------------------------------------------------------------------
(* task.status and task.events read the store when they get to it.          *)

ReadRun ==
  \E r \in handling :
    /\ r.method \in {"task.status", "task.events"}
    /\ Answer(r, "ok",
              [run |-> IF r.method = "task.status" THEN state ELSE "none",
               events |-> IF r.method = "task.events" THEN readEvents(r.since, PageSize)
                                                      ELSE <<>>])
    /\ UNCHANGED <<feed, projection, sessionVars, taskVars>>

-----------------------------------------------------------------------------
(* The views. *)

LayOut ==
  /\ session = "ready" /\ watch = "off"
  /\ LayoutNext
  /\ IF inFlight = Len(CmuxCalls) /\ tail = "off" THEN tail' \in {"off", "reading"}
                                                  ELSE UNCHANGED tail
  /\ UNCHANGED <<rpc, feed, viewer, printed, sessionVars, taskVars>>

BeginFollow ==
  /\ session = "ready" /\ Connected /\ tail = "off" /\ \A c \in Creators : creator[c].at = "ok"
  /\ follows < MaxFollows
  /\ Follow /\ follows' = follows + 1
  /\ UNCHANGED <<rpc, feed, layout, logs, session, taskVars>>

(* snapshot: both calls at once.                                            *)
Poll ==
  /\ watch = "pausing" /\ watch' = "polling"
  /\ Call(<<"task.status", "task.events">>, since, Now)
  /\ UNCHANGED <<feed, layout, logs, since, shown, counted, notified, notices,
                 sessionVars, taskVars>>

(* Promise.all: on with both answers, or over with an error.                *)
TakeSnapshot ==
  /\ watch = "polling" /\ \A id \in DOMAIN calls : Settled(id)
  /\ IF \A id \in DOMAIN calls : calls[id].outcome = "ok"
       THEN \E s, e \in DOMAIN calls :
              /\ calls[s].method = "task.status" /\ calls[e].method = "task.events"
              /\ Publish(calls[s].value.run, calls[e].value.events)
       ELSE EndWatch
  /\ calls' = <<>>
  /\ UNCHANGED <<daemon, link, server, replies, presented, nextId,
                 feed, layout, logs, sessionVars, taskVars>>

(* The caller's signal, seen between two polls.                             *)
Abort ==
  /\ watch = "pausing" /\ EndWatch
  /\ UNCHANGED <<rpc, feed, layout, logs, sessionVars, taskVars>>

Sink ==
  /\ SinkStep \/ SinkFails
  /\ UNCHANGED <<rpc, feed, layout, logs, sessionVars, taskVars>>

Logs ==
  /\ TailReads \/ TailChecks
  /\ UNCHANGED <<rpc, feed, layout, viewer, sessionVars, taskVars>>

-----------------------------------------------------------------------------
(* The daemon's life. *)

Drained == ~holdsResources(state)

Shutdown ==
  /\ StopAccepting \/ (Drained /\ CloseServer) \/ Exit
  /\ UNCHANGED <<feed, projection, sessionVars, taskVars>>

(* A new daemon recovers before it serves, and has probed nothing.          *)
Boot ==
  /\ Restart /\ Orphan
  /\ placement' = NoPlacement
  /\ task' = IF state = "QUEUED" THEN task ELSE NoTask
  /\ UNCHANGED <<projection, sessionVars, denial>>

Next ==
  \/ Transport \/ Reactivate
  \/ (\E t \in Tasks : AskCreate(t)) \/ AskStart \/ Started
  \/ Admit \/ Audit \/ Deny \/ Created
  \/ BeginStart \/ Place \/ Launch \/ RunAdvances \/ ReadRun
  \/ LayOut \/ BeginFollow \/ Poll \/ TakeSnapshot \/ Abort \/ Sink \/ Logs
  \/ Shutdown \/ Boot

Spec == Init /\ [][Next]_vars

(* The client's timers fire.                                                *)
Fairness == WF_calls(\E id \in Waiting : Expire(id))

FairSpec == Spec /\ Fairness

-----------------------------------------------------------------------------
(***************************************************************************)
(* Properties.                                                             *)
(***************************************************************************)

(* Nothing but a greeting runs on a connection whose client did not present *)
(* the token of this very daemon, however the token file and the socket     *)
(* changed hands in between (connectToDaemon, dispatch).                    *)
HelloFirst == \A r \in handling : r.id # 0 => authenticated /\ presented = life

(* Answers overtake each other, and still every call gets its own: a status *)
(* no older than the question, and the page after the asked sequence, which *)
(* misses nothing that was there to be read (pending, dispatch, readEvents).*)
FreshAnswers ==
  \A id \in DOMAIN calls : calls[id].outcome = "ok" =>
    LET c == calls[id]
        page == c.value.events
        due == c.asked.events - 1 - c.since
    IN /\ c.method = "task.status" => Rank(c.value.run) >= Rank(c.asked.run)
       /\ c.method = "task.events" =>
            /\ \A i \in DOMAIN page : page[i] = c.since + i
            /\ Len(page) >= IF due < PageSize THEN due ELSE PageSize

(* However the polls fail and the pages are cut, a watch has shown each     *)
(* event up to its sinceSequence once, and the tail has printed each event  *)
(* once and in order (watch, commandLogs).                                  *)
ViewsAreFaithful ==
  /\ watch \in {"polling", "pausing", "over"} => counted = since + 1
  /\ printed = [i \in 1 .. Len(printed) |-> i - 1] /\ Len(printed) <= events

(* One notification, for a run that has ended, over all the times a session *)
(* follows it with the same sink (TerminalNotificationGuard).               *)
NotifiedOnce == notices <= 1 /\ (notices = 1 => Rank(state) = 5)

(* No caller waits for ever, also not one that calls on a connection that   *)
(* is already gone (call's timer, settleAllPending).                        *)
CallsSettle == (Waiting # {}) ~> (Waiting = {})

(* What admission found may be stale by the time the worktree is there: the *)
(* host runs a worker only where no allowed path leads, through whatever    *)
(* the checkout brought, out of the worktree or to a secret (prepare).      *)
PlacementHolds ==
  placement.provider.id = "host" =>
    \A path \in task.allowedPaths :
      LET real == resolveExistingAncestor(path, placement.links)
      IN /\ IsPrefix(resolveExistingAncestor(task.worktree, placement.links), real)
         /\ \A secret \in Secrets : ~IsPrefix(secret, real) /\ ~IsPrefix(real, secret)

(* A worker is placed for an admitted task only, and a required sandbox is  *)
(* an enforcing one, although the answer admission relied on was probed     *)
(* earlier and the providers have changed since (#isolationAvailable,       *)
(* select).  (The first part is of a session, which starts only what it was *)
(* told was created: startRun itself asks for no decision, and a run left   *)
(* QUEUED without one is launched.)                                         *)
IsolationHolds ==
  placement # NoPlacement =>
    /\ denial = "default" /\ task.network = "deny" /\ ~task.mayCommit
    /\ task.sandbox = "required" => satisfiesRequired(placement.provider)
    /\ task.kind \in Gated => task.sandbox # "none"

=============================================================================
