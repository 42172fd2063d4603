----------------------------- MODULE FrontendProofs -----------------------------
(***************************************************************************)
(* What holds of Frontend for every set of tasks, checkouts, providers and *)
(* creators and every bound: the greeting, the layout and the single       *)
(* notification.                                                           *)
(***************************************************************************)
EXTENDS Frontend, TLAPS

-----------------------------------------------------------------------------
(* The layout. *)

LayoutInv ==
  /\ LayoutTypeOK /\ LayoutAgrees
  /\ inFlight > 1 => made > 0

LEMMA CmuxCallsFacts ==
  /\ Len(CmuxCalls) = 7 /\ CmuxCalls[1] = "workspace.create"
  /\ CmuxCalls[7] # "workspace.create"
BY DEF CmuxCalls

LEMMA LayoutKept ==
  ASSUME LayoutInv, LayoutNext
  PROVE  LayoutInv'
<1> USE DEF LayoutInv, LayoutTypeOK, LayoutAgrees, Joined
<1>1. CASE CmuxAnswers
  <2>1. CASE inFlight < Len(CmuxCalls)
    BY <1>1, <2>1, CmuxCallsFacts DEF CmuxAnswers
  <2>2. CASE ~(inFlight < Len(CmuxCalls))
    BY <1>1, <2>2, CmuxCallsFacts DEF CmuxAnswers, EndAttempt, Given
  <2> QED BY <2>1, <2>2
<1>2. CASE CmuxFails
  BY <1>2, CmuxCallsFacts DEF CmuxFails, EndAttempt
<1>3. ASSUME NEW c \in Creators, RunOnce(c)
      PROVE  LayoutInv'
  <2>1. CASE byRunId # 0
    BY <1>3, <2>1 DEF RunOnce, Given
  <2>2. CASE byRunId = 0
    <3>1. /\ creator' = [creator EXCEPT ![c].at = "waiting"]
          /\ creator'[c].at = "waiting"
          /\ inFlight' = IF inFlight = 0 THEN 1 ELSE inFlight
          /\ UNCHANGED <<byRunId, made>>
      BY <1>3, <2>2 DEF RunOnce
    <3> QED BY <3>1, <2>2, CmuxCallsFacts
  <2> QED BY <2>1, <2>2
<1> QED BY <1>1, <1>2, <1>3 DEF LayoutNext

(* Every step of the system is a step of the layout, or leaves it alone.    *)
LEMMA LayoutSteps ==
  ASSUME Next
  PROVE  LayoutNext \/ UNCHANGED layout
<1>1. CASE Transport \/ Reactivate \/ AskStart \/ Started \/ Shutdown \/ Boot
  BY <1>1 DEF Transport, Reactivate, AskStart, Started, Shutdown, Boot, projection, layout
<1>2. CASE \E t \in Tasks : AskCreate(t)
  BY <1>2 DEF AskCreate, projection, layout
<1>3. CASE Admit \/ Audit \/ Deny \/ Created
  BY <1>3 DEF Admit, Audit, Deny, Created, projection, layout
<1>4. CASE BeginStart \/ Place \/ Launch \/ RunAdvances \/ ReadRun
  BY <1>4 DEF BeginStart, Place, Launch, RunAdvances, ReadRun, projection, layout
<1>5. CASE LayOut
  BY <1>5 DEF LayOut
<1>6. CASE BeginFollow \/ Poll \/ TakeSnapshot \/ Abort \/ Sink \/ Logs
  BY <1>6 DEF BeginFollow, Poll, TakeSnapshot, Abort, Sink, Logs, layout
<1> QED BY <1>1, <1>2, <1>3, <1>4, <1>5, <1>6 DEF Next

(* However creators overlap and cmux fails, whoever is given a layout is    *)
(* given the one the store remembers (RunLayoutStore.runOnce).              *)
THEOREM OneLayout == Spec => []LayoutAgrees
<1>1. Init => LayoutInv
  BY DEF Init, LayoutInit, LayoutInv, LayoutTypeOK, LayoutAgrees, Joined, Idle
<1>2. LayoutInv /\ [Next]_vars => LayoutInv'
  <2> SUFFICES ASSUME LayoutInv, [Next]_vars PROVE LayoutInv'
    OBVIOUS
  <2>1. CASE UNCHANGED layout
    BY <2>1 DEF layout, LayoutInv, LayoutTypeOK, LayoutAgrees, Joined
  <2>2. CASE LayoutNext
    BY <2>2, LayoutKept
  <2> QED BY <2>1, <2>2, LayoutSteps DEF vars, projection, layout
<1>3. LayoutInv => LayoutAgrees
  BY DEF LayoutInv
<1> QED BY <1>1, <1>2, <1>3, PTL DEF Spec


-----------------------------------------------------------------------------
(* What goes over the wire and where it ends up.                            *)

SomeRun == RUN_STATES \cup {"none"}
Since == Nat \cup {-1}
Pages == {page \in Seq(0 .. MaxEvents) : Len(page) <= PageSize}
Values == [run : SomeRun, events : Pages]
Steps == {"begin", "created", "denied", "admitted", "preparing", "placed"}
Outcomes == {"waiting", "ok", "refused", "lost"}
Requests == [id : Nat, method : Methods, since : Since, step : Steps]
Replies == [id : Nat, outcome : {"ok", "refused"}, value : Values]
Calls == [method : Methods, since : Since, asked : [run : SomeRun, events : Nat],
          outcome : Outcomes, value : Values]

ServerType ==
  /\ life \in 1 .. MaxLives /\ presented \in 0 .. MaxLives /\ authenticated \in BOOLEAN
  /\ requests \in Seq(Requests) /\ handling \in SUBSET Requests

ClientType ==
  /\ replies \in Seq(Replies)
  /\ calls \in [DOMAIN calls -> Calls] /\ DOMAIN calls \in SUBSET (1 .. MaxCalls)
  /\ nextId \in 1 .. MaxCalls + 1

ViewType ==
  /\ state \in SomeRun /\ events \in 0 .. MaxEvents
  /\ since \in -1 .. MaxEvents /\ shown \in Values

WireType == ServerType /\ ClientType /\ ViewType

LEMMA NoPage == <<>> \in Pages
<1>1. <<>> \in Seq(0 .. MaxEvents) /\ Len(<<>>) = 0
  OBVIOUS
<1> QED BY <1>1, FeedAssumption DEF Pages

LEMMA Wider ==
  ASSUME NEW S, NEW T, S \subseteq T, NEW s \in Seq(S)
  PROVE  s \in Seq(T) /\ Len(s) \in Nat
OBVIOUS

LEMMA PagesAreInts == ASSUME NEW page \in Pages PROVE page \in Seq(Int) /\ Len(page) \in Nat
<1>1. page \in Seq(0 .. MaxEvents) /\ 0 .. MaxEvents \subseteq Int
  BY DEF Pages
<1> QED BY <1>1, Wider

LEMMA NoAnswerType == NoAnswer \in Values
BY NoPage DEF NoAnswer, Values, SomeRun

LEMMA PageType ==
  ASSUME events \in 0 .. MaxEvents, NEW s \in Since
  PROVE  readEvents(s, PageSize) \in Pages
<1> DEFINE n == IF events - 1 - s < PageSize THEN events - 1 - s ELSE PageSize
<1>0. MaxEvents \in Nat /\ PageSize \in Nat /\ s \in Int /\ s >= -1
  BY FeedAssumption DEF Since
<1>1. n \in Int /\ n <= PageSize /\ n <= events - 1 - s
  BY <1>0
<1>2. PICK m \in Int : m = n
  BY <1>1
<1>3. readEvents(s, PageSize) = [i \in 1 .. m |-> s + i]
  BY <1>2 DEF readEvents
<1>4. \A i \in 1 .. m : s + i \in 0 .. MaxEvents
  BY <1>0, <1>1, <1>2
<1>5. CASE m \in Nat
  <2>1. readEvents(s, PageSize) \in Seq(0 .. MaxEvents) /\ Len(readEvents(s, PageSize)) = m
    BY <1>3, <1>4, <1>5
  <2> QED BY <1>1, <1>2, <2>1 DEF Pages
<1>6. CASE m \notin Nat
  <2>1. 1 .. m = {} /\ 1 .. m = 1 .. 0
    BY <1>2, <1>6
  <2>2. readEvents(s, PageSize) = <<>>
    BY <1>3, <2>1
  <2> QED BY <2>2, NoPage
<1> QED BY <1>5, <1>6

LEMMA SettledCallsType ==
  ASSUME ClientType, NEW ids, NEW outcome \in Outcomes
  PROVE  /\ SettleAs(ids, outcome) \in [DOMAIN calls -> Calls]
         /\ DOMAIN SettleAs(ids, outcome) = DOMAIN calls
BY DEF ClientType, SettleAs, Calls

LEMMA AnsweredCallsType ==
  ASSUME ClientType, NEW id \in DOMAIN calls, NEW reply \in Replies
  PROVE  /\ Answered(id, reply) \in [DOMAIN calls -> Calls]
         /\ DOMAIN Answered(id, reply) = DOMAIN calls
BY DEF ClientType, Answered, Calls, Replies, Outcomes

LEMMA NewCallType ==
  ASSUME NEW method \in Methods, NEW s \in Since, NEW asked \in [run : SomeRun, events : Nat]
  PROVE  NewCall(method, s, asked) \in Calls
BY NoAnswerType DEF NewCall, Calls, Outcomes

LEMMA CallType ==
  ASSUME WireType, NEW methods \in Seq(Methods), NEW s \in Since,
         NEW asked \in [run : SomeRun, events : Nat], Call(methods, s, asked)
  PROVE  ServerType' /\ ClientType'
<1>1. \A i \in DOMAIN methods : Request(nextId + i - 1, methods[i], s) \in Requests
  BY DEF Request, Requests, Steps, WireType, ClientType
<1>2. [i \in DOMAIN methods |-> Request(nextId + i - 1, methods[i], s)] \in Seq(Requests)
  BY <1>1
<1>3. requests' \in Seq(Requests)
  BY <1>2 DEF Call, WireType, ServerType
<1>4. ServerType'
  BY <1>3 DEF Call, WireType, ServerType, daemon
<1> DEFINE new == {nextId + i - 1 : i \in DOMAIN methods}
<1>5. /\ new \in SUBSET (1 .. MaxCalls) /\ \A id \in new : methods[id - nextId + 1] \in Methods
      /\ nextId' \in 1 .. MaxCalls + 1
  BY RpcAssumption DEF WireType, ClientType, Call
<1>6. calls' = [id \in Waiting \cup new |->
                  IF id \in Waiting THEN calls[id]
                  ELSE NewCall(methods[id - nextId + 1], s, asked)]
  BY DEF Call
<1>7. \A id \in Waiting \cup new : calls'[id] \in Calls
  BY <1>5, <1>6, NewCallType DEF Waiting, WireType, ClientType
<1>8. DOMAIN calls' = Waiting \cup new /\ DOMAIN calls' \in SUBSET (1 .. MaxCalls)
  BY <1>5, <1>6 DEF Waiting, WireType, ClientType
<1>9. calls' \in [DOMAIN calls' -> Calls]
  BY <1>6, <1>7, <1>8
<1> QED BY <1>4, <1>5, <1>8, <1>9 DEF Call, WireType, ClientType

LEMMA NowType == WireType => Now \in [run : SomeRun, events : Nat]
BY DEF WireType, ViewType, Now

LEMMA SendType ==
  ASSUME WireType, NEW id \in Nat, NEW outcome \in {"ok", "refused"}, NEW value \in Values,
         Send(id, outcome, value)
  PROVE  replies' \in Seq(Replies)
<1>1. Response(id, outcome, value) \in Replies
  BY DEF Response, Replies
<1> QED BY <1>1 DEF Send, WireType, ClientType

LEMMA HangupType ==
  ASSUME WireType, NEW to, Hangup(to)
  PROVE  /\ requests' \in Seq(Requests) /\ replies' \in Seq(Replies)
         /\ handling' \in SUBSET Requests
<1>1. \A r \in Requests : [r EXCEPT !.id = 0] \in Requests
  BY DEF Requests
<1> QED BY <1>1 DEF Hangup, Unheard, WireType, ServerType

LEMMA DispatchType ==
  ASSUME WireType, Dispatch
  PROVE  ServerType' /\ ClientType'
<1> DEFINE request == Head(requests)
<1>0. requests # <<>> /\ requests \in Seq(Requests)
  BY DEF Dispatch, WireType, ServerType
<1>1. /\ request \in Requests /\ Tail(requests) \in Seq(Requests)
      /\ request.id \in Nat
  <2>1. request \in Requests /\ Tail(requests) \in Seq(Requests)
    BY <1>0
  <2> QED BY <2>1 DEF Requests
<1>2. replies' \in Seq(Replies)
  BY <1>1, SendType, NoAnswerType DEF Dispatch, WireType, ClientType
<1>3. authenticated' \in BOOLEAN /\ handling' \in SUBSET Requests
  BY <1>1 DEF Dispatch, WireType, ServerType
<1> QED BY <1>1, <1>2, <1>3 DEF Dispatch, WireType, ServerType, ClientType, daemon, client

LEMMA TransportType ==
  ASSUME WireType, Transport
  PROVE  WireType'
<1>0. ViewType'
  BY DEF Transport, WireType, ViewType, feed, projection, viewer
<1>1. CASE ReadToken
  BY <1>0, <1>1 DEF ReadToken, WireType, ServerType, ClientType, daemon, server
<1>2. CASE Connect(Now)
  <2>1. CASE phase = "serving"
    <3>1. Request(1, "daemon.hello", presented) \in Requests
      BY RpcAssumption DEF Request, Requests, Steps, Methods, Since, WireType, ServerType
    <3>2. NewCall("daemon.hello", presented, Now) \in Calls
      BY NewCallType, NowType, RpcAssumption DEF Methods, Since, WireType, ServerType
    <3>3. /\ requests' = <<Request(1, "daemon.hello", presented)>>
          /\ calls' = [id \in {1} |-> NewCall("daemon.hello", presented, Now)]
          /\ nextId' = 2 /\ authenticated' = FALSE
          /\ UNCHANGED <<phase, life, presented, handling, replies>>
      BY <1>2, <2>1 DEF Connect, daemon
    <3>4. requests' \in Seq(Requests)
      BY <3>1, <3>3
    <3>5. ServerType'
      BY <3>3, <3>4 DEF WireType, ServerType
    <3>6. DOMAIN calls' = {1} /\ calls' \in [{1} -> Calls]
      BY <3>2, <3>3
    <3>7. ClientType'
      BY <3>3, <3>6, RpcAssumption DEF WireType, ClientType
    <3> QED BY <1>0, <3>5, <3>7 DEF WireType
  <2>2. CASE phase # "serving"
    <3>1. /\ presented' = 0 /\ authenticated' = FALSE
          /\ UNCHANGED <<life, requests, calls, nextId, handling, replies>>
      BY <1>2, <2>2 DEF Connect, daemon
    <3>2. presented' \in 0 .. MaxLives
      BY <3>1, RpcAssumption
    <3> QED BY <1>0, <3>1, <3>2 DEF WireType, ServerType, ClientType
  <2> QED BY <2>1, <2>2
<1>3. CASE Greeted
  <2>1. /\ requests' \in Seq(Requests) /\ replies' \in Seq(Replies)
        /\ handling' \in SUBSET Requests
    BY <1>3, HangupType DEF Greeted, WireType, ServerType, ClientType
  <2>2. DOMAIN calls' \in SUBSET (1 .. MaxCalls) /\ calls' \in [DOMAIN calls' -> Calls]
    BY <1>3 DEF Greeted, Without, WireType, ClientType
  <2>3. /\ presented' \in 0 .. MaxLives /\ nextId' \in 1 .. MaxCalls + 1
        /\ life' \in 1 .. MaxLives /\ authenticated' \in BOOLEAN
    BY <1>3, RpcAssumption DEF Greeted, WireType, ServerType, ClientType, daemon
  <2> QED BY <1>0, <2>1, <2>2, <2>3 DEF WireType, ServerType, ClientType
<1>4. CASE Deliver
  <2>1. Head(replies) \in Replies /\ Tail(replies) \in Seq(Replies)
    BY <1>4 DEF Deliver, WireType, ClientType
  <2>2. calls' \in [DOMAIN calls -> Calls] /\ DOMAIN calls' = DOMAIN calls
    BY <1>4, <2>1, AnsweredCallsType DEF Deliver, Waiting, WireType, ClientType
  <2> QED BY <1>0, <1>4, <2>1, <2>2 DEF Deliver, WireType, ServerType, ClientType, daemon, server
<1>5. CASE DeliverTooLarge
  <2>1. /\ requests' \in Seq(Requests) /\ replies' \in Seq(Replies)
        /\ handling' \in SUBSET Requests
    BY <1>5, HangupType DEF DeliverTooLarge
  <2>2. calls' \in [DOMAIN calls -> Calls] /\ DOMAIN calls' = DOMAIN calls
    BY <1>5, SettledCallsType DEF DeliverTooLarge, WireType, Outcomes
  <2> QED BY <1>0, <1>5, <2>1, <2>2 DEF DeliverTooLarge, WireType, ServerType, ClientType, daemon
<1>6. CASE SeeClose
  <2>1. calls' \in [DOMAIN calls -> Calls] /\ DOMAIN calls' = DOMAIN calls
    BY <1>6, SettledCallsType DEF SeeClose, WireType, Outcomes
  <2> QED BY <1>0, <1>6, <2>1 DEF SeeClose, WireType, ServerType, ClientType, daemon, server
<1>7. CASE Dispatch
  BY <1>0, <1>7, DispatchType DEF WireType
<1>8. ASSUME NEW id \in Waiting, Expire(id)
      PROVE  WireType'
  <2>1. calls' \in [DOMAIN calls -> Calls] /\ DOMAIN calls' = DOMAIN calls
    BY <1>8, SettledCallsType DEF Expire, WireType, Outcomes
  <2> QED BY <1>0, <1>8, <2>1 DEF Expire, WireType, ServerType, ClientType, daemon, server
<1> QED BY <1>1, <1>2, <1>3, <1>4, <1>5, <1>6, <1>7, <1>8 DEF Transport

LEMMA AnswerType ==
  ASSUME WireType, NEW r \in handling, NEW outcome \in {"ok", "refused"}, NEW value \in Values,
         Answer(r, outcome, value)
  PROVE  ServerType' /\ ClientType'
<1>1. r.id \in Nat
  BY DEF WireType, ServerType, Requests
<1>2. replies' \in Seq(Replies)
  BY <1>1, SendType DEF Answer
<1> QED BY <1>2 DEF Answer, WireType, ServerType, ClientType, daemon, client

LEMMA GoOnType ==
  ASSUME WireType, NEW r \in handling, NEW step \in Steps, GoOn(r, step)
  PROVE  ServerType' /\ ClientType'
<1>1. [r EXCEPT !.step = step] \in Requests
  BY DEF WireType, ServerType, Requests
<1> QED BY <1>1 DEF GoOn, WireType, ServerType, ClientType, daemon, client

LEMMA RunAnswerType ==
  ASSUME NEW run \in SomeRun
  PROVE  [run |-> run, events |-> <<>>] \in Values
BY NoPage DEF Values

LEMMA HandlersType ==
  ASSUME WireType,
         Admit \/ Audit \/ Deny \/ Created \/ BeginStart \/ Place \/ Launch \/ ReadRun
  PROVE  WireType'
<1> USE DEF Handler, SomeRun, RUN_STATES
<1>1. CASE Admit
  <2>1. PICK r \in handling : GoOn(r, "created")
    BY <1>1 DEF Admit
  <2>2. ServerType' /\ ClientType'
    BY <2>1, GoOnType DEF Steps
  <2> QED BY <1>1, <2>2 DEF Admit, INITIAL_RUN_STATE, WireType, ViewType, projection, viewer
<1>2. CASE Audit
  <2>1. PICK r \in handling : GoOn(r, IF denial = "default" THEN "admitted" ELSE "denied")
    BY <1>2 DEF Audit
  <2>2. ServerType' /\ ClientType'
    BY <2>1, GoOnType DEF Steps
  <2> QED BY <1>2, <2>2, FeedAssumption DEF Audit, AppendRecord, WireType, ViewType, projection, viewer
<1>3. CASE Deny
  <2>1. PICK r \in handling : GoOn(r, "admitted")
    BY <1>3 DEF Deny
  <2>2. ServerType' /\ ClientType'
    BY <2>1, GoOnType DEF Steps
  <2> QED BY <1>3, <2>2 DEF Deny, WireType, ViewType, projection, viewer
<1>4. CASE Created
  <2>1. PICK r \in handling : Answer(r, "ok", [run |-> state, events |-> <<>>])
    BY <1>4 DEF Created
  <2>2. ServerType' /\ ClientType'
    BY <2>1, AnswerType, RunAnswerType DEF WireType, ViewType
  <2> QED BY <1>4, <2>2 DEF Created, WireType, ViewType, feed, projection, viewer
<1>5. CASE BeginStart
  <2>1. PICK r \in handling : GoOn(r, "preparing") \/ Answer(r, "refused", NoAnswer)
    BY <1>5 DEF BeginStart
  <2>2. ServerType' /\ ClientType'
    BY <2>1, GoOnType, AnswerType, NoAnswerType DEF Steps
  <2> QED BY <1>5, <2>2 DEF BeginStart, WireType, ViewType, projection, viewer
<1>6. CASE Place
  <2>1. PICK r \in handling : GoOn(r, "placed") \/ Answer(r, "refused", NoAnswer)
    BY <1>6 DEF Place
  <2>2. ServerType' /\ ClientType'
    BY <2>1, GoOnType, AnswerType, NoAnswerType DEF Steps
  <2> QED BY <1>6, <2>2 DEF Place, WireType, ViewType, projection, viewer
<1>7. CASE Launch
  <2>1. PICK r \in handling : \/ Answer(r, "ok", [run |-> "RUNNING", events |-> <<>>])
                              \/ Answer(r, "refused", NoAnswer)
    BY <1>7 DEF Launch
  <2>2. ServerType' /\ ClientType'
    BY <2>1, AnswerType, NoAnswerType, RunAnswerType
  <2> QED BY <1>7, <2>2 DEF Launch, WireType, ViewType, projection, viewer
<1>8. CASE ReadRun
  <2>1. PICK r \in handling :
          Answer(r, "ok", [run |-> IF r.method = "task.status" THEN state ELSE "none",
                           events |-> IF r.method = "task.events"
                                        THEN readEvents(r.since, PageSize) ELSE <<>>])
    BY <1>8 DEF ReadRun
  <2>2. readEvents(r.since, PageSize) \in Pages
    BY PageType DEF WireType, ServerType, ViewType, Requests
  <2> DEFINE value == [run |-> IF r.method = "task.status" THEN state ELSE "none",
                       events |-> IF r.method = "task.events"
                                    THEN readEvents(r.since, PageSize) ELSE <<>>]
  <2>3. value \in Values
    BY <2>2, NoPage DEF Values, WireType, ViewType
  <2>4. ServerType' /\ ClientType'
    <3> HIDE DEF value
    <3> QED BY <2>1, <2>3, AnswerType DEF value
  <2> QED BY <1>8, <2>4 DEF ReadRun, WireType, ViewType, feed, projection, viewer
<1> QED BY <1>1, <1>2, <1>3, <1>4, <1>5, <1>6, <1>7, <1>8

LEMMA LifeType ==
  ASSUME WireType, Shutdown \/ Boot \/ RunAdvances
  PROVE  WireType'
<1>1. ASSUME CutLink PROVE requests' \in Seq(Requests) /\ replies' \in Seq(Replies)
  <2>1. PICK n \in 0 .. Len(replies) : replies' = SubSeq(replies, 1, n)
    BY <1>1 DEF CutLink
  <2> QED BY <1>1, <2>1 DEF CutLink, WireType, ClientType
<1>2. CASE Shutdown
  <2>0. ViewType'
    BY <1>2 DEF Shutdown, WireType, ViewType, feed, projection, viewer
  <2>1. CASE StopAccepting
    BY <2>0, <2>1 DEF StopAccepting, WireType, ServerType, ClientType, server, client
  <2>2. CASE CloseServer
    <3>1. \A r \in Requests : [r EXCEPT !.id = 0] \in Requests
      BY DEF Requests
    <3>2. handling' \in SUBSET Requests
      BY <2>2, <3>1 DEF CloseServer, Unheard, WireType, ServerType
    <3> QED BY <1>1, <2>0, <2>2, <3>2 DEF CloseServer, WireType, ServerType, ClientType, client
  <2>3. CASE Exit
    <3>1. requests' \in Seq(Requests) /\ replies' \in Seq(Replies)
      BY <1>1, <2>3 DEF Exit
    <3>2. handling' = {} /\ UNCHANGED <<life, authenticated, presented, calls, nextId>>
      BY <2>3 DEF Exit, client
    <3> QED BY <2>0, <3>1, <3>2 DEF WireType, ServerType, ClientType
  <2> QED BY <1>2, <2>1, <2>2, <2>3 DEF Shutdown
<1>3. CASE Boot
  <2>1. life' \in 1 .. MaxLives
    BY <1>3, RpcAssumption DEF Boot, Restart, WireType, ServerType
  <2>2. state' \in SomeRun /\ UNCHANGED events
    BY <1>3 DEF Boot, Orphan, WireType, ViewType, SomeRun, RUN_STATES
  <2>3. /\ UNCHANGED <<presented, authenticated, requests, handling, replies, calls, nextId>>
        /\ UNCHANGED <<since, shown>>
    BY <1>3 DEF Boot, Restart, server, client, projection, viewer
  <2> QED BY <2>1, <2>2, <2>3 DEF WireType, ServerType, ClientType, ViewType
<1>4. CASE RunAdvances
  BY <1>4, FeedAssumption DEF RunAdvances, Ingest, Conclude, AppendRecord, WireType, ServerType, ClientType,
              ViewType, SomeRun, RUN_STATES, rpc, daemon, server, client, projection, viewer
<1> QED BY <1>2, <1>3, <1>4

LEMMA AskingType ==
  ASSUME WireType,
         (\E t \in Tasks : AskCreate(t)) \/ AskStart \/ Started \/ Poll
  PROVE  WireType'
<1>1. ASSUME NEW t \in Tasks, AskCreate(t) PROVE WireType'
  <2>1. <<"task.create">> \in Seq(Methods)
    BY DEF Methods
  <2>2. Call(<<"task.create">>, -1, Now) /\ -1 \in Since
    BY <1>1 DEF AskCreate, Since
  <2>3. ServerType' /\ ClientType'
    BY <2>1, <2>2, CallType, NowType
  <2> QED BY <1>1, <2>3 DEF AskCreate, WireType, ViewType, feed, projection, viewer
<1>2. CASE AskStart
  <2>0. ViewType'
    BY <1>2 DEF AskStart, WireType, ViewType, feed, projection, viewer
  <2>1. CASE Call(<<"task.start">>, -1, Now)
    <3>1. <<"task.start">> \in Seq(Methods) /\ -1 \in Since
      BY DEF Methods, Since
    <3> QED BY <2>0, <2>1, <3>1, CallType, NowType DEF WireType
  <2>2. CASE \E id \in DOMAIN calls :
               calls' = Without({id}) /\ UNCHANGED <<daemon, link, server, replies, presented, nextId>>
    <3>1. DOMAIN calls' \in SUBSET (1 .. MaxCalls) /\ calls' \in [DOMAIN calls' -> Calls]
      BY <2>2 DEF Without, WireType, ClientType
    <3> QED BY <2>0, <2>2, <3>1 DEF WireType, ServerType, ClientType, daemon, server
  <2> QED BY <1>2, <2>1, <2>2 DEF AskStart
<1>3. CASE Started
  <2>1. DOMAIN calls' \in SUBSET (1 .. MaxCalls) /\ calls' \in [DOMAIN calls' -> Calls]
    BY <1>3 DEF Started, Without, WireType, ClientType
  <2> QED BY <1>3, <2>1 DEF Started, WireType, ServerType, ClientType, ViewType, daemon, server,
                            feed, projection, viewer
<1>4. CASE Poll
  <2>1. <<"task.status", "task.events">> \in Seq(Methods)
    BY DEF Methods
  <2>2. Call(<<"task.status", "task.events">>, since, Now)
    BY <1>4 DEF Poll
  <2>3. ServerType' /\ ClientType'
    <3>1. since \in Since
      BY FeedAssumption DEF WireType, ViewType, Since
    <3> QED BY <2>1, <2>2, <3>1, CallType, NowType
  <2> QED BY <1>4, <2>3 DEF Poll, WireType, ViewType, feed
<1> QED BY <1>1, <1>2, <1>3, <1>4

LEMMA LastType == ASSUME NEW S, NEW s \in Seq(S), s # <<>> PROVE s[Len(s)] \in S
OBVIOUS

LEMMA AdvanceType ==
  ASSUME WireType, Advance
  PROVE  since' \in -1 .. MaxEvents /\ shown' \in Values
<1>1. shown.events # <<>> => shown.events[Len(shown.events)] \in 0 .. MaxEvents
  <2>1. \A page \in Seq(0 .. MaxEvents) : page # <<>> => page[Len(page)] \in 0 .. MaxEvents
    BY LastType
  <2>2. shown.events \in Seq(0 .. MaxEvents)
    BY DEF WireType, ViewType, Values, Pages
  <2> QED BY <2>1, <2>2, Zenon
<1>2. 0 .. MaxEvents \subseteq -1 .. MaxEvents
  OBVIOUS
<1> QED BY <1>1, <1>2, NoPage DEF Advance, NoSnapshot, Values, SomeRun, WireType, ViewType

LEMMA ViewsType ==
  ASSUME WireType,
         Reactivate \/ LayOut \/ BeginFollow \/ TakeSnapshot \/ Abort \/ Sink \/ Logs
  PROVE  WireType'
<1> USE DEF feed, projection
<1>1. CASE Reactivate
  <2>1. /\ requests' \in Seq(Requests) /\ replies' \in Seq(Replies)
        /\ handling' \in SUBSET Requests
    BY <1>1, HangupType DEF Reactivate, Dispose
  <2>2. /\ since' = -1 /\ presented' = 0 /\ nextId' = 1
        /\ UNCHANGED <<life, authenticated, calls, state, events, shown>>
    BY <1>1 DEF Reactivate, Dispose, ForgetWatch, daemon
  <2> QED BY <2>1, <2>2, RpcAssumption, FeedAssumption DEF WireType, ServerType, ClientType, ViewType
<1>2. CASE LayOut \/ Abort \/ Logs \/ BeginFollow
  BY <1>2 DEF LayOut, Abort, EndWatch, Logs, BeginFollow, Follow, WireType, ServerType, ClientType,
              ViewType, rpc, daemon, server, client, viewer
<1>3. CASE TakeSnapshot
  <2>1. /\ since' = since /\ calls' = <<>>
        /\ UNCHANGED <<life, requests, handling, authenticated, replies, presented, nextId,
                       state, events>>
    BY <1>3 DEF TakeSnapshot, Publish, EndWatch, daemon, server
  <2>2. shown' \in Values
    BY <1>3 DEF TakeSnapshot, Publish, EndWatch, Values, Calls, WireType, ClientType, ViewType
  <2>3. DOMAIN calls' = {} /\ calls' \in [{} -> Calls]
    BY <2>1
  <2> QED BY <2>1, <2>2, <2>3 DEF WireType, ServerType, ClientType, ViewType
<1>4. CASE Sink
  <2>1. since' \in -1 .. MaxEvents /\ shown' \in Values
    BY <1>4, AdvanceType DEF Sink, SinkStep, SinkFails, WireType, ViewType
  <2> QED BY <1>4, <2>1 DEF Sink, WireType, ServerType, ClientType, ViewType, rpc, daemon,
                            server, client
<1> QED BY <1>1, <1>2, <1>3, <1>4

LEMMA WireTypeKept ==
  ASSUME WireType, [Next]_vars
  PROVE  WireType'
<1>1. CASE UNCHANGED vars
  BY <1>1 DEF vars, rpc, daemon, server, client, feed, projection, viewer, WireType, ServerType,
              ClientType, ViewType
<1> QED BY <1>1, TransportType, HandlersType, LifeType, AskingType, ViewsType DEF Next

LEMMA WireTypeInit == Init => WireType
<1> SUFFICES ASSUME Init PROVE WireType
  OBVIOUS
<1>1. calls = <<>> /\ requests = <<>> /\ replies = <<>> /\ handling = {}
  BY DEF Init, RpcInit
<1>2. DOMAIN calls = {} /\ calls \in [{} -> Calls]
  BY <1>1
<1>3. shown \in Values
  BY NoPage DEF Init, ProjectionInit, NoSnapshot, Values, SomeRun
<1>4. /\ requests \in Seq(Requests) /\ replies \in Seq(Replies)
      /\ DOMAIN calls \in SUBSET (1 .. MaxCalls) /\ calls \in [DOMAIN calls -> Calls]
  BY <1>1, <1>2
<1>5. ViewType
  BY <1>3, FeedAssumption DEF Init, FeedInit, ProjectionInit, ViewType, SomeRun
<1>6. /\ life = 1 /\ presented = 0 /\ authenticated = FALSE /\ nextId = 1
  BY DEF Init, RpcInit
<1>7. life \in 1 .. MaxLives /\ presented \in 0 .. MaxLives /\ nextId \in 1 .. MaxCalls + 1
  BY <1>6, RpcAssumption
<1> QED BY <1>1, <1>4, <1>5, <1>6, <1>7 DEF WireType, ServerType, ClientType

-----------------------------------------------------------------------------
(* The greeting. *)

(* HelloFirst is not inductive: it needs to know that a greeting carries    *)
(* the token the client presented, that a daemon's life ends with its       *)
(* sockets, and that a new connection starts without handlers of its own.   *)
Greeting ==
  /\ link = "none" => requests = <<>> /\ \A r \in handling : r.id = 0
  /\ phase \in {"closed", "down"} => link # "up"
  /\ phase = "down" => handling = {}
  /\ \A i \in DOMAIN requests : requests[i].method = "daemon.hello" => requests[i].since = presented
  /\ link = "up" /\ authenticated => presented = life
  /\ HelloFirst

LEMMA UnheardHasNoId == ASSUME WireType PROVE \A r \in Unheard : r.id = 0
BY DEF Unheard, WireType, ServerType, Requests

LEMMA CallGreeting ==
  ASSUME WireType, Greeting, NEW methods \in Seq(Methods), NEW s, NEW asked,
         Call(methods, s, asked), \A i \in DOMAIN methods : methods[i] # "daemon.hello"
  PROVE  Greeting'
<1>1. /\ link # "none"
      /\ UNCHANGED <<phase, life, link, authenticated, handling, presented>>
  BY DEF Call, Connected, daemon
<1> DEFINE new == [i \in DOMAIN methods |-> Request(nextId + i - 1, methods[i], s)]
<1>2. requests' = requests \/ requests' = requests \o new
  BY DEF Call
<1>3. \A i \in DOMAIN new : new[i].method # "daemon.hello"
  BY DEF Request
<1>4. ASSUME requests' = requests \o new, NEW i \in DOMAIN requests',
             requests'[i].method = "daemon.hello"
      PROVE  requests'[i].since = presented
  <2>1. requests \in Seq(Requests) /\ DOMAIN new = 1 .. Len(methods) /\ Len(methods) \in Nat
    BY DEF WireType, ServerType
  <2> HIDE DEF new
  <2>2. new \in Seq({new[j] : j \in DOMAIN new}) /\ Len(new) = Len(methods)
    BY <2>1 DEF new
  <2>3. \/ i \in DOMAIN requests /\ requests'[i] = requests[i]
        \/ i - Len(requests) \in DOMAIN new /\ requests'[i] = new[i - Len(requests)]
    BY <1>4, <2>1, <2>2
  <2> QED BY <1>3, <1>4, <2>3 DEF Greeting
<1>5. \A i \in DOMAIN requests' : requests'[i].method = "daemon.hello" => requests'[i].since = presented
  BY <1>2, <1>4 DEF Greeting
<1> QED BY <1>1, <1>5 DEF Greeting, HelloFirst

LEMMA HandlerGreeting ==
  ASSUME WireType, Greeting, NEW r \in handling,
         (\E outcome, value : Answer(r, outcome, value)) \/ (\E step : GoOn(r, step))
  PROVE  Greeting'
<1>1. UNCHANGED <<phase, life, link, authenticated, requests, presented>>
  BY DEF Answer, GoOn, daemon, client
<1>2. \A h \in handling' : \E g \in handling : h.id = g.id
  BY DEF Answer, GoOn, WireType, ServerType, Requests
<1>3. r \in handling /\ (handling = {} => handling' = {})
  OBVIOUS
<1> QED BY <1>1, <1>2, <1>3 DEF Greeting, HelloFirst

LEMMA DispatchGreeting ==
  ASSUME WireType, Greeting, Dispatch
  PROVE  Greeting'
<1> DEFINE request == Head(requests)
<1>1. /\ link = "up" /\ phase \notin {"closed", "down"} /\ requests # <<>>
      /\ requests \in Seq(Requests) /\ requests' = Tail(requests)
      /\ UNCHANGED <<phase, life, link, presented>>
  BY DEF Dispatch, WireType, ServerType, daemon, client
<1>2. /\ \A i \in DOMAIN requests' : requests'[i] = requests[i + 1] /\ i + 1 \in DOMAIN requests
      /\ request = requests[1] /\ 1 \in DOMAIN requests
  BY <1>1
<1>3. \/ UNCHANGED <<authenticated, handling>>
      \/ /\ authenticated' = TRUE /\ UNCHANGED handling
         /\ request.method = "daemon.hello" /\ request.since = life
      \/ /\ handling' = handling \cup {request} /\ UNCHANGED authenticated
         /\ authenticated \/ request.method \in UNAUTHENTICATED_METHODS
         /\ request.method # "daemon.hello"
  BY DEF Dispatch
<1>4. authenticated' => presented = life
  BY <1>1, <1>2, <1>3 DEF Greeting, UNAUTHENTICATED_METHODS
<1>5. \A r \in handling' : r.id # 0 => authenticated' /\ presented = life
  BY <1>1, <1>3, <1>4 DEF Greeting, HelloFirst, UNAUTHENTICATED_METHODS
<1> QED BY <1>1, <1>2, <1>4, <1>5 DEF Greeting, HelloFirst

LEMMA TransportGreeting ==
  ASSUME WireType, Greeting, Transport
  PROVE  Greeting'
<1> USE DEF Greeting, HelloFirst
<1>1. CASE ReadToken
  BY <1>1 DEF ReadToken, daemon, server
<1>2. CASE Connect(Now)
  <2>1. CASE phase = "serving"
    <3>1. /\ requests' = <<Request(1, "daemon.hello", presented)>> /\ link' = "up"
          /\ authenticated' = FALSE /\ phase' = "serving" /\ handling' = handling
          /\ presented' = presented /\ \A r \in handling : r.id = 0
      BY <1>2, <2>1 DEF Connect, daemon
    <3>2. DOMAIN requests' = {1} /\ requests'[1].since = presented
      BY <3>1 DEF Request
    <3> QED BY <3>1, <3>2
  <2>2. CASE phase # "serving"
    BY <1>2, <2>2 DEF Connect, daemon
  <2> QED BY <2>1, <2>2
<1>3. CASE Greeted
  <2>1. CASE UNCHANGED <<link, presented, requests, handling, replies, nextId>>
    BY <1>3, <2>1 DEF Greeted, daemon
  <2>2. CASE Hangup("none")
    <3>1. /\ link' = "none" /\ requests' = <<>> /\ handling' = Unheard
          /\ UNCHANGED <<phase, life, authenticated>>
      BY <1>3, <2>2 DEF Greeted, Hangup, daemon
    <3>2. handling = {} => handling' = {}
      BY <3>1 DEF Unheard
    <3> QED BY <3>1, <3>2, UnheardHasNoId
  <2> QED BY <1>3, <2>1, <2>2 DEF Greeted
<1>4. CASE Deliver \/ SeeClose \/ \E id \in Waiting : Expire(id)
  <2>1. UNCHANGED <<phase, life, presented, authenticated, requests, handling>>
    BY <1>4 DEF Deliver, SeeClose, Expire, daemon, server
  <2>2. UNCHANGED link \/ (link = "cut" /\ link' = "closed")
    BY <1>4 DEF Deliver, SeeClose, Expire
  <2> QED BY <2>1, <2>2
<1>5. CASE DeliverTooLarge
  <2>1. /\ link' = "closed" /\ requests' = <<>> /\ handling' = Unheard
        /\ UNCHANGED <<phase, life, authenticated, presented>>
    BY <1>5 DEF DeliverTooLarge, Hangup, daemon
  <2>2. handling = {} => handling' = {}
    BY <2>1 DEF Unheard
  <2> QED BY <2>1, <2>2, UnheardHasNoId
<1>6. CASE Dispatch
  BY <1>6, DispatchGreeting
<1> QED BY <1>1, <1>2, <1>3, <1>4, <1>5, <1>6 DEF Transport

LEMMA LifeGreeting ==
  ASSUME WireType, Greeting, Shutdown \/ Boot \/ Reactivate
  PROVE  Greeting'
<1> USE DEF Greeting, HelloFirst
<1>1. CASE StopAccepting
  <2>1. phase' = "draining"
        /\ UNCHANGED <<life, link, presented, authenticated, requests, handling>>
    BY <1>1 DEF StopAccepting, server, client
  <2> QED BY <2>1
<1>2. CASE CloseServer
  <2>1. /\ phase' = "closed" /\ link' # "up" /\ requests' = <<>> /\ handling' = Unheard
    BY <1>2 DEF CloseServer, CutLink
  <2> QED BY <2>1, UnheardHasNoId
<1>3. CASE Exit
  <2>1. /\ phase' = "down" /\ link' # "up" /\ requests' = <<>> /\ handling' = {}
    BY <1>3 DEF Exit, CutLink
  <2> QED BY <2>1
<1>4. CASE Boot
  <2>1. phase = "down" /\ phase' = "serving"
        /\ UNCHANGED <<link, presented, authenticated, requests, handling>>
    BY <1>4 DEF Boot, Restart, server, client
  <2> QED BY <2>1
<1>5. CASE Reactivate
  <2>1. /\ link' = "none" /\ requests' = <<>> /\ handling' = Unheard
        /\ UNCHANGED <<phase, life, authenticated>>
    BY <1>5 DEF Reactivate, Dispose, Hangup, daemon
  <2>2. handling = {} => handling' = {}
    BY <2>1 DEF Unheard
  <2> QED BY <2>1, <2>2, UnheardHasNoId
<1> QED BY <1>1, <1>2, <1>3, <1>4, <1>5 DEF Shutdown

LEMMA GreetingKept ==
  ASSUME WireType, Greeting, [Next]_vars
  PROVE  Greeting'
<1> DEFINE Same == UNCHANGED <<phase, life, link, presented, authenticated, requests, handling>>
<1>1. Same => Greeting'
  BY DEF Greeting, HelloFirst
<1>2. CASE UNCHANGED vars \/ RunAdvances \/ LayOut \/ BeginFollow \/ Abort \/ Sink \/ Logs
  BY <1>1, <1>2 DEF vars, RunAdvances, LayOut, BeginFollow, Abort, Sink, Logs, rpc, daemon,
                    server, client
<1>3. CASE Started \/ TakeSnapshot
  BY <1>1, <1>3 DEF Started, TakeSnapshot, daemon, server
<1>4. CASE Transport \/ Shutdown \/ Boot \/ Reactivate
  BY <1>4, TransportGreeting, LifeGreeting
<1>5. ASSUME NEW t \in Tasks, AskCreate(t) PROVE Greeting'
  <2>1. /\ <<"task.create">> \in Seq(Methods)
        /\ \A i \in DOMAIN <<"task.create">> : <<"task.create">>[i] # "daemon.hello"
    BY DEF Methods
  <2>2. Call(<<"task.create">>, -1, Now)
    BY <1>5 DEF AskCreate
  <2> QED BY <2>1, <2>2, CallGreeting
<1>6. CASE AskStart
  <2>1. /\ <<"task.start">> \in Seq(Methods)
        /\ \A i \in DOMAIN <<"task.start">> : <<"task.start">>[i] # "daemon.hello"
    BY DEF Methods
  <2>2. CASE Call(<<"task.start">>, -1, Now)
    BY <2>1, <2>2, CallGreeting
  <2>3. CASE UNCHANGED <<daemon, link, server, replies, presented, nextId>>
    BY <1>1, <2>3 DEF daemon, server
  <2> QED BY <1>6, <2>2, <2>3 DEF AskStart
<1>7. CASE Poll
  <2>1. /\ <<"task.status", "task.events">> \in Seq(Methods)
        /\ \A i \in DOMAIN <<"task.status", "task.events">> :
              <<"task.status", "task.events">>[i] # "daemon.hello"
    BY DEF Methods
  <2>2. Call(<<"task.status", "task.events">>, since, Now)
    BY <1>7 DEF Poll
  <2> QED BY <2>1, <2>2, CallGreeting
<1>8. CASE Admit \/ Audit \/ Deny \/ Created \/ BeginStart \/ Place \/ Launch \/ ReadRun
  <2>1. PICK r \in handling : \/ \E outcome, value : Answer(r, outcome, value)
                              \/ \E step : GoOn(r, step)
    <3>1. CASE Admit \/ Audit \/ Deny
      BY <1>8, <3>1 DEF Admit, Audit, Deny, Handler
    <3>2. CASE Created \/ ReadRun
      BY <1>8, <3>2 DEF Created, ReadRun, Handler
    <3>3. CASE BeginStart \/ Place \/ Launch
      BY <1>8, <3>3 DEF BeginStart, Place, Launch, Handler
    <3> QED BY <1>8, <3>1, <3>2, <3>3
  <2> QED BY <2>1, HandlerGreeting
<1> QED BY <1>2, <1>3, <1>4, <1>5, <1>6, <1>7, <1>8 DEF Next

(* A handler that can still answer runs for a client that presented the     *)
(* token of this very daemon, however often daemons came and went between   *)
(* the reading of the token and the greeting (connectToDaemon, dispatch).   *)
THEOREM GreetedFirst == Spec => []HelloFirst
<1>1. Init => WireType /\ Greeting
  <2>1. Init => Greeting
    BY DEF Init, RpcInit, Greeting, HelloFirst
  <2> QED BY <2>1, WireTypeInit
<1>2. WireType /\ Greeting /\ [Next]_vars => (WireType /\ Greeting)'
  BY WireTypeKept, GreetingKept
<1>3. Greeting => HelloFirst
  BY DEF Greeting
<1> QED BY <1>1, <1>2, <1>3, PTL DEF Spec

-----------------------------------------------------------------------------
(* The notification. *)

Ended(run) == IsTerminal(run) => IsTerminal(state)

(* Whatever says that the run has ended is right, wherever it has got to    *)
(* between the handler that read the state and the sink; nothing the daemon *)
(* does leaves BLOCKED, from which the table would let a run go on.         *)
News ==
  /\ state # "BLOCKED"
  /\ \A i \in DOMAIN replies : Ended(replies[i].value.run)
  /\ \A id \in DOMAIN calls : Ended(calls[id].value.run)
  /\ Ended(shown.run)

Noticed ==
  /\ notices \in {0, 1} /\ (notices = 1 => notified)
  /\ notified => IsTerminal(state)

LEMMA RankIsTerminal == ASSUME NEW s \in SomeRun PROVE IsTerminal(s) <=> Rank(s) = 5
BY DEF SomeRun, RUN_STATES, Rank, IsTerminal

(* The end of a run is final, also across the daemon's lives.               *)
LEMMA EndIsFinal ==
  ASSUME WireType, News, [Next]_vars
  PROVE  state' # "BLOCKED" /\ (IsTerminal(state) => IsTerminal(state'))
<1> USE DEF News, IsTerminal
<1>1. state \in RUN_STATES \cup {"none"}
  BY DEF WireType, ViewType, SomeRun
<1>2. CASE UNCHANGED state
  BY <1>2
<1>3. CASE Admit
  BY <1>3 DEF Admit, INITIAL_RUN_STATE
<1>4. CASE Deny \/ BeginStart \/ Place \/ Launch
  <2>1. UNCHANGED state \/ \E to \in {"PREPARING", "RUNNING", "FAILED"} :
                              CanTransition(state, to) /\ state' = to
    BY <1>4 DEF Deny, BeginStart, Place, Launch
  <2> QED BY <2>1 DEF CanTransition, TRANSITIONS, RUN_STATES
<1>5. CASE RunAdvances
  <2>1. UNCHANGED state \/ \E to \in {"VALIDATING", "SUCCEEDED", "FAILED", "CANCELLED"} :
                              CanTransition(state, to) /\ state' = to
    BY <1>5 DEF RunAdvances, Ingest, Conclude
  <2> QED BY <2>1 DEF CanTransition, TRANSITIONS, RUN_STATES
<1>6. CASE Boot
  BY <1>1, <1>6 DEF Boot, Orphan, NeedsRecovery, TERMINAL_RUN_STATES, RUN_STATES
<1>7. ASSUME Next, ~(Admit \/ Deny \/ BeginStart \/ Place \/ Launch \/ RunAdvances \/ Boot)
      PROVE  UNCHANGED state
  <2>1. CASE Transport \/ Reactivate \/ AskStart \/ Started \/ Shutdown
    BY <2>1 DEF Transport, Reactivate, AskStart, Started, Shutdown, feed
  <2>2. CASE (\E t \in Tasks : AskCreate(t)) \/ Audit \/ Created \/ ReadRun
    BY <2>2 DEF AskCreate, Audit, Created, ReadRun, feed
  <2>3. CASE LayOut \/ BeginFollow \/ Poll \/ TakeSnapshot \/ Abort \/ Sink \/ Logs
    BY <2>3 DEF LayOut, BeginFollow, Poll, TakeSnapshot, Abort, Sink, Logs, feed
  <2> QED BY <1>7, <2>1, <2>2, <2>3 DEF Next
<1>8. CASE UNCHANGED vars
  BY <1>2, <1>8 DEF vars, feed
<1> QED BY <1>2, <1>3, <1>4, <1>5, <1>6, <1>7, <1>8

(* A reply comes from what was sent before, or says what the store says.    *)
LEMMA RepliesNews ==
  ASSUME WireType, News, [Next]_vars
  PROVE  \A i \in DOMAIN replies' : \/ \E j \in DOMAIN replies : replies'[i] = replies[j]
                                    \/ ~IsTerminal(replies'[i].value.run)
                                    \/ replies'[i].value.run = state
<1> DEFINE Told == \A i \in DOMAIN replies' : \/ \E j \in DOMAIN replies : replies'[i] = replies[j]
                                              \/ ~IsTerminal(replies'[i].value.run)
                                              \/ replies'[i].value.run = state
<1>0. replies \in Seq(Replies)
  BY DEF WireType, ClientType
<1>1. ASSUME UNCHANGED replies \/ replies' = <<>> PROVE Told
  BY <1>1
<1>2. ASSUME replies # <<>>, replies' = Tail(replies) PROVE Told
  <2>1. \A i \in DOMAIN replies' : replies'[i] = replies[i + 1] /\ i + 1 \in DOMAIN replies
    BY <1>0, <1>2
  <2> QED BY <2>1
<1>3. ASSUME NEW n \in 0 .. Len(replies), replies' = SubSeq(replies, 1, n) PROVE Told
  <2>1. \A i \in DOMAIN replies' : replies'[i] = replies[i] /\ i \in DOMAIN replies
    BY <1>0, <1>3
  <2> QED BY <2>1
<1>4. ASSUME NEW id, NEW outcome, NEW value, Send(id, outcome, value),
             ~IsTerminal(value.run) \/ value.run = state
      PROVE  Told
  <2>1. CASE UNCHANGED replies
    BY <1>1, <2>1
  <2>2. CASE replies' = Append(replies, Response(id, outcome, value))
    <3> DEFINE new == Response(id, outcome, value)
    <3>1. new.value = value
      BY DEF Response
    <3> HIDE DEF new
    <3>2. replies' = Append(replies, new)
      BY <2>2 DEF new
    <3>3. \A i \in DOMAIN replies' : \/ i \in DOMAIN replies /\ replies'[i] = replies[i]
                                     \/ replies'[i] = new
      BY <1>0, <3>2
    <3> QED BY <1>4, <3>1, <3>3
  <2> QED BY <1>4, <2>1, <2>2 DEF Send
<1> SUFFICES Told
  OBVIOUS
<1> HIDE DEF Told
<1>5. CASE Transport
  <2>1. CASE ReadToken \/ Connect(Now) \/ SeeClose \/ \E id \in Waiting : Expire(id)
    BY <1>1, <2>1 DEF ReadToken, Connect, SeeClose, Expire
  <2>2. CASE Greeted \/ DeliverTooLarge
    BY <1>1, <2>2 DEF Greeted, DeliverTooLarge, Hangup
  <2>3. CASE Deliver
    BY <1>2, <2>3 DEF Deliver
  <2>4. CASE Dispatch
    <3>1. UNCHANGED replies \/ \E outcome : Send(Head(requests).id, outcome, NoAnswer)
      BY <2>4 DEF Dispatch
    <3>2. ~IsTerminal(NoAnswer.run)
      BY DEF NoAnswer, IsTerminal
    <3>3. CASE UNCHANGED replies
      BY <1>1, <3>3
    <3>4. ASSUME NEW outcome, Send(Head(requests).id, outcome, NoAnswer) PROVE Told
      BY <1>4, <3>2, <3>4
    <3> QED BY <3>1, <3>3, <3>4
  <2> QED BY <1>5, <2>1, <2>2, <2>3, <2>4 DEF Transport
<1>6. CASE Reactivate \/ Shutdown \/ Boot
  <2>1. CASE Reactivate
    BY <1>1, <2>1 DEF Reactivate, Dispose, Hangup
  <2>2. CASE StopAccepting \/ Boot
    BY <1>1, <2>2 DEF StopAccepting, Boot, Restart
  <2>3. CASE CloseServer \/ Exit
    <3>1. PICK n \in 0 .. Len(replies) : replies' = SubSeq(replies, 1, n)
      BY <2>3 DEF CloseServer, Exit, CutLink
    <3> QED BY <1>3, <3>1
  <2> QED BY <1>6, <2>1, <2>2, <2>3 DEF Shutdown
<1>7. CASE (\E t \in Tasks : AskCreate(t)) \/ AskStart \/ Started \/ Poll \/ TakeSnapshot
  BY <1>1, <1>7 DEF AskCreate, AskStart, Started, Poll, TakeSnapshot, Call
<1>8. CASE RunAdvances \/ LayOut \/ BeginFollow \/ Abort \/ Sink \/ Logs \/ UNCHANGED vars
  BY <1>1, <1>8 DEF RunAdvances, LayOut, BeginFollow, Abort, Sink, Logs, vars, rpc
<1>9. CASE Admit \/ Audit \/ Deny \/ Created \/ BeginStart \/ Place \/ Launch \/ ReadRun
  <2>1. UNCHANGED replies
        \/ \E r, outcome, value : /\ Send(r.id, outcome, value)
                                  /\ ~IsTerminal(value.run) \/ value.run = state
    <3>1. CASE Admit \/ Audit \/ Deny
      BY <3>1 DEF Admit, Audit, Deny, GoOn
    <3>2. CASE Created
      BY <3>2 DEF Created, Answer
    <3>3. CASE BeginStart \/ Place \/ Launch
      <4>1. ~IsTerminal(NoAnswer.run) /\ ~IsTerminal([run |-> "RUNNING", events |-> <<>>].run)
        BY DEF NoAnswer, IsTerminal
      <4> QED BY <3>3, <4>1 DEF BeginStart, Place, Launch, Answer, GoOn
    <3>4. CASE ReadRun
      <4>1. PICK r, page : Send(r.id, "ok", [run |-> IF r.method = "task.status" THEN state
                                                    ELSE "none",
                                             events |-> page])
        BY <3>4 DEF ReadRun, Answer
      <4> DEFINE value == [run |-> IF r.method = "task.status" THEN state ELSE "none",
                           events |-> page]
      <4>2. ~IsTerminal(value.run) \/ value.run = state
        BY DEF IsTerminal
      <4>3. Send(r.id, "ok", value)
        BY <4>1
      <4> HIDE DEF value
      <4> QED BY <4>2, <4>3
    <3> QED BY <1>9, <3>1, <3>2, <3>3, <3>4
  <2>2. CASE UNCHANGED replies
    BY <1>1, <2>2
  <2>3. ASSUME NEW r, NEW outcome, NEW value, Send(r.id, outcome, value),
               ~IsTerminal(value.run) \/ value.run = state
        PROVE  Told
    BY <1>4, <2>3
  <2> QED BY <2>1, <2>2, <2>3
<1> QED BY <1>5, <1>6, <1>7, <1>8, <1>9 DEF Next

(* A settled call holds what it held, nothing, or a reply.                  *)
LEMMA CallsNews ==
  ASSUME WireType, News, [Next]_vars
  PROVE  \A id \in DOMAIN calls' :
           \/ id \in DOMAIN calls /\ calls'[id].value = calls[id].value
           \/ calls'[id].value = NoAnswer
           \/ \E j \in DOMAIN replies : calls'[id].value = replies[j].value
<1> DEFINE Told == \A id \in DOMAIN calls' :
                     \/ id \in DOMAIN calls /\ calls'[id].value = calls[id].value
                     \/ calls'[id].value = NoAnswer
                     \/ \E j \in DOMAIN replies : calls'[id].value = replies[j].value
<1> SUFFICES Told
  OBVIOUS
<1>0. /\ replies \in Seq(Replies)
      /\ calls \in [DOMAIN calls -> Calls]
  BY DEF WireType, ClientType
<1>1. ASSUME UNCHANGED calls \/ calls' = <<>> PROVE Told
  BY <1>1
<1>2. ASSUME NEW ids, calls' = Without(ids) PROVE Told
  BY <1>2 DEF Without
<1>3. ASSUME NEW ids, NEW outcome, calls' = SettleAs(ids, outcome) PROVE Told
  BY <1>0, <1>3 DEF SettleAs, Calls
<1>4. ASSUME NEW methods, NEW s, NEW asked, Call(methods, s, asked) PROVE Told
  <2> DEFINE new == {nextId + i - 1 : i \in DOMAIN methods}
  <2>1. calls' = [id \in Waiting \cup new |->
                    IF id \in Waiting THEN calls[id]
                    ELSE NewCall(methods[id - nextId + 1], s, asked)]
    BY <1>4 DEF Call
  <2>2. DOMAIN calls' = Waiting \cup new
    BY <2>1
  <2>3. \A id \in DOMAIN calls' : IF id \in Waiting THEN calls'[id] = calls[id]
                                                    ELSE calls'[id].value = NoAnswer
    BY <2>1, <2>2 DEF NewCall
  <2> QED BY <2>3 DEF Waiting
<1> HIDE DEF Told
<1>5. CASE Transport
  <2>1. CASE ReadToken \/ Dispatch
    BY <1>1, <2>1 DEF ReadToken, Dispatch, client
  <2>2. CASE Connect(Now)
    <3>1. UNCHANGED calls \/ calls' = [id \in {1} |-> NewCall("daemon.hello", presented, Now)]
      BY <2>2 DEF Connect
    <3>2. ASSUME calls' = [id \in {1} |-> NewCall("daemon.hello", presented, Now)] PROVE Told
      BY <3>2 DEF Told, NewCall
    <3> QED BY <1>1, <3>1, <3>2
  <2>3. CASE Greeted
    BY <1>2, <2>3 DEF Greeted
  <2>4. CASE Deliver
    <3>1. Head(replies) = replies[1] /\ 1 \in DOMAIN replies
      BY <1>0, <2>4 DEF Deliver
    <3>2. ASSUME NEW id \in DOMAIN calls, calls' = Answered(id, Head(replies)) PROVE Told
      <4>1. DOMAIN calls' = DOMAIN calls
        BY <3>2 DEF Answered
      <4>2. \A other \in DOMAIN calls : \/ calls'[other].value = calls[other].value
                                        \/ calls'[other].value = Head(replies).value
        BY <1>0, <3>2 DEF Answered, Calls
      <4> QED BY <3>1, <4>1, <4>2 DEF Told
    <3> QED BY <1>1, <2>4, <3>2 DEF Deliver, Waiting
  <2>5. CASE DeliverTooLarge \/ SeeClose \/ \E id \in Waiting : Expire(id)
    BY <1>3, <2>5 DEF DeliverTooLarge, SeeClose, Expire
  <2> QED BY <1>5, <2>1, <2>2, <2>3, <2>4, <2>5 DEF Transport
<1>6. CASE Reactivate \/ Shutdown \/ Boot
  BY <1>1, <1>6 DEF Reactivate, Dispose, Shutdown, StopAccepting, CloseServer, Exit, Boot, Restart,
                    client
<1>7. CASE (\E t \in Tasks : AskCreate(t)) \/ Poll
  BY <1>4, <1>7 DEF AskCreate, Poll
<1>8. CASE AskStart \/ Started
  BY <1>2, <1>4, <1>8 DEF AskStart, Started
<1>9. CASE TakeSnapshot
  BY <1>1, <1>9 DEF TakeSnapshot
<1>10. CASE RunAdvances \/ LayOut \/ BeginFollow \/ Abort \/ Sink \/ Logs \/ UNCHANGED vars
  BY <1>1, <1>10 DEF RunAdvances, LayOut, BeginFollow, Abort, Sink, Logs, vars, rpc, client
<1>11. CASE Admit \/ Audit \/ Deny \/ Created \/ BeginStart \/ Place \/ Launch \/ ReadRun
  BY <1>1, <1>11 DEF Admit, Audit, Deny, Created, BeginStart, Place, Launch, ReadRun, Answer, GoOn,
                     client
<1> QED BY <1>5, <1>6, <1>7, <1>8, <1>9, <1>10, <1>11 DEF Next

LEMMA ShownNews ==
  ASSUME WireType, News, [Next]_vars
  PROVE  \/ UNCHANGED shown \/ shown'.run = "none"
         \/ \E id \in DOMAIN calls : shown'.run = calls[id].value.run
<1>1. CASE TakeSnapshot
  BY <1>1 DEF TakeSnapshot, Publish, EndWatch
<1>2. CASE Sink
  BY <1>2 DEF Sink, SinkStep, SinkFails, Advance, NoSnapshot
<1>3. CASE Transport \/ Reactivate \/ AskStart \/ Started \/ Shutdown \/ Boot
  BY <1>3 DEF Transport, Reactivate, AskStart, Started, Shutdown, Boot, projection, viewer,
              ForgetWatch
<1>4. CASE (\E t \in Tasks : AskCreate(t)) \/ Admit \/ Audit \/ Deny \/ Created
  BY <1>4 DEF AskCreate, Admit, Audit, Deny, Created, projection, viewer
<1>5. CASE BeginStart \/ Place \/ Launch \/ RunAdvances \/ ReadRun
  BY <1>5 DEF BeginStart, Place, Launch, RunAdvances, ReadRun, projection, viewer
<1>6. CASE LayOut \/ BeginFollow \/ Poll \/ Abort \/ Logs \/ UNCHANGED vars
  BY <1>6 DEF LayOut, BeginFollow, Follow, Poll, Abort, EndWatch, Logs, vars, projection, viewer
<1> QED BY <1>1, <1>2, <1>3, <1>4, <1>5, <1>6 DEF Next

LEMMA NewsKept ==
  ASSUME WireType, News, [Next]_vars
  PROVE  News'
<1>1. state' # "BLOCKED" /\ (IsTerminal(state) => IsTerminal(state'))
  BY EndIsFinal
<1>2. \A i \in DOMAIN replies' : (IsTerminal(replies'[i].value.run) => IsTerminal(state'))
  BY <1>1, RepliesNews DEF News, Ended
<1>3. \A id \in DOMAIN calls' : (IsTerminal(calls'[id].value.run) => IsTerminal(state'))
  <2>1. ~IsTerminal(NoAnswer.run)
    BY DEF NoAnswer, IsTerminal
  <2> QED BY <1>1, <2>1, CallsNews DEF News, Ended
<1>4. IsTerminal(shown'.run) => IsTerminal(state')
  <2>1. ~IsTerminal("none")
    BY DEF IsTerminal
  <2> QED BY <1>1, <2>1, ShownNews DEF News, Ended
<1> QED BY <1>1, <1>2, <1>3, <1>4 DEF News, Ended

LEMMA NoticedKept ==
  ASSUME WireType, News, Noticed, [Next]_vars
  PROVE  Noticed'
<1>1. IsTerminal(state) => IsTerminal(state')
  BY EndIsFinal
<1>2. CASE Sink
  <2>1. \/ UNCHANGED <<notified, notices>>
        \/ /\ ~notified /\ notified' = TRUE /\ notices' = notices + 1
           /\ IsTerminal(shown.run)
    BY <1>2 DEF Sink, SinkStep, SinkFails, Advance
  <2>2. CASE UNCHANGED <<notified, notices>>
    BY <1>1, <2>2 DEF Noticed
  <2>3. CASE ~UNCHANGED <<notified, notices>>
    <3>1. IsTerminal(state')
      BY <1>1, <2>1, <2>3 DEF News, Ended
    <3>2. ~notified /\ notified' = TRUE
      BY <2>1, <2>3
    <3>3. notices' = 1
      BY <2>1, <2>3 DEF Noticed
    <3> QED BY <3>1, <3>2, <3>3 DEF Noticed
  <2> QED BY <2>2, <2>3
<1>3. CASE ~Sink
  <2>1. UNCHANGED <<notified, notices>>
    <3>1. CASE Transport \/ Reactivate \/ AskStart \/ Started \/ Shutdown \/ Boot
      BY <3>1 DEF Transport, Reactivate, AskStart, Started, Shutdown, Boot, projection, viewer,
                  ForgetWatch
    <3>2. CASE (\E t \in Tasks : AskCreate(t)) \/ Admit \/ Audit \/ Deny \/ Created
      BY <3>2 DEF AskCreate, Admit, Audit, Deny, Created, projection, viewer
    <3>3. CASE BeginStart \/ Place \/ Launch \/ RunAdvances \/ ReadRun
      BY <3>3 DEF BeginStart, Place, Launch, RunAdvances, ReadRun, projection, viewer
    <3>4. CASE LayOut \/ BeginFollow \/ Poll \/ Abort \/ Logs \/ UNCHANGED vars
      BY <3>4 DEF LayOut, BeginFollow, Follow, Poll, Abort, EndWatch, Logs, vars, projection, viewer
    <3>5. CASE TakeSnapshot
      BY <3>5 DEF TakeSnapshot, Publish, EndWatch
    <3> QED BY <1>3, <3>1, <3>2, <3>3, <3>4, <3>5 DEF Next
  <2> QED BY <1>1, <2>1 DEF Noticed
<1> QED BY <1>2, <1>3

(* The user is notified at most once, and only of a run that has ended, over*)
(* every reconnection, restart of the daemon and failure of cmux            *)
(* (TerminalNotificationGuard, publish).                                    *)
THEOREM OneNotification == Spec => []NotifiedOnce
<1>1. Init => WireType /\ News /\ Noticed
  <2> SUFFICES ASSUME Init PROVE WireType /\ News /\ Noticed
    OBVIOUS
  <2>1. replies = <<>> /\ calls = <<>> /\ state = "none" /\ shown = NoSnapshot
    BY DEF Init, RpcInit, FeedInit, ProjectionInit
  <2>2. ~IsTerminal(NoSnapshot.run)
    BY DEF NoSnapshot, IsTerminal
  <2>3. notices = 0 /\ notified = FALSE
    BY DEF Init, ProjectionInit
  <2>4. News
    BY <2>1, <2>2 DEF News, Ended
  <2>5. notices \in {0, 1} /\ notices # 1
    BY <2>3
  <2>6. ~notified
    BY <2>3
  <2>7. Noticed
    BY <2>5, <2>6 DEF Noticed
  <2> QED BY <2>4, <2>7, WireTypeInit
<1>2. WireType /\ News /\ Noticed /\ [Next]_vars => (WireType /\ News /\ Noticed)'
  BY WireTypeKept, NewsKept, NoticedKept
<1>3. WireType /\ News /\ Noticed => NotifiedOnce
  BY RankIsTerminal DEF Noticed, NotifiedOnce, WireType, ViewType
<1> QED BY <1>1, <1>2, <1>3, PTL DEF Spec

=============================================================================
