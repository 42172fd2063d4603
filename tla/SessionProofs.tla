---------------------------- MODULE SessionProofs -----------------------------
(***************************************************************************)
(* What a session is told over its connection is its own answer, and no    *)
(* older than its question; and what admission found is looked at again    *)
(* before the host runs a worker, and nothing between that look and the    *)
(* launch makes it stale.  For every set of tasks, checkouts, providers and*)
(* creators and every bound.                                               *)
(***************************************************************************)
EXTENDS FrontendProofs, SequenceTheorems

-----------------------------------------------------------------------------
(* The run only gets on.                                                   *)

LEMMA RunGetsOn ==
  ASSUME WireType, News, [Next]_vars
  PROVE  Rank(state) <= Rank(state') /\ events <= events'
<1> USE DEF Rank
<1>1. state \in RUN_STATES \cup {"none"} /\ state # "BLOCKED" /\ events \in Nat
  BY DEF WireType, ViewType, SomeRun, News
<1>2. CASE UNCHANGED feed
  BY <1>1, <1>2 DEF feed, RUN_STATES
<1>3. CASE Admit
  BY <1>1, <1>3 DEF Admit, INITIAL_RUN_STATE
<1>4. CASE Audit
  BY <1>1, <1>4 DEF Audit, AppendRecord, RUN_STATES
<1>5. CASE Deny \/ BeginStart \/ Place \/ Launch
  <2>1. /\ UNCHANGED events
        /\ UNCHANGED state \/ \E to \in {"PREPARING", "RUNNING", "FAILED"} :
                                CanTransition(state, to) /\ state' = to
    BY <1>5 DEF Deny, BeginStart, Place, Launch
  <2> QED BY <1>1, <2>1 DEF CanTransition, TRANSITIONS, RUN_STATES
<1>6. CASE RunAdvances
  <2>1. /\ UNCHANGED events \/ events' = events + 1
        /\ UNCHANGED state \/ \E to \in {"VALIDATING", "SUCCEEDED", "FAILED", "CANCELLED"} :
                                CanTransition(state, to) /\ state' = to
    BY <1>6 DEF RunAdvances, Ingest, Conclude, AppendRecord
  <2> QED BY <1>1, <2>1 DEF CanTransition, TRANSITIONS, RUN_STATES
<1>7. CASE Boot
  BY <1>1, <1>7 DEF Boot, Orphan, NeedsRecovery, TERMINAL_RUN_STATES, RUN_STATES
<1>8. ASSUME Next,
             ~(Admit \/ Audit \/ Deny \/ BeginStart \/ Place \/ Launch \/ RunAdvances \/ Boot)
      PROVE  UNCHANGED feed
  <2>1. CASE Transport \/ Reactivate \/ AskStart \/ Started \/ Shutdown
    BY <2>1 DEF Transport, Reactivate, AskStart, Started, Shutdown
  <2>2. CASE (\E t \in Tasks : AskCreate(t)) \/ Created \/ ReadRun
    BY <2>2 DEF AskCreate, Created, ReadRun
  <2>3. CASE LayOut \/ BeginFollow \/ Poll \/ TakeSnapshot \/ Abort \/ Sink \/ Logs
    BY <2>3 DEF LayOut, BeginFollow, Poll, TakeSnapshot, Abort, Sink, Logs
  <2> QED BY <1>8, <2>1, <2>2, <2>3 DEF Next
<1>9. UNCHANGED vars => UNCHANGED feed
  BY DEF vars
<1> QED BY <1>2, <1>3, <1>4, <1>5, <1>6, <1>7, <1>8, <1>9

-----------------------------------------------------------------------------
(* What fits a call as its answer. *)

Suits(c, value) ==
  LET page == value.events
      due == c.asked.events - 1 - c.since
  IN /\ c.method = "task.status" => Rank(value.run) >= Rank(c.asked.run)
     /\ c.method = "task.events" =>
          /\ \A i \in DOMAIN page : page[i] = c.since + i
          /\ Len(page) >= IF due < PageSize THEN due ELSE PageSize

Wire == {requests[i] : i \in DOMAIN requests} \cup handling

(* What is under way with an id is the call's of that id, or nobody's: an   *)
(* id is not given out again while anything that carries it may arrive.     *)
Asked(r) == r.id \in Waiting => calls[r.id].method = r.method /\ calls[r.id].since = r.since

Matched ==
  /\ nextId >= 1 /\ (link # "none" => nextId >= 2)
  /\ link = "none" => replies = <<>>
  /\ 1 \in DOMAIN calls => DOMAIN calls = {1}
  /\ \A r \in Wire : r.id < nextId /\ Asked(r)
  /\ \A i \in DOMAIN replies :
       /\ replies[i].id < nextId
       /\ replies[i].outcome = "ok" /\ replies[i].id \in Waiting =>
            Suits(calls[replies[i].id], replies[i].value)
  /\ \A id \in DOMAIN calls :
       /\ 1 <= id /\ id < nextId
       /\ calls[id].asked.events <= events /\ Rank(calls[id].asked.run) <= Rank(state)
       /\ calls[id].outcome = "ok" => Suits(calls[id], calls[id].value)

LEMMA MatchedInit == Init => Matched
<1> SUFFICES ASSUME Init PROVE Matched
  OBVIOUS
<1>1. nextId = 1 /\ link = "none" /\ replies = <<>> /\ requests = <<>> /\ handling = {} /\ calls = <<>>
  BY DEF Init, RpcInit
<1>2. Wire = {} /\ DOMAIN replies = {} /\ DOMAIN calls = {}
  BY <1>1 DEF Wire
<1> QED BY <1>1, <1>2 DEF Matched

(* A call is the same call, whatever becomes of it.                         *)
Same(c, d) == c.method = d.method /\ c.since = d.since /\ c.asked = d.asked

LEMMA SameSuits ==
  ASSUME NEW c, NEW d, NEW value, Same(c, d), Suits(c, value)
  PROVE  Suits(d, value)
BY DEF Same, Suits

(* What keeps the answers matched to the calls.                             *)
LEMMA MatchedFrame ==
  ASSUME WireType, WireType', Matched,
         Rank(state) <= Rank(state'), events <= events',
         nextId' >= 1, link' # "none" => nextId' >= 2,
         link' = "none" => replies' = <<>>,
         \A r \in Wire' :
           /\ r.id < nextId'
           /\ r.id = 0 \/ \E g \in Wire : r.id = g.id /\ r.method = g.method /\ r.since = g.since,
         \A i \in DOMAIN replies' :
           /\ replies'[i].id < nextId'
           /\ \/ \E j \in DOMAIN replies : replies'[i] = replies[j]
              \/ \A id \in Waiting : replies'[i].id = id /\ replies'[i].outcome = "ok" =>
                                       Suits(calls[id], replies'[i].value),
         \A id \in DOMAIN calls' :
           /\ id \in DOMAIN calls /\ id < nextId' /\ Same(calls[id], calls'[id])
           /\ calls'[id].outcome = "waiting" => calls[id].outcome = "waiting"
           /\ calls'[id].outcome = "ok" => Suits(calls[id], calls'[id].value)
  PROVE  Matched'
<1>1. ASSUME NEW id \in DOMAIN calls'
      PROVE  /\ id \in DOMAIN calls /\ id >= 1 /\ id < nextId'
             /\ calls'[id].asked.events <= events' /\ Rank(calls'[id].asked.run) <= Rank(state')
             /\ calls'[id].outcome = "ok" => Suits(calls'[id], calls'[id].value)
  <2>1. PICK c, d : c = calls[id] /\ d = calls'[id] /\ Same(c, d)
    OBVIOUS
  <2>2. c.asked = d.asked
    BY <2>1 DEF Same
  <2>3. c.asked.events <= events /\ Rank(c.asked.run) <= Rank(state) /\ id >= 1
    BY <2>1 DEF Matched
  <2>4. c.asked.events \in Nat /\ events \in Nat /\ events' \in Nat
    BY <2>1 DEF WireType, ClientType, ViewType, Calls
  <2>5. Rank(c.asked.run) \in Nat /\ Rank(state) \in Nat /\ Rank(state') \in Nat
    BY DEF Rank
  <2>6. d.outcome = "ok" => Suits(c, d.value)
    BY <2>1
  <2> QED BY <2>1, <2>2, <2>3, <2>4, <2>5, <2>6, SameSuits
<1>2. ASSUME NEW r \in Wire' PROVE Asked(r)'
  <2>1. SUFFICES ASSUME r.id \in Waiting'
                 PROVE  calls'[r.id].method = r.method /\ calls'[r.id].since = r.since
    BY DEF Asked
  <2>2. PICK id \in DOMAIN calls' : id = r.id /\ calls'[id].outcome = "waiting"
    BY <2>1 DEF Waiting
  <2>3. r.id # 0 /\ id \in Waiting /\ Same(calls[id], calls'[id])
    BY <1>1, <2>2 DEF Waiting
  <2>4. PICK g \in Wire : r.id = g.id /\ r.method = g.method /\ r.since = g.since
    BY <2>3
  <2> QED BY <2>2, <2>3, <2>4 DEF Matched, Asked, Same
<1>3. ASSUME NEW i \in DOMAIN replies', replies'[i].outcome = "ok", replies'[i].id \in Waiting'
      PROVE  Suits(calls'[replies'[i].id], replies'[i].value)
  <2>1. PICK id \in DOMAIN calls' : id = replies'[i].id /\ calls'[id].outcome = "waiting"
    BY <1>3 DEF Waiting
  <2>2. id \in Waiting /\ Same(calls[id], calls'[id])
    BY <1>1, <2>1 DEF Waiting
  <2>3. PICK c, d, value : c = calls[id] /\ d = calls'[id] /\ value = replies'[i].value
    OBVIOUS
  <2>4. Suits(c, value)
    BY <1>3, <2>1, <2>2, <2>3 DEF Matched
  <2> QED BY <2>1, <2>2, <2>3, <2>4, SameSuits
<1> QED BY <1>1, <1>2, <1>3 DEF Matched

LEMMA CallMatched ==
  ASSUME WireType, WireType', Matched, UNCHANGED feed,
         NEW methods \in Seq(Methods), NEW s \in Int, Call(methods, s, Now)
  PROVE  Matched'
<1> DEFINE new == {nextId + i - 1 : i \in DOMAIN methods}
           News1 == [i \in DOMAIN methods |-> Request(nextId + i - 1, methods[i], s)]
<1>0. /\ nextId \in Nat /\ Len(methods) \in Nat /\ DOMAIN methods = 1 .. Len(methods)
      /\ requests \in Seq(Requests) /\ DOMAIN calls \in SUBSET Nat
  BY DEF WireType, ServerType, ClientType
<1>1. /\ 1 \notin DOMAIN calls /\ link # "none" /\ nextId' = nextId + Len(methods)
      /\ UNCHANGED <<link, handling, replies>>
  BY DEF Call, Connected
<1>2. calls' = [id \in Waiting \cup new |->
                  IF id \in Waiting THEN calls[id]
                  ELSE NewCall(methods[id - nextId + 1], s, Now)]
  BY DEF Call
<1>3. \A id \in new : nextId <= id /\ id < nextId' /\ id \notin DOMAIN calls
  BY <1>0, <1>1 DEF Matched
<1>4. DOMAIN calls' = Waiting \cup new /\ \A id \in Waiting : calls'[id] = calls[id]
  BY <1>2
<1>5. \A i \in DOMAIN methods :
        /\ nextId + i - 1 \in new
        /\ calls'[nextId + i - 1] = NewCall(methods[i], s, Now)
  <2> SUFFICES ASSUME NEW i \in DOMAIN methods
               PROVE  /\ nextId + i - 1 \in new
                      /\ calls'[nextId + i - 1] = NewCall(methods[i], s, Now)
    OBVIOUS
  <2>1. PICK id : id = nextId + i - 1
    OBVIOUS
  <2>2. id \in new /\ id \notin Waiting /\ id - nextId + 1 = i
    BY <1>0, <1>3, <2>1 DEF Waiting
  <2> QED BY <1>2, <2>1, <2>2
<1>6. \A r \in Wire' : \/ r \in Wire
                       \/ \E i \in DOMAIN methods : r = Request(nextId + i - 1, methods[i], s)
  <2>1. CASE UNCHANGED requests
    BY <1>1, <2>1 DEF Wire
  <2>2. CASE requests' = requests \o News1
    <3>1. DOMAIN News1 = 1 .. Len(methods) /\ News1 \in Seq({News1[j] : j \in DOMAIN News1})
          /\ Len(News1) = Len(methods)
      BY <1>0
    <3>2. \A j \in DOMAIN News1 : News1[j] = Request(nextId + j - 1, methods[j], s)
      OBVIOUS
    <3> HIDE DEF News1
    <3>3. \A j \in DOMAIN requests' :
            \/ j \in DOMAIN requests /\ requests'[j] = requests[j]
            \/ j - Len(requests) \in DOMAIN News1 /\ requests'[j] = News1[j - Len(requests)]
      BY <1>0, <2>2, <3>1
    <3> QED BY <1>0, <1>1, <3>1, <3>2, <3>3 DEF Wire
  <2> QED BY <2>1, <2>2 DEF Call
<1>7. ASSUME NEW r \in Wire' PROVE r.id < nextId' /\ Asked(r)'
  <2>1. CASE r \in Wire
    <3>0. r \in Requests
      BY <1>0, <2>1 DEF Wire, WireType, ServerType
    <3>1. r.id < nextId /\ Asked(r) /\ r.id \in Nat
      BY <2>1, <3>0 DEF Matched, Requests
    <3>2. r.id \in Waiting' => r.id \in Waiting
      BY <1>0, <1>3, <1>4, <3>1 DEF Waiting
    <3> QED BY <1>0, <1>1, <1>4, <3>1, <3>2 DEF Asked
  <2>2. CASE \E i \in DOMAIN methods : r = Request(nextId + i - 1, methods[i], s)
    <3>1. PICK i \in DOMAIN methods : r = Request(nextId + i - 1, methods[i], s)
      BY <2>2
    <3>2. r.id = nextId + i - 1 /\ r.method = methods[i] /\ r.since = s
      BY <3>1 DEF Request
    <3>3. PICK id \in new : id = r.id /\ calls'[id] = NewCall(methods[i], s, Now)
      BY <1>5, <3>2
    <3>4. calls'[id].method = r.method /\ calls'[id].since = r.since
      BY <3>2, <3>3 DEF NewCall
    <3> QED BY <1>3, <3>3, <3>4 DEF Asked
  <2> QED BY <1>6, <2>1, <2>2
<1>8. ASSUME NEW i \in DOMAIN replies'
      PROVE  /\ replies'[i].id < nextId'
             /\ replies'[i].outcome = "ok" /\ replies'[i].id \in Waiting' =>
                  Suits(calls'[replies'[i].id], replies'[i].value)
  <2>1. PICK reply : reply = replies[i] /\ reply = replies'[i] /\ i \in DOMAIN replies
    BY <1>1
  <2>2. reply.id < nextId /\ reply.id \in Nat
    <3>1. reply \in Replies
      BY <2>1 DEF WireType, ClientType
    <3> QED BY <2>1, <3>1 DEF Matched, Replies
  <2>3. PICK id : id = reply.id
    OBVIOUS
  <2>4. id \in Waiting' => id \in Waiting /\ calls'[id] = calls[id]
    BY <1>0, <1>3, <1>4, <2>2, <2>3 DEF Waiting
  <2>5. reply.outcome = "ok" /\ id \in Waiting => Suits(calls[id], reply.value)
    BY <2>1, <2>3 DEF Matched
  <2>6. reply.outcome = "ok" /\ id \in Waiting' => Suits(calls'[id], reply.value)
    BY <2>4, <2>5
  <2> QED BY <1>0, <1>1, <2>1, <2>2, <2>3, <2>6
<1>9. ASSUME NEW id \in DOMAIN calls'
      PROVE  /\ 1 <= id /\ id < nextId'
             /\ calls'[id].asked.events <= events' /\ Rank(calls'[id].asked.run) <= Rank(state')
             /\ calls'[id].outcome = "waiting"
  <2>1. UNCHANGED <<state, events>>
    BY DEF feed
  <2>2. CASE id \in Waiting
    BY <1>0, <1>1, <1>4, <2>1, <2>2 DEF Matched, Waiting
  <2>3. CASE id \notin Waiting
    <3>1. id \in new /\ calls'[id] = NewCall(methods[id - nextId + 1], s, Now)
      BY <1>2, <1>4, <2>3
    <3>2. calls'[id].asked = Now /\ calls'[id].outcome = "waiting"
      BY <3>1 DEF NewCall
    <3>3. Rank(state) \in Nat /\ events \in Nat
      BY DEF Rank, WireType, ViewType
    <3> QED BY <1>0, <1>3, <2>1, <3>1, <3>2, <3>3 DEF Now, Matched
  <2> QED BY <2>2, <2>3
<1>10. 1 \notin DOMAIN calls'
  BY <1>0, <1>1, <1>3, <1>4 DEF Waiting, Matched
<1>11. nextId' >= 2
  BY <1>0, <1>1 DEF Matched
<1> QED BY <1>1, <1>7, <1>8, <1>9, <1>10, <1>11 DEF Matched

(* An answer fits whatever call its request can have come from.             *)
Fitting(r, value) ==
  \A c \in Calls :
    /\ c.method = r.method /\ c.since = r.since
    /\ c.asked.events <= events /\ Rank(c.asked.run) <= Rank(state)
    => Suits(c, value)

LEMMA Replying ==
  ASSUME WireType, Matched, NEW r \in Wire, NEW outcome, NEW value, Send(r.id, outcome, value),
         outcome = "ok" => Fitting(r, value)
  PROVE  \A i \in DOMAIN replies' :
           /\ replies'[i].id < nextId
           /\ \/ \E j \in DOMAIN replies : replies'[i] = replies[j]
              \/ \A id \in Waiting : replies'[i].id = id /\ replies'[i].outcome = "ok" =>
                                       Suits(calls[id], replies'[i].value)
<1>1. CASE UNCHANGED replies
  BY <1>1 DEF Matched
<1>2. CASE replies' = Append(replies, Response(r.id, outcome, value))
  <2>0. PICK new : new = Response(r.id, outcome, value)
    OBVIOUS
  <2>1. \A i \in DOMAIN replies' : \/ i \in DOMAIN replies /\ replies'[i] = replies[i]
                                   \/ replies'[i] = new
    <3>1. replies \in Seq(Replies) /\ replies' = Append(replies, new)
      BY <1>2, <2>0 DEF WireType, ClientType
    <3> QED BY <3>1
  <2>2. new.id = r.id /\ new.outcome = outcome /\ new.value = value /\ r.id < nextId
    BY <2>0 DEF Response, Matched
  <2>3. ASSUME NEW id \in Waiting, r.id = id, outcome = "ok" PROVE Suits(calls[id], value)
    <3>1. PICK c \in Calls : c = calls[id]
      BY <2>3 DEF WireType, ClientType, Waiting
    <3>2. c.method = r.method /\ c.since = r.since
      BY <2>3, <3>1 DEF Matched, Asked
    <3>3. c.asked.events <= events /\ Rank(c.asked.run) <= Rank(state)
      BY <2>3, <3>1 DEF Matched, Waiting
    <3>4. Suits(c, value)
      BY <2>3, <3>2, <3>3 DEF Fitting
    <3> QED BY <3>1, <3>4
  <2>4. \A id \in Waiting : new.id = id /\ new.outcome = "ok" => Suits(calls[id], new.value)
    BY <2>2, <2>3
  <2> QED BY <2>1, <2>2, <2>4 DEF Matched
<1> QED BY <1>1, <1>2 DEF Send

LEMMA CallsStay ==
  ASSUME WireType, Matched, UNCHANGED <<calls, nextId>>
  PROVE  \A id \in DOMAIN calls' :
           /\ id \in DOMAIN calls /\ id < nextId' /\ Same(calls[id], calls'[id])
           /\ calls'[id].outcome = "waiting" => calls[id].outcome = "waiting"
           /\ calls'[id].outcome = "ok" => Suits(calls[id], calls'[id].value)
BY DEF Matched, Same

LEMMA HandlerMatched ==
  ASSUME WireType, WireType', Matched, Rank(state) <= Rank(state'), events <= events',
         NEW r \in handling,
         \/ \E step : GoOn(r, step)
         \/ \E outcome, value : Answer(r, outcome, value) /\ (outcome = "ok" => Fitting(r, value))
  PROVE  Matched'
<1>1. UNCHANGED <<link, requests, calls, nextId>>
  BY DEF GoOn, Answer, client
<1>2. r \in Wire /\ handling \subseteq Requests
  BY DEF Wire, WireType, ServerType
<1>3. \A g \in Wire' : \E h \in Wire : g.id = h.id /\ g.method = h.method /\ g.since = h.since
  BY <1>1, <1>2 DEF GoOn, Answer, Wire, Requests
<1>4. \A g \in Wire' : g.id < nextId
  BY <1>3 DEF Matched
<1>5. \A i \in DOMAIN replies' :
        /\ replies'[i].id < nextId
        /\ \/ \E j \in DOMAIN replies : replies'[i] = replies[j]
           \/ \A id \in Waiting : replies'[i].id = id /\ replies'[i].outcome = "ok" =>
                                    Suits(calls[id], replies'[i].value)
  <2>1. CASE \E step : GoOn(r, step)
    BY <2>1 DEF GoOn, Matched
  <2>2. CASE \E outcome, value : Answer(r, outcome, value)
                                /\ (outcome = "ok" => Fitting(r, value))
    BY <1>2, <2>2, Replying DEF Answer
  <2> QED BY <2>1, <2>2
<1>6. link' = "none" => replies' = <<>>
  BY <1>1 DEF GoOn, Answer, Send, Matched
<1> QED BY <1>1, <1>3, <1>4, <1>5, <1>6, CallsStay, MatchedFrame DEF Matched

LEMMA DispatchMatched ==
  ASSUME WireType, WireType', Matched, UNCHANGED feed, Dispatch
  PROVE  Matched'
<1>1. PICK r : r = Head(requests)
  OBVIOUS
<1>2. /\ requests \in Seq(Requests) /\ requests # <<>> /\ requests' = Tail(requests)
      /\ link = "up" /\ UNCHANGED <<link, calls, nextId>>
  BY DEF Dispatch, WireType, ServerType, client
<1>3. r = requests[1] /\ 1 \in DOMAIN requests
      /\ \A i \in DOMAIN requests' : requests'[i] = requests[i + 1] /\ i + 1 \in DOMAIN requests
  BY <1>1, <1>2
<1>4. r \in Wire /\ handling' \subseteq handling \cup {r}
  BY <1>1, <1>3 DEF Dispatch, Wire
<1>5. \A g \in Wire' : g \in Wire
  BY <1>3, <1>4 DEF Wire
<1>6. UNCHANGED replies \/ \E outcome : /\ Send(r.id, outcome, NoAnswer)
                                        /\ outcome = "ok" => r.method = "daemon.hello"
  BY <1>1 DEF Dispatch
<1>7. r.method = "daemon.hello" => Fitting(r, NoAnswer)
  BY DEF Fitting, Suits
<1>8. \A i \in DOMAIN replies' :
        /\ replies'[i].id < nextId
        /\ \/ \E j \in DOMAIN replies : replies'[i] = replies[j]
           \/ \A id \in Waiting : replies'[i].id = id /\ replies'[i].outcome = "ok" =>
                                    Suits(calls[id], replies'[i].value)
  <2>1. CASE UNCHANGED replies
    BY <2>1 DEF Matched
  <2>2. CASE ~UNCHANGED replies
    <3>1. PICK outcome : /\ Send(r.id, outcome, NoAnswer)
                         /\ outcome = "ok" => r.method = "daemon.hello"
      BY <1>6, <2>2
    <3> QED BY <1>4, <1>7, <3>1, Replying
  <2> QED BY <2>1, <2>2
<1>9. \A g \in Wire' : g.id < nextId
  BY <1>5 DEF Matched
<1>10. Rank(state) <= Rank(state') /\ events <= events'
  BY DEF feed, WireType, ViewType, Rank
<1> QED BY <1>2, <1>5, <1>8, <1>9, <1>10, CallsStay, MatchedFrame DEF Matched

(* Calls that are settled without an answer, or taken.                      *)
LEMMA CallsLost ==
  ASSUME WireType, Matched, UNCHANGED nextId,
         \/ \E ids : calls' = SettleAs(ids, "lost")
         \/ \E ids : calls' = Without(ids)
         \/ calls' = <<>>
  PROVE  \A id \in DOMAIN calls' :
           /\ id \in DOMAIN calls /\ id < nextId' /\ Same(calls[id], calls'[id])
           /\ calls'[id].outcome = "waiting" => calls[id].outcome = "waiting"
           /\ calls'[id].outcome = "ok" => Suits(calls[id], calls'[id].value)
<1>0. calls \in [DOMAIN calls -> Calls]
  BY DEF WireType, ClientType
<1>1. ASSUME NEW ids, calls' = SettleAs(ids, "lost"), NEW id \in DOMAIN calls'
      PROVE  /\ id \in DOMAIN calls /\ id < nextId' /\ Same(calls[id], calls'[id])
             /\ calls'[id].outcome = "waiting" => calls[id].outcome = "waiting"
             /\ calls'[id].outcome = "ok" => Suits(calls[id], calls'[id].value)
  <2>1. id \in DOMAIN calls /\ calls[id] \in Calls
    BY <1>0, <1>1 DEF SettleAs
  <2>2. calls'[id] = calls[id] \/ calls'[id] = [calls[id] EXCEPT !.outcome = "lost"]
    BY <1>1, <2>1 DEF SettleAs
  <2>3. CASE calls'[id] = calls[id]
    BY <2>1, <2>3 DEF Matched, Same
  <2>4. CASE calls'[id] = [calls[id] EXCEPT !.outcome = "lost"]
    <3>1. Same(calls[id], calls'[id]) /\ calls'[id].outcome = "lost"
      BY <2>1, <2>4 DEF Same, Calls
    <3> QED BY <2>1, <3>1 DEF Matched
  <2> QED BY <2>2, <2>3, <2>4
<1>2. ASSUME NEW ids, calls' = Without(ids), NEW id \in DOMAIN calls'
      PROVE  id \in DOMAIN calls /\ calls'[id] = calls[id]
  BY <1>2 DEF Without
<1> QED BY <1>1, <1>2 DEF Matched, Same

LEMMA Silence ==
  ASSUME WireType, requests' = <<>>, handling' = Unheard \/ handling' = {}
  PROVE  \A r \in Wire' : r.id = 0
BY UnheardHasNoId DEF Wire

LEMMA WireStays ==
  ASSUME WireType, Matched, UNCHANGED <<requests, handling, nextId>>
  PROVE  \A r \in Wire' :
           /\ r.id < nextId'
           /\ \E g \in Wire : r.id = g.id /\ r.method = g.method /\ r.since = g.since
BY DEF Wire, Matched

LEMMA DeliverMatched ==
  ASSUME WireType, WireType', Matched, UNCHANGED feed, Deliver
  PROVE  Matched'
<1>1. /\ replies # <<>> /\ replies' = Tail(replies) /\ replies \in Seq(Replies)
      /\ link # "none" /\ UNCHANGED <<link, requests, handling, nextId>>
  BY DEF Deliver, WireType, ClientType, server
<1>2. PICK reply : reply = Head(replies)
  OBVIOUS
<1>3. reply = replies[1] /\ 1 \in DOMAIN replies
      /\ \A i \in DOMAIN replies' : replies'[i] = replies[i + 1] /\ i + 1 \in DOMAIN replies
  BY <1>1, <1>2
<1>4. \A i \in DOMAIN replies' :
        /\ replies'[i].id < nextId'
        /\ \E j \in DOMAIN replies : replies'[i] = replies[j]
  BY <1>1, <1>3 DEF Matched
<1>5. \A id \in DOMAIN calls' :
        /\ id \in DOMAIN calls /\ id < nextId' /\ Same(calls[id], calls'[id])
        /\ calls'[id].outcome = "waiting" => calls[id].outcome = "waiting"
        /\ calls'[id].outcome = "ok" => Suits(calls[id], calls'[id].value)
  <2>1. CASE UNCHANGED calls
    BY <1>1, <2>1, CallsStay
  <2>2. CASE reply.id \in Waiting /\ calls' = Answered(reply.id, reply)
    <3> SUFFICES ASSUME NEW id \in DOMAIN calls'
                 PROVE  /\ id \in DOMAIN calls /\ id < nextId' /\ Same(calls[id], calls'[id])
                        /\ calls'[id].outcome = "waiting" => calls[id].outcome = "waiting"
                        /\ calls'[id].outcome = "ok" => Suits(calls[id], calls'[id].value)
      OBVIOUS
    <3>1. id \in DOMAIN calls /\ calls[id] \in Calls /\ id < nextId'
      BY <1>1, <2>2 DEF Answered, WireType, ClientType, Matched
    <3>2. CASE id # reply.id
      <4>1. calls'[id] = calls[id]
        BY <2>2, <3>1, <3>2 DEF Answered
      <4> QED BY <3>1, <4>1 DEF Matched, Same
    <3>3. CASE id = reply.id
      <4>1. PICK c : c = calls[id]
        OBVIOUS
      <4>2. PICK d : d = calls'[id]
        OBVIOUS
      <4>3. Same(c, d) /\ d.outcome = reply.outcome /\ d.value = reply.value
        BY <2>2, <3>1, <3>3, <4>1, <4>2 DEF Answered, Same, Calls
      <4>4. c.outcome = "waiting"
        BY <2>2, <3>3, <4>1 DEF Waiting
      <4>5. reply.outcome = "ok" => Suits(c, reply.value)
        BY <1>3, <2>2, <3>3, <4>1 DEF Matched
      <4> QED BY <3>1, <4>1, <4>2, <4>3, <4>4, <4>5
    <3> QED BY <3>2, <3>3
  <2> QED BY <1>2, <2>1, <2>2 DEF Deliver
<1>6. Rank(state) <= Rank(state') /\ events <= events'
  BY DEF feed, WireType, ViewType, Rank
<1> QED BY <1>1, <1>4, <1>5, <1>6, WireStays, MatchedFrame DEF Matched

LEMMA ConnectMatched ==
  ASSUME WireType, WireType', Greeting, Matched, UNCHANGED feed, Connect(Now)
  PROVE  Matched'
<1>1. CASE phase = "serving"
  <2>1. PICK hello : hello = Request(1, "daemon.hello", presented)
    OBVIOUS
  <2>2. /\ link = "none" /\ link' = "up" /\ requests' = <<hello>> /\ nextId' = 2
        /\ calls' = [id \in {1} |-> NewCall("daemon.hello", presented, Now)]
        /\ UNCHANGED <<handling, replies>>
    BY <1>1, <2>1 DEF Connect
  <2>3. DOMAIN calls' = {1} /\ calls'[1] = NewCall("daemon.hello", presented, Now)
    BY <2>2
  <2>4. \A r \in Wire' : r = hello \/ r.id = 0
    BY <2>2 DEF Wire, Greeting
  <2>5. /\ calls'[1].method = "daemon.hello" /\ calls'[1].since = presented
        /\ calls'[1].asked = Now /\ calls'[1].outcome = "waiting"
    BY <2>3 DEF NewCall
  <2>6. hello.id = 1 /\ hello.method = "daemon.hello" /\ hello.since = presented
    BY <2>1 DEF Request
  <2>7. ASSUME NEW r \in Wire' PROVE r.id < nextId' /\ Asked(r)'
    <3>1. CASE r.id = 0
      BY <2>2, <2>3, <3>1 DEF Asked, Waiting
    <3>2. CASE r = hello
      <4>1. r.id = 1 /\ r.method = calls'[1].method /\ r.since = calls'[1].since
        BY <2>5, <2>6, <3>2
      <4> QED BY <2>2, <4>1 DEF Asked
    <3> QED BY <2>4, <3>1, <3>2
  <2>8. replies' = <<>>
    BY <2>2 DEF Matched
  <2>9. /\ calls'[1].asked.events <= events' /\ Rank(calls'[1].asked.run) <= Rank(state')
    BY <2>5 DEF Now, feed, WireType, ViewType, Rank
  <2> QED BY <2>2, <2>3, <2>5, <2>7, <2>8, <2>9 DEF Matched
<1>2. CASE phase # "serving"
  <2>1. UNCHANGED <<link, requests, handling, replies, calls, nextId>>
    BY <1>2 DEF Connect
  <2>2. Rank(state) <= Rank(state') /\ events <= events'
    BY DEF feed, WireType, ViewType, Rank
  <2> QED BY <2>1, <2>2, WireStays, CallsStay, MatchedFrame DEF Matched
<1> QED BY <1>1, <1>2

LEMMA TransportMatched ==
  ASSUME WireType, WireType', Greeting, Matched, Transport
  PROVE  Matched'
<1>0. UNCHANGED feed /\ Rank(state) <= Rank(state') /\ events <= events'
  BY DEF Transport, feed, WireType, ViewType, Rank
<1>1. CASE ReadToken
  <2>1. UNCHANGED <<link, requests, handling, replies, calls, nextId>>
    BY <1>1 DEF ReadToken, server
  <2> QED BY <1>0, <2>1, WireStays, CallsStay, MatchedFrame DEF Matched
<1>2. CASE Greeted
  <2>1. calls' = Without({1}) /\ 1 \in DOMAIN calls
    BY <1>2 DEF Greeted, Settled
  <2>2. CASE UNCHANGED <<link, presented, requests, handling, replies, nextId>>
    BY <1>0, <2>1, <2>2, WireStays, CallsLost, MatchedFrame DEF Matched
  <2>3. CASE Hangup("none") /\ nextId' = 1
    <3>1. /\ link' = "none" /\ requests' = <<>> /\ replies' = <<>> /\ handling' = Unheard
      BY <2>3 DEF Hangup
    <3>2. DOMAIN calls' = {}
      BY <2>1 DEF Without, Matched
    <3> QED BY <1>0, <2>3, <3>1, <3>2, Silence, MatchedFrame DEF Matched
  <2> QED BY <1>2, <2>2, <2>3 DEF Greeted
<1>3. CASE DeliverTooLarge
  <2>1. /\ link' = "closed" /\ requests' = <<>> /\ replies' = <<>> /\ handling' = Unheard
        /\ link # "none" /\ UNCHANGED nextId /\ calls' = SettleAs(Waiting, "lost")
    BY <1>3 DEF DeliverTooLarge, Hangup
  <2>2. \A r \in Wire' : r.id = 0
    BY <2>1, Silence
  <2>3. nextId' >= 2 /\ DOMAIN replies' = {}
    BY <2>1 DEF Matched
  <2>4. \A r \in Wire' : r.id < nextId' /\ r.id = 0
    BY <2>2, <2>3 DEF WireType, ClientType
  <2>5. nextId' >= 1
    BY <2>3 DEF WireType, ClientType
  <2> QED BY <1>0, <2>1, <2>3, <2>4, <2>5, CallsLost, MatchedFrame
<1>4. CASE SeeClose \/ \E id \in Waiting : Expire(id)
  <2>1. /\ link' = link \/ (link = "cut" /\ link' = "closed")
        /\ UNCHANGED <<requests, handling, replies, nextId>>
        /\ \E ids : calls' = SettleAs(ids, "lost")
    BY <1>4 DEF SeeClose, Expire, server
  <2> QED BY <1>0, <2>1, WireStays, CallsLost, MatchedFrame DEF Matched
<1> QED BY <1>0, <1>1, <1>2, <1>3, <1>4, ConnectMatched, DeliverMatched, DispatchMatched
        DEF Transport

LEMMA LifeMatched ==
  ASSUME WireType, WireType', Greeting, Matched, Rank(state) <= Rank(state'), events <= events',
         Shutdown \/ Boot \/ Reactivate
  PROVE  Matched'
<1>1. CASE StopAccepting \/ Boot
  <2>1. UNCHANGED <<link, requests, handling, replies, calls, nextId>>
    BY <1>1 DEF StopAccepting, Boot, Restart, server, client
  <2> QED BY <2>1, WireStays, CallsStay, MatchedFrame DEF Matched
<1>2. CASE CloseServer \/ Exit
  <2>1. /\ link' = IF link = "up" THEN "cut" ELSE link
        /\ requests' = <<>> /\ (handling' = Unheard \/ handling' = {})
        /\ UNCHANGED <<calls, nextId>>
    BY <1>2 DEF CloseServer, Exit, CutLink, client
  <2>2. PICK n \in 0 .. Len(replies) : replies' = SubSeq(replies, 1, n)
    BY <1>2 DEF CloseServer, Exit, CutLink
  <2>3. \A i \in DOMAIN replies' : i \in DOMAIN replies /\ replies'[i] = replies[i]
    <3>1. replies \in Seq(Replies)
      BY DEF WireType, ClientType
    <3> QED BY <2>2, <3>1
  <2>4. replies = <<>> => replies' = <<>>
    BY <2>2
  <2>5. \A r \in Wire' : r.id = 0
    BY <2>1, Silence
  <2>6. /\ nextId' >= 1 /\ (link' # "none" => nextId' >= 2)
        /\ link' = "none" => replies' = <<>>
    BY <2>1, <2>4 DEF Matched
  <2>7. \A r \in Wire' : r.id < nextId' /\ r.id = 0
    BY <2>5, <2>6 DEF WireType, ClientType
  <2>8. \A i \in DOMAIN replies' : /\ replies'[i].id < nextId'
                                   /\ \E j \in DOMAIN replies : replies'[i] = replies[j]
    BY <2>1, <2>3 DEF Matched
  <2> QED BY <2>1, <2>6, <2>7, <2>8, CallsStay, MatchedFrame
<1>3. CASE Reactivate
  <2>1. /\ link' = "none" /\ requests' = <<>> /\ replies' = <<>> /\ handling' = Unheard
        /\ nextId' = 1 /\ DOMAIN calls' = {}
    BY <1>3 DEF Reactivate, Dispose, Hangup
  <2>2. \A r \in Wire' : r.id = 0
    BY <2>1, Silence
  <2> QED BY <2>1, <2>2, MatchedFrame
<1> QED BY <1>1, <1>2, <1>3 DEF Shutdown

LEMMA AskingMatched ==
  ASSUME WireType, WireType', Matched,
         (\E t \in Tasks : AskCreate(t)) \/ AskStart \/ Started \/ Poll \/ TakeSnapshot
  PROVE  Matched'
<1>0. UNCHANGED feed /\ Rank(state) <= Rank(state') /\ events <= events'
  <2>1. UNCHANGED feed
    BY DEF AskCreate, AskStart, Started, Poll, TakeSnapshot
  <2> QED BY <2>1 DEF feed, WireType, ViewType, Rank
<1>1. /\ <<"task.create">> \in Seq(Methods) /\ <<"task.start">> \in Seq(Methods)
      /\ <<"task.status", "task.events">> \in Seq(Methods)
      /\ since \in Int /\ -1 \in Int
  BY DEF Methods, WireType, ViewType
<1>2. ASSUME UNCHANGED <<link, server, replies, nextId>>,
             calls' = <<>> \/ \E ids : calls' = Without(ids)
      PROVE  Matched'
  <2>1. UNCHANGED <<link, requests, handling, replies, nextId>>
    BY <1>2 DEF server
  <2> QED BY <1>0, <1>2, <2>1, WireStays, CallsLost, MatchedFrame DEF Matched
<1>3. CASE \E t \in Tasks : AskCreate(t)
  <2>1. Call(<<"task.create">>, -1, Now)
    BY <1>3 DEF AskCreate
  <2> QED BY <1>0, <1>1, <2>1, CallMatched
<1>4. CASE AskStart
  <2>1. \/ Call(<<"task.start">>, -1, Now)
        \/ /\ \E ids : calls' = Without(ids)
           /\ UNCHANGED <<link, server, replies, nextId>>
    BY <1>4 DEF AskStart
  <2>2. CASE Call(<<"task.start">>, -1, Now)
    BY <1>0, <1>1, <2>2, CallMatched
  <2> QED BY <1>2, <2>1, <2>2
<1>5. CASE Poll
  <2>1. Call(<<"task.status", "task.events">>, since, Now)
    BY <1>5 DEF Poll
  <2> QED BY <1>0, <1>1, <2>1, CallMatched
<1>6. CASE Started \/ TakeSnapshot
  BY <1>2, <1>6 DEF Started, TakeSnapshot
<1> QED BY <1>3, <1>4, <1>5, <1>6

LEMMA NewsInit == Init => News
<1> SUFFICES ASSUME Init PROVE News
  OBVIOUS
<1>1. replies = <<>> /\ calls = <<>> /\ state = "none" /\ shown = NoSnapshot
  BY DEF Init, RpcInit, FeedInit, ProjectionInit
<1>2. ~IsTerminal(NoSnapshot.run)
  BY DEF NoSnapshot, IsTerminal
<1> QED BY <1>1, <1>2 DEF News, Ended

LEMMA GreetingInit == Init => Greeting
BY DEF Init, RpcInit, Greeting, HelloFirst

LEMMA HandlersMatched ==
  ASSUME WireType, WireType', Matched, Rank(state) <= Rank(state'), events <= events',
         Admit \/ Audit \/ Deny \/ Created \/ BeginStart \/ Place \/ Launch \/ ReadRun
  PROVE  Matched'
<1>1. CASE Admit \/ Audit \/ Deny
  <2>1. \E r \in handling, step \in Steps : GoOn(r, step)
    BY <1>1 DEF Admit, Audit, Deny, Handler, Steps
  <2> QED BY <2>1, HandlerMatched
<1>2. CASE Created
  <2>1. PICK r \in handling : /\ r.method = "task.create"
                             /\ Answer(r, "ok", [run |-> state, events |-> <<>>])
    BY <1>2 DEF Created, Handler
  <2>2. PICK value : value = [run |-> state, events |-> <<>>]
    OBVIOUS
  <2>3. Fitting(r, value)
    BY <2>1 DEF Fitting, Suits
  <2> QED BY <2>1, <2>2, <2>3, HandlerMatched
<1>3. CASE BeginStart \/ Place \/ Launch
  <2>1. PICK r \in handling :
          /\ r.method = "task.start"
          /\ \/ \E step : GoOn(r, step)
             \/ \E outcome, value : Answer(r, outcome, value)
    BY <1>3 DEF BeginStart, Place, Launch, Handler
  <2>2. \A value : Fitting(r, value)
    BY <2>1 DEF Fitting, Suits
  <2> QED BY <2>1, <2>2, HandlerMatched
<1>4. CASE ReadRun
  <2>0. PICK r \in handling :
          /\ r.method \in {"task.status", "task.events"}
          /\ \E value :
               /\ Answer(r, "ok", value)
               /\ value.run = IF r.method = "task.status" THEN state ELSE "none"
               /\ value.events = IF r.method = "task.events" THEN readEvents(r.since, PageSize)
                                                            ELSE <<>>
    BY <1>4 DEF ReadRun
  <2>1. PICK value :
          /\ Answer(r, "ok", value)
          /\ value.run = IF r.method = "task.status" THEN state ELSE "none"
          /\ value.events = IF r.method = "task.events" THEN readEvents(r.since, PageSize)
                                                       ELSE <<>>
    BY <2>0
  <2>2. r.since \in Int /\ events \in Nat /\ PageSize \in Nat
    <3>1. \A s \in Since : s \in Int
      BY DEF Since
    <3> QED BY <3>1, FeedAssumption DEF WireType, ServerType, ViewType, Requests
  <2>3. Fitting(r, value)
    <3> SUFFICES ASSUME NEW c \in Calls, c.method = r.method, c.since = r.since,
                        c.asked.events <= events, Rank(c.asked.run) <= Rank(state)
                 PROVE  Suits(c, value)
      BY DEF Fitting
    <3>1. CASE r.method = "task.status"
      BY <2>0, <2>1, <3>1 DEF Suits
    <3>2. CASE r.method = "task.events"
      <4>1. PICK found \in Int : found = events - 1 - r.since
        BY <2>2
      <4>2. PICK n \in Int : n = IF found < PageSize THEN found ELSE PageSize
        BY <2>2
      <4>3. value.events = [i \in 1 .. n |-> r.since + i]
        BY <2>0, <2>1, <3>2, <4>1, <4>2 DEF readEvents
      <4>4. \A i \in DOMAIN value.events : value.events[i] = c.since + i
        BY <4>3
      <4>5. Len(value.events) >= n
        <5>1. CASE n \in Nat
          BY <4>3, <5>1
        <5>2. CASE n \notin Nat
          <6>1. value.events = <<>>
            BY <4>3, <5>2
          <6> QED BY <5>2, <6>1
        <5> QED BY <5>1, <5>2
      <4>6. c.asked.events \in Nat
        BY DEF Calls
      <4>7. PICK due \in Int : due = c.asked.events - 1 - c.since
        BY <2>2, <4>6
      <4>8. due <= found
        BY <2>2, <4>1, <4>6, <4>7
      <4>9. Len(value.events) >= IF due < PageSize THEN due ELSE PageSize
        <5>1. Len(value.events) \in Int
          <6>1. value.events \in Pages
            BY <2>0, <2>1, <3>2, PageType DEF WireType, ServerType, ViewType, Requests
          <6> QED BY <6>1, PagesAreInts
        <5> QED BY <2>2, <4>2, <4>5, <4>8, <5>1
      <4> QED BY <3>2, <4>4, <4>7, <4>9 DEF Suits
    <3> QED BY <2>0, <2>1, <3>1, <3>2
  <2> QED BY <2>0, <2>1, <2>3, HandlerMatched
<1> QED BY <1>1, <1>2, <1>3, <1>4

LEMMA MatchedKept ==
  ASSUME WireType, WireType', News, Greeting, Matched, [Next]_vars
  PROVE  Matched'
<1>1. Rank(state) <= Rank(state') /\ events <= events'
  BY RunGetsOn
<1>2. CASE UNCHANGED vars \/ RunAdvances \/ LayOut \/ BeginFollow \/ Abort \/ Sink \/ Logs
  <2>1. UNCHANGED rpc
    BY <1>2 DEF vars, RunAdvances, LayOut, BeginFollow, Abort, Sink, Logs
  <2>2. UNCHANGED <<link, requests, handling, replies, calls, nextId>>
    BY <2>1 DEF rpc, server, client
  <2> QED BY <1>1, <2>2, WireStays, CallsStay, MatchedFrame DEF Matched
<1> QED BY <1>1, <1>2, TransportMatched, LifeMatched, AskingMatched, HandlersMatched DEF Next

(* However answers overtake each other, come late or come after a timeout,  *)
(* each call that is answered has its own answer: a status no older than    *)
(* the question, or the page it asked for without a gap (pending and Deliver*)
(* in the client, dispatch in the server, readEvents in the store).         *)
THEOREM AnswersAreFresh == Spec => []FreshAnswers
<1>1. Init => WireType /\ News /\ Greeting /\ Matched
  BY WireTypeInit, NewsInit, GreetingInit, MatchedInit
<1>2. WireType /\ News /\ Greeting /\ Matched /\ [Next]_vars
        => (WireType /\ News /\ Greeting /\ Matched)'
  BY WireTypeKept, NewsKept, GreetingKept, MatchedKept
<1>3. Matched => FreshAnswers
  BY DEF Matched, FreshAnswers, Suits
<1> QED BY <1>1, <1>2, <1>3, PTL DEF Spec

-----------------------------------------------------------------------------
(* The views. *)

(* Pages are asked for by the watch alone, from where it has got to; the one*)
(* being shown goes on from there.                                          *)
Paged ==
  /\ \A id \in DOMAIN calls : calls[id].method = "task.events" =>
       watch = "polling" /\ calls[id].since = since
  /\ watch = "off" => since = -1 /\ counted = 0
  /\ watch \in {"polling", "pausing", "over"} => counted = since + 1
  /\ watch \in {"publishing", "notifying"} =>
       /\ counted = since + 1 + Len(shown.events)
       /\ \A i \in DOMAIN shown.events : shown.events[i] = since + i

LEMMA PagedInit == Init => Paged
<1> SUFFICES ASSUME Init PROVE Paged
  OBVIOUS
<1>1. calls = <<>> /\ watch = "off" /\ since = -1 /\ counted = 0
  BY DEF Init, RpcInit, ProjectionInit
<1> QED BY <1>1 DEF Paged

(* Other calls come and go, or are settled.                                 *)
LEMMA PagesStay ==
  ASSUME WireType, Paged, UNCHANGED <<watch, since, shown, counted>>,
         \A id \in DOMAIN calls' :
           \/ id \in DOMAIN calls /\ Same(calls[id], calls'[id])
           \/ calls'[id].method # "task.events"
  PROVE  Paged'
BY DEF Paged, Same

LEMMA CallDoes ==
  ASSUME WireType, NEW methods \in Seq(Methods), NEW s \in Int, NEW asked, Call(methods, s, asked)
  PROVE  \A id \in DOMAIN calls' :
           \/ id \in Waiting /\ calls'[id] = calls[id]
           \/ /\ id >= nextId /\ calls'[id].outcome = "waiting"
              /\ \E i \in DOMAIN methods : calls'[id].method = methods[i] /\ calls'[id].since = s
<1> DEFINE new == {nextId + i - 1 : i \in DOMAIN methods}
<1>1. calls' = [id \in Waiting \cup new |->
                  IF id \in Waiting THEN calls[id]
                  ELSE NewCall(methods[id - nextId + 1], s, asked)]
  BY DEF Call
<1>2. DOMAIN calls' = Waiting \cup new
  BY <1>1
<1>3. \A id \in new : id - nextId + 1 \in DOMAIN methods /\ id >= nextId
  BY DEF WireType, ClientType
<1>4. ASSUME NEW id \in DOMAIN calls', id \notin Waiting
      PROVE  /\ id >= nextId /\ calls'[id].outcome = "waiting"
             /\ \E i \in DOMAIN methods : calls'[id].method = methods[i] /\ calls'[id].since = s
  <2>1. calls'[id] = NewCall(methods[id - nextId + 1], s, asked) /\ id \in new
    BY <1>1, <1>2, <1>4
  <2> QED BY <1>3, <2>1 DEF NewCall
<1> QED BY <1>1, <1>2, <1>4

LEMMA PollPaged ==
  ASSUME WireType, Paged, Poll
  PROVE  Paged'
<1>1. /\ watch = "pausing" /\ watch' = "polling" /\ UNCHANGED <<since, shown, counted>>
      /\ Call(<<"task.status", "task.events">>, since, Now)
  BY DEF Poll
<1>2. <<"task.status", "task.events">> \in Seq(Methods) /\ since \in Int
  BY DEF Methods, WireType, ViewType
<1>3. ASSUME NEW id \in DOMAIN calls', calls'[id].method = "task.events"
      PROVE  calls'[id].since = since
  <2>1. \A other \in DOMAIN calls : calls[other].method # "task.events"
    BY <1>1 DEF Paged
  <2>2. PICK c : c = calls'[id]
    OBVIOUS
  <2>3. (id \in Waiting /\ c = calls[id]) \/ c.since = since
    <3>1. PICK s, asked : s = since /\ asked = Now
      OBVIOUS
    <3>2. Call(<<"task.status", "task.events">>, s, asked)
      BY <1>1, <3>1
    <3> QED BY <1>2, <1>3, <2>2, <3>1, <3>2, CallDoes
  <2> QED BY <1>3, <2>1, <2>2, <2>3 DEF Waiting
<1> QED BY <1>1, <1>3 DEF Paged

LEMMA SnapshotPaged ==
  ASSUME WireType, Matched, Paged, TakeSnapshot
  PROVE  Paged'
<1>1. watch = "polling" /\ calls' = <<>> /\ UNCHANGED since
  BY DEF TakeSnapshot, Publish, EndWatch
<1>2. CASE EndWatch
  BY <1>1, <1>2 DEF EndWatch, Paged
<1>3. CASE ~EndWatch
  <2>1. PICK s, e \in DOMAIN calls :
          /\ calls[e].method = "task.events" /\ calls[e].outcome = "ok"
          /\ Publish(calls[s].value.run, calls[e].value.events)
    BY <1>3 DEF TakeSnapshot
  <2>2. PICK c, page : c = calls[e] /\ page = c.value.events
    OBVIOUS
  <2>3. Suits(c, c.value) /\ c.method = "task.events" /\ c.since = since
    BY <2>1, <2>2 DEF Matched, Paged
  <2>4. \A i \in DOMAIN page : page[i] = since + i
    BY <2>2, <2>3 DEF Suits
  <2>5. /\ watch' = "publishing" /\ shown'.events = page /\ counted' = counted + Len(page)
    BY <2>1, <2>2 DEF Publish
  <2>6. Len(page) \in Nat /\ since \in Int
    <3>1. c \in Calls
      BY <2>2 DEF WireType, ClientType
    <3>2. page \in Seq(Int)
      BY <2>2, <3>1, PagesAreInts DEF Calls, Values
    <3> QED BY <3>2 DEF WireType, ViewType
  <2>7. counted = since + 1
    BY <1>1 DEF Paged
  <2> QED BY <1>1, <2>4, <2>5, <2>6, <2>7 DEF Paged
<1> QED BY <1>2, <1>3

LEMMA SinkPaged ==
  ASSUME WireType, Paged, Sink
  PROVE  Paged'
<1>1. watch \in {"publishing", "notifying"} /\ UNCHANGED <<counted, calls>>
  BY DEF Sink, SinkStep, SinkFails, rpc, client
<1>2. \A id \in DOMAIN calls : calls[id].method # "task.events"
  BY <1>1 DEF Paged
<1>3. CASE Advance
  <2>1. PICK page \in Seq(Int) : page = shown.events
    BY PagesAreInts DEF WireType, ViewType, Values
  <2>2. /\ since \in Int /\ counted = since + 1 + Len(page)
        /\ \A i \in DOMAIN page : page[i] = since + i
    BY <1>1, <2>1 DEF Paged, WireType, ViewType
  <2>3. /\ since' = IF page = <<>> THEN since ELSE page[Len(page)]
        /\ watch' \in {"over", "pausing"}
    BY <1>3, <2>1 DEF Advance
  <2>4. since' = since + Len(page)
    <3>1. CASE page = <<>>
      BY <2>2, <2>3, <3>1
    <3>2. CASE page # <<>>
      <4>1. Len(page) \in DOMAIN page
        BY <2>1, <3>2
      <4> QED BY <2>2, <2>3, <3>2, <4>1
    <3> QED BY <3>1, <3>2
  <2>5. counted' = since' + 1
    <3>1. Len(page) \in Nat /\ counted' = counted
      BY <1>1, <2>1
    <3> QED BY <2>2, <2>4, <3>1
  <2> QED BY <1>1, <1>2, <2>3, <2>5 DEF Paged
<1>4. CASE ~Advance
  <2>1. watch = "publishing" /\ watch' = "notifying" /\ UNCHANGED <<since, shown>>
    BY <1>4 DEF Sink, SinkStep, SinkFails
  <2> QED BY <1>1, <1>2, <2>1 DEF Paged
<1> QED BY <1>3, <1>4

LEMMA AskedPaged ==
  ASSUME WireType, Paged, UNCHANGED <<watch, since, shown, counted>>,
         (\E t \in Tasks : AskCreate(t)) \/ AskStart \/ Started
  PROVE  Paged'
<1>1. <<"task.create">> \in Seq(Methods) /\ <<"task.start">> \in Seq(Methods) /\ -1 \in Int
  BY DEF Methods
<1>2. ASSUME NEW method \in {"task.create", "task.start"}, Call(<<method>>, -1, Now)
      PROVE  Paged'
  <2>1. <<method>> \in Seq(Methods)
    BY <1>2 DEF Methods
  <2>2. ASSUME NEW id \in DOMAIN calls'
        PROVE  \/ id \in DOMAIN calls /\ Same(calls[id], calls'[id])
               \/ calls'[id].method # "task.events"
    <3>0. PICK methods, asked : methods = <<method>> /\ asked = Now
      OBVIOUS
    <3>1. methods \in Seq(Methods) /\ Call(methods, -1, asked)
      BY <1>2, <2>1, <3>0
    <3>2. \/ id \in Waiting /\ calls'[id] = calls[id]
          \/ \E i \in DOMAIN methods : calls'[id].method = methods[i]
      BY <1>1, <2>2, <3>1, CallDoes
    <3>3. \A i \in DOMAIN methods : methods[i] = method
      BY <3>0
    <3>4. method # "task.events"
      BY <1>2
    <3> QED BY <3>2, <3>3, <3>4 DEF Waiting, Same
  <2> QED BY <2>2, PagesStay
<1>3. ASSUME NEW ids, calls' = Without(ids) PROVE Paged'
  <2>1. \A id \in DOMAIN calls' : id \in DOMAIN calls /\ Same(calls[id], calls'[id])
    BY <1>3 DEF Without, Same
  <2> QED BY <2>1, PagesStay
<1> QED BY <1>2, <1>3 DEF AskCreate, AskStart, Started

LEMMA CarriedPaged ==
  ASSUME WireType, Matched, Paged, Transport
  PROVE  Paged'
<1>1. UNCHANGED <<watch, since, shown, counted>>
  BY DEF Transport, projection, viewer
<1>2. ASSUME NEW id \in DOMAIN calls'
      PROVE  \/ id \in DOMAIN calls /\ Same(calls[id], calls'[id])
             \/ calls'[id].method # "task.events"
  <2>0. calls \in [DOMAIN calls -> Calls]
    BY DEF WireType, ClientType
  <2>1. CASE ReadToken \/ Dispatch
    BY <1>2, <2>1 DEF ReadToken, Dispatch, client, Same
  <2>2. CASE Connect(Now)
    <3>1. CASE UNCHANGED calls
      BY <1>2, <3>1 DEF Same
    <3>2. CASE calls' = [other \in {1} |-> NewCall("daemon.hello", presented, Now)]
      <4>1. calls'[id] = NewCall("daemon.hello", presented, Now)
        BY <1>2, <3>2
      <4> QED BY <4>1 DEF NewCall
    <3> QED BY <2>2, <3>1, <3>2 DEF Connect
  <2>3. CASE Greeted
    BY <1>2, <2>3 DEF Greeted, Without, Same
  <2>4. CASE Deliver
    <3>1. CASE UNCHANGED calls
      BY <1>2, <3>1 DEF Same
    <3>2. CASE \E other, reply : calls' = Answered(other, reply)
      <4>1. PICK other, reply : calls' = Answered(other, reply)
        BY <3>2
      <4>2. id \in DOMAIN calls /\ calls[id] \in Calls
        BY <1>2, <2>0, <4>1 DEF Answered
      <4> QED BY <4>1, <4>2 DEF Answered, Same, Calls
    <3> QED BY <2>4, <3>1, <3>2 DEF Deliver
  <2>5. CASE DeliverTooLarge \/ SeeClose \/ \E other \in Waiting : Expire(other)
    <3>1. PICK ids : calls' = SettleAs(ids, "lost")
      BY <2>5 DEF DeliverTooLarge, SeeClose, Expire
    <3>2. id \in DOMAIN calls /\ calls[id] \in Calls
      BY <1>2, <2>0, <3>1 DEF SettleAs
    <3> QED BY <3>1, <3>2 DEF SettleAs, Same, Calls
  <2> QED BY <2>1, <2>2, <2>3, <2>4, <2>5 DEF Transport
<1> QED BY <1>1, <1>2, PagesStay

LEMMA PagedKept ==
  ASSUME WireType, Matched, Paged, [Next]_vars
  PROVE  Paged'
<1>1. ASSUME UNCHANGED <<watch, since, shown, counted, calls>> PROVE Paged'
  <2>1. \A id \in DOMAIN calls' : id \in DOMAIN calls /\ Same(calls[id], calls'[id])
    BY <1>1 DEF Same
  <2> QED BY <1>1, <2>1, PagesStay
<1>2. CASE Reactivate
  <2>1. /\ watch' = "off" /\ since' = -1 /\ counted' = 0 /\ DOMAIN calls' = {}
    BY <1>2 DEF Reactivate, Dispose, ForgetWatch
  <2> QED BY <2>1 DEF Paged
<1>3. CASE (\E t \in Tasks : AskCreate(t)) \/ AskStart \/ Started
  <2>1. UNCHANGED <<watch, since, shown, counted>>
    BY <1>3 DEF AskCreate, AskStart, Started, projection, viewer
  <2> QED BY <1>3, <2>1, AskedPaged
<1>4. CASE Admit \/ Audit \/ Deny \/ Created \/ BeginStart \/ Place \/ Launch \/ ReadRun
  <2>1. UNCHANGED <<calls, viewer>>
    BY <1>4 DEF Admit, Audit, Deny, Created, BeginStart, Place, Launch, ReadRun, Answer, GoOn,
                client, projection
  <2> QED BY <1>1, <2>1 DEF viewer
<1>5. CASE RunAdvances \/ LayOut \/ Logs \/ Shutdown \/ Boot \/ UNCHANGED vars
  <2>1. UNCHANGED <<calls, viewer>>
    BY <1>5 DEF RunAdvances, LayOut, Logs, Shutdown, StopAccepting, CloseServer, Exit, Boot,
                Restart, rpc, client, projection, vars
  <2> QED BY <1>1, <2>1 DEF viewer
<1>6. CASE BeginFollow \/ Abort
  <2>1. /\ UNCHANGED <<calls, since, shown, counted>>
        /\ \/ watch = "off" /\ watch' = "pausing"
           \/ watch = "pausing" /\ watch' = "over"
    BY <1>6 DEF BeginFollow, Follow, Abort, EndWatch, rpc, client
  <2> QED BY <2>1 DEF Paged
<1> QED BY <1>2, <1>3, <1>4, <1>5, <1>6, CarriedPaged, PollPaged, SnapshotPaged, SinkPaged
        DEF Next

(* The tail prints from the last it has printed.                            *)
Tailed ==
  /\ printed \in Seq(Int)
  /\ printed = [i \in 1 .. Len(printed) |-> i - 1] /\ Len(printed) <= events

LEMMA TailedInit == Init => Tailed
<1> SUFFICES ASSUME Init PROVE Tailed
  OBVIOUS
<1>1. printed = <<>> /\ events = 0
  BY DEF Init, FeedInit, ProjectionInit
<1> QED BY <1>1 DEF Tailed

LEMMA PrintedType ==
  ASSUME Tailed, events \in 0 .. MaxEvents, MaxEvents \in Nat
  PROVE  printed \in Seq(0 .. MaxEvents)
<1>1. PICK n \in Nat : n = Len(printed)
  <2>1. printed \in Seq(Int)
    BY DEF Tailed
  <2> QED BY <2>1
<1>2. printed = [i \in 1 .. n |-> i - 1] /\ n <= events
  BY <1>1 DEF Tailed
<1>3. \A i \in 1 .. n : i - 1 \in 0 .. MaxEvents
  BY <1>2
<1> QED BY <1>2, <1>3

LEMMA TailReadsOn ==
  ASSUME WireType, Tailed, TailReads, UNCHANGED events
  PROVE  Tailed'
<1>0. printed \in Seq(Int) /\ Len(printed) \in Nat
  <2>1. printed \in Seq(Int)
    BY DEF Tailed
  <2> QED BY <2>1
<1>1. PICK last \in Int : last = Len(printed) - 1
  BY <1>0
<1>2. last = IF printed = <<>> THEN -1 ELSE printed[Len(printed)]
  BY <1>1 DEF Tailed
<1>3. PICK page : page = readEvents(last, MaxEvents) /\ printed' = printed \o page
  BY <1>2 DEF TailReads
<1>4. MaxEvents \in Nat /\ events \in Nat
  BY FeedAssumption DEF WireType, ViewType
<1>5. PICK n \in Int : n = IF events - 1 - last < MaxEvents THEN events - 1 - last ELSE MaxEvents
  BY <1>1, <1>4
<1>6. page = [i \in 1 .. n |-> last + i] /\ n \in Nat
  BY <1>0, <1>1, <1>3, <1>4, <1>5 DEF readEvents, Tailed
<1>7. page \in Seq(Int) /\ Len(page) = n /\ n <= events - 1 - last
  BY <1>1, <1>4, <1>5, <1>6
<1>8. printed' \in Seq(Int) /\ Len(printed') = Len(printed) + n
  <2>1. PICK before \in Seq(Int) : before = printed
    BY <1>0
  <2>2. before \o page \in Seq(Int) /\ Len(before \o page) = Len(before) + Len(page)
    BY <1>7
  <2> QED BY <1>3, <1>7, <2>1, <2>2
<1>9. \A i \in 1 .. Len(printed') : printed'[i] = i - 1
  <2> SUFFICES ASSUME NEW i \in 1 .. Len(printed') PROVE printed'[i] = i - 1
    OBVIOUS
  <2>1. printed \in Seq(Int) /\ Len(printed) \in Nat
    BY DEF Tailed
  <2>2. CASE i <= Len(printed)
    BY <1>3, <1>7, <1>8, <2>1, <2>2 DEF Tailed
  <2>3. CASE i > Len(printed)
    <3>1. i - Len(printed) \in 1 .. n
      BY <1>6, <1>8, <2>1, <2>3
    <3>2. printed'[i] = page[i - Len(printed)]
      BY <1>3, <1>6, <1>7, <1>8, <2>1, <2>3
    <3> QED BY <1>1, <1>6, <2>1, <3>1, <3>2
  <2> QED BY <2>1, <2>2, <2>3
<1> QED BY <1>1, <1>4, <1>7, <1>8, <1>9 DEF Tailed

LEMMA TailedKept ==
  ASSUME WireType, News, Tailed, [Next]_vars
  PROVE  Tailed'
<1>1. events <= events' /\ events \in Nat /\ events' \in Int
  BY RunGetsOn, WireTypeKept DEF WireType, ViewType
<1>2. CASE Logs
  <2>1. UNCHANGED events
    BY <1>2 DEF Logs, feed
  <2> QED BY <1>2, <2>1, TailReadsOn DEF Logs, TailChecks, Tailed
<1>3. CASE ~Logs
  <2>1. UNCHANGED printed
    <3>1. CASE Transport \/ Reactivate \/ AskStart \/ Started \/ Shutdown \/ Boot
      BY <3>1 DEF Transport, Reactivate, AskStart, Started, Shutdown, Boot, projection, logs
    <3>2. CASE (\E t \in Tasks : AskCreate(t)) \/ Admit \/ Audit \/ Deny \/ Created
      BY <3>2 DEF AskCreate, Admit, Audit, Deny, Created, projection, logs
    <3>3. CASE BeginStart \/ Place \/ Launch \/ RunAdvances \/ ReadRun
      BY <3>3 DEF BeginStart, Place, Launch, RunAdvances, ReadRun, projection, logs
    <3>4. CASE LayOut \/ BeginFollow \/ Poll \/ TakeSnapshot \/ Abort \/ Sink \/ UNCHANGED vars
      BY <3>4 DEF LayOut, BeginFollow, Poll, TakeSnapshot, Abort, Sink, vars, projection, logs
    <3> QED BY <1>3, <3>1, <3>2, <3>3, <3>4 DEF Next
  <2>2. Len(printed) \in Int
    BY DEF Tailed
  <2> QED BY <1>1, <2>1, <2>2 DEF Tailed
<1> QED BY <1>2, <1>3

(* A watch has shown each event up to where it has got to once, and the tail*)
(* prints each event once and in order, however answers are lost or late,   *)
(* the daemon restarts and the session follows again (watch, commandLogs).  *)
THEOREM ViewsAgree == Spec => []ViewsAreFaithful
<1>1. Init => WireType /\ News /\ Greeting /\ Matched /\ Paged /\ Tailed
  BY WireTypeInit, NewsInit, GreetingInit, MatchedInit, PagedInit, TailedInit
<1>2. WireType /\ News /\ Greeting /\ Matched /\ Paged /\ Tailed /\ [Next]_vars
        => (WireType /\ News /\ Greeting /\ Matched /\ Paged /\ Tailed)'
  BY WireTypeKept, NewsKept, GreetingKept, MatchedKept, PagedKept, TailedKept
<1>3. Paged /\ Tailed => ViewsAreFaithful
  BY DEF Paged, Tailed, ViewsAreFaithful
<1> QED BY <1>1, <1>2, <1>3, PTL DEF Spec

-----------------------------------------------------------------------------
(* The session has one task. *)

Creates(r) == r.method = "task.create"
Creating == \E r \in Wire : Creates(r)

(* The task was created and nothing was held against it.                    *)
Granted == ~Creating /\ denial = "default"

(* The request to create it is under way at most once, until it is answered,*)
(* and a start is asked for after that only, of a task that was admitted.   *)
Sole ==
  /\ \A i, j \in DOMAIN requests : Creates(requests[i]) /\ Creates(requests[j]) => i = j
  /\ \A i \in DOMAIN requests, r \in handling : ~(Creates(requests[i]) /\ Creates(r))
  /\ \A r, q \in handling : Creates(r) /\ Creates(q) => r = q
  /\ session = "idle" => ~Creating /\ \A id \in DOMAIN calls : ~Creates(calls[id])
  /\ \A id \in DOMAIN calls : Creates(calls[id]) /\ calls[id].outcome = "ok" => Granted
  /\ \A i \in DOMAIN replies, id \in Waiting :
       replies[i].outcome = "ok" /\ replies[i].id = id /\ Creates(calls[id]) => Granted
  /\ session \in {"starting", "ready"} => Granted
  /\ (\E r \in Wire : r.method = "task.start") => session \in {"starting", "ready"}

LEMMA SoleInit == Init => Sole
<1> SUFFICES ASSUME Init PROVE Sole
  OBVIOUS
<1>1. replies = <<>> /\ requests = <<>> /\ handling = {} /\ calls = <<>> /\ session = "idle"
  BY DEF Init, RpcInit
<1>2. Wire = {} /\ DOMAIN requests = {} /\ DOMAIN replies = {} /\ DOMAIN calls = {}
  BY <1>1 DEF Wire
<1> QED BY <1>1, <1>2 DEF Sole, Creating

(* The daemon's side of the wire. *)
Handled ==
  /\ \A h \in handling' : \E g \in handling : h.method = g.method
  /\ \A h, k \in handling' : Creates(h) /\ Creates(k) => h = k

LEMMA HandledSole ==
  ASSUME WireType, Sole,
         \/ handling' = handling \/ handling' = {} \/ handling' = Unheard
         \/ \E r \in handling : \/ \E step : GoOn(r, step)
                                \/ \E outcome, value : Answer(r, outcome, value)
  PROVE  Handled
<1>0. handling \subseteq Requests
  BY DEF WireType, ServerType
<1>1. CASE handling' = handling \/ handling' = {}
  BY <1>1 DEF Sole, Handled
<1>2. CASE handling' = Unheard
  <2>1. \A h \in handling' : \E g \in handling : h = [g EXCEPT !.id = 0] /\ h.method = g.method
    BY <1>0, <1>2 DEF Unheard, Requests
  <2> QED BY <2>1 DEF Sole, Handled, Creates
<1>3. ASSUME NEW r \in handling, NEW step, GoOn(r, step) PROVE Handled
  <2>1. handling' = (handling \ {r}) \cup {[r EXCEPT !.step = step]}
    BY <1>3 DEF GoOn
  <2>2. [r EXCEPT !.step = step].method = r.method
    BY <1>0 DEF Requests
  <2> QED BY <2>1, <2>2 DEF Sole, Handled, Creates
<1>4. ASSUME NEW r \in handling, NEW outcome, NEW value, Answer(r, outcome, value) PROVE Handled
  BY <1>4 DEF Answer, Sole, Handled
<1> QED BY <1>1, <1>2, <1>3, <1>4

(* What happens on the wire without a new request, and to the calls without *)
(* a new call.                                                              *)
LEMMA SoleFrame ==
  ASSUME WireType, Sole, Handled, UNCHANGED session, denial' \in {denial, "default"},
         requests' = requests \/ requests' = <<>>,
         \A i \in DOMAIN replies' :
           \/ \E j \in DOMAIN replies : replies'[i] = replies[j]
           \/ replies'[i].outcome # "ok"
           \/ \A id \in Waiting : replies'[i].id = id => ~Creates(calls[id])
           \/ Granted',
         \A id \in DOMAIN calls' :
           \/ ~Creates(calls'[id])
           \/ /\ id \in DOMAIN calls /\ Same(calls[id], calls'[id])
              /\ calls'[id].outcome = "waiting" => calls[id].outcome = "waiting"
              /\ calls'[id].outcome = "ok" =>
                   \/ calls[id].outcome = "ok"
                   \/ /\ id \in Waiting
                      /\ \E j \in DOMAIN replies : replies[j].outcome = "ok" /\ replies[j].id = id
  PROVE  Sole'
<1>1. \A r \in Wire' : \E g \in Wire : r.method = g.method
  BY DEF Wire, Handled
<1>2. (Creating' => Creating) /\ (Granted => Granted')
  BY <1>1 DEF Creating, Creates, Granted
<1>3. \A id \in DOMAIN calls' : Creates(calls'[id]) => id \in DOMAIN calls /\ Creates(calls[id])
  BY DEF Creates, Same
<1>4. ASSUME NEW id \in DOMAIN calls', Creates(calls'[id]), calls'[id].outcome = "ok"
      PROVE  Granted
  BY <1>3, <1>4 DEF Sole
<1>5. ASSUME NEW i \in DOMAIN replies', NEW id \in Waiting',
             replies'[i].outcome = "ok", replies'[i].id = id, Creates(calls'[id])
      PROVE  Granted'
  <2>1. id \in Waiting /\ Creates(calls[id])
    BY <1>3, <1>5 DEF Waiting
  <2> QED BY <1>2, <1>5, <2>1 DEF Sole
<1>6. /\ \A i, j \in DOMAIN requests' : Creates(requests'[i]) /\ Creates(requests'[j]) => i = j
      /\ \A i \in DOMAIN requests', r \in handling' : ~(Creates(requests'[i]) /\ Creates(r))
  BY DEF Sole, Handled, Creates
<1>7. (\E r \in Wire' : r.method = "task.start") => session \in {"starting", "ready"}
  BY <1>1 DEF Sole
<1>8. session = "idle" => ~Creating' /\ \A id \in DOMAIN calls' : ~Creates(calls'[id])
  BY <1>2, <1>3 DEF Sole
<1> QED BY <1>2, <1>4, <1>5, <1>6, <1>7, <1>8 DEF Sole, Handled

LEMMA CallSends ==
  ASSUME WireType, NEW methods \in Seq(Methods), NEW s \in Int, NEW asked, Call(methods, s, asked)
  PROVE  /\ \A i \in DOMAIN requests' :
              \/ i \in DOMAIN requests /\ requests'[i] = requests[i]
              \/ /\ i - Len(requests) \in DOMAIN methods /\ i \in Int
                 /\ requests'[i].method = methods[i - Len(requests)] /\ requests'[i].step = "begin"
         /\ UNCHANGED <<handling, replies>>
<1>0. /\ nextId \in Nat /\ Len(methods) \in Nat /\ DOMAIN methods = 1 .. Len(methods)
      /\ requests \in Seq(Requests)
  BY DEF WireType, ServerType, ClientType
<1> DEFINE new == [i \in DOMAIN methods |-> Request(nextId + i - 1, methods[i], s)]
<1>1. CASE requests' = requests \o new
  <2>1. DOMAIN new = 1 .. Len(methods) /\ new \in Seq({new[j] : j \in DOMAIN new})
        /\ Len(new) = Len(methods)
    BY <1>0
  <2>2. \A j \in DOMAIN new : new[j].method = methods[j] /\ new[j].step = "begin"
    BY DEF Request
  <2> HIDE DEF new
  <2>3. \A i \in DOMAIN requests' :
          \/ i \in DOMAIN requests /\ requests'[i] = requests[i]
          \/ i - Len(requests) \in DOMAIN new /\ i \in Int /\ requests'[i] = new[i - Len(requests)]
    BY <1>0, <1>1, <2>1
  <2> QED BY <1>0, <2>1, <2>2, <2>3 DEF Call
<1> QED BY <1>1 DEF Call

(* A call is sent once or not at all.                                       *)
LEMMA CallSole ==
  ASSUME WireType, Matched, Sole, UNCHANGED denial,
         NEW methods \in Seq(Methods), NEW s \in Int, NEW asked, Call(methods, s, asked),
         \A i, j \in DOMAIN methods : methods[i] = "task.create" => i = j /\ session = "idle",
         (\E i \in DOMAIN methods : methods[i] = "task.start") => session' \in {"starting", "ready"},
         session \in {"starting", "ready"} => session' \in {"starting", "ready"},
         session' \in {"starting", "ready"} =>
           Granted /\ \A i \in DOMAIN methods : methods[i] # "task.create",
         session' # "idle" \/ (session = "idle" /\ \A i \in DOMAIN methods : methods[i] # "task.create")
  PROVE  Sole'
<1>1. /\ \A i \in DOMAIN requests' :
           \/ i \in DOMAIN requests /\ requests'[i] = requests[i]
           \/ /\ i - Len(requests) \in DOMAIN methods /\ i \in Int
              /\ requests'[i].method = methods[i - Len(requests)] /\ requests'[i].step = "begin"
      /\ UNCHANGED <<handling, replies>>
  BY CallSends
<1>2. Len(requests) \in Nat /\ DOMAIN calls \in SUBSET Nat /\ nextId \in Nat
      /\ \A i \in DOMAIN replies : replies[i].id \in Nat
  <2>1. requests \in Seq(Requests) /\ \A i \in DOMAIN replies : replies[i] \in Replies
    BY DEF WireType, ServerType, ClientType
  <2> QED BY <2>1 DEF WireType, ClientType, Replies
<1>3. \A id \in DOMAIN calls' :
        \/ id \in Waiting /\ calls'[id] = calls[id]
        \/ /\ id >= nextId /\ calls'[id].outcome = "waiting"
           /\ \E i \in DOMAIN methods : calls'[id].method = methods[i]
  BY CallDoes
<1>4. \A id \in DOMAIN calls' : calls'[id].outcome = "waiting"
  BY <1>3 DEF Waiting
<1>5. ASSUME NEW i \in DOMAIN replies', NEW id \in Waiting',
             replies'[i].outcome = "ok", replies'[i].id = id, Creates(calls'[id])
      PROVE  Granted /\ session # "idle"
  <2>1. i \in DOMAIN replies /\ replies[i].id = id /\ replies[i].outcome = "ok" /\ id < nextId
        /\ id \in Nat
    BY <1>1, <1>2, <1>5 DEF Matched
  <2>2. id \in DOMAIN calls'
    BY <1>5 DEF Waiting
  <2>3. id \in Waiting /\ calls'[id] = calls[id]
    BY <1>2, <1>3, <2>1, <2>2
  <2>4. Creates(calls[id])
    BY <1>5, <2>3 DEF Creates
  <2> QED BY <2>1, <2>3, <2>4 DEF Sole, Waiting
<1>6. \A r \in Wire' : \/ r \in Wire
                       \/ \E i \in DOMAIN methods : r.method = methods[i]
  BY <1>1 DEF Wire
<1>7. Creating' => Creating \/ session = "idle"
  BY <1>6 DEF Creating, Creates
<1>8. session = "idle" => ~Creating
  BY DEF Sole
<1>9. \A i, j \in DOMAIN requests' : Creates(requests'[i]) /\ Creates(requests'[j]) => i = j
  <2> SUFFICES ASSUME NEW i \in DOMAIN requests', NEW j \in DOMAIN requests',
                      requests'[i].method = "task.create", requests'[j].method = "task.create"
               PROVE  i = j
    BY DEF Creates
  <2>1. \A k \in DOMAIN requests : requests[k].method = "task.create" => session # "idle"
    BY <1>8 DEF Creating, Creates, Wire
  <2>2. \A k, l \in DOMAIN requests :
          requests[k].method = "task.create" /\ requests[l].method = "task.create" => k = l
    BY DEF Sole, Creates
  <2>3. CASE i \in DOMAIN requests /\ requests'[i] = requests[i]
    BY <1>1, <2>1, <2>2, <2>3
  <2>4. CASE /\ i - Len(requests) \in DOMAIN methods /\ i \in Int
             /\ requests'[i].method = methods[i - Len(requests)]
    <3>1. session = "idle"
      BY <2>4
    <3>2. /\ j - Len(requests) \in DOMAIN methods /\ j \in Int
          /\ requests'[j].method = methods[j - Len(requests)]
      BY <1>1, <2>1, <3>1
    <3>3. i - Len(requests) = j - Len(requests)
      BY <2>4, <3>2
    <3> QED BY <1>2, <2>4, <3>2, <3>3
  <2> QED BY <1>1, <2>3, <2>4
<1>10. \A i \in DOMAIN requests', r \in handling' : ~(Creates(requests'[i]) /\ Creates(r))
  <2> SUFFICES ASSUME NEW i \in DOMAIN requests', NEW r \in handling,
                      requests'[i].method = "task.create", r.method = "task.create"
               PROVE  FALSE
    BY <1>1 DEF Creates
  <2>1. session # "idle"
    BY <1>8 DEF Creating, Creates, Wire
  <2>2. i \in DOMAIN requests /\ requests'[i] = requests[i]
    BY <1>1, <2>1
  <2> QED BY <2>2 DEF Sole, Creates
<1>11. \A r, q \in handling' : Creates(r) /\ Creates(q) => r = q
  BY <1>1 DEF Sole
<1>12. session' = "idle" => ~Creating' /\ \A id \in DOMAIN calls' : ~Creates(calls'[id])
  <2> SUFFICES ASSUME session' = "idle"
               PROVE  ~Creating' /\ \A id \in DOMAIN calls' : ~Creates(calls'[id])
    OBVIOUS
  <2>1. session = "idle" /\ \A i \in DOMAIN methods : methods[i] # "task.create"
    OBVIOUS
  <2>2. ~Creating'
    BY <1>6, <1>8, <2>1 DEF Creating, Creates
  <2>3. \A id \in DOMAIN calls : ~Creates(calls[id])
    BY <2>1 DEF Sole
  <2> QED BY <1>3, <2>1, <2>2, <2>3 DEF Creates, Waiting
<1>13. session' \in {"starting", "ready"} => Granted'
  BY <1>6 DEF Creating, Creates, Granted
<1>14. (\E r \in Wire' : r.method = "task.start") => session' \in {"starting", "ready"}
  BY <1>6 DEF Sole
<1>15. \A i \in DOMAIN replies', id \in Waiting' :
         replies'[i].outcome = "ok" /\ replies'[i].id = id /\ Creates(calls'[id]) => Granted'
  BY <1>5, <1>7 DEF Granted
<1> QED BY <1>4, <1>9, <1>10, <1>11, <1>12, <1>13, <1>14, <1>15 DEF Sole

(* Who is sent an answer had asked for it.                                  *)
LEMMA SentSole ==
  ASSUME WireType, Matched, NEW r \in Wire, NEW outcome, NEW value, Send(r.id, outcome, value),
         outcome = "ok" /\ Creates(r) => Granted'
  PROVE  \A i \in DOMAIN replies' :
           \/ \E j \in DOMAIN replies : replies'[i] = replies[j]
           \/ replies'[i].outcome # "ok"
           \/ \A id \in Waiting : replies'[i].id = id => ~Creates(calls[id])
           \/ Granted'
<1>1. CASE UNCHANGED replies
  BY <1>1
<1>2. CASE replies' = Append(replies, Response(r.id, outcome, value))
  <2>0. PICK new : new = Response(r.id, outcome, value)
    OBVIOUS
  <2>1. \A i \in DOMAIN replies' : \/ i \in DOMAIN replies /\ replies'[i] = replies[i]
                                   \/ replies'[i] = new
    <3>1. replies \in Seq(Replies) /\ replies' = Append(replies, new)
      BY <1>2, <2>0 DEF WireType, ClientType
    <3> QED BY <3>1
  <2>2. new.id = r.id /\ new.outcome = outcome
    BY <2>0 DEF Response
  <2>3. ASSUME NEW id \in Waiting, r.id = id, Creates(calls[id]) PROVE Creates(r)
    BY <2>3 DEF Matched, Asked, Creates
  <2> QED BY <2>1, <2>2, <2>3
<1> QED BY <1>1, <1>2 DEF Send

LEMMA CallsSole ==
  ASSUME WireType,
         \/ UNCHANGED calls \/ calls' = <<>>
         \/ \E ids : calls' = Without(ids)
         \/ \E ids : calls' = SettleAs(ids, "lost")
  PROVE  \A id \in DOMAIN calls' :
           /\ id \in DOMAIN calls /\ Same(calls[id], calls'[id])
           /\ calls'[id].outcome = "waiting" => calls[id].outcome = "waiting"
           /\ calls'[id].outcome = "ok" => calls[id].outcome = "ok"
<1>0. calls \in [DOMAIN calls -> Calls]
  BY DEF WireType, ClientType
<1>1. CASE UNCHANGED calls \/ calls' = <<>>
  BY <1>1 DEF Same
<1>2. ASSUME NEW ids, calls' = Without(ids), NEW id \in DOMAIN calls'
      PROVE  id \in DOMAIN calls /\ calls'[id] = calls[id]
  BY <1>2 DEF Without
<1>3. ASSUME NEW ids, calls' = SettleAs(ids, "lost"), NEW id \in DOMAIN calls'
      PROVE  /\ id \in DOMAIN calls /\ Same(calls[id], calls'[id])
             /\ calls'[id].outcome = "waiting" => calls[id].outcome = "waiting"
             /\ calls'[id].outcome = "ok" => calls[id].outcome = "ok"
  <2>1. id \in DOMAIN calls /\ calls[id] \in Calls
    BY <1>0, <1>3 DEF SettleAs
  <2>2. calls'[id] = calls[id] \/ calls'[id] = [calls[id] EXCEPT !.outcome = "lost"]
    BY <1>3, <2>1 DEF SettleAs
  <2> QED BY <2>1, <2>2 DEF Same, Calls
<1> QED BY <1>1, <1>2, <1>3 DEF Same

LEMMA DispatchSole ==
  ASSUME WireType, Matched, Sole, UNCHANGED <<session, denial>>, Dispatch
  PROVE  Sole'
<1>1. PICK r : r = Head(requests)
  OBVIOUS
<1>2. /\ requests \in Seq(Requests) /\ requests # <<>> /\ requests' = Tail(requests)
      /\ UNCHANGED calls
  BY DEF Dispatch, WireType, ServerType, client
<1>3. /\ r = requests[1] /\ 1 \in DOMAIN requests
      /\ \A i \in DOMAIN requests' : /\ requests'[i] = requests[i + 1] /\ i + 1 \in DOMAIN requests
                                     /\ i \in Nat \ {0}
  BY <1>1, <1>2
<1>4. /\ handling' = handling \/ handling' = handling \cup {r}
      /\ UNCHANGED replies \/ \E outcome : /\ Send(r.id, outcome, NoAnswer)
                                           /\ outcome = "ok" => r.method = "daemon.hello"
  BY <1>1 DEF Dispatch
<1>5. \A g \in Wire' : g \in Wire
  BY <1>3, <1>4 DEF Wire
<1>6. r \in Wire /\ (Creating' => Creating) /\ (Granted => Granted')
  BY <1>3, <1>5 DEF Wire, Creating, Granted
<1>7. \A i \in DOMAIN replies' :
        \/ \E j \in DOMAIN replies : replies'[i] = replies[j]
        \/ replies'[i].outcome # "ok"
        \/ \A id \in Waiting : replies'[i].id = id => ~Creates(calls[id])
        \/ Granted'
  <2>1. CASE UNCHANGED replies
    BY <2>1
  <2>2. CASE ~UNCHANGED replies
    <3>1. PICK outcome : /\ Send(r.id, outcome, NoAnswer)
                         /\ outcome = "ok" => r.method = "daemon.hello"
      BY <1>4, <2>2
    <3> QED BY <1>6, <3>1, SentSole DEF Creates
  <2> QED BY <2>1, <2>2
<1>8. \A i, j \in DOMAIN requests' : Creates(requests'[i]) /\ Creates(requests'[j]) => i = j
  <2> SUFFICES ASSUME NEW i \in DOMAIN requests', NEW j \in DOMAIN requests',
                      Creates(requests'[i]), Creates(requests'[j])
               PROVE  i = j
    OBVIOUS
  <2>1. i + 1 = j + 1 /\ i \in Nat /\ j \in Nat
    BY <1>3 DEF Sole, Creates
  <2> QED BY <2>1
<1>9. \A i \in DOMAIN requests', q \in handling' : ~(Creates(requests'[i]) /\ Creates(q))
  <2> SUFFICES ASSUME NEW i \in DOMAIN requests', NEW q \in handling',
                      Creates(requests'[i]), Creates(q)
               PROVE  FALSE
    OBVIOUS
  <2>1. Creates(requests[i + 1]) /\ i + 1 \in DOMAIN requests /\ i \in Nat \ {0}
    BY <1>3 DEF Creates
  <2>2. q = r
    BY <1>4, <2>1 DEF Sole
  <2>3. i + 1 = 1
    BY <1>3, <2>1, <2>2 DEF Sole
  <2> QED BY <2>1, <2>3
<1>10. \A q, g \in handling' : Creates(q) /\ Creates(g) => q = g
  BY <1>3, <1>4 DEF Sole
<1>11. \A i \in DOMAIN replies', id \in Waiting' :
         replies'[i].outcome = "ok" /\ replies'[i].id = id /\ Creates(calls'[id]) => Granted'
  <2> SUFFICES ASSUME NEW i \in DOMAIN replies', NEW id \in Waiting,
                      replies'[i].outcome = "ok", replies'[i].id = id, Creates(calls[id])
               PROVE  Granted'
    BY <1>2 DEF Waiting, Creates
  <2> QED BY <1>6, <1>7 DEF Sole
<1>12. \A id \in DOMAIN calls' : Creates(calls'[id]) /\ calls'[id].outcome = "ok" => Granted'
  BY <1>2, <1>6 DEF Sole
<1>13. session' = "idle" => ~Creating' /\ \A id \in DOMAIN calls' : ~Creates(calls'[id])
  BY <1>2, <1>6 DEF Sole
<1>14. session' \in {"starting", "ready"} => Granted'
  BY <1>6 DEF Sole
<1>15. (\E q \in Wire' : q.method = "task.start") => session' \in {"starting", "ready"}
  BY <1>5 DEF Sole
<1> QED BY <1>8, <1>9, <1>10, <1>11, <1>12, <1>13, <1>14, <1>15 DEF Sole

LEMMA ConnectSole ==
  ASSUME WireType, Greeting, Matched, Sole, UNCHANGED <<session, denial>>, Connect(Now)
  PROVE  Sole'
<1>1. CASE phase = "serving"
  <2>1. PICK hello : hello = Request(1, "daemon.hello", presented)
    OBVIOUS
  <2>2. /\ link = "none" /\ requests = <<>> /\ requests' = <<hello>>
        /\ calls' = [id \in {1} |-> NewCall("daemon.hello", presented, Now)]
        /\ UNCHANGED <<handling, replies>>
    BY <1>1, <2>1 DEF Connect, Greeting
  <2>3. hello.method = "daemon.hello"
    BY <2>1 DEF Request
  <2>4. \A r \in Wire' : r \in handling \/ r.method = "daemon.hello"
    BY <2>2, <2>3 DEF Wire
  <2>5. Creating' => Creating
    BY <2>4 DEF Creating, Creates, Wire
  <2>6. replies' = <<>>
    BY <2>2 DEF Matched
  <2>7. \A id \in DOMAIN calls' : calls'[id].method = "daemon.hello"
    BY <2>2 DEF NewCall
  <2>8. \A i \in DOMAIN requests' : requests'[i].method = "daemon.hello"
    BY <2>2, <2>3
  <2>9. Granted => Granted'
    BY <2>5 DEF Granted
  <2> QED BY <2>2, <2>4, <2>5, <2>6, <2>7, <2>8, <2>9 DEF Sole, Creates, Wire
<1>2. CASE phase # "serving"
  <2>1. UNCHANGED <<requests, handling, replies, calls>>
    BY <1>2 DEF Connect
  <2> QED BY <2>1, CallsSole, HandledSole, SoleFrame
<1> QED BY <1>1, <1>2

LEMMA TransportSole ==
  ASSUME WireType, Greeting, Matched, Sole, Transport
  PROVE  Sole'
<1>0. UNCHANGED <<session, denial>>
  BY DEF Transport, sessionVars, taskVars
<1>1. CASE ReadToken
  <2>1. UNCHANGED <<requests, handling, replies, calls>>
    BY <1>1 DEF ReadToken, server
  <2> QED BY <1>0, <2>1, CallsSole, HandledSole, SoleFrame
<1>2. CASE Greeted \/ DeliverTooLarge
  <2>1. /\ requests' = requests \/ requests' = <<>>
        /\ handling' = handling \/ handling' = Unheard
        /\ replies' = replies \/ replies' = <<>>
        /\ \/ \E ids : calls' = Without(ids)
           \/ \E ids : calls' = SettleAs(ids, "lost")
    BY <1>2 DEF Greeted, DeliverTooLarge, Hangup
  <2>2. Handled
    BY <2>1, HandledSole
  <2>3. \A i \in DOMAIN replies' : \E j \in DOMAIN replies : replies'[i] = replies[j]
    BY <2>1
  <2> QED BY <1>0, <2>1, <2>2, <2>3, CallsSole, SoleFrame
<1>3. CASE SeeClose \/ \E id \in Waiting : Expire(id)
  <2>1. /\ UNCHANGED <<requests, handling, replies>>
        /\ \E ids : calls' = SettleAs(ids, "lost")
    BY <1>3 DEF SeeClose, Expire, server
  <2> QED BY <1>0, <2>1, CallsSole, HandledSole, SoleFrame
<1>4. CASE Deliver
  <2>1. /\ replies # <<>> /\ replies' = Tail(replies) /\ replies \in Seq(Replies)
        /\ UNCHANGED <<requests, handling>>
    BY <1>4 DEF Deliver, WireType, ClientType, server
  <2>2. PICK reply : reply = Head(replies)
    OBVIOUS
  <2>3. reply = replies[1] /\ 1 \in DOMAIN replies
        /\ \A i \in DOMAIN replies' : \E j \in DOMAIN replies : replies'[i] = replies[j]
    BY <2>1, <2>2
  <2>4. ASSUME NEW id \in DOMAIN calls'
        PROVE  /\ id \in DOMAIN calls /\ Same(calls[id], calls'[id])
               /\ calls'[id].outcome = "waiting" => calls[id].outcome = "waiting"
               /\ calls'[id].outcome = "ok" =>
                    \/ calls[id].outcome = "ok"
                    \/ /\ id \in Waiting
                       /\ \E j \in DOMAIN replies : replies[j].outcome = "ok" /\ replies[j].id = id
    <3>1. CASE UNCHANGED calls
      BY <2>4, <3>1 DEF Same
    <3>2. CASE reply.id \in Waiting /\ calls' = Answered(reply.id, reply)
      <4>1. id \in DOMAIN calls /\ calls[id] \in Calls
        BY <2>4, <3>2 DEF Answered, WireType, ClientType
      <4>2. CASE id # reply.id
        <5>1. calls'[id] = calls[id]
          BY <3>2, <4>1, <4>2 DEF Answered
        <5> QED BY <4>1, <5>1 DEF Same
      <4>3. CASE id = reply.id
        <5>1. Same(calls[id], calls'[id]) /\ calls'[id].outcome = reply.outcome
          BY <3>2, <4>1, <4>3 DEF Answered, Same, Calls
        <5>2. calls[id].outcome = "waiting"
          BY <3>2, <4>3 DEF Waiting
        <5> QED BY <2>3, <3>2, <4>1, <4>3, <5>1, <5>2
      <4> QED BY <4>2, <4>3
    <3> QED BY <1>4, <2>2, <3>1, <3>2 DEF Deliver
  <2> QED BY <1>0, <2>1, <2>3, <2>4, HandledSole, SoleFrame
<1> QED BY <1>0, <1>1, <1>2, <1>3, <1>4, DispatchSole, ConnectSole DEF Transport

LEMMA LifeSole ==
  ASSUME WireType, Sole, UNCHANGED <<session, denial>>, Shutdown \/ Boot \/ Reactivate
  PROVE  Sole'
<1>1. CASE StopAccepting \/ Boot
  <2>1. UNCHANGED <<requests, handling, replies, calls>>
    BY <1>1 DEF StopAccepting, Boot, Restart, server, client
  <2> QED BY <2>1, CallsSole, HandledSole, SoleFrame
<1>2. CASE CloseServer \/ Exit
  <2>1. /\ requests' = <<>> /\ (handling' = Unheard \/ handling' = {}) /\ UNCHANGED calls
    BY <1>2 DEF CloseServer, Exit, CutLink, client
  <2>2. PICK n \in 0 .. Len(replies) : replies' = SubSeq(replies, 1, n)
    BY <1>2 DEF CloseServer, Exit, CutLink
  <2>3. \A i \in DOMAIN replies' : i \in DOMAIN replies /\ replies'[i] = replies[i]
    <3>1. replies \in Seq(Replies)
      BY DEF WireType, ClientType
    <3> QED BY <2>2, <3>1
  <2>4. Handled
    BY <2>1, HandledSole
  <2> QED BY <2>1, <2>3, <2>4, CallsSole, SoleFrame
<1>3. CASE Reactivate
  <2>1. /\ requests' = <<>> /\ replies' = <<>> /\ handling' = Unheard /\ UNCHANGED calls
    BY <1>3 DEF Reactivate, Dispose, Hangup
  <2>2. DOMAIN replies' = {} /\ Handled
    BY <2>1, HandledSole
  <2> QED BY <2>1, <2>2, CallsSole, SoleFrame
<1> QED BY <1>1, <1>2, <1>3 DEF Shutdown

LEMMA AskingSole ==
  ASSUME WireType, Matched, Sole,
         (\E t \in Tasks : AskCreate(t)) \/ AskStart \/ Started \/ Poll \/ TakeSnapshot
  PROVE  Sole'
<1>0. UNCHANGED denial
  BY DEF AskCreate, AskStart, Started, Poll, TakeSnapshot, taskVars
<1>1. ASSUME UNCHANGED <<server, replies>>, calls' = <<>> \/ \E ids : calls' = Without(ids)
      PROVE  /\ UNCHANGED <<requests, handling, replies>> /\ Handled
             /\ \A id \in DOMAIN calls' :
                  /\ id \in DOMAIN calls /\ Same(calls[id], calls'[id])
                  /\ calls'[id].outcome = "waiting" => calls[id].outcome = "waiting"
                  /\ calls'[id].outcome = "ok" => calls[id].outcome = "ok"
  BY <1>1, CallsSole, HandledSole DEF server
<1>2. CASE \E t \in Tasks : AskCreate(t)
  <2>1. PICK methods, asked : methods = <<"task.create">> /\ asked = Now
    OBVIOUS
  <2>2. /\ methods \in Seq(Methods) /\ -1 \in Int
        /\ \A i \in DOMAIN methods : i = 1 /\ methods[i] = "task.create"
    BY <2>1 DEF Methods
  <2>3. /\ Call(methods, -1, asked) /\ session = "idle" /\ session' = "creating"
    BY <1>2, <2>1 DEF AskCreate
  <2> QED BY <1>0, <2>2, <2>3, CallSole
<1>3. CASE AskStart
  <2>1. PICK id \in DOMAIN calls :
          /\ session = "creating" /\ Creates(calls[id]) /\ Settled(id)
          /\ IF calls[id].outcome = "ok"
               THEN session' = "starting" /\ Call(<<"task.start">>, -1, Now)
               ELSE /\ session' = "lost" /\ calls' = Without({id})
                    /\ UNCHANGED <<server, replies>>
    BY <1>3 DEF AskStart, Creates
  <2>2. CASE calls[id].outcome = "ok"
    <3>1. PICK methods, asked : methods = <<"task.start">> /\ asked = Now
      OBVIOUS
    <3>2. /\ methods \in Seq(Methods) /\ -1 \in Int
          /\ \A i \in DOMAIN methods : i = 1 /\ methods[i] = "task.start"
      BY <3>1 DEF Methods
    <3>3. /\ Call(methods, -1, asked) /\ session' = "starting" /\ Granted
      BY <2>1, <2>2, <3>1 DEF Sole
    <3> QED BY <1>0, <3>2, <3>3, CallSole
  <2>3. CASE calls[id].outcome # "ok"
    <3>1. session = "creating" /\ session' = "lost"
      BY <2>1, <2>3
    <3>2. /\ UNCHANGED <<requests, handling, replies>>
          /\ \A other \in DOMAIN calls' :
               /\ other \in DOMAIN calls /\ Same(calls[other], calls'[other])
               /\ calls'[other].outcome = "waiting" => calls[other].outcome = "waiting"
               /\ calls'[other].outcome = "ok" => calls[other].outcome = "ok"
      BY <1>1, <2>1, <2>3
    <3>3. UNCHANGED Wire
      BY <3>2 DEF Wire
    <3> QED BY <1>0, <3>1, <3>2, <3>3 DEF Sole, Granted, Creating, Creates, Same, Waiting
  <2> QED BY <2>2, <2>3
<1>4. CASE Started
  <2>1. /\ session = "starting" /\ session' = "ready" /\ UNCHANGED <<server, replies>>
        /\ \E ids : calls' = Without(ids)
    BY <1>4 DEF Started
  <2>2. /\ UNCHANGED <<requests, handling, replies>>
        /\ \A other \in DOMAIN calls' :
             /\ other \in DOMAIN calls /\ Same(calls[other], calls'[other])
             /\ calls'[other].outcome = "waiting" => calls[other].outcome = "waiting"
             /\ calls'[other].outcome = "ok" => calls[other].outcome = "ok"
    BY <1>1, <2>1
  <2>3. UNCHANGED Wire
    BY <2>2 DEF Wire
  <2> QED BY <1>0, <2>1, <2>2, <2>3 DEF Sole, Granted, Creating, Creates, Same, Waiting
<1>5. CASE Poll
  <2>1. PICK methods, s, asked :
          methods = <<"task.status", "task.events">> /\ s = since /\ asked = Now
    OBVIOUS
  <2>2. /\ methods \in Seq(Methods) /\ s \in Int
        /\ \A i \in DOMAIN methods : methods[i] \in {"task.status", "task.events"}
    BY <2>1 DEF Methods, WireType, ViewType
  <2>3. Call(methods, s, asked) /\ UNCHANGED session
    BY <1>5, <2>1 DEF Poll, sessionVars
  <2>4. session' \in {"starting", "ready"} => Granted
    BY <2>3 DEF Sole
  <2> QED BY <1>0, <2>2, <2>3, <2>4, CallSole
<1>6. CASE TakeSnapshot
  <2>1. UNCHANGED <<session, server, replies>> /\ calls' = <<>>
    BY <1>6 DEF TakeSnapshot, sessionVars
  <2> QED BY <1>0, <1>1, <2>1, SoleFrame
<1> QED BY <1>2, <1>3, <1>4, <1>5, <1>6

(* What createTask answers it has decided: the handler that goes on to the  *)
(* answer has nothing against the task, or has seen it fail.                *)
Decided == \A r \in handling : Creates(r) /\ r.step = "admitted" => denial = "default"

LEMMA AnsweringSole ==
  ASSUME WireType, Matched, Sole, UNCHANGED <<session, requests, calls>>,
         denial' \in {denial, "default"}, NEW r \in handling,
         \/ \E step : GoOn(r, step)
         \/ /\ \E outcome, value : Answer(r, outcome, value)
            /\ Creates(r) => denial = "default"
  PROVE  Sole'
<1>1. Handled
  BY HandledSole
<1>2. r \in Wire
  BY DEF Wire
<1>3. CASE \E step : GoOn(r, step)
  <2>1. UNCHANGED replies
    BY <1>3 DEF GoOn
  <2> QED BY <1>1, <2>1, CallsSole, SoleFrame
<1>4. ASSUME NEW outcome, NEW value, Answer(r, outcome, value), Creates(r) => denial = "default"
      PROVE  Sole'
  <2>1. handling' = handling \ {r} /\ Send(r.id, outcome, value)
    BY <1>4 DEF Answer
  <2>2. Creates(r) => Granted'
    BY <1>4, <2>1 DEF Sole, Creating, Wire, Granted
  <2> QED BY <1>1, <1>2, <2>1, <2>2, CallsSole, SentSole, SoleFrame
<1> QED BY <1>3, <1>4

(* The decision is made while the request is under way, when nobody has     *)
(* been told of it.                                                         *)
LEMMA AdmitSole ==
  ASSUME WireType, Sole, Admit
  PROVE  Sole'
<1>1. PICK r \in handling : r.method = "task.create" /\ GoOn(r, "created")
  BY DEF Admit, Handler
<1>2. UNCHANGED <<session, requests, replies, calls>>
  BY <1>1 DEF Admit, GoOn, client, sessionVars
<1>3. Handled
  BY <1>1, HandledSole
<1>4. \A h \in Wire' : \E g \in Wire : h.method = g.method
  BY <1>2, <1>3 DEF Wire, Handled
<1>5. Creating
  BY <1>1 DEF Creating, Creates, Wire
<1> QED BY <1>2, <1>3, <1>4, <1>5 DEF Sole, Granted, Creating, Creates, Handled, Waiting

LEMMA SoleKept ==
  ASSUME WireType, Greeting, Matched, Decided, Sole, [Next]_vars
  PROVE  Sole'
<1>1. CASE UNCHANGED vars \/ RunAdvances \/ LayOut \/ BeginFollow \/ Abort \/ Sink \/ Logs
  <2>1. UNCHANGED <<rpc, session, denial>>
    BY <1>1 DEF vars, RunAdvances, LayOut, BeginFollow, Abort, Sink, Logs, sessionVars, taskVars
  <2>2. UNCHANGED <<requests, handling, replies, calls>>
    BY <2>1 DEF rpc, server, client
  <2> QED BY <2>1, <2>2, CallsSole, HandledSole, SoleFrame
<1>2. CASE Audit \/ Deny \/ Created \/ BeginStart \/ Place \/ Launch \/ ReadRun
  <2>1. PICK r \in handling : \/ \E step : GoOn(r, step)
                              \/ /\ \E outcome, value : Answer(r, outcome, value)
                                 /\ Creates(r) => denial = "default"
    <3>1. CASE Audit \/ Deny
      BY <3>1 DEF Audit, Deny, Handler
    <3>2. CASE Created
      BY <3>2 DEF Created, Handler, Decided, Creates
    <3>3. CASE ReadRun
      BY <3>3 DEF ReadRun, Creates
    <3>4. CASE BeginStart \/ Place \/ Launch
      BY <3>4 DEF BeginStart, Place, Launch, Handler, Creates
    <3> QED BY <1>2, <3>1, <3>2, <3>3, <3>4
  <2>2. UNCHANGED <<session, requests, calls>>
    <3>1. UNCHANGED <<requests, calls>>
      BY <2>1 DEF GoOn, Answer, client
    <3> QED BY <1>2, <3>1 DEF Audit, Deny, Created, BeginStart, Place, Launch, ReadRun, sessionVars
  <2>3. denial' \in {denial, "default"}
    BY <1>2 DEF Audit, Deny, Created, BeginStart, Place, Launch, ReadRun, taskVars
  <2> QED BY <2>1, <2>2, <2>3, AnsweringSole
<1>3. CASE Shutdown \/ Boot \/ Reactivate
  <2>1. UNCHANGED <<session, denial>>
    BY <1>3 DEF Shutdown, Boot, Reactivate, sessionVars, taskVars
  <2> QED BY <1>3, <2>1, LifeSole
<1> QED BY <1>1, <1>2, <1>3, TransportSole, AskingSole, AdmitSole DEF Next

-----------------------------------------------------------------------------
(* The placement. *)

(* What the host's last look needs of the checkouts: no link of theirs leads*)
(* away from a secret's own path.                                           *)
RealSecrets ==
  \A links \in Checkouts, secret \in Secrets : resolveExistingAncestor(secret, links) = secret

(* One start is between PREPARING and its answer, and while it is placed    *)
(* nothing else touches the run or its task.                                *)
Placing ==
  /\ \A i \in DOMAIN requests : requests[i].step = "begin"
  /\ \A r \in handling : r.step \in {"preparing", "placed"} =>
       r.method = "task.start" /\ state = "PREPARING"
  /\ \A r, q \in handling :
       r.step \in {"preparing", "placed"} /\ q.step \in {"preparing", "placed"} => r = q
  /\ placement # NoPlacement =>
       /\ state = "PREPARING" /\ session \in {"starting", "ready"}
       /\ \A r \in handling : r.step # "preparing"
  /\ RealSecrets => PlacementHolds

LEMMA NowhereHolds == placement = NoPlacement => PlacementHolds
BY DEF NoPlacement, NoProvider, PlacementHolds

LEMMA PlacingInit == Init => Placing
<1> SUFFICES ASSUME Init PROVE Placing
  OBVIOUS
<1>1. requests = <<>> /\ handling = {} /\ placement = NoPlacement
  BY DEF Init, RpcInit
<1> QED BY <1>1, NowhereHolds DEF Placing

(* What leaves the start in progress alone.                                 *)
LEMMA PlacingFrame ==
  ASSUME Placing, UNCHANGED <<state, task, placement>>,
         session \in {"starting", "ready"} => session' \in {"starting", "ready"},
         \A i \in DOMAIN requests' : requests'[i].step = "begin",
         \A r \in handling' :
           r.step = "begin" \/ \E q \in handling : r.step = q.step /\ r.method = q.method,
         \A r, q \in handling' :
           r.step \in {"preparing", "placed"} /\ q.step \in {"preparing", "placed"} => r = q
  PROVE  Placing'
<1>1. RealSecrets => PlacementHolds'
  BY DEF Placing, PlacementHolds
<1> QED BY <1>1 DEF Placing

LEMMA UnheardPlacing ==
  ASSUME WireType, Placing, handling' \subseteq handling \/ handling' = Unheard
  PROVE  /\ \A r \in handling' :
              r.step = "begin" \/ \E q \in handling : r.step = q.step /\ r.method = q.method
         /\ \A r, q \in handling' :
              r.step \in {"preparing", "placed"} /\ q.step \in {"preparing", "placed"} => r = q
<1>1. CASE handling' \subseteq handling
  BY <1>1 DEF Placing
<1>2. CASE handling' = Unheard
  <2>1. \A r \in handling' : \E q \in handling : /\ r = [q EXCEPT !.id = 0] /\ r.step = q.step
                                                /\ r.method = q.method
    BY <1>2 DEF Unheard, WireType, ServerType, Requests
  <2> QED BY <2>1 DEF Placing
<1> QED BY <1>1, <1>2

(* A line that arrives begins a handler, and the socket takes none further. *)
LEMMA TransportBegins ==
  ASSUME WireType, Placing, Transport \/ Shutdown \/ Reactivate
  PROVE  /\ \A i \in DOMAIN requests' : requests'[i].step = "begin"
         /\ \A r \in handling' :
              r.step = "begin" \/ \E q \in handling : r.step = q.step /\ r.method = q.method
         /\ \A r, q \in handling' :
              r.step \in {"preparing", "placed"} /\ q.step \in {"preparing", "placed"} => r = q
<1>1. CASE Dispatch
  <2>1. PICK r : r = Head(requests)
    OBVIOUS
  <2>2. requests \in Seq(Requests) /\ requests # <<>> /\ requests' = Tail(requests)
    BY <1>1 DEF Dispatch, WireType, ServerType
  <2>3. /\ r = requests[1] /\ 1 \in DOMAIN requests
        /\ \A i \in DOMAIN requests' : requests'[i] = requests[i + 1] /\ i + 1 \in DOMAIN requests
    BY <2>1, <2>2
  <2>4. handling' = handling \/ handling' = handling \cup {r}
    BY <1>1, <2>1 DEF Dispatch
  <2>5. r.step = "begin" /\ \A i \in DOMAIN requests' : requests'[i].step = "begin"
    BY <2>3 DEF Placing
  <2>6. \A g, q \in handling' :
          g.step \in {"preparing", "placed"} /\ q.step \in {"preparing", "placed"} => g = q
    BY <2>4, <2>5 DEF Placing
  <2> QED BY <2>4, <2>5, <2>6
<1>2. CASE Connect(Now)
  <2>1. UNCHANGED handling /\ (UNCHANGED requests \/ \E p : requests' = <<Request(1, "daemon.hello", p)>>)
    BY <1>2 DEF Connect
  <2>2. \A i \in DOMAIN requests' : requests'[i].step = "begin"
    BY <2>1 DEF Placing, Request
  <2> QED BY <2>1, <2>2, UnheardPlacing
<1>3. CASE ~Dispatch /\ ~Connect(Now)
  <2>1. /\ requests' = requests \/ requests' = <<>>
        /\ handling' \subseteq handling \/ handling' = Unheard
    <3>1. CASE Transport
      BY <1>3, <3>1 DEF Transport, ReadToken, Greeted, Deliver, DeliverTooLarge, SeeClose, Expire,
                        Hangup, server
    <3>2. CASE Shutdown \/ Reactivate
      BY <3>2 DEF Shutdown, StopAccepting, CloseServer, Exit, CutLink, Reactivate, Dispose, Hangup,
                  server
    <3> QED BY <3>1, <3>2
  <2>2. \A i \in DOMAIN requests' : requests'[i].step = "begin"
    BY <2>1 DEF Placing
  <2> QED BY <2>1, <2>2, UnheardPlacing
<1> QED BY <1>1, <1>2, <1>3

LEMMA TransportPlacing ==
  ASSUME WireType, Placing, Transport \/ Shutdown \/ Reactivate
  PROVE  Placing'
<1>1. UNCHANGED <<state, task, placement, session>>
  BY DEF Transport, Shutdown, Reactivate, feed, taskVars, sessionVars
<1> QED BY <1>1, TransportBegins, PlacingFrame

LEMMA AskingBegins ==
  ASSUME WireType, Placing,
         (\E t \in Tasks : AskCreate(t)) \/ AskStart \/ Started \/ Poll \/ TakeSnapshot
  PROVE  UNCHANGED handling /\ \A i \in DOMAIN requests' : requests'[i].step = "begin"
<1>1. ASSUME UNCHANGED server
      PROVE  UNCHANGED handling /\ \A i \in DOMAIN requests' : requests'[i].step = "begin"
  BY <1>1 DEF server, Placing
<1>2. ASSUME NEW methods \in Seq(Methods), NEW s \in Int, NEW asked, Call(methods, s, asked)
      PROVE  UNCHANGED handling /\ \A i \in DOMAIN requests' : requests'[i].step = "begin"
  BY <1>2, CallSends DEF Placing
<1>3. /\ <<"task.create">> \in Seq(Methods) /\ <<"task.start">> \in Seq(Methods)
      /\ <<"task.status", "task.events">> \in Seq(Methods) /\ since \in Int /\ -1 \in Int
  BY DEF Methods, WireType, ViewType
<1>4. \/ UNCHANGED server
      \/ \E methods \in Seq(Methods), s \in Int : \E asked : Call(methods, s, asked)
  BY <1>3 DEF AskCreate, AskStart, Started, Poll, TakeSnapshot
<1> QED BY <1>1, <1>2, <1>4

LEMMA AskingPlacing ==
  ASSUME WireType, Placing,
         (\E t \in Tasks : AskCreate(t)) \/ AskStart \/ Started \/ Poll \/ TakeSnapshot
  PROVE  Placing'
<1>1. UNCHANGED handling /\ \A i \in DOMAIN requests' : requests'[i].step = "begin"
  BY AskingBegins
<1>2. CASE \E t \in Tasks : AskCreate(t)
  <2>1. session = "idle" /\ UNCHANGED <<state, placement>>
    BY <1>2 DEF AskCreate, feed
  <2>2. placement = NoPlacement /\ placement' = NoPlacement
    BY <2>1 DEF Placing
  <2>3. PlacementHolds'
    BY <2>2 DEF NoPlacement, NoProvider, PlacementHolds
  <2> QED BY <1>1, <2>1, <2>2, <2>3 DEF Placing
<1>3. CASE ~\E t \in Tasks : AskCreate(t)
  <2>1. UNCHANGED <<state, task, placement>>
    BY <1>3 DEF AskStart, Started, Poll, TakeSnapshot, feed, taskVars
  <2>2. session \in {"starting", "ready"} => session' \in {"starting", "ready"}
    BY <1>3 DEF AskStart, Started, Poll, TakeSnapshot, sessionVars
  <2> QED BY <1>1, <2>1, <2>2, UnheardPlacing, PlacingFrame
<1> QED BY <1>2, <1>3

(* A handler that goes on, or answers, without touching the run.            *)
LEMMA AnsweringPlacing ==
  ASSUME WireType, Placing, UNCHANGED <<state, task, placement, session>>, NEW r \in handling,
         \/ \E outcome, value : Answer(r, outcome, value)
         \/ \E step : GoOn(r, step) /\ step \notin {"preparing", "placed"}
                                    /\ r.step \notin {"preparing", "placed"} /\ r.method = "task.create"
  PROVE  Placing'
<1>1. UNCHANGED requests /\ \A i \in DOMAIN requests' : requests'[i].step = "begin"
  BY DEF Answer, GoOn, Placing
<1>2. CASE \E outcome, value : Answer(r, outcome, value)
  <2>1. handling' \subseteq handling
    BY <1>2 DEF Answer
  <2> QED BY <1>1, <2>1, UnheardPlacing, PlacingFrame
<1>3. ASSUME NEW step, GoOn(r, step), step \notin {"preparing", "placed"}
      PROVE  Placing'
  <2>1. \A h \in handling' : h \in handling \/ h.step = step
    BY <1>3 DEF GoOn, WireType, ServerType, Requests
  <2>2. RealSecrets => PlacementHolds'
    BY DEF Placing, PlacementHolds
  <2> QED BY <1>1, <1>3, <2>1, <2>2 DEF Placing
<1> QED BY <1>2, <1>3

(* Between BeginStart and Launch the run is PREPARING, so nothing else      *)
(* moves it.                                                                *)
Unplaced ==
  /\ placement = NoPlacement
  /\ \A r \in handling : r.step \notin {"preparing", "placed"}

LEMMA ElsewhereUnplaced == ASSUME Placing, state # "PREPARING" PROVE Unplaced
BY DEF Placing, Unplaced

LEMMA UnplacedPlacing ==
  ASSUME Placing, Unplaced, placement' = NoPlacement,
         \A i \in DOMAIN requests' : requests'[i].step = "begin",
         \A r \in handling' : r \in handling \/ r.step \notin {"preparing", "placed"}
  PROVE  Placing'
<1>1. PlacementHolds'
  BY DEF NoPlacement, NoProvider, PlacementHolds
<1> QED BY <1>1 DEF Placing, Unplaced

LEMMA CreatePlacing ==
  ASSUME WireType, Sole, Placing, Admit \/ Audit \/ Deny \/ Created
  PROVE  Placing'
<1>0. \A i \in DOMAIN requests' : requests'[i].step = "begin"
  <2>1. UNCHANGED requests
    BY DEF Admit, Audit, Deny, Created, GoOn, Answer
  <2> QED BY <2>1 DEF Placing
<1>1. CASE Admit
  <2>1. PICK r \in handling : state = "none" /\ GoOn(r, "created")
    BY <1>1 DEF Admit, Handler
  <2>2. \A h \in handling' : h \in handling \/ h.step = "created"
    BY <2>1 DEF GoOn, WireType, ServerType, Requests
  <2>3. Unplaced /\ UNCHANGED placement
    BY <1>1, <2>1, ElsewhereUnplaced DEF Admit
  <2> QED BY <1>0, <2>2, <2>3, UnplacedPlacing DEF Unplaced
<1>2. CASE Audit
  <2>1. PICK r \in handling :
          /\ r.method = "task.create" /\ r.step = "created"
          /\ GoOn(r, IF denial = "default" THEN "admitted" ELSE "denied")
    BY <1>2 DEF Audit, Handler
  <2>2. PICK step : step = IF denial = "default" THEN "admitted" ELSE "denied"
    OBVIOUS
  <2>3. step \notin {"preparing", "placed"} /\ GoOn(r, step)
    BY <2>1, <2>2
  <2>4. UNCHANGED <<state, task, placement, session>>
    BY <1>2 DEF Audit, taskVars, sessionVars
  <2> QED BY <2>1, <2>3, <2>4, AnsweringPlacing
<1>3. CASE Deny
  <2>1. PICK r \in handling : r.method = "task.create" /\ GoOn(r, "admitted")
    BY <1>3 DEF Deny, Handler
  <2>2. session \notin {"starting", "ready"} /\ \A h \in handling : h.method # "task.start"
    BY <2>1 DEF Sole, Granted, Creating, Creates, Wire
  <2>3. Unplaced /\ UNCHANGED placement
    BY <1>3, <2>2 DEF Deny, Placing, Unplaced
  <2>4. \A h \in handling' : h \in handling \/ h.step = "admitted"
    BY <2>1 DEF GoOn, WireType, ServerType, Requests
  <2> QED BY <1>0, <2>3, <2>4, UnplacedPlacing DEF Unplaced
<1>4. CASE Created
  <2>1. \E r \in handling : \E outcome, value : Answer(r, outcome, value)
    BY <1>4 DEF Created, Handler
  <2>2. UNCHANGED <<state, task, placement, session>>
    BY <1>4 DEF Created, feed, taskVars, sessionVars
  <2> QED BY <2>1, <2>2, AnsweringPlacing
<1> QED BY <1>1, <1>2, <1>3, <1>4

LEMMA ToPreparing == CanTransition(state, "PREPARING") => state = "QUEUED"
BY DEF CanTransition, TRANSITIONS, RUN_STATES

LEMMA BeginStartPlacing ==
  ASSUME WireType, Placing, BeginStart
  PROVE  Placing'
<1>1. PICK r \in handling :
        /\ r.method = "task.start" /\ r.step = "begin"
        /\ \/ /\ CanTransition(state, "PREPARING") /\ state' = "PREPARING" /\ GoOn(r, "preparing")
           \/ Answer(r, "refused", NoAnswer) /\ UNCHANGED state
  BY DEF BeginStart, Handler
<1>2. UNCHANGED <<task, placement, session>>
  BY DEF BeginStart, taskVars, sessionVars
<1>3. CASE CanTransition(state, "PREPARING") /\ state' = "PREPARING" /\ GoOn(r, "preparing")
  <2>1. Unplaced
    BY <1>3, ToPreparing, ElsewhereUnplaced
  <2>2. PICK new : new = [r EXCEPT !.step = "preparing"]
    OBVIOUS
  <2>3. /\ handling' = (handling \ {r}) \cup {new} /\ UNCHANGED requests
        /\ new.method = "task.start" /\ new.step = "preparing"
    BY <1>1, <1>3, <2>2 DEF GoOn, WireType, ServerType, Requests
  <2>4. PlacementHolds'
    BY <1>2, <2>1 DEF Unplaced, NoPlacement, NoProvider, PlacementHolds
  <2> QED BY <1>2, <1>3, <2>1, <2>3, <2>4 DEF Placing, Unplaced
<1>4. CASE Answer(r, "refused", NoAnswer) /\ UNCHANGED state
  BY <1>2, <1>4, AnsweringPlacing
<1> QED BY <1>1, <1>3, <1>4

(* The host's last look is at the checkout the worker gets.                 *)
LEMMA LookedAgain ==
  ASSUME RealSecrets, NEW links \in Checkouts, prepareHost(task, links), placement'.links = links,
         UNCHANGED task
  PROVE  PlacementHolds'
<1> SUFFICES ASSUME NEW path \in task.allowedPaths, NEW secret \in Secrets
             PROVE  LET real == resolveExistingAncestor(path, links)
                    IN /\ IsPrefix(resolveExistingAncestor(task.worktree, links), real)
                       /\ ~IsPrefix(secret, real) /\ ~IsPrefix(real, secret)
  <2>1. \A path \in task.allowedPaths :
          IsPrefix(resolveExistingAncestor(task.worktree, links), resolveExistingAncestor(path, links))
    BY DEF prepareHost, assertContained, isLexicallyContained
  <2> QED BY <2>1 DEF PlacementHolds
<1>1. assertNotDenied(path, links) /\ assertContained(path, task.worktree, links)
  BY DEF prepareHost
<1>2. resolveExistingAncestor(secret, links) = secret
  BY DEF RealSecrets
<1> QED BY <1>1, <1>2 DEF assertNotDenied, assertContained, isLexicallyContained

LEMMA PlacePlacing ==
  ASSUME WireType, Sole, Placing, Place
  PROVE  Placing'
<1>0. PICK r \in handling, links \in Checkouts :
        /\ r.method = "task.start" /\ r.step = "preparing"
        /\ \E selected :
             \/ /\ selected.id = "host" => prepareHost(task, links)
                /\ placement' = [provider |-> selected, links |-> links]
                /\ GoOn(r, "placed") /\ UNCHANGED <<state, task>>
             \/ /\ state' = "FAILED" /\ Answer(r, "refused", NoAnswer) /\ UNCHANGED placement
  BY DEF Place, Handler
<1>1. PICK selected :
        /\ r.method = "task.start" /\ r.step = "preparing"
        /\ \/ /\ selected.id = "host" => prepareHost(task, links)
              /\ placement' = [provider |-> selected, links |-> links]
              /\ GoOn(r, "placed") /\ UNCHANGED <<state, task>>
           \/ /\ state' = "FAILED" /\ Answer(r, "refused", NoAnswer) /\ UNCHANGED placement
  BY <1>0
<1>2. UNCHANGED session
  BY DEF Place, sessionVars
<1>3. \A h \in handling : h.step \in {"preparing", "placed"} => h = r
  BY <1>1 DEF Placing
<1>4. CASE /\ selected.id = "host" => prepareHost(task, links)
           /\ placement' = [provider |-> selected, links |-> links]
           /\ GoOn(r, "placed") /\ UNCHANGED <<state, task>>
  <2>1. PICK new, provider : new = [r EXCEPT !.step = "placed"] /\ provider = selected
    OBVIOUS
  <2>2. /\ handling' = (handling \ {r}) \cup {new} /\ UNCHANGED requests
        /\ new.method = "task.start" /\ new.step = "placed"
    BY <1>1, <1>4, <2>1 DEF GoOn, WireType, ServerType, Requests
  <2>3. placement'.links = links /\ placement'.provider = provider
    BY <1>4, <2>1
  <2>4. RealSecrets => PlacementHolds'
    <3>1. CASE provider.id = "host"
      BY <1>4, <2>1, <2>3, <3>1, LookedAgain
    <3>2. CASE provider.id # "host"
      BY <2>3, <3>2 DEF PlacementHolds
    <3> QED BY <3>1, <3>2
  <2>5. session \in {"starting", "ready"}
    BY <1>1 DEF Sole, Wire
  <2>6. state = "PREPARING"
    BY <1>1 DEF Placing
  <2> QED BY <1>2, <1>3, <1>4, <2>2, <2>4, <2>5, <2>6 DEF Placing
<1>5. CASE state' = "FAILED" /\ Answer(r, "refused", NoAnswer) /\ UNCHANGED placement
  <2>1. placement = NoPlacement
    BY <1>1 DEF Placing
  <2>2. handling' = handling \ {r} /\ UNCHANGED requests
    BY <1>5 DEF Answer
  <2>3. PlacementHolds'
    BY <1>5, <2>1 DEF NoPlacement, NoProvider, PlacementHolds
  <2> QED BY <1>3, <1>5, <2>1, <2>2, <2>3 DEF Placing
<1> QED BY <1>1, <1>4, <1>5

LEMMA LaunchPlacing ==
  ASSUME Placing, Launch
  PROVE  Placing'
<1>1. PICK r \in handling :
        /\ r.step = "placed" /\ placement' = NoPlacement
        /\ \E outcome, value : Answer(r, outcome, value)
  BY DEF Launch, Handler
<1>2. handling' = handling \ {r} /\ UNCHANGED requests
  BY <1>1 DEF Answer
<1>3. \A h \in handling' : h.step \notin {"preparing", "placed"}
  BY <1>1, <1>2 DEF Placing
<1>4. PlacementHolds'
  BY <1>1 DEF NoPlacement, NoProvider, PlacementHolds
<1> QED BY <1>1, <1>2, <1>3, <1>4 DEF Placing

(* The run's own way and the next daemon's recovery.                        *)
LEMMA RunPlacing ==
  ASSUME Greeting, Placing, RunAdvances \/ Boot
  PROVE  Placing'
<1>1. CASE RunAdvances
  <2>1. UNCHANGED <<requests, handling, session, task, placement>>
    BY <1>1 DEF RunAdvances, rpc, server, taskVars, sessionVars
  <2>2. UNCHANGED state \/ state # "PREPARING"
    BY <1>1 DEF RunAdvances, Ingest, Conclude
  <2>3. CASE UNCHANGED state
    <3>1. RealSecrets => PlacementHolds'
      BY <2>1 DEF Placing, PlacementHolds
    <3> QED BY <2>1, <2>3, <3>1 DEF Placing
  <2>4. CASE state # "PREPARING"
    BY <2>1, <2>4, ElsewhereUnplaced, UnplacedPlacing DEF Placing, Unplaced
  <2> QED BY <2>2, <2>3, <2>4
<1>2. CASE Boot
  <2>1. phase = "down" /\ UNCHANGED <<requests, handling>> /\ placement' = NoPlacement
    BY <1>2 DEF Boot, Restart, server
  <2>2. handling' = {}
    BY <2>1 DEF Greeting
  <2>3. PlacementHolds'
    BY <2>1 DEF NoPlacement, NoProvider, PlacementHolds
  <2> QED BY <2>1, <2>2, <2>3 DEF Placing
<1> QED BY <1>1, <1>2

LEMMA PlacingKept ==
  ASSUME WireType, Greeting, Sole, Placing, [Next]_vars
  PROVE  Placing'
<1>1. CASE UNCHANGED vars \/ LayOut \/ BeginFollow \/ Abort \/ Sink \/ Logs
  <2>1. UNCHANGED <<rpc, state, task, placement, session>>
    BY <1>1 DEF vars, LayOut, BeginFollow, Abort, Sink, Logs, feed, taskVars, sessionVars
  <2>2. UNCHANGED <<requests, handling>>
    BY <2>1 DEF rpc, server
  <2>3. \A i \in DOMAIN requests' : requests'[i].step = "begin"
    BY <2>2 DEF Placing
  <2> QED BY <2>1, <2>2, <2>3, UnheardPlacing, PlacingFrame
<1>2. CASE ReadRun
  <2>1. \E r \in handling : \E outcome, value : Answer(r, outcome, value)
    BY <1>2 DEF ReadRun
  <2>2. UNCHANGED <<state, task, placement, session>>
    BY <1>2 DEF ReadRun, feed, taskVars, sessionVars
  <2> QED BY <2>1, <2>2, AnsweringPlacing
<1>3. CASE RunAdvances \/ Boot
  BY <1>3, RunPlacing
<1> QED BY <1>1, <1>2, <1>3, TransportPlacing, AskingPlacing, CreatePlacing, BeginStartPlacing,
           PlacePlacing, LaunchPlacing DEF Next

-----------------------------------------------------------------------------
(* The decision. *)

LEMMA DecidedFrame ==
  ASSUME Decided, UNCHANGED denial,
         \A r \in handling' :
           \/ r.step # "admitted" \/ ~Creates(r)
           \/ \E q \in handling : r.step = q.step /\ r.method = q.method
  PROVE  Decided'
BY DEF Decided, Creates

LEMMA CreateDecided ==
  ASSUME WireType, Sole, Decided, Admit \/ Audit \/ Deny \/ Created
  PROVE  Decided'
<1>1. CASE Deny
  BY <1>1 DEF Deny, Decided
<1>2. CASE Created
  <2>1. handling' \subseteq handling /\ UNCHANGED denial
    BY <1>2 DEF Created, Answer, taskVars
  <2> QED BY <2>1, DecidedFrame
<1>3. CASE Admit \/ Audit
  <2>1. PICK r \in handling, step \in {"created", "admitted", "denied"} :
          /\ r.method = "task.create" /\ GoOn(r, step)
          /\ step = "created" \/ step = (IF denial = "default" THEN "admitted" ELSE "denied")
          /\ step = "admitted" => denial' = "default"
    BY <1>3 DEF Admit, Audit, Handler, taskVars
  <2>2. \A h \in handling' : Creates(h) => h.step = step
    BY <2>1 DEF GoOn, WireType, ServerType, Requests, Sole, Creates
  <2> QED BY <2>1, <2>2 DEF Decided
<1> QED BY <1>1, <1>2, <1>3

LEMMA DecidedInit == Init => Decided
BY DEF Init, RpcInit, Decided

LEMMA DecidedKept ==
  ASSUME WireType, Sole, Placing, Decided, [Next]_vars
  PROVE  Decided'
<1>1. CASE \/ UNCHANGED vars \/ LayOut \/ BeginFollow \/ Abort \/ Sink \/ Logs
           \/ RunAdvances \/ Boot
  <2>1. UNCHANGED <<handling, denial>>
    BY <1>1 DEF vars, LayOut, BeginFollow, Abort, Sink, Logs, RunAdvances, Boot, Restart, rpc, server,
                taskVars
  <2> QED BY <2>1, DecidedFrame
<1>2. CASE Transport \/ Shutdown \/ Reactivate
  <2>1. UNCHANGED denial
    BY <1>2 DEF Transport, Shutdown, Reactivate, taskVars
  <2> QED BY <1>2, <2>1, TransportBegins, DecidedFrame
<1>3. CASE (\E t \in Tasks : AskCreate(t)) \/ AskStart \/ Started \/ Poll \/ TakeSnapshot
  <2>1. UNCHANGED denial
    BY <1>3 DEF AskCreate, AskStart, Started, Poll, TakeSnapshot, taskVars
  <2> QED BY <1>3, <2>1, AskingBegins, DecidedFrame
<1>4. CASE BeginStart \/ Place \/ Launch \/ ReadRun
  <2>1. PICK r \in handling : \/ \E outcome, value : Answer(r, outcome, value)
                              \/ r.method = "task.start" /\ \E step : GoOn(r, step)
    BY <1>4 DEF BeginStart, Place, Launch, ReadRun, Handler
  <2>2. \A h \in handling' : h \in handling \/ h.method = "task.start"
    BY <2>1 DEF Answer, GoOn, WireType, ServerType, Requests
  <2>3. UNCHANGED denial
    BY <1>4 DEF BeginStart, Place, Launch, ReadRun, taskVars
  <2> QED BY <2>2, <2>3, DecidedFrame DEF Creates
<1> QED BY <1>1, <1>2, <1>3, <1>4, CreateDecided DEF Next

(* While a worker is on its way to the host, no path it may use leads out of*)
(* its worktree or to a secret, through whatever links the checkout brought:*)
(* the run and its task stay as the last look found them (startRun,         *)
(* HostSandboxProvider.prepare).                                            *)
THEOREM PlacedWhereItMay ==
  ASSUME RealSecrets
  PROVE  Spec => []PlacementHolds
<1>1. Init => WireType /\ News /\ Greeting /\ Matched /\ Sole /\ Placing /\ Decided
  BY WireTypeInit, NewsInit, GreetingInit, MatchedInit, SoleInit, PlacingInit, DecidedInit
<1>2. WireType /\ News /\ Greeting /\ Matched /\ Sole /\ Placing /\ Decided /\ [Next]_vars
        => (WireType /\ News /\ Greeting /\ Matched /\ Sole /\ Placing /\ Decided)'
  BY WireTypeKept, NewsKept, GreetingKept, MatchedKept, SoleKept, PlacingKept, DecidedKept
<1>3. Placing => PlacementHolds
  BY DEF Placing
<1> QED BY <1>1, <1>2, <1>3, PTL DEF Spec

-----------------------------------------------------------------------------
(* What admission let through. *)

Cleared(t) == t.network = "deny" /\ ~t.mayCommit /\ (t.kind \in Gated => t.sandbox # "none")

(* What has places 1 to n is a sequence of what is there.                   *)
LEMMA AsSeq ==
  ASSUME NEW f, NEW n \in Nat, f = [i \in 1 .. n |-> f[i]], NEW R, \A i \in 1 .. n : f[i] \in R
  PROVE  f \in Seq(R) /\ Len(f) = n
OBVIOUS

LEMMA RulesNamed ==
  ASSUME NEW t, NEW profile, NEW links
  PROVE  \A i \in 1 .. 11 : RULES(t, profile, links)[i].name \in RULE_NAMES
<1> DEFINE rules == RULES(t, profile, links)
           Fit == {i \in 1 .. 11 : rules[i].name \in RULE_NAMES}
<1>1. 1 \in Fit /\ 2 \in Fit /\ 3 \in Fit /\ 4 \in Fit
  BY DEF RULES, Rule, RULE_NAMES
<1>2. 5 \in Fit /\ 6 \in Fit /\ 7 \in Fit /\ 8 \in Fit
  BY DEF RULES, Rule, RULE_NAMES
<1>3. 9 \in Fit /\ 10 \in Fit /\ 11 \in Fit
  BY DEF RULES, Rule, RULE_NAMES
<1>4. \A i \in 1 .. 11 : i \in {1, 2, 3, 4, 5, 6, 7, 8, 9, 10, 11}
  OBVIOUS
<1>5. \A i \in 1 .. 11 : i \in Fit
  <2> HIDE DEF Fit
  <2> QED BY <1>1, <1>2, <1>3, <1>4
<1> QED BY <1>5

(* The rules are a list of things that have the names of rules.             *)
LEMMA RulesAre ==
  ASSUME NEW t, NEW profile, NEW links
  PROVE  \E R : /\ RULES(t, profile, links) \in Seq(R) /\ Len(RULES(t, profile, links)) = 11
                /\ \A rule \in R : rule.name \in RULE_NAMES
<1> DEFINE rules == RULES(t, profile, links)
<1>1. rules = [i \in 1 .. 11 |-> rules[i]]
  BY DEF RULES
<1>2. \A i \in 1 .. 11 : rules[i].name \in RULE_NAMES
  BY RulesNamed
<1> HIDE DEF rules
<1>3. PICK R : R = {rules[i] : i \in 1 .. 11}
  OBVIOUS
<1>4. 11 \in Nat /\ \A i \in 1 .. 11 : rules[i] \in R
  BY <1>3
<1>5. rules \in Seq(R) /\ Len(rules) = 11
  BY <1>1, <1>4, AsSeq
<1>6. \A rule \in R : rule.name \in RULE_NAMES
  BY <1>2, <1>3
<1> QED BY <1>5, <1>6 DEF rules

(* What the loop over the rules answers.                                    *)
Ruled(rules, decision) ==
  \/ decision = "default" /\ \A i \in DOMAIN rules : ~rules[i].denies
  \/ \E i \in DOMAIN rules :
       /\ rules[i].denies /\ decision = rules[i].name
       /\ \A j \in 1 .. i - 1 : ~rules[j].denies

LEMMA FirstOf ==
  ASSUME NEW R, \A rule \in R : rule.name # "default"
  PROVE  \A rules \in Seq(R) : Ruled(rules, Asking!folded(rules))
<1> DEFINE Good == {s \in Seq(R) : Ruled(s, Asking!folded(s))}
<1>1. <<>> \in Good
  <2>1. <<>> \in Seq(R) /\ DOMAIN <<>> = {}
    BY EmptySeq
  <2> QED BY <2>1, Asking!FoldedEmpty DEF Ruled
<1>2. ASSUME NEW s \in Seq(R), NEW e \in R, s \in Good PROVE Append(s, e) \in Good
  <2>1. PICK n \in Nat : n = Len(s)
    OBVIOUS
  <2>2. PICK t \in Seq(R) : t = Append(s, e)
    BY AppendProperties
  <2>3. DOMAIN s = 1 .. n /\ DOMAIN t = 1 .. n + 1 /\ t[n + 1] = e /\ \A i \in 1 .. n : t[i] = s[i]
    BY <2>1, <2>2, AppendProperties
  <2>4. PICK decision : decision = Asking!folded(s)
    OBVIOUS
  <2>5. PICK answer : answer = Asking!folded(t) /\ answer = Ask(decision, e)
    BY <2>2, <2>4, Asking!FoldedAppend
  <2>6. ASSUME decision = "default", \A i \in 1 .. n : ~s[i].denies
        PROVE  Ruled(t, answer)
    <3>1. \A i \in 1 .. n : ~t[i].denies
      BY <2>3, <2>6
    <3>2. CASE e.denies
      <4>1. Ask(decision, e) = t[n + 1].name /\ t[n + 1].denies
        BY <2>3, <2>6, <3>2 DEF Ask
      <4>2. n + 1 \in DOMAIN t /\ (n + 1) - 1 = n
        BY <2>3
      <4>3. \A j \in 1 .. (n + 1) - 1 : ~t[j].denies
        BY <3>1, <4>2
      <4> QED BY <2>5, <4>1, <4>2, <4>3, Zenon DEF Ruled
    <3>3. CASE ~e.denies
      <4>1. Ask(decision, e) = "default"
        BY <2>6, <3>3 DEF Ask
      <4>2. \A i \in 1 .. n + 1 : i \in 1 .. n \/ i = n + 1
        OBVIOUS
      <4>3. \A i \in DOMAIN t : ~t[i].denies
        BY <2>3, <3>1, <3>3, <4>2
      <4> QED BY <2>5, <4>1, <4>3, Zenon DEF Ruled
    <3> QED BY <3>2, <3>3
  <2>7. ASSUME NEW i \in 1 .. n, s[i].denies, decision = s[i].name,
               \A j \in 1 .. i - 1 : ~s[j].denies
        PROVE  Ruled(t, answer)
    <3>1. s[i] \in R
      BY <2>1
    <3>2. Ask(decision, e) = decision
      BY <2>7, <3>1 DEF Ask
    <3>3. i \in DOMAIN t /\ t[i] = s[i]
      BY <2>3
    <3>4. \A j \in 1 .. i - 1 : j \in 1 .. n
      OBVIOUS
    <3>5. \A j \in 1 .. i - 1 : ~t[j].denies
      BY <2>3, <2>7, <3>4
    <3>6. answer = t[i].name /\ t[i].denies
      BY <2>5, <2>7, <3>2, <3>3
    <3> QED BY <3>3, <3>5, <3>6, Zenon DEF Ruled
  <2>8. Ruled(s, decision)
    BY <1>2, <2>4
  <2>9. Ruled(t, answer)
    BY <2>3, <2>6, <2>7, <2>8 DEF Ruled
  <2> QED BY <2>2, <2>5, <2>9
<1>3. \A s \in Seq(R) : s \in Good
  <2> HIDE DEF Good
  <2> QED BY <1>1, <1>2, Asking!SeqInduction
<1> QED BY <1>3

(* The first rule that denies gives the decision its name, whatever the     *)
(* later ones say, and a task that is let through was denied by none: the   *)
(* loop of decide returns at the first denial.                              *)
THEOREM FirstDenialWins ==
  ASSUME NEW t, NEW profile, NEW links
  PROVE  Ruled(RULES(t, profile, links), decide(t, profile, links))
<1>1. PICK R : RULES(t, profile, links) \in Seq(R) /\ \A rule \in R : rule.name \in RULE_NAMES
  BY RulesAre
<1>2. \A rule \in R : rule.name # "default"
  BY <1>1 DEF RULE_NAMES
<1> QED BY <1>1, <1>2, FirstOf DEF decide

(* What is let through, no rule denies.                                     *)
LEMMA NoneDenies ==
  ASSUME NEW t, NEW profile, NEW links, decide(t, profile, links) = "default"
  PROVE  \A i \in 1 .. 11 : ~RULES(t, profile, links)[i].denies
<1>1. PICK rules : rules = RULES(t, profile, links)
  OBVIOUS
<1>2. PICK R : rules \in Seq(R) /\ Len(rules) = 11 /\ \A rule \in R : rule.name \in RULE_NAMES
  BY <1>1, RulesAre
<1>3. DOMAIN rules = 1 .. 11 /\ \A i \in 1 .. 11 : rules[i].name # "default"
  <2>1. \A rule \in R : rule.name # "default"
    BY <1>2 DEF RULE_NAMES
  <2>2. DOMAIN rules = 1 .. 11
    BY <1>2
  <2>3. rules \in Seq(R)
    BY <1>2
  <2>4. ASSUME NEW i \in 1 .. 11 PROVE rules[i] \in R
    BY <1>2, <2>3, ElementOfSeq
  <2> QED BY <2>1, <2>2, <2>4
<1>4. Ruled(rules, "default")
  BY <1>1, FirstDenialWins
<1> QED BY <1>1, <1>3, <1>4 DEF Ruled

LEMMA RuleDenies == ASSUME NEW name, NEW denies PROVE Rule(name, denies).denies = denies
BY DEF Rule

LEMMA AdmittedIsCleared ==
  ASSUME NEW t, NEW available, NEW links, admit(t, available, links) = "default"
  PROVE  Cleared(t)
<1> DEFINE profile == WORKSPACE_WRITE_PROFILE(available)
<1>1. PICK rules : rules = RULES(t, profile, links)
  OBVIOUS
<1>2. decide(t, profile, links) = "default"
  BY DEF admit
<1>3. profile.allowCommits = FALSE /\ profile.allowNetwork = FALSE
  BY DEF WORKSPACE_WRITE_PROFILE
<1> HIDE DEF profile
<1>4. \A i \in 1 .. 11 : ~rules[i].denies
  BY <1>1, <1>2, NoneDenies
<1>5. ~rules[2].denies /\ ~rules[5].denies /\ ~rules[6].denies
  BY <1>4
<1>6. PICK ungated \in BOOLEAN, commits \in BOOLEAN, network \in BOOLEAN :
        /\ ungated <=> t.kind \in Gated /\ t.sandbox \notin {"required", "preferred"}
        /\ commits <=> t.mayCommit /\ ~profile.allowCommits
        /\ network <=> t.network # "deny" /\ ~profile.allowNetwork
  OBVIOUS
<1>7. /\ rules[2] = Rule("worker.kind-requires-sandbox",
                         t.kind \in Gated /\ t.sandbox \notin {"required", "preferred"})
      /\ rules[5] = Rule("constraints.commits", t.mayCommit /\ ~profile.allowCommits)
      /\ rules[6] = Rule("constraints.network", t.network # "deny" /\ ~profile.allowNetwork)
  BY <1>1 DEF RULES
<1>8. rules[2].denies = ungated /\ rules[5].denies = commits /\ rules[6].denies = network
  <2>1. rules[2] = Rule("worker.kind-requires-sandbox", ungated)
    BY <1>6, <1>7
  <2>2. rules[5] = Rule("constraints.commits", commits)
    BY <1>6, <1>7
  <2>3. rules[6] = Rule("constraints.network", network)
    BY <1>6, <1>7
  <2> QED BY <2>1, <2>2, <2>3, RuleDenies
<1>9. ~ungated /\ ~commits /\ ~network
  BY <1>5, <1>8
<1> QED BY <1>3, <1>6, <1>9 DEF Cleared

(* The first provider that will do is one that will do.                     *)
LEMMA ChosenWillDo ==
  ASSUME NEW available \in Hosts, select("required", available) # {}
  PROVE  satisfiesRequired(available[Min(select("required", available))])
<1>1. PICK T : T = Enforcing(available)
  OBVIOUS
<1>2. select("required", available) = T
  BY <1>1 DEF select
<1>3. T \in SUBSET Nat /\ T # {}
  <2>1. DOMAIN available \subseteq Nat
    BY HostsAssumption
  <2> QED BY <1>1, <1>2, <2>1 DEF Enforcing
<1>4. \E n \in T : \A m \in T : n <= m
  BY <1>3, Asking!Least
<1>5. Min(T) \in T
  BY <1>4 DEF Min
<1> QED BY <1>1, <1>2, <1>5 DEF Enforcing

(* A run that may still be started, or is being started, and against which  *)
(* nothing is held is one the policy let through, and where it is placed is *)
(* where it asked to be.                                                    *)
Isolating ==
  /\ session = "idle" => state = "none"
  /\ state \in {"QUEUED", "PREPARING"} /\ denial = "default" => Cleared(task)
  /\ placement # NoPlacement /\ task.sandbox = "required" => satisfiesRequired(placement.provider)

LEMMA IsolatingInit == Init => Isolating
BY DEF Init, FeedInit, Isolating

LEMMA IsolatingFrame ==
  ASSUME Isolating, UNCHANGED <<state, task, denial, placement>>,
         session' = "idle" => session = "idle"
  PROVE  Isolating'
BY DEF Isolating

(* Who moves the run has a session that asked for it.                       *)
LEMMA HandledIsNotIdle ==
  ASSUME Sole, NEW r \in handling, r.method \in {"task.create", "task.start"}
  PROVE  session # "idle"
BY DEF Sole, Creating, Creates, Wire

LEMMA CreateIsolating ==
  ASSUME Sole, Placing, Isolating,
         (\E t \in Tasks : AskCreate(t)) \/ Admit \/ Audit \/ Deny \/ Created
  PROVE  Isolating'
<1>1. CASE \E t \in Tasks : AskCreate(t)
  <2>1. state = "none" /\ placement = NoPlacement
    BY <1>1 DEF AskCreate, Isolating, Placing
  <2>2. UNCHANGED <<state, placement>> /\ session' = "creating"
    BY <1>1 DEF AskCreate, feed
  <2> QED BY <2>1, <2>2 DEF Isolating
<1>2. CASE Admit
  <2>1. PICK probed \in Hosts, links \in Checkouts, r \in handling :
          /\ denial' = admit(task, canEnforceIsolation(probed), links)
          /\ r.method = "task.create" /\ state = "none"
    BY <1>2 DEF Admit, Handler
  <2>2. session # "idle" /\ placement = NoPlacement
    BY <2>1, HandledIsNotIdle DEF Placing
  <2>3. denial' = "default" => Cleared(task)
    BY <2>1, AdmittedIsCleared
  <2>4. UNCHANGED <<session, task, placement>>
    BY <1>2 DEF Admit, sessionVars
  <2> QED BY <2>2, <2>3, <2>4 DEF Isolating, Cleared
<1>3. CASE Audit \/ Created
  <2>1. UNCHANGED <<state, task, denial, placement, session>>
    BY <1>3 DEF Audit, Created, feed, taskVars, sessionVars
  <2> QED BY <2>1, IsolatingFrame
<1>4. CASE Deny
  <2>1. PICK r \in handling : r.method = "task.create"
    BY <1>4 DEF Deny, Handler
  <2>2. session # "idle" /\ session \notin {"starting", "ready"}
    BY <2>1, HandledIsNotIdle DEF Sole, Granted, Creating, Creates, Wire
  <2>3. state' = "FAILED" /\ placement' = NoPlacement /\ UNCHANGED session
    BY <1>4, <2>2 DEF Deny, Placing, sessionVars
  <2> QED BY <2>2, <2>3 DEF Isolating
<1> QED BY <1>1, <1>2, <1>3, <1>4

LEMMA StartIsolating ==
  ASSUME Sole, Placing, Isolating, BeginStart \/ Place \/ Launch
  PROVE  Isolating'
<1>1. PICK r \in handling : r.method = "task.start" /\ (Place => r.step = "preparing")
  BY DEF BeginStart, Place, Launch, Handler
<1>2. session # "idle" /\ UNCHANGED <<session, denial>>
  BY <1>1, HandledIsNotIdle DEF BeginStart, Place, Launch, sessionVars, taskVars
<1>3. CASE BeginStart
  <2>1. UNCHANGED <<task, placement>> /\ (state' \in {"QUEUED", "PREPARING"}
                                            => state \in {"QUEUED", "PREPARING"})
    BY <1>3, ToPreparing DEF BeginStart, taskVars
  <2> QED BY <1>2, <2>1 DEF Isolating, Cleared
<1>4. CASE Place
  <2>1. placement = NoPlacement
    BY <1>1, <1>4 DEF Placing
  <2>2. PICK available \in Hosts, links \in Checkouts :
          LET acceptable == select(task.sandbox, available)
              selected == available[Min(acceptable)]
          IN \/ /\ acceptable # {} /\ placement' = [provider |-> selected, links |-> links]
                /\ UNCHANGED <<state, task>>
             \/ state' = "FAILED" /\ UNCHANGED placement
    BY <1>4 DEF Place
  <2> DEFINE acceptable == select(task.sandbox, available)
             selected == available[Min(acceptable)]
  <2>3. CASE acceptable # {} /\ placement' = [provider |-> selected, links |-> links]
                             /\ UNCHANGED <<state, task>>
    <3>1. task.sandbox = "required" => satisfiesRequired(selected)
      BY <2>2, <2>3, ChosenWillDo
    <3>2. placement'.provider = selected
      BY <2>3
    <3> QED BY <1>2, <2>3, <3>1, <3>2 DEF Isolating, Cleared
  <2>4. CASE state' = "FAILED" /\ UNCHANGED placement
    BY <1>2, <2>1, <2>4 DEF Isolating
  <2> QED BY <2>2, <2>3, <2>4
<1>5. CASE Launch
  <2>1. state' \in {"RUNNING", "FAILED"} /\ placement' = NoPlacement
    BY <1>5 DEF Launch
  <2> QED BY <1>2, <2>1 DEF Isolating
<1> QED BY <1>3, <1>4, <1>5

LEMMA LifeIsolating ==
  ASSUME Placing, Isolating, RunAdvances \/ Boot
  PROVE  Isolating'
<1>1. UNCHANGED <<session, denial>>
  BY DEF RunAdvances, Boot, sessionVars, taskVars
<1>2. CASE RunAdvances
  <2>1. /\ UNCHANGED <<task, placement>> /\ state # "none"
        /\ state' \notin {"QUEUED", "PREPARING"}
    BY <1>2 DEF RunAdvances, Ingest, Conclude, taskVars
  <2> QED BY <1>1, <2>1 DEF Isolating
<1>3. CASE Boot
  <2>1. state' \in {"QUEUED", "PREPARING"} => state = "QUEUED" /\ task' = task
    BY <1>3 DEF Boot, Orphan, NeedsRecovery, RUN_STATES, TERMINAL_RUN_STATES
  <2>2. placement' = NoPlacement /\ (state = "none" => state' = "none")
    BY <1>3 DEF Boot, Orphan
  <2> QED BY <1>1, <2>1, <2>2 DEF Isolating, Cleared
<1> QED BY <1>2, <1>3

LEMMA IsolatingKept ==
  ASSUME Sole, Placing, Isolating, [Next]_vars
  PROVE  Isolating'
<1>1. CASE \/ UNCHANGED vars \/ LayOut \/ BeginFollow \/ Abort \/ Sink \/ Logs \/ ReadRun
           \/ Transport \/ Shutdown \/ Reactivate
  <2>1. UNCHANGED <<state, task, denial, placement, session>>
    BY <1>1 DEF vars, LayOut, BeginFollow, Abort, Sink, Logs, ReadRun, Transport, Shutdown, Reactivate,
                feed, taskVars, sessionVars
  <2> QED BY <2>1, IsolatingFrame
<1>2. CASE AskStart \/ Started \/ Poll \/ TakeSnapshot
  <2>1. UNCHANGED <<state, task, denial, placement>> /\ (session' = "idle" => session = "idle")
    BY <1>2 DEF AskStart, Started, Poll, TakeSnapshot, feed, taskVars, sessionVars
  <2> QED BY <2>1, IsolatingFrame
<1> QED BY <1>1, <1>2, CreateIsolating, StartIsolating, LifeIsolating DEF Next

(* A worker is on its way only for a task that was admitted and against     *)
(* which no rule of the policy speaks, and one that must have a sandbox is  *)
(* on its way into one that enforces it, whichever providers came and went  *)
(* since admission asked (createTask, startRun, select).                    *)
THEOREM IsolatedAsAsked == Spec => []IsolationHolds
<1> DEFINE Inv == /\ WireType /\ News /\ Greeting /\ Matched /\ Sole /\ Placing /\ Decided
                  /\ Isolating
<1>1. Init => Inv
  BY WireTypeInit, NewsInit, GreetingInit, MatchedInit, SoleInit, PlacingInit, DecidedInit,
     IsolatingInit
<1>2. Inv /\ [Next]_vars => Inv'
  BY WireTypeKept, NewsKept, GreetingKept, MatchedKept, SoleKept, PlacingKept, DecidedKept,
     IsolatingKept
<1>3. Inv => IsolationHolds
  BY DEF Placing, Sole, Granted, Isolating, Cleared, IsolationHolds
<1> HIDE DEF Inv
<1> QED BY <1>1, <1>2, <1>3, PTL DEF Spec

-----------------------------------------------------------------------------
(* Types, beyond those of what goes over the wire. *)

PhaseType ==
  phase \in {"serving", "draining", "closed", "down"} /\ link \in {"none", "up", "cut", "closed"}

WatchType ==
  /\ watch \in {"off", "polling", "publishing", "notifying", "pausing", "over"}
  /\ counted \in Nat /\ notified \in BOOLEAN /\ notices \in Nat

TailType == tail \in {"off", "reading", "checking", "over"}

SessionType ==
  session \in {"idle", "creating", "starting", "ready", "lost"} /\ follows \in 0 .. MaxFollows

TaskType ==
  /\ task \in Tasks \cup {NoTask} /\ denial \in DECISIONS
  /\ placement = NoPlacement \/ placement.links \in Checkouts

ShellType == PhaseType /\ WatchType /\ TailType /\ SessionType /\ TaskType

LEMMA ShellInit == Init => ShellType
<1> SUFFICES ASSUME Init PROVE ShellType
  OBVIOUS
<1>1. PhaseType
  BY DEF Init, RpcInit, PhaseType
<1>2. WatchType /\ TailType
  BY DEF Init, ProjectionInit, WatchType, TailType
<1>3. SessionType
  BY FollowsAssumption DEF Init, SessionType
<1>4. TaskType
  BY DEF Init, TaskType, DECISIONS
<1> QED BY <1>1, <1>2, <1>3, <1>4 DEF ShellType

LEMMA PhaseKept == ASSUME PhaseType, [Next]_vars PROVE PhaseType'
<1> USE DEF PhaseType, daemon
<1>1. CASE Transport
  BY <1>1 DEF Transport, ReadToken, Connect, Greeted, Hangup, Deliver, DeliverTooLarge, SeeClose,
              Dispatch, Expire
<1>2. CASE Shutdown \/ Boot \/ Reactivate
  BY <1>2 DEF Shutdown, StopAccepting, CloseServer, Exit, CutLink, Boot, Restart, Reactivate,
              Dispose, Hangup
<1>3. CASE (\E t \in Tasks : AskCreate(t)) \/ AskStart \/ Started \/ Poll \/ TakeSnapshot
  BY <1>3 DEF AskCreate, AskStart, Started, Poll, TakeSnapshot, Call
<1>4. CASE Admit \/ Audit \/ Deny \/ Created \/ BeginStart \/ Place \/ Launch \/ ReadRun
  BY <1>4 DEF Admit, Audit, Deny, Created, BeginStart, Place, Launch, ReadRun, Answer, GoOn
<1>5. CASE RunAdvances \/ LayOut \/ BeginFollow \/ Abort \/ Sink \/ Logs \/ UNCHANGED vars
  BY <1>5 DEF RunAdvances, LayOut, BeginFollow, Abort, Sink, Logs, vars, rpc
<1> QED BY <1>1, <1>2, <1>3, <1>4, <1>5 DEF Next

(* Who does not look at the run leaves both views alone.                    *)
LEMMA ViewsAlone ==
  ASSUME \/ Transport \/ (\E t \in Tasks : AskCreate(t)) \/ AskStart \/ Started
         \/ Admit \/ Audit \/ Deny \/ Created \/ BeginStart \/ Place \/ Launch \/ RunAdvances
         \/ ReadRun \/ Shutdown \/ Boot \/ UNCHANGED vars
  PROVE  UNCHANGED <<watch, counted, notified, notices, tail>>
<1>1. UNCHANGED projection
  BY DEF Transport, AskCreate, AskStart, Started, Admit, Audit, Deny, Created, BeginStart, Place,
         Launch, RunAdvances, ReadRun, Shutdown, Boot, vars
<1> QED BY <1>1 DEF projection, viewer, logs

LEMMA WatchKept == ASSUME WireType, WatchType, [Next]_vars PROVE WatchType'
<1>1. CASE Sink
  <2>1. watch' \in {"notifying", "pausing", "over"} /\ UNCHANGED counted
    BY <1>1 DEF Sink, SinkStep, SinkFails, Advance
  <2>2. notices' = notices + 1 \/ UNCHANGED notices
    BY <1>1 DEF Sink, SinkStep, SinkFails
  <2>3. notified' = TRUE \/ UNCHANGED notified
    BY <1>1 DEF Sink, SinkStep, SinkFails
  <2>4. notices' \in Nat /\ counted' \in Nat
    BY <2>1, <2>2 DEF WatchType
  <2>5. notified' \in BOOLEAN
    BY <2>3 DEF WatchType
  <2> QED BY <2>1, <2>4, <2>5 DEF WatchType
<1>2. CASE TakeSnapshot
  <2>1. CASE EndWatch
    BY <2>1 DEF EndWatch, WatchType
  <2>2. CASE ~EndWatch
    <3>1. PICK s, e \in DOMAIN calls : Publish(calls[s].value.run, calls[e].value.events)
      BY <1>2, <2>2 DEF TakeSnapshot
    <3>2. calls[e].value.events \in Pages
      BY <3>1 DEF WireType, ClientType, Calls, Values
    <3>3. PICK n \in Nat : n = Len(calls[e].value.events)
      BY <3>2, PagesAreInts
    <3>4. counted' = counted + n /\ watch' = "publishing" /\ UNCHANGED <<notified, notices>>
      BY <3>1, <3>3 DEF Publish
    <3> QED BY <3>4 DEF WatchType
  <2> QED BY <2>1, <2>2
<1>3. CASE Reactivate \/ Poll \/ BeginFollow \/ Abort
  BY <1>3 DEF Reactivate, ForgetWatch, Poll, BeginFollow, Follow, Abort, EndWatch, WatchType
<1>4. CASE LayOut \/ Logs
  BY <1>4 DEF LayOut, Logs, viewer, WatchType
<1>5. CASE UNCHANGED <<watch, counted, notified, notices>>
  BY <1>5 DEF WatchType
<1> QED BY <1>1, <1>2, <1>3, <1>4, <1>5, ViewsAlone DEF Next

LEMMA TailKept == ASSUME TailType, [Next]_vars PROVE TailType'
<1>1. CASE Logs \/ LayOut
  BY <1>1 DEF Logs, TailReads, TailChecks, LayOut, TailType
<1>2. CASE Sink \/ TakeSnapshot \/ Reactivate \/ Poll \/ BeginFollow \/ Abort
  BY <1>2 DEF Sink, TakeSnapshot, Reactivate, Poll, BeginFollow, Abort, logs, TailType
<1>3. CASE UNCHANGED tail
  BY <1>3 DEF TailType
<1> QED BY <1>1, <1>2, <1>3, ViewsAlone DEF Next

LEMMA SessionKept == ASSUME SessionType, [Next]_vars PROVE SessionType'
<1> USE DEF SessionType
<1>1. CASE (\E t \in Tasks : AskCreate(t)) \/ AskStart \/ Started
  BY <1>1 DEF AskCreate, AskStart, Started
<1>2. CASE BeginFollow
  BY <1>2, FollowsAssumption DEF BeginFollow
<1>3. CASE UNCHANGED sessionVars
  BY <1>3 DEF sessionVars
<1>4. CASE \/ Admit \/ Audit \/ Deny \/ Created \/ BeginStart \/ Place \/ Launch \/ ReadRun
           \/ RunAdvances \/ Transport \/ Reactivate \/ Shutdown \/ Boot
  BY <1>3, <1>4 DEF Admit, Audit, Deny, Created, BeginStart, Place, Launch, ReadRun, RunAdvances,
                    Transport, Reactivate, Shutdown, Boot
<1>5. CASE LayOut \/ Poll \/ TakeSnapshot \/ Abort \/ Sink \/ Logs \/ UNCHANGED vars
  BY <1>3, <1>5 DEF LayOut, Poll, TakeSnapshot, Abort, Sink, Logs, vars
<1> QED BY <1>1, <1>2, <1>4, <1>5 DEF Next

(* A decision is the name of a rule, or "default".                          *)
LEMMA DecisionIsName ==
  ASSUME NEW t, NEW available, NEW links
  PROVE  admit(t, available, links) \in DECISIONS
<1>1. PICK rules : rules = RULES(t, WORKSPACE_WRITE_PROFILE(available), links)
  OBVIOUS
<1>2. PICK R : rules \in Seq(R) /\ \A rule \in R : rule.name \in RULE_NAMES
  BY <1>1, RulesAre
<1>3. \A decision \in DECISIONS, rule \in R : Ask(decision, rule) \in DECISIONS
  BY <1>2 DEF Ask, DECISIONS
<1>4. Asking!folded(rules) \in DECISIONS
  <2>1. "default" \in DECISIONS
    BY DEF DECISIONS
  <2> QED BY <2>1, <1>2, <1>3, Asking!FoldedIn
<1>5. decide(t, WORKSPACE_WRITE_PROFILE(available), links) \in DECISIONS
  BY <1>1, <1>4 DEF decide
<1> QED BY <1>5 DEF admit, DECISIONS

LEMMA TaskKept == ASSUME TaskType, [Next]_vars PROVE TaskType'
<1> USE DEF TaskType
<1>1. ASSUME NEW t \in Tasks, AskCreate(t) PROVE TaskType'
  BY <1>1 DEF AskCreate
<1>2. CASE Admit
  BY <1>2, DecisionIsName DEF Admit
<1>3. CASE Deny \/ Launch
  BY <1>3 DEF Deny, Launch, DECISIONS
<1>4. CASE Place
  <2>1. PICK links \in Checkouts :
          \/ \E selected : placement' = [provider |-> selected, links |-> links]
          \/ UNCHANGED placement
    BY <1>4 DEF Place
  <2>2. placement' = NoPlacement \/ placement'.links \in Checkouts
    BY <2>1
  <2>3. task' \in {task, NoTask} /\ UNCHANGED denial
    BY <1>4 DEF Place
  <2> QED BY <2>2, <2>3
<1>5. CASE Boot
  BY <1>5 DEF Boot
<1>6. CASE UNCHANGED taskVars
  BY <1>6 DEF taskVars
<1>7. CASE \/ Audit \/ Created \/ BeginStart \/ ReadRun \/ RunAdvances \/ Transport \/ Reactivate
           \/ Shutdown \/ AskStart \/ Started
  BY <1>6, <1>7 DEF Audit, Created, BeginStart, ReadRun, RunAdvances, Transport, Reactivate,
                    Shutdown, AskStart, Started
<1>8. CASE LayOut \/ BeginFollow \/ Poll \/ TakeSnapshot \/ Abort \/ Sink \/ Logs \/ UNCHANGED vars
  BY <1>6, <1>8 DEF LayOut, BeginFollow, Poll, TakeSnapshot, Abort, Sink, Logs, vars
<1> QED BY <1>1, <1>2, <1>3, <1>4, <1>5, <1>7, <1>8 DEF Next

LEMMA LayoutStays == LayoutInv /\ [Next]_vars => LayoutInv'
<1> SUFFICES ASSUME LayoutInv, [Next]_vars PROVE LayoutInv'
  OBVIOUS
<1>1. CASE UNCHANGED layout
  BY <1>1 DEF layout, LayoutInv, LayoutTypeOK, LayoutAgrees, Joined
<1>2. CASE LayoutNext
  BY <1>2, LayoutKept
<1> QED BY <1>1, <1>2, LayoutSteps DEF vars, projection, layout

(* Every variable keeps its type: no page is longer than its limit, no      *)
(* sequence number, life of the daemon or call id exceeds its bound, what   *)
(* was decided is the name of a rule, and the tail prints events there are  *)
(* (readEvents, watch, connectToDaemon, createTask).                        *)
THEOREM SessionTypeCorrect == Spec => []TypeOK
<1> DEFINE Inv == /\ WireType /\ News /\ Greeting /\ Matched /\ Tailed /\ LayoutInv /\ ShellType
<1>1. Init => Inv
  <2>1. Init => LayoutInv
    BY DEF Init, LayoutInit, LayoutInv, LayoutTypeOK, LayoutAgrees, Joined, Idle
  <2> QED BY <2>1, WireTypeInit, NewsInit, GreetingInit, MatchedInit, TailedInit, ShellInit
<1>2. Inv /\ [Next]_vars => Inv'
  <2> SUFFICES ASSUME Inv, [Next]_vars PROVE Inv'
    OBVIOUS
  <2>1. ShellType'
    BY PhaseKept, WatchKept, TailKept, SessionKept, TaskKept DEF ShellType
  <2> QED BY <2>1, WireTypeKept, NewsKept, GreetingKept, MatchedKept, TailedKept, LayoutStays
<1>3. Inv => TypeOK
  <2> SUFFICES ASSUME Inv PROVE TypeOK
    OBVIOUS
  <2>1. FeedTypeOK
    BY DEF WireType, ViewType, SomeRun, FeedTypeOK
  <2>2. RpcTypeOK
    <3>1. /\ \A i \in DOMAIN requests : requests[i].method \in Methods
          /\ \A r \in handling : r.method \in Methods
      <4>1. requests \in Seq(Requests) /\ handling \in SUBSET Requests
        BY DEF WireType, ServerType
      <4>2. \A i \in DOMAIN requests : requests[i] \in Requests
        BY <4>1
      <4> QED BY <4>1, <4>2 DEF Requests
    <3>2. /\ \A i \in DOMAIN replies : replies[i].outcome \in {"ok", "refused"}
          /\ \A id \in DOMAIN calls : calls[id].outcome \in {"waiting", "ok", "refused", "lost"}
      <4>1. replies \in Seq(Replies) /\ calls \in [DOMAIN calls -> Calls]
        BY DEF WireType, ClientType
      <4>2. /\ \A i \in DOMAIN replies : replies[i] \in Replies
            /\ \A id \in DOMAIN calls : calls[id] \in Calls
        BY <4>1
      <4> QED BY <4>2 DEF Replies, Calls, Outcomes
    <3> QED BY <3>1, <3>2 DEF WireType, ServerType, ClientType, ShellType, PhaseType, RpcTypeOK
  <2>3. printed \in Seq(0 .. MaxEvents)
    BY FeedAssumption, PrintedType DEF WireType, ViewType
  <2>4. shown.run \in SomeRun /\ Len(shown.events) <= PageSize
    BY DEF WireType, ViewType, Values, Pages
  <2>5. ProjectionTypeOK
    BY <2>3, <2>4 DEF WireType, ViewType, SomeRun, ShellType, WatchType, TailType, ProjectionTypeOK
  <2> QED BY <2>1, <2>2, <2>5 DEF LayoutInv, ShellType, SessionType, TaskType, TypeOK
<1> HIDE DEF Inv
<1> QED BY <1>1, <1>2, <1>3, PTL DEF Spec

=============================================================================
