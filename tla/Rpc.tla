---------------------------------- MODULE Rpc ----------------------------------
(***************************************************************************)
(* One client connection to the daemon: connectToDaemon and its calls      *)
(* (apps/agentd/src/client.ts) on one side, startServer, handleConnection  *)
(* and dispatch (apps/agentd/src/server.ts) on the other, with the death,  *)
(* the shutdown and the restart of the daemon between any two steps.       *)
(*                                                                         *)
(* A call is a record from call() until its caller has taken the answer;   *)
(* the client's map of waiters is the set of calls still waiting.  Lines   *)
(* arrive in order; the server starts a handler per line and answers when  *)
(* the handler is done, so answers overtake each other.                    *)
(***************************************************************************)
EXTENDS Integers, Sequences, FiniteSets

CONSTANTS MaxCalls,  \* calls on one connection
          MaxLives,  \* times the daemon starts
          Faults     \* "large", "crash", and what later modules add

ASSUME RpcAssumption == MaxCalls \in Nat \ {0} /\ MaxLives \in Nat \ {0}

VARIABLES
  phase,         \* the daemon: serving, draining, closed (sockets gone), down
  life,          \* which start of it this is, and the token it wrote
  link,          \* the socket: none, up, cut (the client has not noticed), closed
  presented,     \* the token the client read before it connected; 0 for none
  authenticated, \* the server's flag for this connection
  requests,      \* lines on their way to the server
  handling,      \* requests whose handler has not answered
  replies,       \* lines on their way to the client
  calls,         \* the client's calls: waiting, or settled and not yet taken
  nextId

daemon == <<phase, life>>
server == <<authenticated, requests, handling>>
client == <<presented, calls, nextId>>
rpc == <<daemon, link, server, replies, client>>

Methods == {"daemon.hello", "task.create", "task.start", "task.status", "task.events"}
UNAUTHENTICATED_METHODS == {"daemon.hello"}

NoAnswer == [run |-> "none", events |-> <<>>]

Request(id, method, since) == [id |-> id, method |-> method, since |-> since, step |-> "begin"]
Response(id, outcome, value) == [id |-> id, outcome |-> outcome, value |-> value]

RpcTypeOK ==
  /\ phase \in {"serving", "draining", "closed", "down"} /\ life \in 1 .. MaxLives
  /\ link \in {"none", "up", "cut", "closed"}
  /\ presented \in 0 .. MaxLives /\ authenticated \in BOOLEAN
  /\ \A i \in DOMAIN requests : requests[i].method \in Methods
  /\ \A r \in handling : r.method \in Methods
  /\ \A i \in DOMAIN replies : replies[i].outcome \in {"ok", "refused"}
  /\ DOMAIN calls \subseteq 1 .. MaxCalls
  /\ \A id \in DOMAIN calls : calls[id].outcome \in {"waiting", "ok", "refused", "lost"}
  /\ nextId \in 1 .. MaxCalls + 1

RpcInit ==
  /\ phase = "serving" /\ life = 1
  /\ link = "none" /\ presented = 0 /\ authenticated = FALSE
  /\ requests = <<>> /\ handling = {} /\ replies = <<>>
  /\ calls = <<>> /\ nextId = 1

-----------------------------------------------------------------------------
(* The client. *)

Waiting == {id \in DOMAIN calls : calls[id].outcome = "waiting"}
Settled(id) == id \in DOMAIN calls /\ calls[id].outcome # "waiting"
SettleAs(ids, outcome) ==
  [id \in DOMAIN calls |->
     IF id \in ids THEN [calls[id] EXCEPT !.outcome = outcome] ELSE calls[id]]
Without(ids) == [id \in DOMAIN calls \ ids |-> calls[id]]

(* `asked` is what there was to be answered at the time of the call.        *)
NewCall(method, since, asked) ==
  [method |-> method, since |-> since, asked |-> asked, outcome |-> "waiting", value |-> NoAnswer]

(* A handler whose socket is gone still runs, and answers nobody; what is   *)
(* left of one that only reads is nothing.                                  *)
Unheard == {[r EXCEPT !.id = 0] : r \in {h \in handling : h.method \in {"task.create", "task.start"}}}

(* connectToDaemon reads the token file; the file outlives a crash.         *)
ReadToken ==
  /\ link = "none" /\ presented = 0
  /\ phase # "down" \/ "crash" \in Faults
  /\ presented' = life
  /\ UNCHANGED <<daemon, link, server, replies, calls, nextId>>

(* It connects, maybe to another daemon by then, and says hello.            *)
Connect(asked) ==
  /\ link = "none" /\ presented # 0
  /\ IF phase = "serving"
       THEN /\ link' = "up" /\ UNCHANGED presented
            /\ requests' = <<Request(1, "daemon.hello", presented)>>
            /\ calls' = [id \in {1} |-> NewCall("daemon.hello", presented, asked)]
            /\ nextId' = 2
       ELSE /\ presented' = 0 /\ UNCHANGED <<link, requests, calls, nextId>>
  /\ authenticated' = FALSE
  /\ UNCHANGED <<daemon, handling, replies>>

(* The socket is destroyed on this side: nothing more arrives either way.   *)
Hangup(to) == link' = to /\ requests' = <<>> /\ replies' = <<>> /\ handling' = Unheard

(* connectToDaemon returns the client, or destroys the socket.              *)
Greeted ==
  /\ Settled(1) /\ calls[1].method = "daemon.hello"
  /\ calls' = Without({1})
  /\ IF calls[1].outcome = "ok"
       THEN UNCHANGED <<link, presented, requests, handling, replies, nextId>>
       ELSE Hangup("none") /\ presented' = 0 /\ nextId' = 1
  /\ UNCHANGED <<daemon, authenticated>>

Connected == link # "none" /\ 1 \notin DOMAIN calls

(* The calls of `methods`, made in one go by code that has taken what was   *)
(* settled before; a destroyed socket takes nothing.                        *)
Call(methods, since, asked) ==
  LET Id(i) == nextId + i - 1
  IN /\ Connected /\ nextId + Len(methods) - 1 <= MaxCalls
     /\ calls' = [id \in Waiting \cup {Id(i) : i \in DOMAIN methods} |->
                    IF id \in Waiting THEN calls[id]
                    ELSE NewCall(methods[id - nextId + 1], since, asked)]
     /\ nextId' = nextId + Len(methods)
     /\ requests' = IF link = "up"
                      THEN requests \o [i \in DOMAIN methods |-> Request(Id(i), methods[i], since)]
                      ELSE requests
     /\ UNCHANGED <<daemon, link, authenticated, handling, replies, presented>>

Answered(id, reply) ==
  [calls EXCEPT ![id].outcome = reply.outcome, ![id].value = reply.value]

(* The reply settles whoever has waited longest. *)
DeliverInOrder ==
  /\ link \in {"up", "cut"} /\ replies # <<>>
  /\ calls' = IF Waiting # {}
                THEN Answered(CHOOSE id \in Waiting : \A other \in Waiting : id <= other,
                              Head(replies))
                ELSE calls
  /\ replies' = Tail(replies)
  /\ UNCHANGED <<daemon, link, server, presented, nextId>>

(* socket.on("data"): the waiter of this id, if there still is one.         *)
Deliver ==
  /\ link \in {"up", "cut"} /\ replies # <<>>
  /\ calls' = IF Head(replies).id \in Waiting THEN Answered(Head(replies).id, Head(replies))
                                              ELSE calls
  /\ replies' = Tail(replies)
  /\ UNCHANGED <<daemon, link, server, presented, nextId>>

(* A reply over MAX_RPC_MESSAGE_BYTES ends the connection for every call.   *)
DeliverTooLarge ==
  /\ "large" \in Faults
  /\ link \in {"up", "cut"} /\ replies # <<>> /\ Head(replies).value.events # <<>>
  /\ Hangup("closed")
  /\ calls' = SettleAs(Waiting, "lost")
  /\ UNCHANGED <<daemon, authenticated, presented, nextId>>

(* socket.on("close") comes after the data that was still on its way.       *)
SeeClose ==
  /\ link = "cut" /\ replies = <<>>
  /\ link' = "closed"
  /\ calls' = SettleAs(Waiting, "lost")
  /\ UNCHANGED <<daemon, server, replies, presented, nextId>>

(* The timer is cleared with the socket. *)
ExpireWhileUp(id) ==
  /\ id \in Waiting /\ link = "up"
  /\ calls' = SettleAs({id}, "lost")
  /\ UNCHANGED <<daemon, link, server, replies, presented, nextId>>

(* The timer of one call.  The request is not withdrawn.                    *)
Expire(id) ==
  /\ id \in Waiting
  /\ calls' = SettleAs({id}, "lost")
  /\ UNCHANGED <<daemon, link, server, replies, presented, nextId>>

(* dispose: the host shuts the extension down, to activate it again.        *)
Dispose ==
  /\ Connected /\ DOMAIN calls = {}
  /\ Hangup("none") /\ presented' = 0 /\ nextId' = 1
  /\ UNCHANGED <<daemon, authenticated, calls>>

-----------------------------------------------------------------------------
(* The server. *)

Send(id, outcome, value) ==
  replies' = IF link = "up" /\ id # 0 THEN Append(replies, Response(id, outcome, value))
                                      ELSE replies

(* A greeting is enough, whatever token it carries. *)
DispatchAnyHello ==
  /\ link = "up" /\ phase \in {"serving", "draining"} /\ requests # <<>>
  /\ requests' = Tail(requests)
  /\ LET request == Head(requests)
     IN IF request.method = "daemon.hello"
          THEN authenticated' = TRUE /\ Send(request.id, "ok", NoAnswer) /\ UNCHANGED handling
          ELSE handling' = handling \cup {request} /\ UNCHANGED <<authenticated, replies>>
  /\ UNCHANGED <<daemon, link, client>>

(* dispatch up to its first await: the gate, hello, and the methods that    *)
(* answer later.  startRun refuses at once when the daemon is draining.     *)
Dispatch ==
  /\ link = "up" /\ phase \in {"serving", "draining"} /\ requests # <<>>
  /\ requests' = Tail(requests)
  /\ LET request == Head(requests)
         refused == \/ ~authenticated /\ request.method \notin UNAUTHENTICATED_METHODS
                    \/ request.method = "daemon.hello" /\ request.since # life
                    \/ request.method = "task.start" /\ phase = "draining"
     IN \/ /\ refused
           /\ Send(request.id, "refused", NoAnswer) /\ UNCHANGED <<authenticated, handling>>
        \/ /\ ~refused /\ request.method = "daemon.hello"
           /\ authenticated' = TRUE
           /\ Send(request.id, "ok", NoAnswer) /\ UNCHANGED handling
        \/ /\ ~refused /\ request.method # "daemon.hello"
           /\ handling' = handling \cup {request} /\ UNCHANGED <<authenticated, replies>>
  /\ UNCHANGED <<daemon, link, client>>

(* The end of a handler: its answer, if there is still a socket to take it. *)
Answer(request, outcome, value) ==
  /\ handling' = handling \ {request}
  /\ Send(request.id, outcome, value)
  /\ UNCHANGED <<daemon, link, authenticated, requests, client>>

(* A handler goes on past an await. *)
GoOn(request, step) ==
  /\ handling' = (handling \ {request}) \cup {[request EXCEPT !.step = step]}
  /\ UNCHANGED <<daemon, link, authenticated, requests, replies, client>>

-----------------------------------------------------------------------------
(* The daemon's life.                                                       *)

(* The socket goes; what the server had already written may still arrive.   *)
CutLink ==
  /\ link' = (IF link = "up" THEN "cut" ELSE link)
  /\ requests' = <<>>
  /\ \E n \in 0 .. Len(replies) : replies' = SubSeq(replies, 1, n)

StopAccepting ==
  /\ phase = "serving" /\ phase' = "draining"
  /\ UNCHANGED <<life, link, server, replies, client>>

(* server.close(), once the orchestrator has drained.                       *)
CloseServer ==
  /\ phase = "draining" /\ phase' = "closed"
  /\ \A r \in handling : r.method # "task.start"
  /\ CutLink
  /\ handling' = Unheard
  /\ UNCHANGED <<life, authenticated, client>>

(* process.exit, or a crash.                                                *)
Exit ==
  /\ phase = "closed" \/ ("crash" \in Faults /\ phase # "down")
  /\ phase' = "down" /\ handling' = {}
  /\ CutLink
  /\ UNCHANGED <<life, authenticated, client>>

(* A new daemon, with a new token.                                          *)
Restart ==
  /\ phase = "down" /\ life < MaxLives
  /\ phase' = "serving" /\ life' = life + 1
  /\ UNCHANGED <<link, server, replies, client>>

=============================================================================
