------------------------------ MODULE Session ------------------------------
(***************************************************************************)
(* SocketWorker's session with the daemon: connecting, the handshake, the  *)
(* serve loop, requests in both directions over one stream, and Stop.      *)
(*                                                                         *)
(* The worker has at most one request out (Exchange) and, while it waits,  *)
(* answers the daemon's requests that overtake the reply.  The daemon may  *)
(* be down, restart with another token, refuse, freeze, or send what it    *)
(* should not; sends and waits end with their deadlines.  What a request   *)
(* does is the subject of the other modules; here a request is its class,  *)
(* one for each way Dispatch has of answering.                             *)
(***************************************************************************)
EXTENDS Naturals, Sequences

CONSTANTS
  MaxRestarts,  \* bound: restarts of the daemon
  MaxConnects,  \* bound: connections while the daemon lives
  MaxRequests,  \* bound: requests of the daemon, on all connections, and responses nobody asked for
  MaxStrays     \* bound: the latter

ASSUME SessionAssumption ==
  MaxRestarts \in Nat /\ MaxConnects \in Nat /\ MaxRequests \in Nat /\ MaxStrays \in Nat

\* Classes of requests: "plain", answered whatever it holds (Ping and Poll, a well-formed Frame,
\* Subscribe, ReadDirect, Write or NvRam, a malformed one of the next two classes, any unknown type);
\* "status" (Overlay, Status); "players" (TopScores, Players, PlayerPicture); "bad", a malformed Frame,
\* Subscribe, ReadDirect, Write or NvRam; "bye"; and "unreadable", a length out of bounds or a body that
\* never arrives.
Requests == {"plain", "status", "players", "bad", "bye", "unreadable"}

VARIABLES
  daemon,       \* "down", "up" or "frozen"
  gen, token,   \* the daemon's incarnation, and the one whose token the token file holds
  pc,           \* where the worker is
  m_running,
  peer,         \* the incarnation connected to (0: no socket)
  down,         \* what the daemon sent and the worker has not read
  asking,       \* what Exchange waits for: "hello", "declare", any other "request", or "none"
  asked,        \* the daemon has yet to answer it
  hello,        \* the incarnation whose token went out in Hello
  m_connected, m_haveDeclared,
  m_peerCapabilities,   \* HelloAck offered the read-backs
  stream,       \* history of this connection, see NewStream
  connects, requests, strays   \* towards the bounds

external == <<daemon, gen, token>>
budgets  == <<connects, requests, strays>>
session  == <<m_connected, m_haveDeclared, m_peerCapabilities>>
exchange == <<asking, asked, hello>>
vars     == <<external, pc, m_running, peer, down, exchange, session, stream, budgets>>

\* Of a connection: the daemon's requests sent, read, and answered; the classes that were served after
\* HelloAck; what the daemon acknowledged; whether the worker's stream was truncated, and written to
\* after that; whether the session has failed; and its Bye.
NewStream == [sent |-> 0, read |-> 0, answered |-> <<>>, served |-> {}, offered |-> FALSE, declared |-> FALSE,
              cut |-> FALSE, afterCut |-> FALSE, failed |-> FALSE, bye |-> FALSE]

Init ==
  /\ daemon = "down" /\ gen = 0 /\ token = 0
  /\ pc = "off" /\ m_running = FALSE /\ peer = 0 /\ down = <<>>
  /\ asking = "none" /\ asked = FALSE /\ hello = 0
  /\ m_connected = FALSE /\ m_haveDeclared = FALSE /\ m_peerCapabilities = FALSE
  /\ stream = NewStream
  /\ connects = 0 /\ requests = 0 /\ strays = 0

(***************************************************************************)
(* The daemon (external).                                                  *)
(***************************************************************************)

\* It replaces the token before it listens.
RotateToken ==
  /\ daemon = "down" /\ token = gen /\ gen <= MaxRestarts
  /\ token' = gen + 1
  /\ UNCHANGED <<daemon, gen, pc, m_running, peer, down, exchange, session, stream, budgets>>

Listen ==
  /\ daemon = "down" /\ token = gen + 1
  /\ daemon' = "up" /\ gen' = token
  /\ UNCHANGED <<token, pc, m_running, peer, down, exchange, session, stream, budgets>>

\* A killed daemon's socket is closed behind what it sent; a frozen one's stays open.
Die ==
  /\ daemon # "down"
  /\ daemon' = "down"
  /\ UNCHANGED <<gen, token, pc, m_running, peer, down, exchange, session, stream, budgets>>

Freeze ==
  /\ daemon = "up"
  /\ daemon' = "frozen"
  /\ UNCHANGED <<gen, token, pc, m_running, peer, down, exchange, session, stream, budgets>>

\* The connection's daemon is there and its socket open; and it sends what will be read.
PeerOpen == peer # 0 /\ peer = gen /\ daemon # "down"
PeerActs == PeerOpen /\ daemon = "up" /\ pc \in {"await", "serve"}

Response(type, error, offers) == [kind |-> "response", type |-> type, current |-> TRUE, error |-> error, offers |-> offers]
Request(class) == [kind |-> "request", type |-> class, current |-> FALSE, error |-> FALSE, offers |-> FALSE]

\* The request that is out is answered: a Hello with an old token is refused, and any other may be.
Reply(error, offers) ==
  /\ PeerActs /\ asked
  /\ (asking = "hello" /\ hello # gen) => error
  /\ error => asking \in {"hello", "declare"}   \* a refused Game, TopScoresRequest or Ping changes nothing here
  /\ offers => (asking = "hello" /\ ~error)
  /\ down' = Append(down, Response(asking, error, offers))
  /\ asked' = FALSE
  /\ stream' = [stream EXCEPT !.declared = @ \/ (asking = "declare" /\ ~error),
                              !.offered = IF asking = "hello" THEN offers ELSE @]
  /\ UNCHANGED <<external, pc, m_running, peer, asking, hello, session, budgets>>

\* The last answer goes out again.
Repeat ==
  /\ PeerActs /\ strays < MaxStrays /\ requests + strays < MaxRequests /\ asking # "none" /\ ~asked
  /\ down' = Append(down, Response(asking, FALSE, FALSE))
  /\ strays' = strays + 1
  /\ UNCHANGED <<external, pc, m_running, peer, exchange, session, stream, connects, requests>>

\* The daemon asks, also before it has answered Hello.
Ask(class) ==
  /\ PeerActs /\ requests + strays < MaxRequests
  /\ down' = Append(down, Request(class))
  /\ requests' = requests + 1
  /\ stream' = [stream EXCEPT !.sent = @ + 1]
  /\ UNCHANGED <<external, pc, m_running, peer, exchange, session, connects, strays>>

(***************************************************************************)
(* Start, Stop and the worker's outer loop.                                *)
(***************************************************************************)

Start ==
  /\ pc = "off" /\ ~m_running
  /\ m_running' = TRUE /\ pc' = "connect"
  /\ UNCHANGED <<external, peer, down, exchange, session, stream, budgets>>

\* Stop, until it waits for the thread to end.
Stop ==
  /\ m_running
  /\ m_running' = FALSE
  /\ UNCHANGED <<external, pc, peer, down, exchange, session, stream, budgets>>

WorkerEnds ==
  /\ pc = "connect" /\ ~m_running
  /\ pc' = "ended"
  /\ UNCHANGED <<external, m_running, peer, down, exchange, session, stream, budgets>>

Connected ==
  /\ daemon # "down"
  /\ peer' = gen /\ pc' = "token"
  /\ m_haveDeclared' = FALSE
  /\ connects' = connects + 1 /\ down' = <<>> /\ stream' = NewStream
  /\ UNCHANGED <<m_connected, m_peerCapabilities, requests, strays>>

NotConnected(where) ==
  /\ pc' = where
  /\ UNCHANGED <<peer, down, session, stream, budgets>>

\* A nonblocking connect succeeds, fails, or is in progress.  No deadline is missed for want of a
\* connection: the last one the bound allows fails.
Connect ==
  /\ pc = "connect" /\ m_running
  /\ \/ connects < MaxConnects /\ Connected
     \/ NotConnected("backoff")
     \/ daemon # "down" /\ NotConnected("pending")
  /\ UNCHANGED <<external, m_running, exchange>>

\* Its deadline passes, or the worker stops.
GivesUp == TRUE

ConnectPending ==
  /\ pc = "pending"
  /\ \/ connects < MaxConnects /\ daemon = "up" /\ m_running /\ Connected
     \/ daemon = "down" /\ NotConnected("backoff")
     \/ GivesUp /\ NotConnected("backoff")
  /\ UNCHANGED <<external, m_running, exchange>>

Backoff ==
  /\ pc = "backoff"
  /\ pc' = "connect"
  /\ UNCHANGED <<external, m_running, peer, down, exchange, session, stream, budgets>>

\* Mutant: only a session that failed is closed.
DisconnectSocket ==
  /\ pc = "close"
  /\ peer' = (IF stream.failed THEN 0 ELSE peer) /\ stream' = NewStream
  /\ m_connected' = FALSE
  /\ pc' = IF m_running THEN "backoff" ELSE "connect"
  /\ UNCHANGED <<external, m_running, down, exchange, m_haveDeclared, m_peerCapabilities, budgets>>

\* Disconnect: the socket is closed, and what the session had with it.
Disconnect ==
  /\ pc = "close"
  /\ peer' = 0 /\ stream' = NewStream
  /\ m_connected' = FALSE
  /\ pc' = IF m_running THEN "backoff" ELSE "connect"
  /\ UNCHANGED <<external, m_running, down, exchange, m_haveDeclared, m_peerCapabilities, budgets>>

(***************************************************************************)
(* Sending and reading.                                                    *)
(***************************************************************************)

\* SendAll: all of the message goes out, or the peer has gone, or part of it at the deadline.  The
\* stream after it, whether it succeeded.
Sent(s) == [s EXCEPT !.afterCut = @ \/ s.cut]
Truncated(s) == [Sent(s) EXCEPT !.cut = TRUE]

\* A stream that has failed: of its history only what the session's end depends on.
Failed(s) == [NewStream EXCEPT !.cut = s.cut, !.afterCut = s.afterCut, !.failed = TRUE]

\* Nothing more is read.
Unread == down' = <<>>

\* Exchange sends its request; what is still unread of older answers is then stale.
SendRequest(type) ==
  \/ /\ PeerOpen
     /\ asking' = type /\ asked' = TRUE /\ pc' = "await"
     /\ down' = [i \in DOMAIN down |-> [down[i] EXCEPT !.current = FALSE]]
     /\ stream' = Sent(stream)
  \/ /\ stream' \in {Failed(Truncated(stream)), Failed(stream)}
     /\ asking' = "none" /\ asked' = FALSE /\ pc' = "failed"
     /\ Unread

\* Both sides offer the read-backs.
ReadBackAllowed == m_peerCapabilities

\* Dispatch ends the session after these, answered or not.
Ends(class) == class \in {"bad", "bye", "unreadable"}

\* How the handlers answer: a request is served, or refused with an error, which only a malformed one
\* of these types makes the end of the session.
AnswerRead(class)  == IF class = "bad" THEN "refused" ELSE "served"   \* Frame, Ping, Subscribe, Poll, ReadDirect
AnswerWrite(class) == IF class = "bad" THEN "refused" ELSE "served"   \* Write, NvRam
AnswerStatus       == IF m_haveDeclared THEN "served" ELSE "refused"  \* Overlay, Status

\* What Dispatch and ReadMessage may do: answer, also with an error of no request, for a length out of
\* bounds, or not at all.
Outcomes(class) ==
  CASE class \in {"plain", "bad"} -> {AnswerRead(class), AnswerWrite(class)}
    [] class = "status"           -> {AnswerStatus}
    [] class = "players"          -> {IF ReadBackAllowed THEN "served" ELSE "refused"}
    [] class = "bye"              -> {"silent"}
    [] class = "unreadable"       -> {"refused", "silent"}

\* Mutant: Dispatch takes a failed send for a sent one.
SendIgnored(s) == s

\* An answer that could not be sent ends the session.
SendFailed(s) == Failed(s)

\* ReadMessage and Dispatch of the request at the head; where the worker goes if that ends the session.
Dispatch(where) ==
  LET class == Head(down).type
      read  == [stream EXCEPT !.read = @ + 1]
      done  == [read EXCEPT !.answered = Append(@, read.read)]
  IN
  /\ Head(down).kind = "request"
  /\ \E how \in Outcomes(class) :
       \/ /\ how = "silent"
          /\ stream' = Failed(read) /\ pc' = where /\ Unread
       \/ /\ how # "silent" /\ PeerOpen /\ ~Ends(class)
          /\ stream' = Sent(IF how = "served" /\ class # "plain" /\ m_connected
                            THEN [done EXCEPT !.served = @ \cup {class}] ELSE done)
          /\ down' = Tail(down) /\ UNCHANGED pc
       \/ /\ how # "silent" /\ PeerOpen /\ Ends(class)
          /\ stream' = Failed(Sent(done)) /\ pc' = where /\ Unread
       \/ /\ how # "silent"
          /\ stream' \in {SendFailed(Truncated(read)), SendFailed(read)}
          /\ pc' = IF stream'.failed THEN where ELSE pc
          /\ IF stream'.failed THEN Unread ELSE down' = Tail(down)
  /\ UNCHANGED <<external, m_running, peer, exchange, session, budgets>>

(***************************************************************************)
(* Handshake and Exchange.                                                 *)
(***************************************************************************)

\* ReadToken: what the token file holds now.
ReadToken == token

\* Handshake: Hello with the token, which may be missing or unreadable.
Handshake ==
  /\ pc = "token"
  /\ \/ pc' = "close" /\ UNCHANGED <<down, exchange, stream>>
     \/ hello' = ReadToken /\ SendRequest("hello")
  /\ UNCHANGED <<external, m_running, peer, session, budgets>>

\* Mutant: any response is taken for the answer.
AnyResponse(r) == TRUE

\* The answer to the request that is out, by its seq.
IsReply(r) == r.current

\* HelloAck's capabilities.
Offers(r) == r.offers

\* Exchange returns the reply to its caller: Handshake ends a session that is refused, MaybeDeclare
\* fails, and the others carry on.
TakeReply ==
  /\ pc = "await" /\ m_running /\ down # <<>>
  /\ LET r == Head(down) IN
     /\ r.kind = "response" /\ IsReply(r)
     /\ m_connected' = (m_connected \/ (asking = "hello" /\ ~r.error))
     /\ m_peerCapabilities' = IF asking = "hello" /\ ~r.error THEN Offers(r) ELSE m_peerCapabilities
     /\ m_haveDeclared' = (m_haveDeclared \/ (asking = "declare" /\ ~r.error))
     /\ pc' = IF ~r.error THEN "serve" ELSE IF asking = "hello" THEN "close" ELSE "failed"
     /\ stream' = IF r.error THEN Failed(stream) ELSE stream
     /\ IF r.error THEN Unread ELSE down' = Tail(down)
  /\ asking' = "none" /\ asked' = FALSE
  /\ UNCHANGED <<external, m_running, peer, hello, budgets>>

\* Any other response is dropped, in Exchange and in Serve.
DropResponse ==
  /\ pc \in {"await", "serve"} /\ m_running /\ down # <<>>
  /\ Head(down).kind = "response" /\ (pc = "await" => ~IsReply(Head(down)))
  /\ pc = "serve" => m_haveDeclared
  /\ down' = Tail(down)
  /\ UNCHANGED <<external, pc, m_running, peer, exchange, session, stream, budgets>>

\* Mutant: a request that overtakes the reply is dropped.
Overtaken ==
  /\ pc = "await" /\ m_running /\ down # <<>> /\ Head(down).kind = "request"
  /\ down' = Tail(down) /\ stream' = [stream EXCEPT !.read = @ + 1]
  /\ UNCHANGED <<external, pc, m_running, peer, exchange, session, budgets>>

\* A request that overtakes the reply is answered first.
ServeOvertaking == pc = "await" /\ m_running /\ down # <<>> /\ Dispatch("failed")

\* The deadline passes, or the peer has closed, or the worker stops.
ExchangeFails ==
  /\ pc = "await"
  /\ stream' = IF m_running THEN Failed(stream) ELSE stream
  /\ pc' = "failed" /\ asking' = "none" /\ asked' = FALSE /\ Unread
  /\ UNCHANGED <<external, m_running, peer, hello, session, budgets>>

(***************************************************************************)
(* Serve.                                                                  *)
(***************************************************************************)

\* The loop's top: the first Declare before anything else, then whatever the API thread posted.
SendOwn(type) ==
  /\ pc = "serve" /\ m_running
  /\ type = "declare" \/ m_haveDeclared
  /\ SendRequest(type)
  /\ UNCHANGED <<external, m_running, peer, hello, session, budgets>>

FirstDeclare == ~m_haveDeclared /\ SendOwn("declare")

\* Mutant: a quiet session is left alone.
NeverPings == FALSE

\* Nothing to read, for long enough.
Idle == down = <<>> /\ m_haveDeclared

SendIdlePing == Idle /\ PeerOpen /\ SendOwn("request")

\* The request at the head: a message that cannot be read is a failure, one that ends the session closes it.
ServeRequest ==
  /\ pc = "serve" /\ m_running /\ m_haveDeclared /\ down # <<>>
  /\ Dispatch(IF Head(down).type = "unreadable" THEN "failed" ELSE "close")

\* The peer has closed, and all it sent has been read.
PeerClosed ==
  /\ pc = "serve" /\ down = <<>> /\ ~PeerOpen
  /\ stream' = Failed(stream)
  /\ pc' = "failed"
  /\ UNCHANGED <<external, m_running, peer, down, exchange, session, budgets>>

\* The loop ends because the worker stops.
LeaveServe ==
  /\ pc = "serve" /\ ~m_running
  /\ pc' = "bye" /\ Unread
  /\ UNCHANGED <<external, m_running, peer, exchange, session, stream, budgets>>

\* Given up because the worker stops, in a session: worth a Bye.
Alive == ~m_running /\ m_connected

AfterFailure ==
  /\ pc = "failed"
  /\ pc' = IF Alive THEN "bye" ELSE "close"
  /\ asking' = "none" /\ asked' = FALSE
  /\ UNCHANGED <<external, m_running, peer, down, hello, session, stream, budgets>>

SendBye ==
  /\ pc = "bye"
  /\ \/ PeerOpen /\ stream' = [Sent(stream) EXCEPT !.bye = TRUE]
     \/ stream' \in {Failed(Truncated(stream)), Failed(stream)}
  /\ pc' = "close"
  /\ UNCHANGED <<external, m_running, peer, down, exchange, session, budgets>>

\* The worker's steps that wait for nobody but the daemon, and for it only until a deadline.
WorkerStep ==
  \/ Connect \/ ConnectPending \/ Backoff \/ Handshake \/ TakeReply \/ DropResponse \/ ServeOvertaking
  \/ ExchangeFails \/ FirstDeclare \/ SendIdlePing \/ ServeRequest \/ PeerClosed \/ LeaveServe \/ AfterFailure
  \/ SendBye \/ Disconnect \/ WorkerEnds

Next ==
  \/ RotateToken \/ Listen \/ Die \/ Freeze \/ Repeat
  \/ \E error \in BOOLEAN, offers \in BOOLEAN : Reply(error, offers)
  \/ \E class \in Requests : Ask(class)
  \/ Start \/ Stop \/ WorkerStep
  \/ \E type \in {"declare", "request"} : SendOwn(type)

Spec == Init /\ [][Next]_vars

\* The worker's thread runs; nothing is assumed of the daemon.
FairSpec == Spec /\ WF_vars(WorkerStep)

(***************************************************************************)
(* Properties.                                                             *)
(***************************************************************************)

InSession == pc \in {"await", "serve"}

TypeOK ==
  /\ daemon \in {"down", "up", "frozen"} /\ gen \in 0 .. MaxRestarts + 1 /\ token \in gen .. gen + 1
  /\ pc \in {"off", "connect", "pending", "backoff", "token", "await", "serve", "failed", "bye", "close", "ended"}
  /\ peer \in 0 .. gen /\ hello \in 0 .. token
  /\ asking \in {"none", "hello", "declare", "request"} /\ (pc = "await" => asking # "none") /\ (pc = "serve" => asking = "none")
  /\ {m_running, asked, m_connected, m_haveDeclared, m_peerCapabilities} \subseteq BOOLEAN
  /\ stream.read <= stream.sent /\ Len(stream.answered) <= stream.read
  /\ connects <= MaxConnects /\ requests <= MaxRequests /\ strays <= MaxStrays
  /\ (peer = 0) = (pc \in {"off", "connect", "pending", "backoff", "ended"})

\* Every request the worker reads is answered once and in order, those that overtake its own reply
\* included, or the session ends with it (Exchange, Dispatch).
AnsweredInOrder ==
  InSession => /\ Len(stream.answered) = stream.read
               /\ \A i \in DOMAIN stream.answered : stream.answered[i] = i

\* An Overlay or a Status is served only after this connection's daemon acknowledged a Declare: a
\* repeated or late answer is never taken for it, nor the one of an earlier connection.
DeclaredTruly == (m_haveDeclared /\ InSession) \/ "status" \in stream.served => stream.declared

\* In a session a read-back is served only to a daemon that offered it on this connection.  The offer
\* outlives Disconnect: a request that comes before HelloAck is held against the last daemon's.
NegotiatedOnly == "players" \in stream.served => stream.offered

\* Hello carries the token of the daemon it goes to, through restarts that rotate it.
TokenFresh == (pc = "await" /\ asking = "hello" /\ PeerOpen) => hello = gen

\* A session rests on nothing of an earlier one: its token, its peer's capabilities and its
\* acknowledged Declare are of the daemon at the other end of this connection (Disconnect).
OfThisPeer == DeclaredTruly /\ NegotiatedOnly /\ TokenFresh

\* While the worker runs, nothing is written behind a truncated message.
StreamWhole == stream.afterCut => ~m_running

\* A session in which nothing failed ends with a Bye and only by Stop, a request in flight or not.
ByeWhenHealthy ==
  (m_connected /\ ~m_connected') => /\ ~stream.failed => stream.bye
                                    /\ stream.bye => ~m_running

\* A session ends as the failure or its absence calls for: after a write cut short nothing more is
\* written, and without one the daemon is told (Send, Disconnect).
EndsCleanly == [][StreamWhole' /\ ByeWhenHealthy]_vars

\* A connection to a daemon that neither answers nor closes is given up, in the handshake (its
\* timeout) and in a session (the idle ping).
SilentEnds == (peer # 0 /\ daemon = "frozen") ~> peer = 0

\* Stop joins the thread, wherever it is and whatever the daemon does (SB-5083).
Joins == (pc # "off" /\ ~m_running) ~> pc = "ended"

\* Neither a silent daemon nor an unload leaves the worker waiting for ever.
SessionEnds == SilentEnds /\ Joins
====
