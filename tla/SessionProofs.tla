--------------------------- MODULE SessionProofs ---------------------------
(***************************************************************************)
(* Theorems about Session, for every number of restarts, connections,      *)
(* requests and stray responses.                                           *)
(***************************************************************************)
EXTENDS Session, SequenceTheorems, FiniteSetTheorems, FunctionTheorems, TLAPS

-----------------------------------------------------------------------------
(* How many elements of a sequence are in a set.                           *)

Positions(s, T) == {i \in DOMAIN s : s[i] \in T}
Count(s, T)     == Cardinality(Positions(s, T))

\* The positions are a finite set, and so their number is one.
LEMMA CountType ==
  ASSUME NEW S, NEW s \in Seq(S), NEW T
  PROVE  /\ IsFiniteSet(Positions(s, T)) /\ Count(s, T) \in Nat
         /\ Positions(s, T) \subseteq 1 .. Len(s)
<1>1. Len(s) \in Nat /\ DOMAIN s = 1 .. Len(s)
  BY LenProperties
<1>2. Positions(s, T) \in SUBSET (1 .. Len(s))
  BY <1>1 DEF Positions
<1>3. IsFiniteSet(1 .. Len(s))
  BY <1>1, FS_Interval
<1>4. IsFiniteSet(Positions(s, T))
  BY <1>2, <1>3, FS_Subset
<1> QED
  BY <1>2, <1>4, FS_CardinalityType DEF Count

\* An empty sequence has none.
LEMMA CountEmpty == ASSUME NEW T PROVE Count(<<>>, T) = 0
<1>1. Positions(<<>>, T) = {}
  BY DEF Positions
<1> QED
  BY <1>1, FS_EmptySet DEF Count

\* Appending an element adds it, if it is in the set.
LEMMA CountAppend ==
  ASSUME NEW S, NEW s \in Seq(S), NEW x \in S, NEW T
  PROVE  Count(Append(s, x), T) = IF x \in T THEN Count(s, T) + 1 ELSE Count(s, T)
<1> DEFINE t == Append(s, x)
           n == Len(s) + 1
<1>1. /\ Len(s) \in Nat /\ DOMAIN s = 1 .. Len(s) /\ DOMAIN t = 1 .. n
      /\ t[n] = x /\ \A i \in 1 .. Len(s) : t[i] = s[i]
  BY AppendProperties, LenProperties
<1>2. 1 .. n = (1 .. Len(s)) \cup {n} /\ n \notin 1 .. Len(s)
  BY <1>1
<1> HIDE DEF t, n
<1>3. Positions(t, T) = IF x \in T THEN Positions(s, T) \cup {n} ELSE Positions(s, T)
  BY <1>1, <1>2 DEF Positions
<1>4. n \notin Positions(s, T) /\ IsFiniteSet(Positions(s, T))
  BY <1>2, CountType
<1> QED
  BY <1>3, <1>4, FS_AddElement DEF Count, t

\* The tail has those that the head is not.
LEMMA CountTail ==
  ASSUME NEW S, NEW s \in Seq(S), s # <<>>, NEW T
  PROVE  Count(s, T) = IF Head(s) \in T THEN Count(Tail(s), T) + 1 ELSE Count(Tail(s), T)
<1> DEFINE t == Tail(s)
           A == Positions(s, T) \ {1}
           B == Positions(t, T)
           f == [i \in A |-> i - 1]
<1>1. /\ Len(s) \in Nat \ {0} /\ t \in Seq(S) /\ Len(t) = Len(s) - 1
      /\ DOMAIN s = 1 .. Len(s) /\ DOMAIN t = 1 .. Len(t) /\ Head(s) = s[1]
      /\ \A i \in 1 .. Len(t) : t[i] = s[i + 1]
  BY HeadTailProperties, LenProperties, EmptySeq
<1> HIDE DEF t
<1>2. \A i : i \in A <=> i \in 2 .. Len(s) /\ s[i] \in T
  BY <1>1 DEF Positions
<1>3. \A i : i \in B <=> i \in 1 .. Len(t) /\ s[i + 1] \in T
  BY <1>1 DEF Positions
<1> HIDE DEF A, B
<1>4. \A i \in A : i \in Nat /\ i - 1 \in B
  <2> TAKE i \in A
  <2>1. i \in 2 .. Len(s) /\ s[i] \in T
    BY <1>2
  <2>2. i \in Nat /\ i - 1 \in 1 .. Len(t) /\ (i - 1) + 1 = i
    BY <1>1, <2>1
  <2> QED
    BY <1>3, <2>1, <2>2
<1>5. \A j \in B : j \in Nat /\ j + 1 \in A
  BY <1>1, <1>2, <1>3
<1>6. f \in [A -> B]
  BY <1>4
<1>7. \A a, b \in A : f[a] = f[b] => a = b
  BY <1>4
<1>8. \A j \in B : \E i \in A : f[i] = j
  BY <1>5
<1>9. f \in Bijection(A, B)
  BY <1>6, <1>7, <1>8 DEF Bijection, Injection, Surjection, IsInjective
<1>10. ExistsBijection(A, B)
  BY <1>9 DEF ExistsBijection
<1>11. IsFiniteSet(Positions(s, T)) /\ Count(s, T) \in Nat
  BY CountType
<1>12. /\ IsFiniteSet(A)
       /\ Cardinality(A) = IF 1 \in Positions(s, T) THEN Count(s, T) - 1 ELSE Count(s, T)
  BY <1>11, FS_RemoveElement DEF A, Count
<1>13. Cardinality(B) = Cardinality(A)
  BY <1>10, <1>12, FS_Bijection
<1>14. 1 \in Positions(s, T) <=> Head(s) \in T
  BY <1>1 DEF Positions
<1> QED
  BY <1>11, <1>12, <1>13, <1>14 DEF B, Count, t

\* Sequences that agree on what is in the set have as many.
LEMMA CountSame ==
  ASSUME NEW s, NEW t, NEW T, DOMAIN t = DOMAIN s,
         \A i \in DOMAIN s : t[i] \in T <=> s[i] \in T
  PROVE  Count(t, T) = Count(s, T)
<1>1. Positions(t, T) = Positions(s, T)
  BY DEF Positions
<1> QED
  BY <1>1 DEF Count

-----------------------------------------------------------------------------
(* The inductive invariant.                                                *)

Asks    == {"hello", "declare", "request"}

\* What the daemon sends.
Responses == [kind : {"response"}, type : Asks, current : BOOLEAN, error : BOOLEAN, offers : BOOLEAN]
Asked     == [kind : {"request"}, type : Requests, current : {FALSE}, error : {FALSE}, offers : {FALSE}]
Message   == Responses \cup Asked

Stream == [sent : Nat, read : Nat, answered : Seq(Nat), served : SUBSET Requests,
           offered : BOOLEAN, declared : BOOLEAN, cut : BOOLEAN, afterCut : BOOLEAN,
           failed : BOOLEAN, bye : BOOLEAN]

Places == {"off", "connect", "pending", "backoff", "token", "await", "serve", "failed", "bye", "close", "ended"}
Outside == {"off", "connect", "pending", "backoff", "ended"}

TypeInv ==
  /\ daemon \in {"down", "up", "frozen"} /\ gen \in Nat /\ token \in Nat
  /\ pc \in Places /\ peer \in Nat /\ hello \in Nat
  /\ asking \in Asks \cup {"none"}
  /\ m_running \in BOOLEAN /\ asked \in BOOLEAN
  /\ m_connected \in BOOLEAN /\ m_haveDeclared \in BOOLEAN /\ m_peerCapabilities \in BOOLEAN
  /\ connects \in Nat /\ requests \in Nat /\ strays \in Nat
  /\ down \in Seq(Message) /\ stream \in Stream

\* The daemon's lives: the token is the next one's only while there is no daemon.
DaemonInv ==
  /\ token \in gen .. gen + 1 /\ token <= MaxRestarts + 1
  /\ daemon # "down" => token = gen /\ gen > 0
  /\ peer <= gen /\ hello <= token
  /\ connects <= MaxConnects /\ requests <= MaxRequests /\ strays <= MaxStrays

\* Where the worker is, and what it has then.
WorkerInv ==
  /\ peer = 0 <=> pc \in Outside
  /\ pc = "await" => asking # "none" /\ (m_connected <=> asking # "hello")
  /\ pc = "serve" => asking = "none" /\ m_connected /\ ~asked
  /\ asked => asking # "none"
  /\ pc \in Outside \cup {"token"} => ~m_connected
  /\ pc \notin {"await", "serve"} => down = <<>>
  /\ pc = "token" \/ (pc = "await" /\ asking = "hello") => ~m_haveDeclared
  /\ pc = "bye" => ~m_running

\* What the worker has read is what the daemon has sent and is not unread.
CountInv == stream.read + Count(down, Asked) <= stream.sent

\* The answers, and a stream that is whole while the session lasts.
StreamInv ==
  /\ Len(stream.answered) = stream.read
  /\ \A i \in 1 .. stream.read : stream.answered[i] = i
  /\ stream.afterCut => ~m_running
  /\ stream.bye => ~m_running
  /\ pc \in Outside \cup {"token"} => stream = NewStream
  /\ pc \in {"token", "await", "serve"} => ~stream.cut /\ ~stream.afterCut /\ ~stream.failed /\ ~stream.bye
  /\ pc = "failed" => stream.failed \/ ~m_running
  /\ pc = "close" /\ m_connected => stream.failed \/ stream.bye

\* The first of the messages that is current.
First(s, i) == i \in DOMAIN s /\ s[i].current /\ \A j \in 1 .. i - 1 : ~s[j].current

\* What Exchange will take for its answer is the daemon's answer to this request.
ReplyInv ==
  pc = "await" =>
    /\ \A i \in DOMAIN down : down[i].current => down[i].kind = "response" /\ down[i].type = asking /\ ~asked
    /\ \A i \in DOMAIN down :
         First(down, i) => /\ asking = "hello" /\ down[i].offers => stream.offered
                           /\ asking = "declare" /\ ~down[i].error => stream.declared
    /\ ~asked => \E i \in DOMAIN down : down[i].current

\* What the worker believes of its peer, and what it served it.
PeerInv ==
  /\ InSession /\ m_haveDeclared => stream.declared
  /\ InSession /\ m_connected /\ m_peerCapabilities => stream.offered
  /\ "status" \in stream.served => stream.declared
  /\ "players" \in stream.served => stream.offered
  /\ pc = "await" /\ asking = "hello" => stream.served = {}
  /\ TokenFresh

IInv == TypeInv /\ DaemonInv /\ WorkerInv /\ CountInv /\ StreamInv /\ ReplyInv /\ PeerInv

-----------------------------------------------------------------------------
(* The stream after a send, and one that has failed.                       *)

\* After a send that went through, only afterCut may have changed.
LEMMA SentStream ==
  ASSUME NEW s \in Stream
  PROVE  /\ Sent(s) \in Stream
         /\ Sent(s) = [s EXCEPT !.afterCut = Sent(s).afterCut]
         /\ Sent(s).sent = s.sent /\ Sent(s).read = s.read /\ Sent(s).answered = s.answered
         /\ Sent(s).served = s.served /\ Sent(s).offered = s.offered /\ Sent(s).declared = s.declared
         /\ Sent(s).cut = s.cut /\ Sent(s).failed = s.failed /\ Sent(s).bye = s.bye
         /\ Sent(s).afterCut = (s.afterCut \/ s.cut)
  BY DEF Sent, Stream

\* And after one that was cut short, cut too.
LEMMA TruncatedStream ==
  ASSUME NEW s \in Stream
  PROVE  Truncated(s) \in Stream /\ Truncated(s).cut /\ Truncated(s).afterCut = (s.afterCut \/ s.cut)
<1>1. Sent(s) \in Stream /\ Sent(s).afterCut = (s.afterCut \/ s.cut)
  BY SentStream
<1> QED
  BY <1>1 DEF Truncated, Stream

\* A new connection's stream.
LEMMA FreshStream ==
  /\ NewStream \in Stream /\ NewStream.sent = 0 /\ NewStream.read = 0 /\ NewStream.answered = <<>>
  /\ NewStream.served = {} /\ ~NewStream.offered /\ ~NewStream.declared /\ ~NewStream.cut
  /\ ~NewStream.afterCut /\ ~NewStream.failed /\ ~NewStream.bye
  BY EmptySeq DEF NewStream, Stream

\* Of a stream that has failed only the cut is left.
LEMMA FailedStream ==
  ASSUME NEW s \in Stream
  PROVE  /\ Failed(s) \in Stream /\ Failed(s).failed /\ ~Failed(s).bye
         /\ Failed(s).sent = 0 /\ Failed(s).read = 0 /\ Failed(s).answered = <<>> /\ Failed(s).served = {}
         /\ Failed(s).cut = s.cut /\ Failed(s).afterCut = s.afterCut
<1>1. s.cut \in BOOLEAN /\ s.afterCut \in BOOLEAN
  BY DEF Stream
<1> QED
  BY <1>1, FreshStream DEF Failed, NewStream, Stream

-----------------------------------------------------------------------------
(* What the daemon sent and the worker has not read.                       *)

\* Messages are responses or requests.
LEMMA Kinds ==
  /\ \A m \in Message : (m.kind = "request") <=> m \in Asked
  /\ \A m \in Message : (m.kind = "response") <=> m \in Responses
  /\ \A m \in Message : m.kind = "request" => m.type \in Requests /\ ~m.current
  /\ \A m \in Message : m.kind = "response" => m.type \in Asks
  /\ \A m \in Message : m.kind \in {"request", "response"} /\ {m.current, m.error, m.offers} \subseteq BOOLEAN
  /\ \A class \in Requests : Request(class) \in Asked
  /\ \A type \in Asks, error \in BOOLEAN, offers \in BOOLEAN : Response(type, error, offers) \in Responses
  BY DEF Message, Responses, Asked, Request, Response, Requests, Asks

\* A new request makes what is unread stale, and nothing else of it.
Stale(s) == [i \in DOMAIN s |-> [s[i] EXCEPT !.current = FALSE]]

LEMMA StaleFacts ==
  ASSUME NEW s \in Seq(Message)
  PROVE  /\ Stale(s) \in Seq(Message) /\ DOMAIN Stale(s) = DOMAIN s
         /\ \A i \in DOMAIN s : ~Stale(s)[i].current /\ Stale(s)[i].kind = s[i].kind
         /\ Count(Stale(s), Asked) = Count(s, Asked)
<1>1. Len(s) \in Nat /\ DOMAIN s = 1 .. Len(s) /\ \A i \in DOMAIN s : s[i] \in Message
  BY LenProperties, ElementOfSeq
<1>2. \A m \in Message : [m EXCEPT !.current = FALSE] \in Message
  BY DEF Message, Responses, Asked
<1>3. \A m \in Message : ~[m EXCEPT !.current = FALSE].current /\ [m EXCEPT !.current = FALSE].kind = m.kind
  BY DEF Message, Responses, Asked
<1>4. Stale(s) \in [1 .. Len(s) -> Message]
  BY <1>1, <1>2 DEF Stale
<1>5. Stale(s) \in Seq(Message) /\ DOMAIN Stale(s) = DOMAIN s
  BY <1>1, <1>4, SeqDef
<1>6. \A i \in DOMAIN s : Stale(s)[i] \in Message /\ ~Stale(s)[i].current /\ Stale(s)[i].kind = s[i].kind
  BY <1>1, <1>2, <1>3 DEF Stale
<1>7. \A i \in DOMAIN s : Stale(s)[i] \in Asked <=> s[i] \in Asked
  BY <1>1, <1>6, Kinds
<1>8. Count(Stale(s), Asked) = Count(s, Asked)
  BY <1>5, <1>7, CountSame
<1> QED
  BY <1>5, <1>6, <1>8

-----------------------------------------------------------------------------
(* The invariant holds at first.                                           *)

LEMMA InitInv == Init => IInv
<1> SUFFICES ASSUME Init PROVE IInv
  OBVIOUS
<1> USE SessionAssumption, FreshStream, EmptySeq DEF Init
<1>1. TypeInv
  BY DEF TypeInv, Places, Asks
<1>2. DaemonInv
  BY DEF DaemonInv
<1>3. WorkerInv
  BY DEF WorkerInv, Outside
<1>4. CountInv
  BY CountEmpty DEF CountInv
<1>5. StreamInv
  BY DEF StreamInv
<1>6. ReplyInv /\ PeerInv
  BY DEF ReplyInv, PeerInv, InSession, TokenFresh
<1> QED
  BY <1>1, <1>2, <1>3, <1>4, <1>5, <1>6 DEF IInv

-----------------------------------------------------------------------------
(* The daemon's life.                                                      *)

\* A step that leaves the worker, its session and its connection alone keeps what is said of those.
LEMMA ConnectionAlone ==
  ASSUME IInv, UNCHANGED <<pc, m_running, peer, down, exchange, session, stream>>
  PROVE  WorkerInv' /\ CountInv' /\ StreamInv' /\ ReplyInv' /\ (TokenFresh' => PeerInv')
<1> USE DEF IInv, exchange, session
<1>1. WorkerInv'
  BY DEF WorkerInv
<1>2. CountInv' /\ StreamInv'
  BY DEF CountInv, StreamInv
<1>3. ReplyInv'
  BY DEF ReplyInv, First
<1>4. TokenFresh' => PeerInv'
  BY DEF PeerInv, InSession
<1> QED
  BY <1>1, <1>2, <1>3, <1>4

LEMMA RotateTokenInv == ASSUME SessionAssumption, IInv, RotateToken PROVE IInv'
<1> USE DEF IInv, RotateToken, exchange, session, budgets
<1>1. TypeInv' /\ DaemonInv'
  BY DEF SessionAssumption, TypeInv, DaemonInv
<1>2. TokenFresh'
  BY DEF PeerInv, TokenFresh, PeerOpen
<1> QED
  BY <1>1, <1>2, ConnectionAlone

\* No connection is to the new daemon yet.
LEMMA ListenInv == ASSUME IInv, Listen PROVE IInv'
<1> USE DEF IInv, Listen, exchange, session, budgets
<1>1. TypeInv' /\ DaemonInv'
  BY DEF TypeInv, DaemonInv
<1>2. TokenFresh'
  BY DEF TypeInv, DaemonInv, TokenFresh, PeerOpen
<1> QED
  BY <1>1, <1>2, ConnectionAlone

LEMMA DieInv == ASSUME IInv, Die \/ Freeze PROVE IInv'
<1> USE DEF IInv, Die, Freeze, exchange, session, budgets
<1>1. TypeInv' /\ DaemonInv'
  BY DEF TypeInv, DaemonInv
<1>2. TokenFresh'
  BY DEF PeerInv, TokenFresh, PeerOpen
<1> QED
  BY <1>1, <1>2, ConnectionAlone

-----------------------------------------------------------------------------
(* What the daemon sends.                                                  *)

\* One more message at the end.
LEMMA AppendMessage ==
  ASSUME IInv, NEW m \in Message, down' = Append(down, m)
  PROVE  /\ down' \in Seq(Message) /\ Len(down) \in Nat /\ DOMAIN down = 1 .. Len(down)
         /\ DOMAIN down' = 1 .. Len(down) + 1 /\ down'[Len(down) + 1] = m
         /\ \A i \in 1 .. Len(down) : down'[i] = down[i] /\ down[i] \in Message
         /\ Count(down', Asked) = IF m \in Asked THEN Count(down, Asked) + 1 ELSE Count(down, Asked)
         /\ Count(down, Asked) \in Nat
<1>1. down \in Seq(Message)
  BY DEF IInv, TypeInv
<1>2. /\ down' \in Seq(Message) /\ Len(down') = Len(down) + 1 /\ down'[Len(down) + 1] = m
      /\ \A i \in 1 .. Len(down) : down'[i] = down[i]
  BY <1>1, AppendProperties
<1>3. Count(down', Asked) = (IF m \in Asked THEN Count(down, Asked) + 1 ELSE Count(down, Asked)) /\ Count(down, Asked) \in Nat
  BY <1>1, CountAppend, CountType
<1> QED
  BY <1>1, <1>2, <1>3, LenProperties, ElementOfSeq

\* The reply is the first response that is current, and what it tells of the daemon is recorded.
LEMMA ReplyInvStep ==
  ASSUME IInv, NEW error \in BOOLEAN, NEW offers \in BOOLEAN, Reply(error, offers)
  PROVE  IInv'
<1> DEFINE m == Response(asking, error, offers)
           n == Len(down) + 1
<1> USE DEF IInv
<1>0. /\ UNCHANGED <<daemon, gen, token, pc, m_running, peer, asking, hello, m_connected, m_haveDeclared,
                    m_peerCapabilities, connects, requests, strays>>
      /\ asked /\ asked' = FALSE /\ PeerActs
  BY DEF Reply, external, session, budgets
<1>a. down' = Append(down, m)
  BY DEF Reply
<1>b. stream' = [stream EXCEPT !.declared = @ \/ (asking = "declare" /\ ~error),
                              !.offered = IF asking = "hello" THEN offers ELSE @]
  BY DEF Reply
<1>1. pc = "await" /\ asking \in Asks /\ peer = gen
  BY <1>0 DEF PeerActs, PeerOpen, WorkerInv, TypeInv
<1>2. m \in Message /\ m \in Responses /\ m \notin Asked
  BY <1>1, Kinds DEF Message, Response, Asked
<1>3. m.kind = "response" /\ m.type = asking /\ m.current /\ m.error = error /\ m.offers = offers
  BY DEF Response
<1> HIDE DEF m
<1>4. /\ down' \in Seq(Message) /\ Len(down) \in Nat /\ DOMAIN down = 1 .. Len(down)
      /\ DOMAIN down' = 1 .. n /\ down'[n] = m
      /\ \A i \in 1 .. Len(down) : down'[i] = down[i] /\ down[i] \in Message
      /\ Count(down', Asked) = Count(down, Asked)
  BY <1>a, <1>2, AppendMessage DEF m
<1>5. /\ stream' \in Stream
      /\ stream' = [stream EXCEPT !.declared = stream'.declared, !.offered = stream'.offered]
      /\ stream'.declared = (stream.declared \/ (asking = "declare" /\ ~error))
      /\ stream'.offered = IF asking = "hello" THEN offers ELSE stream.offered
  BY <1>b DEF TypeInv, Stream
<1>6. /\ stream'.sent = stream.sent /\ stream'.read = stream.read /\ stream'.answered = stream.answered
      /\ stream'.served = stream.served /\ stream'.cut = stream.cut /\ stream'.afterCut = stream.afterCut
      /\ stream'.failed = stream.failed /\ stream'.bye = stream.bye
  BY <1>5 DEF TypeInv, Stream
<1>7. TypeInv'
  BY <1>0, <1>4, <1>5 DEF TypeInv
<1>8. DaemonInv' /\ WorkerInv'
  BY <1>0, <1>1 DEF DaemonInv, WorkerInv
<1>9. CountInv' /\ StreamInv'
  BY <1>0, <1>1, <1>4, <1>6 DEF CountInv, StreamInv, Outside
<1>10. \A i \in 1 .. Len(down) : ~down[i].current
  BY <1>0, <1>1, <1>4 DEF ReplyInv
<1>11. \A i \in DOMAIN down' : i \in 1 .. Len(down) \/ i = n
  BY <1>4
<1>12. ReplyInv'
  <2>1. \A i \in DOMAIN down' : down'[i].current => i = n /\ i \notin 1 .. Len(down)
    BY <1>4, <1>10, <1>11
  <2>2. \A i \in DOMAIN down' : First(down', i) => i = n
    BY <2>1 DEF First
  <2>3. \A i \in DOMAIN down' : down'[i].current => down'[i].kind = "response" /\ down'[i].type = asking /\ ~asked'
    BY <1>0, <1>3, <1>4, <2>1
  <2>4. \A i \in DOMAIN down' :
       First(down', i) => /\ asking = "hello" /\ down'[i].offers => stream'.offered
                          /\ asking = "declare" /\ ~down'[i].error => stream'.declared
    BY <1>3, <1>4, <1>5, <2>2
  <2>5. n \in DOMAIN down' /\ down'[n].current
    BY <1>3, <1>4
  <2> QED
    BY <1>0, <2>3, <2>4, <2>5 DEF ReplyInv
<1>13. PeerInv'
  BY <1>0, <1>1, <1>5, <1>6 DEF PeerInv, InSession, TokenFresh, PeerOpen, WorkerInv
<1> QED
  BY <1>7, <1>8, <1>9, <1>12, <1>13

\* An answer that goes out again comes behind the first.
LEMMA RepeatInv == ASSUME IInv, Repeat PROVE IInv'
<1> DEFINE m == Response(asking, FALSE, FALSE)
           n == Len(down) + 1
<1> USE DEF IInv
<1>0. /\ UNCHANGED <<daemon, gen, token, pc, m_running, peer, asking, asked, hello, m_connected, m_haveDeclared,
                    m_peerCapabilities, stream, connects, requests>>
      /\ strays < MaxStrays /\ strays' = strays + 1 /\ asking # "none" /\ ~asked
      /\ PeerActs
  BY DEF Repeat, external, session, exchange
<1>a. down' = Append(down, m)
  BY DEF Repeat
<1>1. pc = "await" /\ asking \in Asks
  BY <1>0 DEF PeerActs, WorkerInv, TypeInv
<1>2. m \in Message /\ m \notin Asked
  BY <1>1, Kinds DEF Message, Response, Asked
<1>3. m.kind = "response" /\ m.type = asking /\ m.current
  BY DEF Response
<1> HIDE DEF m
<1>4. /\ down' \in Seq(Message) /\ Len(down) \in Nat /\ DOMAIN down = 1 .. Len(down)
      /\ DOMAIN down' = 1 .. n /\ down'[n] = m
      /\ \A i \in 1 .. Len(down) : down'[i] = down[i] /\ down[i] \in Message
      /\ Count(down', Asked) = Count(down, Asked)
  BY <1>a, <1>2, AppendMessage DEF m
<1>5. TypeInv' /\ DaemonInv' /\ WorkerInv'
  BY <1>0, <1>1, <1>4, SessionAssumption DEF SessionAssumption, TypeInv, DaemonInv, WorkerInv
<1>6. CountInv' /\ StreamInv' /\ PeerInv'
  BY <1>0, <1>4 DEF CountInv, StreamInv, PeerInv, InSession, TokenFresh, PeerOpen
<1>7. \A i \in DOMAIN down' : i \in 1 .. Len(down) \/ i = n
  BY <1>4
<1>8. PICK k \in 1 .. Len(down) : down[k].current
  BY <1>0, <1>1, <1>4 DEF ReplyInv
<1>9. \A i \in DOMAIN down' : First(down', i) => i \in 1 .. Len(down) /\ First(down, i)
  <2> SUFFICES ASSUME NEW i \in DOMAIN down', First(down', i) PROVE i \in 1 .. Len(down) /\ First(down, i)
    OBVIOUS
  <2>1. down'[i].current /\ \A j \in 1 .. i - 1 : ~down'[j].current
    BY DEF First
  <2>2. k \in 1 .. n - 1 /\ down'[k].current
    BY <1>4, <1>8
  <2>3. i \in 1 .. Len(down)
    BY <1>7, <2>1, <2>2
  <2>4. \A j \in 1 .. i - 1 : j \in 1 .. Len(down)
    BY <1>4, <2>3
  <2> QED
    BY <1>4, <2>1, <2>3, <2>4 DEF First
<1>10. ReplyInv'
  <2>1. \A i \in DOMAIN down' : down'[i].current => down'[i].kind = "response" /\ down'[i].type = asking /\ ~asked
    BY <1>0, <1>1, <1>3, <1>4, <1>7 DEF ReplyInv
  <2>2. \A i \in DOMAIN down' :
       First(down', i) => /\ asking = "hello" /\ down'[i].offers => stream.offered
                          /\ asking = "declare" /\ ~down'[i].error => stream.declared
    BY <1>0, <1>1, <1>4, <1>9 DEF ReplyInv
  <2>3. \E i \in DOMAIN down' : down'[i].current
    BY <1>3, <1>4
  <2> QED
    BY <1>0, <2>1, <2>2, <2>3 DEF ReplyInv
<1> QED
  BY <1>5, <1>6, <1>10

\* A request comes behind what has been sent, and is taken for no answer.
LEMMA AskInv == ASSUME IInv, NEW class \in Requests, Ask(class) PROVE IInv'
<1> DEFINE m == Request(class)
           n == Len(down) + 1
<1> USE DEF IInv
<1>0. /\ UNCHANGED <<daemon, gen, token, pc, m_running, peer, asking, asked, hello, m_connected, m_haveDeclared,
                    m_peerCapabilities, connects, strays>>
      /\ requests + strays < MaxRequests /\ requests' = requests + 1 /\ PeerActs
  BY DEF Ask, external, session, exchange
<1>a. down' = Append(down, m)
  BY DEF Ask
<1>b. stream' = [stream EXCEPT !.sent = @ + 1]
  BY DEF Ask
<1>1. pc \in {"await", "serve"}
  BY <1>0 DEF PeerActs
<1>2. m \in Message /\ m \in Asked
  BY Kinds DEF Message
<1>3. m.kind = "request" /\ ~m.current
  BY DEF Request
<1> HIDE DEF m
<1>4. /\ down' \in Seq(Message) /\ Len(down) \in Nat /\ DOMAIN down = 1 .. Len(down)
      /\ DOMAIN down' = 1 .. n /\ down'[n] = m
      /\ \A i \in 1 .. Len(down) : down'[i] = down[i] /\ down[i] \in Message
      /\ Count(down', Asked) = Count(down, Asked) + 1 /\ Count(down, Asked) \in Nat
  BY <1>a, <1>2, AppendMessage DEF m
<1>5. /\ stream' \in Stream /\ stream'.sent = stream.sent + 1
      /\ stream'.read = stream.read /\ stream'.answered = stream.answered /\ stream'.served = stream.served
      /\ stream'.offered = stream.offered /\ stream'.declared = stream.declared
      /\ stream'.cut = stream.cut /\ stream'.afterCut = stream.afterCut
      /\ stream'.failed = stream.failed /\ stream'.bye = stream.bye
      /\ stream.sent \in Nat /\ stream.read \in Nat
  <2>1. stream.sent \in Nat /\ stream.read \in Nat /\ stream.sent + 1 \in Nat
    BY DEF TypeInv, Stream
  <2> QED
    BY <1>b, <2>1 DEF TypeInv, Stream
<1>6. TypeInv'
  BY <1>0, <1>4, <1>5 DEF TypeInv
<1>7. DaemonInv'
  BY <1>0, SessionAssumption DEF SessionAssumption, TypeInv, DaemonInv
<1>8. WorkerInv'
  BY <1>0, <1>1 DEF WorkerInv
<1>9. CountInv'
  BY <1>4, <1>5 DEF CountInv
<1>10. StreamInv' /\ PeerInv'
  BY <1>0, <1>1, <1>5 DEF StreamInv, Outside, PeerInv, InSession, TokenFresh, PeerOpen
<1>11. \A i \in DOMAIN down' : i \in 1 .. Len(down) \/ i = n
  BY <1>4
<1>12. \A i \in DOMAIN down' : First(down', i) => i \in 1 .. Len(down) /\ First(down, i)
  <2> SUFFICES ASSUME NEW i \in DOMAIN down', First(down', i) PROVE i \in 1 .. Len(down) /\ First(down, i)
    OBVIOUS
  <2>1. down'[i].current /\ \A j \in 1 .. i - 1 : ~down'[j].current
    BY DEF First
  <2>2. i \in 1 .. Len(down)
    BY <1>3, <1>4, <1>11, <2>1
  <2>3. \A j \in 1 .. i - 1 : j \in 1 .. Len(down)
    BY <1>4, <2>2
  <2> QED
    BY <1>4, <2>1, <2>2, <2>3 DEF First
<1>13. ASSUME pc = "await" PROVE ReplyInv'
  <2>1. \A i \in DOMAIN down' : down'[i].current => down'[i].kind = "response" /\ down'[i].type = asking /\ ~asked
    BY <1>3, <1>4, <1>11, <1>13 DEF ReplyInv
  <2>2. \A i \in DOMAIN down' :
       First(down', i) => /\ asking = "hello" /\ down'[i].offers => stream'.offered
                          /\ asking = "declare" /\ ~down'[i].error => stream'.declared
    BY <1>4, <1>5, <1>12, <1>13 DEF ReplyInv
  <2>3. ~asked => \E i \in DOMAIN down' : down'[i].current
    BY <1>4, <1>13 DEF ReplyInv
  <2> QED
    BY <1>0, <2>1, <2>2, <2>3 DEF ReplyInv
<1>14. ReplyInv'
  BY <1>0, <1>13 DEF ReplyInv
<1> QED
  BY <1>6, <1>7, <1>8, <1>9, <1>10, <1>14

-----------------------------------------------------------------------------
(* Start, Stop and the worker's outer loop.                                *)

\* With nothing unread and no session, little is asked.
LEMMA NoSession ==
  ASSUME TypeInv', pc' \notin {"await", "serve"}, down' = <<>>, stream'.read <= stream'.sent,
         "status" \in stream'.served => stream'.declared,
         "players" \in stream'.served => stream'.offered
  PROVE  CountInv' /\ ReplyInv' /\ PeerInv'
<1>1. stream'.read \in Nat /\ stream'.sent \in Nat
  BY DEF TypeInv, Stream
<1> QED
  BY <1>1, CountEmpty DEF CountInv, ReplyInv, PeerInv, InSession, TokenFresh

\* The count says so much of the requests read.
LEMMA ReadSent == ASSUME IInv PROVE stream.read <= stream.sent
<1>1. down \in Seq(Message) /\ stream.read \in Nat /\ stream.sent \in Nat
  BY DEF IInv, TypeInv, Stream
<1>2. Count(down, Asked) \in Nat
  BY <1>1, CountType
<1> QED
  BY <1>1, <1>2 DEF IInv, CountInv

\* Stop may come at any time.
LEMMA StopInv == ASSUME IInv, Stop PROVE IInv'
<1> USE DEF IInv, Stop, external, exchange, session, budgets
<1>1. TypeInv' /\ DaemonInv' /\ WorkerInv' /\ CountInv'
  BY DEF TypeInv, DaemonInv, WorkerInv, CountInv
<1>2. StreamInv' /\ PeerInv'
  BY DEF StreamInv, PeerInv, InSession, TokenFresh, PeerOpen
<1>3. ReplyInv'
  BY DEF ReplyInv
<1> QED
  BY <1>1, <1>2, <1>3

LEMMA OutsideInv == ASSUME IInv, Start \/ WorkerEnds \/ Backoff PROVE IInv'
<1> USE DEF IInv
<1>0. /\ UNCHANGED <<daemon, gen, token, peer, down, asking, asked, hello, m_connected, m_haveDeclared, m_peerCapabilities,
                    stream, connects, requests, strays>>
      /\ pc \in {"off", "connect", "backoff"} /\ pc' \in {"connect", "ended"}
      /\ m_running' = m_running \/ (~m_running /\ m_running' = TRUE)
  BY DEF Start, WorkerEnds, Backoff, external, exchange, session, budgets
<1>1. TypeInv'
  BY <1>0 DEF TypeInv, Places
<1>2. DaemonInv' /\ WorkerInv'
  BY <1>0 DEF DaemonInv, WorkerInv, Outside
<1>3. StreamInv'
  BY <1>0, FreshStream DEF StreamInv, Outside
<1>4. CountInv' /\ ReplyInv' /\ PeerInv'
  BY <1>0, <1>1, NoSession, ReadSent DEF WorkerInv, PeerInv
<1> QED
  BY <1>1, <1>2, <1>3, <1>4

\* A new connection begins with nothing of an earlier one.
LEMMA ConnectedInv ==
  ASSUME IInv, pc \in Outside, connects < MaxConnects, Connected, UNCHANGED <<external, m_running, exchange>>
  PROVE  IInv'
<1> USE DEF IInv
<1>0. /\ UNCHANGED <<daemon, gen, token, m_running, asking, asked, hello, m_connected, m_peerCapabilities, requests, strays>>
      /\ daemon # "down" /\ peer' = gen /\ pc' = "token" /\ m_haveDeclared' = FALSE
      /\ connects' = connects + 1 /\ down' = <<>> /\ stream' = NewStream
  BY DEF Connected, external, exchange
<1>1. TypeInv'
  <2>1. down' \in Seq(Message) /\ stream' \in Stream
    BY <1>0, FreshStream, EmptySeq
  <2>2. connects' \in Nat
    BY <1>0 DEF TypeInv
  <2> QED
    BY <1>0, <2>1, <2>2 DEF TypeInv, Places
<1>2. DaemonInv'
  BY <1>0, SessionAssumption DEF SessionAssumption, TypeInv, DaemonInv
<1>3. WorkerInv'
  BY <1>0 DEF DaemonInv, WorkerInv, Outside
<1>4. StreamInv'
  BY <1>0, FreshStream DEF StreamInv
<1>5. CountInv' /\ ReplyInv' /\ PeerInv'
  BY <1>0, <1>1, FreshStream, NoSession
<1> QED
  BY <1>1, <1>2, <1>3, <1>4, <1>5

LEMMA ConnectInv == ASSUME IInv, Connect \/ ConnectPending PROVE IInv'
<1> USE DEF IInv
<1>0. /\ pc \in Outside /\ UNCHANGED <<external, m_running, exchange>>
      /\ \/ connects < MaxConnects /\ Connected
         \/ \E where \in {"backoff", "pending"} : NotConnected(where)
  BY DEF Connect, ConnectPending, Outside
<1>1. CASE connects < MaxConnects /\ Connected
  BY <1>0, <1>1, ConnectedInv
<1>2. CASE \E where \in {"backoff", "pending"} : NotConnected(where)
  <2>0. /\ UNCHANGED <<daemon, gen, token, m_running, peer, down, asking, asked, hello, m_connected, m_haveDeclared,
                      m_peerCapabilities, stream, connects, requests, strays>>
        /\ pc \in Outside /\ pc' \in {"backoff", "pending"}
    BY <1>0, <1>2 DEF NotConnected, external, exchange, session, budgets
  <2>1. TypeInv' /\ DaemonInv'
    BY <2>0 DEF TypeInv, Places, DaemonInv
  <2>2. WorkerInv' /\ StreamInv'
    BY <2>0, FreshStream DEF WorkerInv, StreamInv, Outside
  <2>3. CountInv' /\ ReplyInv' /\ PeerInv'
    BY <2>0, <2>1, NoSession, ReadSent DEF Outside, WorkerInv, PeerInv
  <2> QED
    BY <2>1, <2>2, <2>3
<1> QED
  BY <1>0, <1>1, <1>2

\* Disconnect leaves nothing of the session.
LEMMA DisconnectInv == ASSUME IInv, Disconnect PROVE IInv'
<1> USE DEF IInv
<1>0. /\ UNCHANGED <<daemon, gen, token, m_running, down, asking, asked, hello, m_haveDeclared, m_peerCapabilities,
                    connects, requests, strays>>
      /\ pc = "close" /\ pc' \in {"backoff", "connect"} /\ peer' = 0 /\ stream' = NewStream /\ m_connected' = FALSE
  BY DEF Disconnect, external, exchange, budgets
<1>1. TypeInv'
  BY <1>0, FreshStream DEF TypeInv, Places
<1>2. DaemonInv'
  BY <1>0 DEF TypeInv, DaemonInv
<1>3. WorkerInv'
  BY <1>0 DEF WorkerInv, Outside
<1>4. StreamInv'
  BY <1>0, FreshStream DEF StreamInv
<1>5. CountInv' /\ ReplyInv' /\ PeerInv'
  BY <1>0, <1>1, FreshStream, NoSession DEF WorkerInv
<1> QED
  BY <1>1, <1>2, <1>3, <1>4, <1>5

-----------------------------------------------------------------------------
(* Sending and reading.                                                    *)

\* The end of a session that broke off: what it leaves for Disconnect.
LEMMA BrokenOff ==
  ASSUME IInv, NEW s \in Stream, s.afterCut => ~m_running,
         stream' = Failed(s), down' = <<>>, pc' \in {"failed", "close"}, peer # 0,
         UNCHANGED <<daemon, gen, token, m_running, peer, m_haveDeclared, m_peerCapabilities,
                     connects, requests, strays>>,
         m_connected' \in BOOLEAN, hello' \in {hello, token},
         asking' \in Asks \cup {"none"}, asked' \in BOOLEAN, asked' => asking' # "none"
  PROVE  IInv'
<1> USE DEF IInv
<1>1. TypeInv'
  BY FailedStream, EmptySeq DEF TypeInv, Places
<1>2. DaemonInv'
  BY DEF TypeInv, DaemonInv
<1>3. WorkerInv'
  BY DEF WorkerInv, Outside
<1>4. StreamInv'
  BY FailedStream, EmptySeq DEF StreamInv, Outside
<1>5. CountInv' /\ ReplyInv' /\ PeerInv'
  BY <1>1, FailedStream, NoSession
<1> QED
  BY <1>1, <1>2, <1>3, <1>4, <1>5

\* Exchange's request is out, or the session has broken off.
LEMMA SendRequestInv ==
  ASSUME IInv, NEW type \in Asks, SendRequest(type), pc \in {"token", "serve"},
         UNCHANGED <<external, m_running, peer, session, budgets>>, hello' \in {hello, token},
         type = "hello" => hello' = token, pc = "token" <=> type = "hello"
  PROVE  IInv'
<1> USE DEF IInv
<1>0. /\ UNCHANGED <<daemon, gen, token, m_running, peer, m_connected, m_haveDeclared, m_peerCapabilities,
                    connects, requests, strays>>
      /\ peer # 0
  BY DEF external, session, budgets, WorkerInv, Outside
<1>1. stream \in Stream /\ ~stream.cut /\ ~stream.afterCut /\ ~stream.failed /\ ~stream.bye
  BY DEF TypeInv, StreamInv
<1>2. CASE /\ stream' \in {Failed(Truncated(stream)), Failed(stream)}
           /\ asking' = "none" /\ asked' = FALSE /\ pc' = "failed" /\ Unread
  <2>1. PICK s \in {Truncated(stream), stream} : stream' = Failed(s)
    BY <1>2
  <2>2. s \in Stream /\ ~s.afterCut
    BY <1>1, TruncatedStream
  <2>3. m_connected' \in BOOLEAN
    BY <1>0 DEF TypeInv
  <2> QED
    BY <1>0, <1>2, <2>1, <2>2, <2>3, BrokenOff DEF Unread
<1>3. CASE /\ PeerOpen
           /\ asking' = type /\ asked' = TRUE /\ pc' = "await"
           /\ down' = [i \in DOMAIN down |-> [down[i] EXCEPT !.current = FALSE]]
           /\ stream' = Sent(stream)
  <2>0. asking' = type /\ asked' = TRUE /\ pc' = "await"
    BY <1>3
  <2>1. down' = Stale(down) /\ stream' = Sent(stream)
    BY <1>3 DEF Stale
  <2>2. /\ stream' \in Stream
        /\ stream'.sent = stream.sent /\ stream'.read = stream.read /\ stream'.answered = stream.answered
        /\ stream'.served = stream.served /\ stream'.offered = stream.offered /\ stream'.declared = stream.declared
        /\ ~stream'.cut /\ ~stream'.failed /\ ~stream'.bye /\ ~stream'.afterCut
    BY <1>1, <2>1, SentStream
  <2>3. /\ down' \in Seq(Message) /\ \A i \in DOMAIN down' : ~down'[i].current
        /\ Count(down', Asked) = Count(down, Asked)
    BY <2>1, StaleFacts DEF TypeInv
  <2>4. pc = "token" => down' = <<>>
    <3>1. pc = "token" => down = <<>>
      BY DEF WorkerInv
    <3> QED
      BY <2>1, <3>1 DEF Stale
  <2>5. TypeInv'
    BY <1>0, <2>0, <2>2, <2>3 DEF TypeInv, Places
  <2>6. DaemonInv'
    BY <1>0 DEF TypeInv, DaemonInv
  <2>7. WorkerInv'
    BY <1>0, <2>0 DEF WorkerInv, Outside, Asks
  <2>8. CountInv' /\ StreamInv'
    BY <1>0, <2>0, <2>2, <2>3 DEF CountInv, StreamInv, Outside
  <2>9. ReplyInv'
    <3>1. type = "hello" => DOMAIN down' = {}
      BY <2>4
    <3> QED
      BY <2>0, <2>3, <3>1 DEF ReplyInv, First
  <2>10. PeerInv'
    <3>1. type = "hello" => stream'.served = {} /\ ~m_haveDeclared /\ ~m_connected
      BY <2>2, FreshStream DEF StreamInv, WorkerInv, Outside
    <3>2. type = "hello" /\ PeerOpen' => hello' = gen'
      BY <1>0, <1>3 DEF DaemonInv, PeerOpen
    <3> QED
      BY <1>0, <2>0, <2>2, <3>1, <3>2 DEF PeerInv, InSession, TokenFresh
  <2> QED
    BY <2>5, <2>6, <2>7, <2>8, <2>9, <2>10
<1> QED
  BY <1>2, <1>3 DEF SendRequest

LEMMA HandshakeInv == ASSUME IInv, Handshake PROVE IInv'
<1> USE DEF IInv
<1>0. pc = "token" /\ UNCHANGED <<external, m_running, peer, session, budgets>>
  BY DEF Handshake
<1>1. CASE pc' = "close" /\ UNCHANGED <<down, exchange, stream>>
  <2>0. /\ UNCHANGED <<daemon, gen, token, m_running, peer, down, asking, asked, hello, m_connected, m_haveDeclared,
                      m_peerCapabilities, stream, connects, requests, strays>>
        /\ pc = "token" /\ pc' = "close"
    BY <1>0, <1>1 DEF external, exchange, session, budgets
  <2>1. TypeInv' /\ DaemonInv' /\ WorkerInv'
    BY <2>0 DEF TypeInv, Places, DaemonInv, WorkerInv, Outside
  <2>2. StreamInv'
    BY <2>0 DEF StreamInv, WorkerInv, Outside
  <2>3. CountInv' /\ ReplyInv' /\ PeerInv'
    BY <2>0, <2>1, NoSession, ReadSent DEF WorkerInv, PeerInv
  <2> QED
    BY <2>1, <2>2, <2>3
<1>2. CASE hello' = ReadToken /\ SendRequest("hello")
  BY <1>0, <1>2, SendRequestInv DEF ReadToken, Asks
<1> QED
  BY <1>1, <1>2 DEF Handshake

LEMMA SendOwnInv == ASSUME IInv, NEW type \in {"declare", "request"}, SendOwn(type) PROVE IInv'
  BY SendRequestInv DEF SendOwn, Asks

\* What is left when the message at the head has been taken.
LEMMA TailMessage ==
  ASSUME IInv, down # <<>>, down' = Tail(down)
  PROVE  /\ down' \in Seq(Message) /\ Len(down) \in Nat \ {0} /\ DOMAIN down = 1 .. Len(down)
         /\ DOMAIN down' = 1 .. Len(down) - 1 /\ Head(down) = down[1] /\ Head(down) \in Message
         /\ \A i \in 1 .. Len(down) - 1 : down'[i] = down[i + 1] /\ i + 1 \in 1 .. Len(down)
         /\ Count(down, Asked) = IF Head(down) \in Asked THEN Count(down', Asked) + 1 ELSE Count(down', Asked)
         /\ Count(down', Asked) \in Nat
<1>1. down \in Seq(Message)
  BY DEF IInv, TypeInv
<1>2. /\ down' \in Seq(Message) /\ Len(down') = Len(down) - 1 /\ Head(down) \in Message
      /\ \A i \in 1 .. Len(down') : down'[i] = down[i + 1]
  BY <1>1, HeadTailProperties
<1>3. Len(down) \in Nat \ {0} /\ DOMAIN down = 1 .. Len(down) /\ DOMAIN down' = 1 .. Len(down')
  BY <1>1, <1>2, LenProperties, EmptySeq
<1>4. /\ Count(down, Asked) = IF Head(down) \in Asked THEN Count(down', Asked) + 1 ELSE Count(down', Asked)
      /\ Count(down', Asked) \in Nat
  BY <1>1, <1>2, CountTail, CountType
<1>5. Head(down) = down[1]
  BY <1>1
<1> QED
  BY <1>2, <1>3, <1>4, <1>5

\* A message at the head that is not current leaves the one that will be taken where it is.
LEMMA NotCurrentTaken ==
  ASSUME IInv, pc = "await", down # <<>>, ~Head(down).current, down' = Tail(down),
         UNCHANGED <<pc, asking, asked>>, stream'.offered = stream.offered, stream'.declared = stream.declared
  PROVE  ReplyInv'
<1> DEFINE n == Len(down) - 1
<1>1. /\ Len(down) = n + 1 /\ n \in Nat /\ DOMAIN down = 1 .. n + 1 /\ DOMAIN down' = 1 .. n
      /\ Head(down) = down[1] /\ \A i \in 1 .. n : down'[i] = down[i + 1] /\ i + 1 \in 1 .. n + 1
  BY TailMessage
<1>2. \A k \in 1 .. n + 1 : down[k].current => k > 1 /\ k - 1 \in 1 .. n /\ down'[k - 1] = down[k]
  <2> SUFFICES ASSUME NEW k \in 1 .. n + 1, down[k].current
               PROVE  k > 1 /\ k - 1 \in 1 .. n /\ down'[k - 1] = down[k]
    OBVIOUS
  <2>1. k # 1
    BY <1>1
  <2>2. k > 1 /\ k - 1 \in 1 .. n /\ (k - 1) + 1 = k
    BY <1>1, <2>1
  <2> QED
    BY <1>1, <2>2
<1> HIDE DEF n
<1>3. /\ \A i \in DOMAIN down : down[i].current => down[i].kind = "response" /\ down[i].type = asking /\ ~asked
      /\ \A i \in DOMAIN down :
           First(down, i) => /\ asking = "hello" /\ down[i].offers => stream.offered
                             /\ asking = "declare" /\ ~down[i].error => stream.declared
      /\ ~asked => \E i \in DOMAIN down : down[i].current
  BY DEF IInv, ReplyInv
<1>4. \A i \in DOMAIN down' : down'[i].current => down'[i].kind = "response" /\ down'[i].type = asking /\ ~asked
  BY <1>1, <1>3
<1>5. ASSUME NEW i \in DOMAIN down', First(down', i) PROVE First(down, i + 1)
  <2>1. i \in 1 .. n /\ down'[i].current /\ \A j \in 1 .. i - 1 : ~down'[j].current
    BY <1>1, <1>5 DEF First
  <2>2. i + 1 \in DOMAIN down /\ down[i + 1].current
    BY <1>1, <2>1
  <2>3. ASSUME NEW j \in 1 .. (i + 1) - 1, down[j].current PROVE FALSE
    <3>1. j \in 1 .. n + 1
      BY <1>1, <2>1, <2>3
    <3>2. j > 1 /\ down'[j - 1].current
      BY <1>2, <2>3, <3>1
    <3>3. j - 1 \in 1 .. i - 1
      BY <1>1, <2>1, <3>1, <3>2
    <3> QED
      BY <2>1, <3>2, <3>3
  <2> QED
    BY <2>2, <2>3 DEF First
<1>6. \A i \in DOMAIN down' :
       First(down', i) => /\ asking = "hello" /\ down'[i].offers => stream'.offered
                          /\ asking = "declare" /\ ~down'[i].error => stream'.declared
  BY <1>1, <1>3, <1>5
<1>7. ~asked => \E i \in DOMAIN down' : down'[i].current
  BY <1>1, <1>2, <1>3
<1> QED
  BY <1>4, <1>6, <1>7 DEF ReplyInv

\* The stream when a request has been read, and when it has been answered.
Read(s) == [s EXCEPT !.read = @ + 1]
Done(s) == [Read(s) EXCEPT !.answered = Append(@, Read(s).read)]

LEMMA ReadStream ==
  ASSUME NEW s \in Stream
  PROVE  /\ Read(s) \in Stream /\ Read(s).read = s.read + 1 /\ Read(s).sent = s.sent /\ Read(s).answered = s.answered
         /\ Read(s).served = s.served /\ Read(s).offered = s.offered /\ Read(s).declared = s.declared
         /\ Read(s).cut = s.cut /\ Read(s).afterCut = s.afterCut /\ Read(s).failed = s.failed /\ Read(s).bye = s.bye
<1>1. s.read \in Nat /\ s.read + 1 \in Nat
  BY DEF Stream
<1> QED
  BY <1>1 DEF Read, Stream

LEMMA DoneStream ==
  ASSUME NEW s \in Stream
  PROVE  /\ Done(s) \in Stream /\ Done(s).read = s.read + 1 /\ Done(s).sent = s.sent
         /\ Done(s).answered = Append(s.answered, s.read + 1)
         /\ Done(s).served = s.served /\ Done(s).offered = s.offered /\ Done(s).declared = s.declared
         /\ Done(s).cut = s.cut /\ Done(s).afterCut = s.afterCut /\ Done(s).failed = s.failed /\ Done(s).bye = s.bye
<1> DEFINE r == Read(s)
           a == Append(r.answered, r.read)
<1>1. /\ r \in Stream /\ r.read = s.read + 1 /\ r.sent = s.sent /\ r.answered = s.answered
      /\ r.served = s.served /\ r.offered = s.offered /\ r.declared = s.declared
      /\ r.cut = s.cut /\ r.afterCut = s.afterCut /\ r.failed = s.failed /\ r.bye = s.bye
  BY ReadStream
<1>2. Done(s) = [r EXCEPT !.answered = a]
  BY DEF Done
<1> HIDE DEF r
<1>3. r.answered \in Seq(Nat) /\ r.read \in Nat
  BY <1>1 DEF Stream
<1>4. a \in Seq(Nat) /\ a = Append(s.answered, s.read + 1)
  BY <1>1, <1>3, AppendProperties
<1> HIDE DEF a
<1> QED
  BY <1>1, <1>2, <1>4 DEF Stream

\* What is served was asked of a daemon that may ask it.
LEMMA ServedFacts ==
  ASSUME NEW class \in Requests, "served" \in Outcomes(class)
  PROVE  (class = "status" => m_haveDeclared) /\ (class = "players" => m_peerCapabilities)
  BY DEF Outcomes, AnswerStatus, ReadBackAllowed

\* The answer to the next request continues the answers.
LEMMA NextAnswered ==
  ASSUME IInv
  PROVE  LET a == Append(stream.answered, stream.read + 1) IN
         Len(a) = stream.read + 1 /\ \A i \in 1 .. stream.read + 1 : a[i] = i
<1> DEFINE a == Append(stream.answered, stream.read + 1)
<1>1. /\ stream.answered \in Seq(Nat) /\ stream.read \in Nat /\ stream.read + 1 \in Nat
      /\ Len(stream.answered) = stream.read /\ \A i \in 1 .. stream.read : stream.answered[i] = i
  BY DEF IInv, TypeInv, Stream, StreamInv
<1>2. /\ Len(a) = stream.read + 1 /\ a[stream.read + 1] = stream.read + 1
      /\ \A i \in 1 .. stream.read : a[i] = stream.answered[i]
  BY <1>1, AppendProperties
<1>3. \A i \in 1 .. stream.read + 1 : i \in 1 .. stream.read \/ i = stream.read + 1
  BY <1>1
<1> HIDE DEF a
<1>4. Len(a) = stream.read + 1 /\ \A i \in 1 .. stream.read + 1 : a[i] = i
  BY <1>1, <1>2, <1>3
<1> QED
  BY <1>4 DEF a

\* A request that has been answered, and the session goes on.
LEMMA AnsweredInv ==
  ASSUME IInv, pc \in {"await", "serve"}, m_running, down # <<>>, Head(down).kind = "request",
         NEW how \in Outcomes(Head(down).type), NEW x,
         x = IF how = "served" /\ Head(down).type # "plain" /\ m_connected
             THEN [Done(stream) EXCEPT !.served = @ \cup {Head(down).type}] ELSE Done(stream),
         stream' = Sent(x), down' = Tail(down), UNCHANGED pc,
         UNCHANGED <<external, m_running, peer, exchange, session, budgets>>
  PROVE  IInv'
<1> DEFINE class == Head(down).type
<1> USE DEF IInv
<1>0. UNCHANGED <<daemon, gen, token, pc, m_running, peer, asking, asked, hello, m_connected, m_haveDeclared,
                  m_peerCapabilities, connects, requests, strays>>
  BY DEF external, exchange, session, budgets
<1>1. /\ down' \in Seq(Message) /\ Head(down) \in Message
      /\ Count(down, Asked) = IF Head(down) \in Asked THEN Count(down', Asked) + 1 ELSE Count(down', Asked)
      /\ Count(down', Asked) \in Nat
      /\ Len(down) \in Nat \ {0} /\ DOMAIN down = 1 .. Len(down) /\ Head(down) = down[1]
  BY TailMessage
<1>2. Head(down) \in Asked /\ class \in Requests /\ ~Head(down).current
  BY <1>1, Kinds
<1>3. stream \in Stream /\ ~stream.cut /\ ~stream.afterCut /\ ~stream.failed /\ ~stream.bye
      /\ stream.read \in Nat /\ stream.sent \in Nat /\ stream.served \subseteq Requests
  BY DEF TypeInv, StreamInv, Stream
<1>4. /\ Done(stream) \in Stream /\ Done(stream).read = stream.read + 1 /\ Done(stream).sent = stream.sent
      /\ Done(stream).answered = Append(stream.answered, stream.read + 1)
      /\ Done(stream).served = stream.served
      /\ Done(stream).offered = stream.offered /\ Done(stream).declared = stream.declared
      /\ ~Done(stream).cut /\ ~Done(stream).afterCut /\ ~Done(stream).failed /\ ~Done(stream).bye
  BY <1>3, DoneStream
<1> HIDE DEF class
<1>5. /\ x \in Stream /\ x.read = stream.read + 1 /\ x.sent = stream.sent
      /\ x.answered = Append(stream.answered, stream.read + 1)
      /\ x.offered = stream.offered /\ x.declared = stream.declared
      /\ ~x.cut /\ ~x.afterCut /\ ~x.failed /\ ~x.bye
      /\ x.served = IF how = "served" /\ class # "plain" /\ m_connected
                    THEN stream.served \cup {class} ELSE stream.served
  <2>1. CASE how = "served" /\ class # "plain" /\ m_connected
    <3>1. x = [Done(stream) EXCEPT !.served = stream.served \cup {class}]
      BY <1>4, <2>1 DEF class
    <3>2. stream.served \cup {class} \in SUBSET Requests
      BY <1>2, <1>3
    <3> QED
      BY <1>4, <2>1, <3>1, <3>2 DEF Stream
  <2>2. CASE ~(how = "served" /\ class # "plain" /\ m_connected)
    BY <1>4, <2>2 DEF class
  <2> QED
    BY <2>1, <2>2
<1>6. /\ stream' \in Stream /\ stream'.read = stream.read + 1 /\ stream'.sent = stream.sent
      /\ stream'.answered = Append(stream.answered, stream.read + 1)
      /\ stream'.offered = stream.offered /\ stream'.declared = stream.declared
      /\ ~stream'.cut /\ ~stream'.afterCut /\ ~stream'.failed /\ ~stream'.bye
      /\ stream'.served = IF how = "served" /\ class # "plain" /\ m_connected
                          THEN stream.served \cup {class} ELSE stream.served
  BY <1>5, SentStream
<1>7. TypeInv'
  BY <1>0, <1>1, <1>6 DEF TypeInv
<1>8. DaemonInv' /\ WorkerInv'
  BY <1>0 DEF DaemonInv, WorkerInv
<1>9. CountInv'
  BY <1>1, <1>2, <1>3, <1>6 DEF CountInv
<1>10. StreamInv'
  BY <1>0, <1>3, <1>6, NextAnswered DEF StreamInv, Outside
<1>11. ReplyInv'
  <2>1. CASE pc = "await"
    BY <1>0, <1>2, <1>6, <2>1, NotCurrentTaken
  <2>2. CASE pc # "await"
    BY <1>0, <2>2 DEF ReplyInv
  <2> QED
    BY <2>1, <2>2
<1>12. PeerInv'
  <2>1. how = "served" => (class = "status" => m_haveDeclared) /\ (class = "players" => m_peerCapabilities)
    BY <1>2, ServedFacts DEF class
  <2>2. "status" \in stream'.served => stream'.declared
    BY <1>6, <2>1 DEF PeerInv, InSession
  <2>3. "players" \in stream'.served => stream'.offered
    BY <1>6, <2>1 DEF PeerInv, InSession
  <2>4. pc = "await" /\ asking = "hello" => stream'.served = {}
    BY <1>6 DEF PeerInv, WorkerInv
  <2> QED
    BY <1>0, <1>6, <2>2, <2>3, <2>4 DEF PeerInv, InSession, TokenFresh, PeerOpen
<1> QED
  BY <1>7, <1>8, <1>9, <1>10, <1>11, <1>12

\* Dispatch answers and goes on, or the session breaks off.
LEMMA DispatchInv ==
  ASSUME IInv, pc \in {"await", "serve"}, m_running, down # <<>>,
         NEW where \in {"failed", "close"}, Dispatch(where)
  PROVE  IInv'
<1> USE DEF IInv
<1>0. /\ UNCHANGED <<daemon, gen, token, m_running, peer, asking, asked, hello, m_connected, m_haveDeclared,
                    m_peerCapabilities, connects, requests, strays>>
      /\ Head(down).kind = "request"
  BY DEF Dispatch, external, exchange, session, budgets
<1>1. /\ stream \in Stream /\ ~stream.afterCut /\ ~stream.cut /\ peer # 0
      /\ m_connected \in BOOLEAN /\ asked \in BOOLEAN /\ asking \in Asks \cup {"none"} /\ (asked => asking # "none")
  BY DEF TypeInv, StreamInv, WorkerInv, Outside
<1>2. /\ Read(stream) \in Stream /\ ~Read(stream).afterCut /\ ~Read(stream).cut
      /\ Done(stream) \in Stream /\ ~Done(stream).afterCut /\ ~Done(stream).cut
  BY <1>1, ReadStream, DoneStream
<1>3. ASSUME NEW s \in Stream, ~s.afterCut, stream' = Failed(s), pc' = where, Unread PROVE IInv'
  BY <1>0, <1>1, <1>3, BrokenOff DEF Unread
<1>4. PICK how \in Outcomes(Head(down).type) :
        \/ stream' = Failed(Read(stream)) /\ pc' = where /\ Unread
        \/ /\ stream' = Sent(IF how = "served" /\ Head(down).type # "plain" /\ m_connected
                              THEN [Done(stream) EXCEPT !.served = @ \cup {Head(down).type}] ELSE Done(stream))
           /\ down' = Tail(down) /\ UNCHANGED pc
        \/ stream' = Failed(Sent(Done(stream))) /\ pc' = where /\ Unread
        \/ /\ stream' \in {SendFailed(Truncated(Read(stream))), SendFailed(Read(stream))}
           /\ pc' = IF stream'.failed THEN where ELSE pc
           /\ IF stream'.failed THEN Unread ELSE down' = Tail(down)
  BY Zenon DEF Dispatch, Read, Done
<1>5. CASE stream' = Failed(Read(stream)) /\ pc' = where /\ Unread
  BY <1>2, <1>3, <1>5
<1>6. CASE /\ stream' = Sent(IF how = "served" /\ Head(down).type # "plain" /\ m_connected
                             THEN [Done(stream) EXCEPT !.served = @ \cup {Head(down).type}] ELSE Done(stream))
           /\ down' = Tail(down) /\ UNCHANGED pc
  <2>1. UNCHANGED <<external, m_running, peer, exchange, session, budgets>>
    BY DEF Dispatch
  <2> QED
    BY <1>0, <1>6, <2>1, AnsweredInv
<1>7. CASE stream' = Failed(Sent(Done(stream))) /\ pc' = where /\ Unread
  <2>1. Sent(Done(stream)) \in Stream /\ ~Sent(Done(stream)).afterCut
    BY <1>2, SentStream
  <2> QED
    BY <1>3, <1>7, <2>1
<1>8. CASE /\ stream' \in {SendFailed(Truncated(Read(stream))), SendFailed(Read(stream))}
           /\ pc' = IF stream'.failed THEN where ELSE pc
           /\ IF stream'.failed THEN Unread ELSE down' = Tail(down)
  <2>1. PICK s \in {Truncated(Read(stream)), Read(stream)} : stream' = Failed(s)
    BY <1>8 DEF SendFailed
  <2>2. s \in Stream /\ ~s.afterCut
    <3>1. Truncated(Read(stream)) \in Stream /\ ~Truncated(Read(stream)).afterCut
      BY <1>2, TruncatedStream
    <3> QED
      BY <1>2, <3>1
  <2>3. stream'.failed
    BY <2>1, <2>2, FailedStream
  <2> QED
    BY <1>3, <1>8, <2>1, <2>2, <2>3
<1> QED
  BY <1>4, <1>5, <1>6, <1>7, <1>8

-----------------------------------------------------------------------------
(* Exchange and Serve.                                                     *)

\* The reply taken is the daemon's answer to this request, and what it granted.
LEMMA TakeReplyInv == ASSUME IInv, TakeReply PROVE IInv'
<1> DEFINE r == Head(down)
<1> USE DEF IInv
<1>0. /\ UNCHANGED <<daemon, gen, token, m_running, peer, hello, connects, requests, strays>>
      /\ pc = "await" /\ m_running /\ down # <<>> /\ r.kind = "response" /\ r.current
      /\ m_connected' = (m_connected \/ (asking = "hello" /\ ~r.error))
      /\ m_peerCapabilities' = IF asking = "hello" /\ ~r.error THEN r.offers ELSE m_peerCapabilities
      /\ m_haveDeclared' = (m_haveDeclared \/ (asking = "declare" /\ ~r.error))
      /\ pc' = IF ~r.error THEN "serve" ELSE IF asking = "hello" THEN "close" ELSE "failed"
      /\ stream' = IF r.error THEN Failed(stream) ELSE stream
      /\ IF r.error THEN down' = <<>> ELSE down' = Tail(down)
      /\ asking' = "none" /\ asked' = FALSE
  BY DEF TakeReply, external, budgets, IsReply, Offers, Unread
<1>1. stream \in Stream /\ ~stream.afterCut /\ peer # 0
  BY <1>0 DEF TypeInv, StreamInv, WorkerInv, Outside
<1>2. /\ down \in Seq(Message) /\ r \in Message /\ {r.error, r.offers} \subseteq BOOLEAN
      /\ 1 \in DOMAIN down /\ 1 .. 1 - 1 = {} /\ r = down[1]
  <2>1. down \in Seq(Message)
    BY DEF TypeInv
  <2>2. r \in Message /\ 1 \in DOMAIN down /\ r = down[1]
    BY <1>0, <2>1, HeadTailProperties, LenProperties, EmptySeq
  <2> QED
    BY <2>1, <2>2, Kinds
<1>3. m_connected' \in BOOLEAN /\ m_peerCapabilities' \in BOOLEAN /\ m_haveDeclared' \in BOOLEAN
  BY <1>0, <1>2 DEF TypeInv
<1>4. First(down, 1)
  BY <1>0, <1>2 DEF First
<1>5. asking = "hello" /\ r.offers => stream.offered
  BY <1>0, <1>2, <1>4 DEF ReplyInv
<1>6. asking = "declare" /\ ~r.error => stream.declared
  BY <1>0, <1>2, <1>4 DEF ReplyInv
<1>7. CASE r.error
  <2>1. m_haveDeclared' = m_haveDeclared /\ m_peerCapabilities' = m_peerCapabilities
    BY <1>0, <1>7 DEF TypeInv
  <2> QED
    BY <1>0, <1>1, <1>3, <1>7, <2>1, BrokenOff
<1>8. CASE ~r.error
  <2>0. down' = Tail(down) /\ pc' = "serve" /\ stream' = stream
    BY <1>0, <1>8
  <2>1. /\ down' \in Seq(Message)
        /\ Count(down, Asked) = IF r \in Asked THEN Count(down', Asked) + 1 ELSE Count(down', Asked)
    BY <1>0, <2>0, TailMessage
  <2>2. r \notin Asked
    BY <1>0, <1>2, Kinds
  <2>3. TypeInv'
    BY <1>0, <1>1, <1>3, <2>0, <2>1 DEF TypeInv, Places
  <2>4. DaemonInv'
    BY <1>0 DEF DaemonInv
  <2>5. m_connected'
    BY <1>0, <1>8 DEF WorkerInv
  <2>6. WorkerInv'
    BY <1>0, <1>1, <2>0, <2>5 DEF WorkerInv, Outside
  <2>7. CountInv' /\ StreamInv' /\ ReplyInv'
    BY <1>0, <2>0, <2>1, <2>2 DEF CountInv, StreamInv, ReplyInv, Outside
  <2>8. m_haveDeclared' => stream.declared
    BY <1>0, <1>6, <1>8 DEF PeerInv, InSession
  <2>9. m_peerCapabilities' => stream.offered
    <3>1. CASE asking = "hello"
      BY <1>0, <1>5, <1>8, <3>1
    <3>2. CASE asking # "hello"
      BY <1>0, <3>2 DEF WorkerInv, PeerInv, InSession
    <3> QED
      BY <3>1, <3>2
  <2>10. PeerInv'
    BY <2>0, <2>8, <2>9 DEF PeerInv, TokenFresh
  <2> QED
    BY <2>3, <2>4, <2>6, <2>7, <2>10
<1> QED
  BY <1>7, <1>8

\* A response dropped is not the one that Exchange waits for.
LEMMA DropResponseInv == ASSUME IInv, DropResponse PROVE IInv'
<1> USE DEF IInv
<1>0. /\ UNCHANGED <<daemon, gen, token, pc, m_running, peer, asking, asked, hello, m_connected, m_haveDeclared,
                    m_peerCapabilities, stream, connects, requests, strays>>
      /\ down # <<>> /\ down' = Tail(down) /\ Head(down).kind = "response"
      /\ pc \in {"await", "serve"} /\ (pc = "await" => ~Head(down).current)
  BY DEF DropResponse, external, exchange, session, budgets, IsReply
<1>1. /\ down' \in Seq(Message) /\ Head(down) \in Message
      /\ Count(down, Asked) = IF Head(down) \in Asked THEN Count(down', Asked) + 1 ELSE Count(down', Asked)
  BY <1>0, TailMessage
<1>2. Head(down) \notin Asked
  BY <1>0, <1>1, Kinds
<1>3. TypeInv' /\ DaemonInv' /\ WorkerInv'
  BY <1>0, <1>1 DEF TypeInv, DaemonInv, WorkerInv
<1>4. CountInv' /\ StreamInv' /\ PeerInv'
  BY <1>0, <1>1, <1>2 DEF CountInv, StreamInv, PeerInv, InSession, TokenFresh, PeerOpen
<1>5. ReplyInv'
  <2>1. CASE pc = "await"
    BY <1>0, <2>1, NotCurrentTaken
  <2>2. CASE pc # "await"
    BY <1>0, <2>2 DEF ReplyInv
  <2> QED
    BY <2>1, <2>2
<1> QED
  BY <1>3, <1>4, <1>5

\* A session that is left because the worker stops keeps its stream.
LEMMA LeftInv ==
  ASSUME IInv, pc \in {"await", "serve"}, ~m_running, pc' \in {"failed", "bye"}, down' = <<>>, stream' = stream,
         UNCHANGED <<daemon, gen, token, m_running, peer, hello, m_connected, m_haveDeclared, m_peerCapabilities,
                     connects, requests, strays>>,
         (asking' = "none" /\ asked' = FALSE) \/ UNCHANGED <<asking, asked>>
  PROVE  IInv'
<1> USE DEF IInv
<1>1. down' \in Seq(Message)
  BY EmptySeq
<1>2. TypeInv'
  BY <1>1 DEF TypeInv, Places
<1>3. DaemonInv' /\ WorkerInv' /\ StreamInv'
  BY DEF DaemonInv, WorkerInv, StreamInv, Outside
<1>4. CountInv' /\ ReplyInv' /\ PeerInv'
  BY <1>2, NoSession, ReadSent DEF PeerInv
<1> QED
  BY <1>2, <1>3, <1>4

LEMMA ExchangeFailsInv == ASSUME IInv, ExchangeFails PROVE IInv'
<1>0. /\ UNCHANGED <<daemon, gen, token, m_running, peer, hello, m_connected, m_haveDeclared, m_peerCapabilities,
                    connects, requests, strays>>
      /\ pc = "await" /\ pc' = "failed" /\ asking' = "none" /\ asked' = FALSE /\ down' = <<>>
      /\ stream' = IF m_running THEN Failed(stream) ELSE stream
  BY DEF ExchangeFails, external, session, budgets, Unread
<1>1. /\ stream \in Stream /\ ~stream.afterCut /\ peer # 0 /\ m_connected' \in BOOLEAN
      /\ asking' \in Asks \cup {"none"} /\ asked' \in BOOLEAN /\ ~asked'
  BY <1>0 DEF IInv, TypeInv, StreamInv, WorkerInv, Outside
<1>2. CASE m_running
  BY <1>0, <1>1, <1>2, BrokenOff
<1>3. CASE ~m_running
  BY <1>0, <1>3, LeftInv
<1> QED
  BY <1>2, <1>3

LEMMA PeerClosedInv == ASSUME IInv, PeerClosed PROVE IInv'
<1>0. /\ UNCHANGED <<daemon, gen, token, m_running, peer, asking, asked, hello, m_connected, m_haveDeclared,
                    m_peerCapabilities, connects, requests, strays>>
      /\ pc = "serve" /\ pc' = "failed" /\ down' = <<>> /\ stream' = Failed(stream)
  BY DEF PeerClosed, external, exchange, session, budgets
<1>1. /\ stream \in Stream /\ ~stream.afterCut /\ peer # 0 /\ m_connected' \in BOOLEAN
      /\ asking' \in Asks \cup {"none"} /\ asked' \in BOOLEAN /\ (asked' => asking' # "none")
  BY <1>0 DEF IInv, TypeInv, StreamInv, WorkerInv, Outside
<1> QED
  BY <1>0, <1>1, BrokenOff

LEMMA LeaveServeInv == ASSUME IInv, LeaveServe PROVE IInv'
  BY LeftInv DEF LeaveServe, Unread, external, exchange, session, budgets

LEMMA AfterFailureInv == ASSUME IInv, AfterFailure PROVE IInv'
<1> USE DEF IInv
<1>0. /\ UNCHANGED <<daemon, gen, token, m_running, peer, down, hello, m_connected, m_haveDeclared, m_peerCapabilities,
                    stream, connects, requests, strays>>
      /\ pc = "failed" /\ pc' = IF ~m_running /\ m_connected THEN "bye" ELSE "close"
      /\ asking' = "none" /\ asked' = FALSE
  BY DEF AfterFailure, Alive, external, session, budgets
<1>1. TypeInv' /\ DaemonInv'
  BY <1>0 DEF TypeInv, Places, DaemonInv
<1>2. WorkerInv'
  BY <1>0 DEF WorkerInv, Outside
<1>3. StreamInv'
  BY <1>0 DEF StreamInv, Outside
<1>4. CountInv' /\ ReplyInv' /\ PeerInv'
  BY <1>0, <1>1, NoSession, ReadSent DEF WorkerInv, PeerInv
<1> QED
  BY <1>1, <1>2, <1>3, <1>4

\* The Bye is the last that is written.
LEMMA SendByeInv == ASSUME IInv, SendBye PROVE IInv'
<1> USE DEF IInv
<1>0. /\ UNCHANGED <<daemon, gen, token, m_running, peer, down, asking, asked, hello, m_connected, m_haveDeclared,
                    m_peerCapabilities, connects, requests, strays>>
      /\ pc = "bye" /\ pc' = "close"
      /\ \/ stream' = [Sent(stream) EXCEPT !.bye = TRUE]
         \/ stream' \in {Failed(Truncated(stream)), Failed(stream)}
  BY DEF SendBye, external, exchange, session, budgets
<1>1. /\ stream \in Stream /\ ~m_running /\ peer # 0 /\ down = <<>> /\ m_connected' \in BOOLEAN
      /\ asking' \in Asks \cup {"none"} /\ asked' \in BOOLEAN /\ (asked' => asking' # "none")
  BY <1>0 DEF TypeInv, WorkerInv, Outside
<1>2. CASE stream' \in {Failed(Truncated(stream)), Failed(stream)}
  <2>1. PICK s \in {Truncated(stream), stream} : stream' = Failed(s)
    BY <1>2
  <2>2. s \in Stream
    BY <1>1, TruncatedStream
  <2> QED
    BY <1>0, <1>1, <2>1, <2>2, BrokenOff
<1>3. CASE stream' = [Sent(stream) EXCEPT !.bye = TRUE]
  <2>1. /\ Sent(stream) \in Stream /\ Sent(stream).sent = stream.sent /\ Sent(stream).read = stream.read
        /\ Sent(stream).answered = stream.answered /\ Sent(stream).served = stream.served
        /\ Sent(stream).offered = stream.offered /\ Sent(stream).declared = stream.declared
    BY <1>1, SentStream
  <2>2. /\ stream' \in Stream /\ stream'.sent = stream.sent /\ stream'.read = stream.read
        /\ stream'.answered = stream.answered /\ stream'.served = stream.served
        /\ stream'.offered = stream.offered /\ stream'.declared = stream.declared /\ stream'.bye
    BY <1>3, <2>1 DEF Stream
  <2>3. TypeInv' /\ DaemonInv'
    BY <1>0, <2>2 DEF TypeInv, Places, DaemonInv
  <2>4. WorkerInv' /\ StreamInv'
    BY <1>0, <1>1, <2>2 DEF WorkerInv, StreamInv, Outside
  <2>5. CountInv' /\ ReplyInv' /\ PeerInv'
    BY <1>0, <1>1, <2>2, <2>3, NoSession, ReadSent DEF PeerInv
  <2> QED
    BY <2>3, <2>4, <2>5
<1> QED
  BY <1>0, <1>2, <1>3

-----------------------------------------------------------------------------
(* The theorems.                                                           *)

\* Every step keeps the invariant.
LEMMA StepInv == IInv /\ [Next]_vars => IInv'
<1> SUFFICES ASSUME IInv, [Next]_vars PROVE IInv'
  OBVIOUS
<1>1. CASE UNCHANGED vars
  <2>1. UNCHANGED <<daemon, gen, token, pc, m_running, peer, down, asking, asked, hello, m_connected, m_haveDeclared,
                    m_peerCapabilities, stream, connects, requests, strays>>
    BY <1>1 DEF vars, external, exchange, session, budgets
  <2>2. TypeInv' /\ DaemonInv' /\ TokenFresh'
    BY <2>1 DEF IInv, TypeInv, DaemonInv, PeerInv, TokenFresh, PeerOpen
  <2> QED
    BY <1>1, <2>2, ConnectionAlone DEF IInv, vars
<1>2. CASE RotateToken \/ Listen \/ Die \/ Freeze
  BY <1>2, SessionAssumption, RotateTokenInv, ListenInv, DieInv
<1>3. CASE Repeat \/ \E error \in BOOLEAN, offers \in BOOLEAN : Reply(error, offers)
  BY <1>3, RepeatInv, ReplyInvStep
<1>4. CASE \E class \in Requests : Ask(class)
  BY <1>4, AskInv
<1>5. CASE Start \/ Stop \/ WorkerEnds \/ Backoff
  BY <1>5, OutsideInv, StopInv
<1>6. CASE Connect \/ ConnectPending \/ Disconnect
  BY <1>6, ConnectInv, DisconnectInv
<1>7. CASE Handshake \/ \E type \in {"declare", "request"} : SendOwn(type)
  BY <1>7, HandshakeInv, SendOwnInv
<1>8. CASE FirstDeclare \/ SendIdlePing
  BY <1>8, SendOwnInv DEF FirstDeclare, SendIdlePing
<1>9. CASE ServeOvertaking \/ ServeRequest
  <2>1. /\ pc \in {"await", "serve"} /\ m_running /\ down # <<>>
        /\ \E where \in {"failed", "close"} : Dispatch(where)
    BY <1>9 DEF ServeOvertaking, ServeRequest
  <2> QED
    BY <2>1, DispatchInv
<1>10. CASE TakeReply \/ DropResponse \/ ExchangeFails
  BY <1>10, TakeReplyInv, DropResponseInv, ExchangeFailsInv
<1>11. CASE PeerClosed \/ LeaveServe \/ AfterFailure \/ SendBye
  BY <1>11, PeerClosedInv, LeaveServeInv, AfterFailureInv, SendByeInv
<1> QED
  BY <1>1, <1>2, <1>3, <1>4, <1>5, <1>6, <1>7, <1>8, <1>9, <1>10, <1>11 DEF Next, WorkerStep

\* The invariant holds throughout.
THEOREM SessionInvariant == Spec => []IInv
<1>1. Init => IInv
  BY InitInv
<1>2. IInv /\ [Next]_vars => IInv'
  BY StepInv
<1> QED
  BY <1>1, <1>2, PTL DEF Spec

\* Every variable keeps its type and its bounds: the worker reads no more requests than the daemon
\* sent, and answers no more than it read (ReadMessage, Dispatch).
THEOREM TypeCorrect == Spec => []TypeOK
<1>1. IInv => TypeOK
  <2> SUFFICES ASSUME IInv PROVE TypeOK
    OBVIOUS
  <2>1. stream.read <= stream.sent /\ Len(stream.answered) = stream.read /\ stream.read \in Nat
    BY ReadSent DEF IInv, TypeInv, Stream, StreamInv
  <2>2. gen \in 0 .. MaxRestarts + 1 /\ peer \in 0 .. gen /\ hello \in 0 .. token
    BY SessionAssumption DEF SessionAssumption, IInv, TypeInv, DaemonInv
  <2> QED
    BY <2>1, <2>2 DEF IInv, TypeInv, DaemonInv, WorkerInv, Places, Asks, Outside, TypeOK
<1> QED
  BY <1>1, SessionInvariant, PTL

\* Every request the worker reads is answered once and in order, those that overtake its own reply
\* included, or the session ends with it (Exchange, Dispatch).
THEOREM Answered == Spec => []AnsweredInOrder
<1>1. IInv => AnsweredInOrder
  <2> SUFFICES ASSUME IInv PROVE AnsweredInOrder
    OBVIOUS
  <2>1. DOMAIN stream.answered = 1 .. stream.read /\ Len(stream.answered) = stream.read
    BY LenProperties DEF IInv, TypeInv, Stream, StreamInv
  <2> QED
    BY <2>1 DEF IInv, StreamInv, AnsweredInOrder
<1> QED
  BY <1>1, SessionInvariant, PTL

\* A session rests on nothing of an earlier one: its token, its peer's capabilities and its
\* acknowledged Declare are of the daemon at the other end of this connection (Disconnect).
THEOREM Peers == Spec => []OfThisPeer
<1>1. IInv => OfThisPeer
  BY DEF IInv, PeerInv, OfThisPeer, DeclaredTruly, NegotiatedOnly
<1> QED
  BY <1>1, SessionInvariant, PTL

\* While the worker runs nothing is written behind a message cut short, and a session in which nothing
\* failed ends with a Bye and only by Stop (Send, Disconnect).
THEOREM CleanEnds == Spec => EndsCleanly
<1>1. IInv /\ IInv' /\ [Next]_vars => [StreamWhole' /\ ByeWhenHealthy]_vars
  <2> SUFFICES ASSUME IInv, IInv', Next PROVE StreamWhole' /\ ByeWhenHealthy
    OBVIOUS
  <2>1. StreamWhole'
    BY DEF IInv, StreamInv, StreamWhole
  <2>2. ByeWhenHealthy
    <3> SUFFICES ASSUME m_connected, ~m_connected'
                 PROVE  (~stream.failed => stream.bye) /\ (stream.bye => ~m_running)
      BY DEF ByeWhenHealthy
    <3>1. pc = "close"
      <4>1. CASE TakeReply
        BY <4>1 DEF TakeReply
      <4>2. CASE Dispatch("failed") \/ Dispatch("close")
        BY <4>2 DEF Dispatch, session
      <4>3. CASE \E type \in {"declare", "request"} : SendOwn(type)
        BY <4>3 DEF SendOwn, session
      <4> QED
        BY <4>1, <4>2, <4>3 DEF Next, WorkerStep, RotateToken, Listen, Die, Freeze, Repeat, Reply, Ask, Start, Stop,
             Connect, ConnectPending, Connected, NotConnected, Backoff, Handshake, DropResponse, ServeOvertaking,
             ExchangeFails, FirstDeclare, SendIdlePing, ServeRequest, PeerClosed, LeaveServe, AfterFailure, SendBye,
             Disconnect, WorkerEnds, session
    <3> QED
      BY <3>1 DEF IInv, StreamInv
  <2> QED
    BY <2>1, <2>2
<1> QED
  BY <1>1, SessionInvariant, PTL DEF EndsCleanly, Spec
=============================================================================
