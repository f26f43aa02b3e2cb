------------------------------ MODULE ReadBack ------------------------------
(***************************************************************************)
(* The leaderboard requests of a table's script: from the API thread       *)
(* (ReadBackState, VpxSessionSource) through ReadBackChannel to the socket *)
(* worker, which asks the daemon and posts what becomes of each request.   *)
(*                                                                         *)
(* A table is what a Declare names; the API thread numbers its tables with *)
(* the epoch and, within one epoch, with the identity.  The worker learns  *)
(* of a change through the Declare latch, later than the script.  What it  *)
(* does under ReadBackChannel's mutex is one step each; it reads the       *)
(* daemon's results wherever it waits for the daemon.                      *)
(***************************************************************************)
EXTENDS Integers, Sequences, FiniteSets

CONSTANTS
  None,             \* no table: the chooser
  RomTables,        \* tables named by a ROM
  AuthoredTables,   \* tables named by their script
  Peers,            \* what HelloAck may offer: leaderboards, authored tables
  MAX_QUEUED,       \* ReadBackChannel's bound on requests and on results
  MAX_PENDING,      \* MAX_PENDING_SCORES
  CAPACITY,         \* TopScoresStore's bound
  MaxId,            \* the largest request id, 0x7FFFFFFF in the code
  \* Bounds on what the environment does.
  MaxEpoch, MaxIdentity, MaxRequests, MaxLosses

Tables == RomTables \cup AuthoredTables

ASSUME ReadBackAssumption ==
  /\ None \notin Tables
  /\ Peers \subseteq [leaderboards : BOOLEAN, authored : BOOLEAN]
  /\ {MAX_QUEUED, MAX_PENDING, CAPACITY} \subseteq Nat \ {0}
  /\ MaxId \in Nat \ {0}
  /\ {MaxEpoch, MaxIdentity, MaxRequests, MaxLosses} \subseteq Nat

VARIABLES
  \* API thread
  posted,          \* m_posted: epoch, identity and table
  lastRequest,     \* ReadBackState::m_lastRequest
  clearedThrough,  \* ReadBackState::m_clearedThrough
  scores,          \* TopScoresStore::m_entries
  \* shared
  unread,          \* the Declare latch is not empty
  leaderboards, nextId, requests, results,
  \* worker
  pc,              \* where Worker() is
  current, declared, haveDeclared,
  peer,            \* what this session's HelloAck offered
  asks,            \* m_asks
  cur,             \* the request it has sent and waits for the answer of
  pending,         \* m_pendingScores
  inbox,           \* results that the daemon has sent on this connection
  \* daemon
  owed,            \* requests that it has on this connection
  \* history and bounds
  asked,           \* the table each request was made for
  answered,        \* how often each request was answered
  losses

api     == <<posted, lastRequest, clearedThrough, scores>>
channel == <<leaderboards, nextId, requests, results>>
link    == <<current, declared, haveDeclared, peer>>
wire    == <<cur, inbox, owed>>
vars    == <<api, unread, channel, pc, link, asks, pending, wire, asked, answered,
             losses>>

NoDeclare == [epoch |-> 0, identity |-> 0, table |-> None]
NoPeer    == [leaderboards |-> FALSE, authored |-> FALSE]

Init ==
  /\ posted = NoDeclare /\ unread = TRUE
  /\ lastRequest = 0 /\ clearedThrough = 0 /\ scores = <<>>
  /\ leaderboards = FALSE /\ nextId = 1 /\ requests = <<>> /\ results = <<>>
  /\ pc = "down" /\ current = NoDeclare /\ declared = NoDeclare
  /\ haveDeclared = FALSE /\ peer = NoPeer
  /\ asks = <<>> /\ pending = {} /\ cur = {} /\ inbox = {} /\ owed = {}
  /\ asked = <<>> /\ answered = <<>> /\ losses = 0

-----------------------------------------------------------------------------
(* Parts of a sequence, and a map in the order of its keys.                *)

\* The k-th smallest number of a set.
Nth(S, k) == CHOOSE i \in S : Cardinality({j \in S : j < i}) = k - 1

\* What stands at the places P of a sequence, in their order.
At(s, P) == [k \in 1 .. Cardinality(P) |-> s[Nth(P, k)]]

ByIds(S) ==
  LET ids == {p.id : p \in S}
  IN [k \in 1 .. Cardinality(ids) |-> CHOOSE p \in S : p.id = Nth(ids, k)]

\* Mutant: the bound is off by one.
NewestAndOne(s, k) == SubSeq(s, IF Len(s) > k + 1 THEN Len(s) - k ELSE 1, Len(s))
\* The newest k of a sequence.
Newest(s, k) == SubSeq(s, IF Len(s) > k THEN Len(s) - k + 1 ELSE 1, Len(s))

-----------------------------------------------------------------------------
(* API thread.                                                             *)

\* What was asked of the old identity is not read any more.
ClearScores == scores' = <<>> /\ clearedThrough' = lastRequest

\* Another table within the epoch: a ROM takes over from the script, or back.
ChangeIdentity(t) ==
  /\ t # posted.table /\ posted.identity < MaxIdentity
  /\ posted' = [posted EXCEPT !.identity = @ + 1, !.table = t]
  /\ unread' = TRUE
  /\ ClearScores
  /\ UNCHANGED <<lastRequest, channel, pc, link, asks, pending, wire, asked, answered,
                 losses>>

\* A table starts, ends, or names another machine.
NewEpoch(t) ==
  /\ posted.epoch < MaxEpoch
  /\ posted' = [posted EXCEPT !.epoch = @ + 1, !.table = t]
  /\ unread' = TRUE
  /\ scores' = <<>> /\ clearedThrough' = 0
  /\ UNCHANGED <<lastRequest, channel, pc, link, asks, pending, wire, asked, answered,
                 losses>>

\* ScriptRequestTopScores, when the request is admitted.
Request ==
  /\ leaderboards /\ Len(requests) < MAX_QUEUED /\ Len(asked) < MaxRequests
  /\ requests' = Append(requests, [n |-> Len(asked) + 1, id |-> nextId,
                                   epoch |-> posted.epoch, identity |-> posted.identity])
  /\ lastRequest' = nextId
  /\ nextId' = IF nextId >= MaxId THEN 1 ELSE nextId + 1
  /\ asked' = Append(asked, posted)
  /\ answered' = Append(answered, 0)
  /\ UNCHANGED <<posted, clearedThrough, scores, unread, leaderboards, results, pc, link,
                 asks, pending, wire, losses>>

Read(post) == /\ post.epoch = posted.epoch
              /\ clearedThrough = 0 \/ post.id > clearedThrough

\* Drain, by every read of the script.
Drain ==
  /\ results # <<>>
  /\ LET read == {i \in DOMAIN results : Read(results[i])}
         held == {i \in DOMAIN scores : \A j \in read : results[j].id # scores[i].id}
     IN scores' = Newest(At(scores, held) \o At(results, read), CAPACITY)
  /\ results' = <<>>
  /\ UNCHANGED <<posted, lastRequest, clearedThrough, unread, leaderboards, nextId,
                 requests, pc, link, asks, pending, wire, asked, answered, losses>>

\* The script is done with a result.
Release ==
  /\ \E i \in DOMAIN scores : scores' = At(scores, DOMAIN scores \ {i})
  /\ UNCHANGED <<posted, lastRequest, clearedThrough, unread, channel, pc, link, asks,
                 pending, wire, asked, answered, losses>>

-----------------------------------------------------------------------------
(* Socket worker.                                                          *)

\* PostScores and PostResult for a sequence of requests.
Post(lost) ==
  /\ results' = Newest(results \o [i \in DOMAIN lost |-> [n |-> lost[i].n, id |-> lost[i].id,
                                                         epoch |-> lost[i].epoch]],
                       MAX_QUEUED)
  /\ answered' = [n \in DOMAIN answered |->
                    answered[n] + Cardinality({i \in DOMAIN lost : lost[i].n = n})]

NewIdentity(was, now) == was.table # now.table

Identifies(d) == d.table \in RomTables \/ (d.table \in AuthoredTables /\ peer.authored)

\* Waiting for the wire, the worker serves what the daemon sends.
Waits == pc \in {"flush", "declare", "games", "asked", "poll"}

Connect ==
  /\ pc = "down"
  /\ pc' = "hello"
  /\ haveDeclared' = FALSE /\ declared' = NoDeclare
  /\ current' = posted /\ unread' = FALSE
  /\ UNCHANGED <<api, channel, peer, asks, pending, wire, asked, answered, losses>>

HelloAck ==
  /\ pc = "hello"
  /\ peer' \in Peers
  /\ pc' = "loop"
  /\ UNCHANGED <<api, unread, channel, current, declared, haveDeclared, asks, pending,
                 wire, asked, answered, losses>>

\* The head of Serve's loop.
SetLeaderboards ==
  /\ pc = "loop"
  /\ leaderboards' = (haveDeclared /\ Identifies(declared) /\ peer.leaderboards)
  /\ pc' = "take"
  /\ UNCHANGED <<api, unread, nextId, requests, results, link, asks, pending, wire,
                 asked, answered, losses>>

\* MaybeDeclare: what the old epoch's table committed goes out first.
TakeDeclare ==
  /\ pc = "take"
  /\ current' = posted /\ unread' = FALSE
  /\ pc' = IF haveDeclared /\ current'.epoch # declared.epoch THEN "flush" ELSE "maybe"
  /\ UNCHANGED <<api, channel, declared, haveDeclared, peer, asks, pending, wire, asked,
                 answered, losses>>

\* SendGames, of which only this matters here: it may take the latch.
SendGames ==
  /\ pc \in {"flush", "games"}
  /\ \/ UNCHANGED <<current, unread>>
     \/ current' = posted /\ unread' = FALSE
  /\ pc' = IF pc = "flush" THEN "maybe" ELSE "ask"
  /\ UNCHANGED <<api, channel, declared, haveDeclared, peer, asks, pending, wire, asked,
                 answered, losses>>

\* Admission closes before a Declare that identifies nothing goes out.
MaybeDeclare ==
  /\ pc = "maybe"
  /\ \/ /\ haveDeclared /\ current = declared
        /\ pc' = "games" /\ UNCHANGED leaderboards
     \/ /\ ~(haveDeclared /\ current = declared)
        /\ pc' = "declare"
        /\ leaderboards' = (leaderboards /\ Identifies(current))
  /\ UNCHANGED <<api, unread, nextId, requests, results, link, asks, pending, wire,
                 asked, answered, losses>>

\* EndReadBacks(false) if the table is another one.
DeclareAck ==
  /\ pc = "declare"
  /\ LET sameEpoch == current.epoch = declared.epoch
         newTable == haveDeclared /\ (~sameEpoch \/ NewIdentity(declared, current))
     IN /\ IF newTable THEN Post(ByIds(pending)) /\ pending' = {}
                       ELSE UNCHANGED <<results, answered, pending>>
        /\ pc' = IF newTable /\ sameEpoch THEN "lose" ELSE "games"
  /\ declared' = current
  /\ haveDeclared' = TRUE
  /\ UNCHANGED <<api, unread, leaderboards, nextId, requests, current, peer, asks, wire,
                 asked, losses>>

\* A request of an identity that the declared one has replaced.
OfOldIdentity(ask) == ask.epoch = declared.epoch /\ ask.identity < declared.identity

LoseQueuedRequests ==
  /\ pc = "lose"
  /\ LET all == asks \o requests
         old == {i \in DOMAIN all : OfOldIdentity(all[i])}
     IN /\ Post(At(all, old))
        /\ asks' = At(all, DOMAIN all \ old)
  /\ requests' = <<>>
  /\ pc' = "games"
  /\ UNCHANGED <<api, unread, leaderboards, nextId, link, pending, wire, asked, losses>>

\* The head of SendTopScoresRequests.
TakeRequests ==
  /\ pc = "ask"
  /\ asks' = asks \o requests
  /\ requests' = <<>>
  /\ pc' = "send"
  /\ UNCHANGED <<api, unread, leaderboards, nextId, results, link, pending, wire, asked,
                 answered, losses>>

\* Mutant: a request of an epoch that is over waits too.
AwaitsEpoch(ask) == ~haveDeclared \/ ask.epoch # declared.epoch
                    \/ ask.identity > declared.identity
\* The table of this request is not declared yet.
AwaitsDeclare(ask) ==
  \/ ~haveDeclared \/ ask.epoch > declared.epoch
  \/ ask.epoch = declared.epoch /\ ask.identity > declared.identity

\* Mutant: the table of the request is over only with its epoch.
EpochGone(ask) == ask.epoch < declared.epoch
Gone(ask) == ask.epoch < declared.epoch \/ ask.identity < declared.identity

SendReturns ==
  /\ pc = "send"
  /\ asks # <<>> => AwaitsDeclare(Head(asks))
  /\ pc' = "poll"
  /\ UNCHANGED <<api, unread, channel, link, asks, pending, wire, asked, answered,
                 losses>>

\* Answered here: its table is gone, the daemon cannot, or it does not encode.
AnswerHere ==
  /\ pc = "send" /\ asks # <<>> /\ ~AwaitsDeclare(Head(asks))
  /\ Post(<<Head(asks)>>)
  /\ asks' = Tail(asks)
  /\ UNCHANGED <<api, unread, leaderboards, nextId, requests, pc, link, pending, wire,
                 asked, losses>>

\* Registered before it goes out; the oldest pending one makes room.
SendRequest ==
  /\ pc = "send" /\ asks # <<>> /\ ~AwaitsDeclare(Head(asks))
  /\ ~Gone(Head(asks)) /\ peer.leaderboards /\ Identifies(declared)
  /\ LET ask   == Head(asks)
         first == {p \in pending : Cardinality(pending) >= MAX_PENDING
                                    /\ \A q \in pending : p.id <= q.id}
     IN /\ Post(ByIds(first))
        /\ pending' = (pending \ first) \cup
                      {[n |-> ask.n, id |-> ask.id, epoch |-> ask.epoch]}
        /\ cur' = {ask}
        /\ owed' = owed \cup {ask.n}
  /\ asks' = Tail(asks)
  /\ pc' = "asked"
  /\ UNCHANGED <<api, unread, leaderboards, nextId, requests, link, inbox, asked, losses>>

RequestAck ==
  /\ pc = "asked"
  /\ pc' = "send"
  /\ cur' = {}
  /\ UNCHANGED <<api, unread, channel, link, asks, pending, inbox, owed, asked, answered,
                 losses>>

\* A refusal is the answer unless the result has overtaken it.
RefusedPending == {p \in pending : \E ask \in cur : p.id = ask.id}

RequestRefused ==
  /\ pc = "asked"
  /\ Post(ByIds(RefusedPending))
  /\ pending' = pending \ RefusedPending
  /\ owed' = {n \in owed : \A ask \in cur : n # ask.n}
  /\ cur' = {}
  /\ pc' = "send"
  /\ UNCHANGED <<api, unread, leaderboards, nextId, requests, link, asks, inbox, asked,
                 losses>>

\* AnswerTopScores: a result, well formed or not, of a request that is pending.
AnswerTopScores ==
  /\ Waits
  /\ \E n \in inbox :
       /\ inbox' = inbox \ {n}
       /\ Post(ByIds({p \in pending : p.n = n}))
       /\ pending' = {p \in pending : p.n # n}
  /\ UNCHANGED <<api, unread, leaderboards, nextId, requests, pc, link, asks, cur, owed,
                 asked, losses>>

\* Nothing more to read: the loop goes on.
PollEnds ==
  /\ pc = "poll" /\ inbox = {}
  /\ pc' = "loop"
  /\ UNCHANGED <<api, unread, channel, link, asks, pending, wire, asked, answered,
                 losses>>

\* Mutant: what is queued is drained, and admission stays as it was.
DrainOnly == UNCHANGED leaderboards
Close == leaderboards' = FALSE

\* Disconnect: EndReadBacks(true).
Disconnect ==
  /\ pc = "hello" \/ Waits
  /\ losses < MaxLosses
  /\ losses' = losses + 1
  /\ Close
  /\ Post(asks \o requests \o ByIds(pending))
  /\ requests' = <<>> /\ asks' = <<>> /\ pending' = {}
  /\ cur' = {} /\ inbox' = {} /\ owed' = {}
  /\ pc' = "down"
  /\ UNCHANGED <<api, unread, nextId, link, asked>>

\* External: the daemon resolves a request and sends its result.
Resolve ==
  /\ \E n \in owed : owed' = owed \ {n} /\ inbox' = inbox \cup {n}
  /\ UNCHANGED <<api, unread, channel, pc, link, asks, cur, pending, asked, answered,
                 losses>>

-----------------------------------------------------------------------------
Script ==
  \/ Request \/ Drain \/ Release
  \/ \E t \in Tables \cup {None} : ChangeIdentity(t) \/ NewEpoch(t)

Worker ==
  \/ Connect \/ HelloAck \/ SetLeaderboards \/ TakeDeclare \/ SendGames \/ MaybeDeclare
  \/ DeclareAck \/ LoseQueuedRequests \/ TakeRequests \/ SendReturns \/ AnswerHere
  \/ SendRequest \/ RequestAck \/ RequestRefused \/ AnswerTopScores \/ PollEnds

Next == Script \/ Worker \/ Resolve \/ Disconnect

Spec == Init /\ [][Next]_vars

\* The worker runs and the daemon answers; the script and the link owe nothing.
FairSpec == Spec /\ WF_vars(Worker) /\ WF_vars(Resolve)

-----------------------------------------------------------------------------
Ask  == [n : Nat, id : 1 .. MaxId, epoch : Nat, identity : Nat]
Note == [n : Nat, id : 1 .. MaxId, epoch : Nat]
Snapshot == [epoch : Nat, identity : Nat, table : Tables \cup {None}]

TypeOK ==
  /\ {posted, current, declared} \subseteq Snapshot /\ asked \in Seq(Snapshot)
  /\ lastRequest \in 0 .. MaxId /\ clearedThrough \in 0 .. MaxId /\ nextId \in 1 .. MaxId
  /\ {unread, leaderboards, haveDeclared} \subseteq BOOLEAN
  /\ requests \in Seq(Ask) /\ Len(requests) <= MAX_QUEUED
  /\ results \in Seq(Note) /\ Len(results) <= MAX_QUEUED
  /\ scores \in Seq(Note) /\ Len(scores) <= CAPACITY
  /\ asks \in Seq(Ask) /\ cur \subseteq Ask
  /\ pending \subseteq Note /\ Cardinality(pending) <= MAX_PENDING
  /\ pc \in {"down", "hello", "loop", "take", "flush", "maybe", "declare", "lose", "games",
             "ask", "send", "asked", "poll"}
  /\ peer \in Peers \cup {NoPeer}
  /\ inbox \subseteq DOMAIN asked /\ owed \subseteq DOMAIN asked
  /\ answered \in [DOMAIN asked -> Nat] /\ losses \in Nat

\* Every id handed to the script waits in exactly one place or was answered,
\* exactly once: none is forgotten when a session, a table or an identity ends,
\* and no refusal, eviction or loss answers what a result has answered.
AnsweredOrWaits ==
  \A n \in DOMAIN asked :
    answered[n] + Cardinality({i \in DOMAIN requests : requests[i].n = n})
                + Cardinality({i \in DOMAIN asks : asks[i].n = n})
                + Cardinality({p \in pending : p.n = n}) = 1

\* Without a session nothing waits: a request that races the end of a session
\* is either lost with it or not admitted.
NoneWaits == pc \in {"down", "hello"} => requests = <<>> /\ asks = <<>> /\ pending = {}

\* Every request is answered exactly once, and what is unanswered waits where
\* the end of a session still finds it.
AnsweredOnce == AnsweredOrWaits /\ NoneWaits

\* The script only reads results of requests it made of this very table, however
\* late the worker learns that the table is another one.
OwnResults ==
  \A i \in DOMAIN scores : asked[scores[i].n] = posted

\* The daemon is asked only while the table that the script meant is declared.
AskedOfOwnTable ==
  pc = "asked" => \A ask \in cur : asked[ask.n].table = declared.table

\* A request and its result stay with the table they were made for on both
\* sides, although the script and the worker learn of a new table at different
\* times.
OwnTable == OwnResults /\ AskedOfOwnTable

\* Every request admitted is answered in the end, although it may have to wait
\* for the Declare of its table and the worker for the daemon.
Answered == \A n \in 1 .. MaxRequests : n \in DOMAIN asked ~> n \in DOMAIN answered /\ answered[n] = 1
=============================================================================
