---------------------------- MODULE MemoryBridge ----------------------------
(***************************************************************************)
(* MemoryBridge.cpp: the daemon's memory requests cross from the socket    *)
(* worker to VPX's API thread, the only one that may touch the emulator.   *)
(*                                                                         *)
(* The worker queues one request at a time and waits for it, bounded; the  *)
(* API thread's Service takes the queue under the lock, reads and writes   *)
(* without it, publishes a snapshot of the subscribed ranges through a     *)
(* SeqLock and completes the requests under the lock.  A part of a         *)
(* function that holds m_mutex is one step.                                *)
(*                                                                         *)
(* The SeqLock is what AtomicPublish says: a Poll loads a whole snapshot,  *)
(* but any one that was published since the newest that the worker is      *)
(* ordered after.  snaps holds those, oldest first; what the API thread    *)
(* published before it last left m_mutex is snaps[rel] and older, and the  *)
(* worker is ordered after it once it takes m_mutex.                       *)
(***************************************************************************)
EXTENDS Integers, Sequences, FiniteSetsExt

CONSTANTS
  Sets,       \* the sets of ranges a Subscribe may ask for
  Handlers,   \* external: what the host's write handler may do
  \* Bounds on requests, rendered frames, games and Clears of a behaviour.
  MaxRequests, MaxFrames, MaxGames, MaxClears

ASSUME HandlersAssumption == Handlers \subseteq {"Ok", "Busy", "Unsupported"}

VARIABLES
  \* API thread
  apc,      \* where it is in Service or in SetGameRunning
  work,     \* the requests Service took
  at,       \* how many of them it has answered
  svc,      \* the ranges and the id Service takes its snapshot for
  game,     \* the number of the running, or the last, game
  mem,      \* external: the Writes that the running game's memory has
  \* shared
  running,  \* SocketWorker::m_running, which ends every wait
  gameRunning, writesUnsupported,
  space,    \* m_addressSpace is known, so that a Write can be beyond it
  reqs,     \* every Request made, queued ones by their index
  queue,    \* m_queue
  ranges, subscriptionId, nextSubscriptionId,
  snaps, rel,
  \* worker
  wpc,      \* where it is in the answer to the daemon
  cur,      \* the request it waits for
  told,     \* the subscription the daemon was last told of
  poll,     \* the PollReply it is about to send
  began,    \* the game of which Poll saw that it runs
  sub,      \* the subscription that Poll looks for
  \* bounds
  frames, clears

api     == <<apc, work, at, svc, game, mem>>
subscr  == <<ranges, subscriptionId, nextSubscriptionId>>
polling == <<poll, began, sub>>
bounds  == <<frames, clears>>
vars    == <<api, running, gameRunning, writesUnsupported, space, reqs, queue,
             subscr, snaps, rel, wpc, cur, told, polling, bounds>>

NoSnapshot == [id |-> 0, complete |-> FALSE, blocks |-> {}, game |-> 0, mem |-> {}]
NoPoll     == [blocks |-> {}, game |-> 0, mem |-> {}]
NoSet      == [ranges |-> {}, id |-> 0]
NoSub      == [id |-> 0, none |-> TRUE]

Init ==
  /\ apc = "idle" /\ work = <<>> /\ at = 0 /\ svc = NoSet
  /\ game = 0 /\ mem = {}
  /\ running = TRUE /\ gameRunning = FALSE /\ writesUnsupported = FALSE
  /\ space = FALSE /\ reqs = <<>> /\ queue = <<>>
  /\ ranges = {} /\ subscriptionId = 0 /\ nextSubscriptionId = 1
  /\ snaps = <<NoSnapshot>> /\ rel = 1
  /\ wpc = "idle" /\ cur = 0 /\ told = {}
  /\ poll = NoPoll /\ began = 0 /\ sub = NoSub
  /\ frames = 0 /\ clears = 0

\* The worker takes m_mutex: it may not load what is older than snaps[rel].
Acquire == snaps' = SubSeq(snaps, rel, Len(snaps)) /\ rel' = 1

\* The API thread leaves m_mutex.
Release == snaps' = snaps /\ rel' = Len(snaps)

Publish(snapshot) == snaps' = Append(snaps, snapshot) /\ rel' = rel

\* A request of the given kind; result, accepted, applied and in are set by
\* Answer, and answer is what the daemon is told in the end.
Request(kind, rs, high, id) ==
  [kind |-> kind, ranges |-> rs, high |-> high, sub |-> id, accepted |-> {},
   result |-> "Busy", done |-> FALSE, abandoned |-> FALSE, taken |-> FALSE,
   applied |-> 0, in |-> 0, answer |-> "none"]

\* Of a request that was answered, or given up and is in nobody's hands, only what
\* a Write did and what the daemon was told of it still matter.
Settled(q, answer) ==
  IF q.kind = "write"
  THEN [Request("write", {}, FALSE, 0) EXCEPT !.done = TRUE, !.answer = answer,
           !.applied = q.applied, !.in = IF answer = "Ok" THEN q.in ELSE 0]
  ELSE [Request("read", {}, FALSE, 0) EXCEPT !.done = TRUE]

-----------------------------------------------------------------------------
(* Complete, under m_mutex, for the requests ids of table rs.              *)

\* Mutant: a Subscribe that the worker gave up on is installed all the same.
InstallsAbandoned(q) == q.kind = "subscribe" /\ q.sub > subscriptionId
Installs(q) == /\ q.kind = "subscribe" /\ ~q.abandoned
               /\ q.sub > subscriptionId

Completed(q) == [q EXCEPT !.done = TRUE]

Complete(rs, ids) ==
  LET installed == {i \in ids : Installs(rs[i])}
      newest == CHOOSE i \in installed : \A j \in installed : rs[j].sub <= rs[i].sub
  IN /\ reqs' = [i \in DOMAIN rs |-> IF i \notin ids THEN rs[i]
                                      ELSE IF rs[i].abandoned THEN Settled(rs[i], rs[i].answer)
                                      ELSE Completed(rs[i])]
     /\ writesUnsupported' = (writesUnsupported \/
          \E i \in ids : rs[i].kind = "write" /\ rs[i].result = "Unsupported")
     /\ IF installed = {}
        THEN UNCHANGED <<ranges, subscriptionId>>
        ELSE /\ ranges' = rs[newest].accepted
             /\ subscriptionId' = rs[newest].sub

\* Answer with no game running.
AnswerNoGame(q) ==
  [q EXCEPT !.result = IF q.kind = "subscribe" THEN "Ok" ELSE "NoGame"]

-----------------------------------------------------------------------------
(* Socket worker.                                                          *)

ResetSubscription ==
  /\ ranges' = {}
  /\ subscriptionId' = nextSubscriptionId
  /\ nextSubscriptionId' = nextSubscriptionId + 1

Make(request) ==
  /\ wpc = "idle" /\ running /\ gameRunning /\ Len(reqs) < MaxRequests
  /\ reqs' = Append(reqs, request)
  /\ cur' = Len(reqs) + 1
  /\ wpc' = "submit"
  /\ UNCHANGED <<api, running, gameRunning, space, queue, ranges, subscriptionId,
                 snaps, rel, told, polling, bounds, writesUnsupported>>

Subscribe(rs) ==
  /\ Make(Request("subscribe", rs, FALSE, nextSubscriptionId))
  /\ nextSubscriptionId' = nextSubscriptionId + 1

\* Subscribe with no game running, or of nothing.
SubscribeNothing ==
  /\ wpc = "idle" /\ running /\ clears < MaxClears
  /\ ResetSubscription
  /\ Acquire
  /\ told' = {}
  /\ clears' = clears + 1
  /\ UNCHANGED <<api, running, gameRunning, writesUnsupported, space, reqs, queue,
                 wpc, cur, polling, frames>>

\* Clear, by every new session and before every Declare.
Clear ==
  /\ wpc = "idle" /\ running /\ clears < MaxClears
  /\ ResetSubscription
  /\ writesUnsupported' = FALSE
  /\ Acquire
  /\ told' = {}
  /\ clears' = clears + 1
  /\ UNCHANGED <<api, running, gameRunning, space, reqs, queue, wpc, cur, polling,
                 frames>>

ReadDirect == /\ Make(Request("read", {}, FALSE, 0))
              /\ UNCHANGED nextSubscriptionId

\* A Write whose ops end beyond the address space, or do not.
Write(high) ==
  /\ ~(high /\ space) /\ ~writesUnsupported
  /\ Make(Request("write", {}, high, 0))
  /\ UNCHANGED nextSubscriptionId

\* Submit up to its wait.  The game may have ended since it was looked at.
Submit ==
  /\ wpc = "submit"
  /\ IF gameRunning
     THEN /\ queue' = Append(queue, cur)
          /\ UNCHANGED <<reqs, ranges, subscriptionId, writesUnsupported>>
     ELSE /\ Complete([reqs EXCEPT ![cur] = AnswerNoGame(@)], {cur})
          /\ UNCHANGED queue
  /\ Acquire
  /\ wpc' = "wait"
  /\ UNCHANGED <<api, running, gameRunning, space, nextSubscriptionId, cur, told,
                 polling, bounds>>

\* Mutant: neither the deadline nor a stop ends the wait.
WaitingForAnswer(q, late) == ~q.done
Waiting(q, late) ==
  ~q.done /\ running /\ ((q.kind = "write" /\ q.taken) \/ ~late)

\* Mutant: what the worker gave up on stays queued.
StillQueued(q, i) == q
Erased(q, i) ==
  IF \A k \in DOMAIN q : q[k] # i THEN q
  ELSE LET k == CHOOSE k \in DOMAIN q : q[k] = i  \* a request is queued once
       IN SubSeq(q, 1, k - 1) \o SubSeq(q, k + 1, Len(q))

\* The end of Submit: the request was answered, or is given up.
EndWait ==
  /\ wpc = "wait"
  /\ \E late \in BOOLEAN : ~Waiting(reqs[cur], late)
  /\ LET q == reqs[cur]
     IN IF q.done
        THEN /\ reqs' = [reqs EXCEPT ![cur] = Settled(q, q.result)]
             /\ told' = IF q.kind = "subscribe" THEN q.accepted ELSE told
             /\ UNCHANGED queue
        ELSE /\ reqs' = [reqs EXCEPT ![cur] = IF cur \in {queue[k] : k \in DOMAIN queue}
                                               THEN Settled(q, "Busy")
                                               ELSE [q EXCEPT !.answer = "Busy", !.abandoned = TRUE]]
             /\ queue' = Erased(queue, cur)
             /\ UNCHANGED told
  /\ Acquire
  /\ wpc' = "idle"
  /\ cur' = 0
  /\ UNCHANGED <<api, running, gameRunning, writesUnsupported, space, subscr,
                 polling, bounds>>

\* Poll: it sees that a game runs, reads the subscription under m_mutex, and
\* loads the snapshot.
PollBegin ==
  /\ wpc = "idle" /\ running /\ gameRunning
  /\ began' = game
  /\ wpc' = "poll"
  /\ UNCHANGED <<api, running, gameRunning, writesUnsupported, space, reqs, queue,
                 subscr, snaps, rel, cur, told, poll, sub, bounds>>

PollSubscription ==
  /\ wpc = "poll"
  /\ sub' = [id |-> subscriptionId, none |-> ranges = {}]
  /\ Acquire
  /\ wpc' = "read"
  /\ UNCHANGED <<api, running, gameRunning, writesUnsupported, space, reqs, queue,
                 subscr, cur, told, poll, began, bounds>>

Serves(h) == h.complete /\ h.id = sub.id

\* The load may also report nothing: every copy torn.
PollRead ==
  /\ wpc = "read"
  /\ \E i \in 1 .. Len(snaps), read \in BOOLEAN :
       LET h == snaps[i]
       IN /\ snaps' = SubSeq(snaps, i, Len(snaps))
          /\ rel' = IF rel < i THEN 1 ELSE rel - i + 1
          /\ \/ /\ sub.none
                /\ poll' = NoPoll /\ wpc' = "polled" /\ UNCHANGED began
             \/ /\ ~sub.none /\ read /\ Serves(h)
                /\ poll' = [blocks |-> h.blocks, game |-> h.game, mem |-> h.mem]
                /\ wpc' = "polled" /\ UNCHANGED began
             \/ /\ ~sub.none /\ ~(read /\ Serves(h))
                /\ wpc' = "idle" /\ began' = 0 /\ UNCHANGED poll
  /\ sub' = NoSub
  /\ UNCHANGED <<api, running, gameRunning, writesUnsupported, space, reqs, queue,
                 subscr, cur, told, bounds>>

PollReply ==
  /\ wpc = "polled"
  /\ poll' = NoPoll
  /\ began' = 0
  /\ wpc' = "idle"
  /\ UNCHANGED <<api, running, gameRunning, writesUnsupported, space, reqs, queue,
                 subscr, snaps, rel, cur, told, sub, bounds>>

\* The worker leaves its serve loop.
WorkerEnds ==
  /\ wpc = "idle" /\ ~running
  /\ wpc' = "done"
  /\ UNCHANGED <<api, running, gameRunning, writesUnsupported, space, reqs, queue,
                 subscr, snaps, rel, cur, told, polling, bounds>>

-----------------------------------------------------------------------------
(* API thread.                                                             *)

\* SetGameRunning(true).  A game ends before the next one starts.
GameStart ==
  /\ apc = "idle" /\ ~gameRunning /\ game < MaxGames
  /\ gameRunning' = TRUE
  /\ game' = game + 1
  /\ mem' = {}
  /\ space' = FALSE
  /\ Release
  /\ UNCHANGED <<apc, work, at, svc, running, writesUnsupported, reqs, queue, subscr,
                 wpc, cur, told, polling, bounds>>

\* SetGameRunning(false), under m_mutex: what is queued is answered now.
GameEnd ==
  /\ apc = "idle" /\ gameRunning
  /\ gameRunning' = FALSE
  /\ space' = FALSE
  /\ LET pending == {queue[k] : k \in DOMAIN queue}
     IN Complete([i \in DOMAIN reqs |-> IF i \in pending THEN AnswerNoGame(reqs[i])
                                                         ELSE reqs[i]], pending)
  /\ queue' = <<>>
  /\ Release
  /\ apc' = "ended"
  /\ UNCHANGED <<work, at, svc, game, mem, running, nextSubscriptionId, wpc, cur, told,
                 polling, bounds>>

DropsSnapshot == Publish(NoSnapshot)

\* The rest of it: no snapshot outlives the game.
GameEnded ==
  /\ apc = "ended"
  /\ DropsSnapshot
  /\ apc' = "idle"
  /\ UNCHANGED <<work, at, svc, game, mem, running, gameRunning, writesUnsupported,
                 space, reqs, queue, subscr, wpc, cur, told, polling, bounds>>

\* Service, once per rendered frame; a frame that finds m_mutex taken skips it.
\* The address space may become known just before.
ServiceTake ==
  /\ apc = "idle" /\ frames < MaxFrames
  /\ \E known \in BOOLEAN : space' = (space \/ (gameRunning /\ known))
  /\ work' = queue
  /\ queue' = <<>>
  /\ reqs' = [i \in DOMAIN reqs |->
                [reqs[i] EXCEPT !.taken = @ \/ \E k \in DOMAIN queue : queue[k] = i]]
  /\ svc' = [ranges |-> ranges, id |-> subscriptionId]
  /\ at' = 0
  /\ frames' = frames + 1
  /\ Release
  /\ apc' = "answer"
  /\ UNCHANGED <<game, mem, running, gameRunning, writesUnsupported, subscr, wpc, cur,
                 told, polling, clears>>

\* Answer, without the lock: the possible outcomes for a request.
Answer(q) ==
  IF ~gameRunning THEN {AnswerNoGame(q)}
  ELSE IF q.kind = "write"
  THEN IF q.high /\ space THEN {[q EXCEPT !.result = "OutOfRange"]}
       ELSE {[q EXCEPT !.result = res, !.in = game,
                       !.applied = IF res = "Ok" THEN @ + 1 ELSE @] : res \in Handlers}
  ELSE IF q.kind = "subscribe"
  THEN {[q EXCEPT !.result = "Ok", !.accepted = rs] : rs \in SUBSET q.ranges}
  ELSE {[q EXCEPT !.result = res] : res \in {"Ok", "OutOfRange"}}

\* The snapshot is of the set that this batch installs.
NewestSet(q) == IF q.kind = "subscribe" /\ q.sub > svc.id
                THEN [ranges |-> q.accepted, id |-> q.sub] ELSE svc

ServiceAnswer ==
  /\ apc = "answer" /\ at < Len(work)
  /\ LET i == work[at + 1]
     IN \E q \in Answer(reqs[i]) :
          /\ reqs' = [reqs EXCEPT ![i] = q]
          /\ mem' = IF q.applied > reqs[i].applied THEN mem \cup {i} ELSE mem
          /\ svc' = NewestSet(q)
  /\ at' = at + 1
  /\ UNCHANGED <<apc, work, game, running, gameRunning, writesUnsupported, space, queue,
                 subscr, snaps, rel, wpc, cur, told, polling, bounds>>

\* TakeSnapshot and PublishSnapshot.  A range may not read in full any more.
ServicePublish ==
  /\ apc = "answer" /\ at = Len(work)
  /\ \E full \in BOOLEAN :
       Publish([id |-> svc.id, complete |-> full /\ svc.ranges # {} /\ gameRunning,
                blocks |-> svc.ranges, game |-> game, mem |-> mem])
  /\ apc' = "complete"
  /\ UNCHANGED <<work, at, svc, game, mem, running, gameRunning, writesUnsupported,
                 space, reqs, queue, subscr, wpc, cur, told, polling, bounds>>

ServiceComplete ==
  /\ apc = "complete"
  /\ Complete(reqs, {work[k] : k \in DOMAIN work})
  /\ work' = <<>>
  /\ at' = 0
  /\ svc' = NoSet
  /\ Release
  /\ apc' = "idle"
  /\ UNCHANGED <<game, mem, running, gameRunning, space, queue, nextSubscriptionId,
                 wpc, cur, told, polling, bounds>>

\* SocketWorker::Stop: the API thread waits for the worker's end.
Stop ==
  /\ apc = "idle" /\ running
  /\ running' = FALSE
  /\ apc' = "join"
  /\ UNCHANGED <<work, at, svc, game, mem, gameRunning, writesUnsupported, space, reqs,
                 queue, subscr, snaps, rel, wpc, cur, told, polling, bounds>>

-----------------------------------------------------------------------------
Worker ==
  \/ Submit \/ EndWait \/ PollSubscription \/ PollRead \/ PollReply \/ WorkerEnds

Daemon ==
  \/ \E rs \in Sets : Subscribe(rs)
  \/ SubscribeNothing \/ Clear \/ ReadDirect \/ PollBegin
  \/ \E high \in BOOLEAN : Write(high)

Servicing == GameEnded \/ ServiceAnswer \/ ServicePublish \/ ServiceComplete

Next ==
  \/ Worker \/ Daemon \/ Servicing
  \/ GameStart \/ GameEnd \/ ServiceTake \/ Stop

Spec == Init /\ [][Next]_vars

\* A function that has begun goes on, and a deadline passes; nobody owes the
\* worker another frame, and nobody owes the API thread another request.
FairSpec == Spec /\ WF_vars(Worker) /\ WF_vars(Servicing)

-----------------------------------------------------------------------------
Result == {"Ok", "Busy", "NoGame", "OutOfRange", "Unsupported"}

RequestType ==
  [kind : {"subscribe", "read", "write"}, ranges : SUBSET UNION Sets, high : BOOLEAN,
   sub : Nat, accepted : SUBSET UNION Sets, result : Result, done : BOOLEAN,
   abandoned : BOOLEAN, taken : BOOLEAN, applied : Nat, in : Nat,
   answer : Result \cup {"none"}]

Snapshot == [id : Nat, complete : BOOLEAN, blocks : SUBSET UNION Sets, game : Nat,
             mem : SUBSET DOMAIN reqs]

\* The worker has one request in flight, so at most one is queued or in work:
\* QUEUE_LIMIT is never reached.
TypeOK ==
  /\ apc \in {"idle", "ended", "answer", "complete", "join"}
  /\ wpc \in {"idle", "submit", "wait", "poll", "read", "polled", "done"}
  /\ running \in BOOLEAN /\ gameRunning \in BOOLEAN
  /\ writesUnsupported \in BOOLEAN /\ space \in BOOLEAN
  /\ reqs \in Seq(RequestType) /\ cur \in 0 .. Len(reqs)
  /\ queue \in {<<>>} \cup {<<i>> : i \in DOMAIN reqs}
  /\ work \in {<<>>} \cup {<<i>> : i \in DOMAIN reqs} /\ at \in 0 .. Len(work)
  /\ svc \in [ranges : SUBSET UNION Sets, id : Nat]
  /\ ranges \subseteq UNION Sets /\ told \subseteq UNION Sets
  /\ subscriptionId \in Nat /\ nextSubscriptionId \in Nat
  /\ snaps \in Seq(Snapshot) /\ rel \in 1 .. Len(snaps)
  /\ poll \in [blocks : SUBSET UNION Sets, game : Nat, mem : SUBSET DOMAIN reqs]
  /\ game \in Nat /\ mem \subseteq DOMAIN reqs /\ began \in Nat
  /\ sub \in [id : Nat, none : BOOLEAN]
  /\ frames \in Nat /\ clears \in Nat

\* A Write is answered for what really happened: Ok once it is applied, and
\* anything else, Busy at the deadline above all, only if it never was and
\* never will be, so that a daemon's retry does not apply it twice.
WriteTruly ==
  \A i \in DOMAIN reqs :
    /\ reqs[i].answer = "Ok" /\ reqs[i].kind = "write" => reqs[i].applied = 1
    /\ reqs[i].answer \in Result \ {"Ok"} => reqs[i].applied = 0

\* A Poll carries exactly the set that the daemon was told it is subscribed
\* to, whatever Clear, game end, timed out or late Subscribe came between.
PollIsSubscription == wpc = "polled" => poll.blocks = told

\* The bytes of a Poll are of the game it saw running, or of a later one, and
\* show every Write of that game that was answered Ok before.
PollIsCurrent ==
  wpc = "polled" /\ poll.blocks # {} =>
    /\ poll.game >= began
    /\ \A i \in DOMAIN reqs :
         /\ reqs[i].kind = "write" /\ reqs[i].answer = "Ok" /\ reqs[i].in = poll.game
         => i \in poll.mem

\* Once a subscription is installed, no snapshot of an older one can be read
\* any more: a Poll right after the Subscribe reply already has its set.
SubscribedIsServed ==
  ranges # {} => \A i \in rel .. Len(snaps) :
                   snaps[i].id = 0 \/ snaps[i].id >= subscriptionId

\* What the daemon is told is true: a Write's answer, although the deadline and
\* the API thread race for the request, and a Poll's set and bytes, although a
\* Subscribe, a Clear, a new game and a frame's Publish come between the
\* worker's reads of them.
AnsweredTruly == WriteTruly /\ PollIsSubscription /\ PollIsCurrent /\ SubscribedIsServed

\* Submit returns, although no frame may ever be rendered again.
SubmitReturns == wpc = "wait" ~> wpc = "idle"

\* Unload joins: the API thread waits for a worker that may be waiting for the
\* API thread.
Unloads == ~running ~> wpc = "done"

\* Neither thread waits for the other for ever: Submit's wait has its deadline,
\* and the unload that joins the worker completes what the worker waits for.
WaitsEnd == SubmitReturns /\ Unloads
=============================================================================
