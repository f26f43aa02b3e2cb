---------------------------- MODULE GameDelivery ----------------------------
(***************************************************************************)
(* How the game calls of an authored table reach the Scorbit daemon.       *)
(*                                                                         *)
(* Three parties run concurrently:                                         *)
(*   - the API thread (VpxSessionSource): the table starts and ends, its   *)
(*     script names a machine, makes game calls and commits them, a ROM or *)
(*     a display comes and goes.  Every change of what the plugin declares *)
(*     is posted to a single-slot latch, every commit to a bounded queue;  *)
(*   - the socket worker (SocketWorker): connects, declares the table,     *)
(*     sends the batches and keeps the acknowledged part of the open game  *)
(*     so that a restarted daemon can be given the whole game again;       *)
(*   - the daemon, which is not part of the repository: it acknowledges or *)
(*     refuses a batch, drops one whose batch id it already has, and may   *)
(*     restart with nothing.                                               *)
(* The connection may be lost at any point, before or after the daemon has *)
(* acted on the request in flight.                                         *)
(***************************************************************************)
EXTENDS Integers, Sequences, FiniteSets

CONSTANTS
  None,          \* no machine, no ROM
  Machines,      \* machine ids a script can declare
  RomIds,        \* ROMs PinMAME can run
  MaxGameOps,    \* Wire::MAX_GAME_OPS, calls in one batch
  MaxQueuedOps,  \* MAX_QUEUED_GAME_OPS, calls held for the worker
  PeerAuthored,  \* what HelloAck may offer: AuthoredAllowed() per session
  Refusals,      \* may the daemon refuse a batch
  \* Bounds on what the environment does, so that TLC terminates.
  MaxEpoch, MaxChanges, MaxCalls, MaxLosses, MaxRestarts

ASSUME NoneAssumption  == None \notin Machines \cup RomIds
ASSUME BoundAssumption == /\ MaxGameOps \in Nat \ {0}
                          /\ MaxQueuedOps \in Nat \ {0}
                          /\ PeerAuthored \subseteq BOOLEAN
                          /\ Refusals \in BOOLEAN

VARIABLES
  \* API thread
  epoch,             \* m_epoch
  identity,          \* m_identity
  machine,           \* m_authored.machineId
  paths,             \* m_authored's paths are captured: a table is running
  rom,               \* m_romId
  display,           \* every declared field that does not name the table
  ops,               \* m_ops, the calls since the last Commit
  \* shared
  posted,            \* m_posted, and what the latch holds when unread
  unread,            \* the Declare latch is not empty
  pushing,           \* calls of the commit that holds GameQueue's mutex
  queue,             \* GameQueue::m_queue
  refusing,          \* GameQueue::m_refusing
  \* worker
  pc,                \* where Worker() is
  caller,            \* who called SendGames
  current,           \* m_current
  declared,          \* m_declared
  haveDeclared,      \* m_haveDeclared
  peerAuthored,      \* AuthoredAllowed()
  games,             \* m_games
  gameOpenEpoch,     \* m_gameOpenEpoch
  openGame,          \* m_openGame
  openGameIdentity,  \* m_openGameIdentity
  replayPending,     \* m_replayPending
  replayQueued,      \* m_replayQueued
  nextBatchId,       \* m_nextBatchId
  \* daemon
  dLog,              \* the batches this life of the daemon has taken
  \* history and bounds
  batches,           \* batches cut so far: numbers every batch
  game,              \* the script's open game: its epoch and its start's number
  cut,               \* the daemon refused a batch, or a game grew too long to be kept
  calls, losses, restarts

session  == <<epoch, identity, machine, paths, rom, display, posted>>
handoff  == <<pushing, queue, refusing, batches, game>>
link     == <<current, declared, haveDeclared, peerAuthored>>
retained == <<gameOpenEpoch, openGame, openGameIdentity>>
replay   == <<replayPending, replayQueued>>
bounds   == <<calls, losses, restarts, cut>>
api      == <<session, ops, unread, handoff>>
worker   == <<pc, caller, link, games, retained, replay, nextBatchId>>
vars     == <<session, ops, unread, handoff, worker, dLog, bounds>>

-----------------------------------------------------------------------------
Kind == {"start", "op", "end"}

Snapshot == [epoch : Nat, identity : Nat, rom : RomIds \cup {None},
             machine : Machines \cup {None}, display : Nat]

\* A committed batch.  Not in the code, but what it is about: machine, the
\* machine it was committed for; n, its number in commit order; game, the
\* number of the batch that starts its game, 0 if the script started none.
Batch == [epoch : Nat, machine : Machines \cup {None}, ops : Seq(Kind),
          n : Nat, game : Nat, id : Nat]

Starts(b) == b.ops[1] = "start"
Ends(b)   == b.ops[Len(b.ops)] = "end"
\* The calls of the batches of q: the j-th one of its i-th batch.
CallsOf(q) == UNION {{i} \X (1 .. Len(q[i].ops)) : i \in DOMAIN q}
SumOps(q) == Cardinality(CallsOf(q))
From(q, k) == SubSeq(q, k, Len(q))

NoDeclare == [epoch |-> 0, identity |-> 0, rom |-> None, machine |-> None,
              display |-> 0]

Init ==
  /\ epoch = 0 /\ identity = 0 /\ machine = None /\ paths = FALSE
  /\ rom = None /\ display = 0 /\ ops = <<>>
  /\ posted = NoDeclare /\ unread = TRUE
  /\ pushing = <<>> /\ queue = <<>> /\ refusing = FALSE
  /\ pc = "down" /\ caller = "serve"
  /\ current = NoDeclare /\ declared = NoDeclare /\ haveDeclared = FALSE
  /\ peerAuthored = FALSE
  /\ games = <<>> /\ gameOpenEpoch = 0
  /\ openGame = <<>> /\ openGameIdentity = 0
  /\ replayPending = FALSE /\ replayQueued = 0
  /\ nextBatchId = 1 /\ dLog = <<>>
  /\ batches = 0 /\ game = [epoch |-> 0, n |-> 0]
  /\ calls = 0 /\ losses = 0 /\ restarts = 0 /\ cut = FALSE

-----------------------------------------------------------------------------
(* API thread.  Each handler touches the state it shares with the worker   *)
(* at most once, so a handler is one step; Push is one step per batch, the *)
(* queue's mutex held in between.                                          *)

Idle == pushing = <<>>

AuthoredReady == machine # None /\ rom = None /\ paths

NewIdentity(was, now) == was.rom # now.rom \/ was.machine # now.machine

\* The tail of every handler: the new declaration is posted if it differs.
UpdateDeclare ==
  LET now == [epoch |-> epoch', identity |-> identity, rom |-> rom',
              machine |-> IF AuthoredReady' THEN machine' ELSE None,
              display |-> display']
  IN /\ identity' = IF now.epoch = posted.epoch /\ NewIdentity(posted, now)
                    THEN identity + 1 ELSE identity
     /\ posted' = [now EXCEPT !.identity = identity']
     /\ unread' = (unread \/ posted' # posted)

OnGameStart ==
  /\ Idle /\ ~paths /\ epoch < MaxEpoch
  /\ paths' = TRUE
  /\ epoch' = epoch + 1
  /\ UNCHANGED <<machine, rom, display, ops>>
  /\ UpdateDeclare
  /\ UNCHANGED <<handoff, worker, dLog, bounds>>

OnGameEnd ==
  /\ Idle /\ paths /\ epoch < MaxEpoch
  /\ paths' = FALSE
  /\ machine' = None
  /\ ops' = <<>>
  /\ epoch' = epoch + 1
  /\ UNCHANGED <<rom, display>>
  /\ UpdateDeclare
  /\ UNCHANGED <<handoff, worker, dLog, bounds>>

\* Mutant: another machine goes on in the epoch of the old one.
ReplacesInEpoch == epoch' = epoch /\ ops' = <<>>
\* Naming another machine opens an epoch, and drops what was not committed.
ReplacesMachine == epoch < MaxEpoch /\ epoch' = epoch + 1 /\ ops' = <<>>

\* Naming the first one does not.
DeclareMachine(m) ==
  /\ Idle /\ m # machine
  /\ IF machine = None THEN UNCHANGED <<epoch, ops>> ELSE ReplacesMachine
  /\ machine' = m
  /\ UNCHANGED <<paths, rom, display>>
  /\ UpdateDeclare
  /\ UNCHANGED <<handoff, worker, dLog, bounds>>

SetRomId(r) ==
  /\ Idle /\ r # rom /\ identity + display < MaxChanges
  /\ rom' = r
  /\ UNCHANGED <<epoch, machine, paths, display, ops>>
  /\ UpdateDeclare
  /\ UNCHANGED <<handoff, worker, dLog, bounds>>

\* A display or the overlay surface came, went or changed.
DisplayChanged ==
  /\ Idle /\ identity + display < MaxChanges
  /\ display' = display + 1
  /\ UNCHANGED <<epoch, machine, paths, rom, ops>>
  /\ UpdateDeclare
  /\ UNCHANGED <<handoff, worker, dLog, bounds>>

\* Calls beyond MAX_QUEUED_GAME_OPS, or not of an authored table, are ignored.
ScriptGameOp(kind) ==
  /\ Idle /\ AuthoredReady /\ Len(ops) < MaxQueuedOps /\ calls < MaxCalls
  /\ ops' = Append(ops, kind)
  /\ calls' = calls + 1
  /\ UNCHANGED <<session, unread, handoff, worker, dLog, losses, restarts, cut>>

ScriptCommit ==
  /\ Idle /\ ops # <<>>
  /\ ops' = <<>>
  /\ pushing' = IF AuthoredReady THEN ops ELSE <<>>
  /\ UNCHANGED <<session, unread, queue, refusing, batches, game, worker, dLog, bounds>>

\* A commit is cut before each start, after each end and at the size bound.
CutAfter(s) ==
  {k \in 1 .. Len(s) : \/ k \in {Len(s), MaxGameOps}
                       \/ s[k] = "end"
                       \/ k < Len(s) /\ s[k + 1] = "start"}

\* Mutant: after a batch that did not fit, the next one is queued again.
RefusesOnce(fits) == refusing' = FALSE
\* Once a batch of a game does not fit, the game is refused to its end.
RefusesRest(fits) == refusing' = ~fits

\* Push of one batch.  When it does not fit, whole games go, oldest first:
\* the queue is cut at a later start, or emptied if the batch starts a game.
PushPost ==
  \E k \in CutAfter(pushing) :
    LET first == IF pushing[1] = "start" THEN batches + 1
                 ELSE IF game.epoch = epoch THEN game.n ELSE 0
        post == [epoch |-> epoch, machine |-> machine, id |-> 0,
                 ops |-> SubSeq(pushing, 1, k), n |-> batches + 1, game |-> first]
        cuts == {1} \cup {i \in 2 .. Len(queue) : Starts(queue[i])}
                    \cup {i \in {Len(queue) + 1} : Starts(post)}
        Fits(i) == SumOps(From(queue, i)) + k <= MaxQueuedOps
    IN /\ \A j \in CutAfter(pushing) : k <= j
       /\ pushing' = From(pushing, k + 1)
       /\ batches' = batches + 1
       /\ game' = [epoch |-> epoch, n |-> IF Ends(post) THEN 0 ELSE first]
       /\ \/ /\ refusing /\ ~Starts(post)
             /\ UNCHANGED <<queue, refusing>>
          \/ /\ ~refusing \/ Starts(post)
             /\ \E i \in cuts :
                  /\ \A j \in cuts : j < i => ~Fits(j)
                  /\ Fits(i) \/ \A j \in cuts : j <= i
                  /\ queue' = IF Fits(i) THEN Append(From(queue, i), post)
                                         ELSE From(queue, i)
                  /\ RefusesRest(Fits(i))
       /\ UNCHANGED <<session, ops, unread, worker, dLog, bounds>>

-----------------------------------------------------------------------------
(* Socket worker.                                                          *)

TakeDeclare ==
  /\ current' = IF unread THEN posted ELSE current
  /\ unread' = FALSE

\* TakeSourceGames: numbers what it takes; waits for the queue's mutex.
Taken == [i \in 1 .. Len(queue) |-> [queue[i] EXCEPT !.id = nextBatchId + i - 1]]
TakeSourceGames ==
  /\ Idle
  /\ queue' = <<>>
  /\ nextBatchId' = nextBatchId + Len(queue)
  /\ UNCHANGED <<pushing, refusing, batches, game>>

\* Connect, and Handshake up to its wait for HelloAck.
Connect ==
  /\ pc = "down"
  /\ pc' = "hello"
  /\ haveDeclared' = FALSE
  /\ declared' = NoDeclare
  /\ TakeDeclare
  /\ UNCHANGED <<session, ops, handoff, caller, peerAuthored, games, retained,
                 replay, nextBatchId, dLog, bounds>>

\* Mutant: what was acknowledged before is not sent again.
ReplaysNothing == replayPending' = FALSE
\* The new session replays the open game.
ReplaysOpenGame == replayPending' = (openGame' # <<>>)

\* The rest of Handshake.  What an interrupted replay left goes back to the
\* open game; unless the first batch continues the open game's epoch, the
\* batches before the first start are a fragment and go.
HelloAck ==
  /\ pc = "hello"
  /\ TakeSourceGames
  /\ peerAuthored' \in PeerAuthored
  /\ LET all  == games \o Taken
         back == IF replayQueued < Len(all) THEN replayQueued ELSE Len(all)
         rest == From(all, back + 1)
         continues == rest # <<>> /\ rest[1].epoch = gameOpenEpoch
         keepFrom == {k \in 1 .. Len(rest) + 1 :
                        IF continues THEN k = 1
                        ELSE /\ k <= Len(rest) => Starts(rest[k])
                             /\ \A j \in 1 .. k - 1 : ~Starts(rest[j])}
     IN /\ openGame' = openGame \o SubSeq(all, 1, back)
        /\ \E k \in keepFrom : games' = From(rest, k)
  /\ replayQueued' = 0
  /\ ReplaysOpenGame
  /\ pc' = "loop"
  /\ UNCHANGED <<session, ops, unread, caller, current, declared, haveDeclared,
                 gameOpenEpoch, openGameIdentity, dLog, bounds>>

\* Another epoch: what the old one committed goes out first.
FlushesGames == haveDeclared /\ current'.epoch # declared.epoch

\* MaybeDeclare up to SendGames or to the wait for the Declare's answer.
MaybeDeclare ==
  /\ pc = "loop"
  /\ TakeDeclare
  /\ \/ /\ FlushesGames
        /\ pc' = "take" /\ caller' = "declare"
     \/ /\ haveDeclared /\ current' = declared
        /\ pc' = "take" /\ caller' = "serve"
     \/ /\ ~FlushesGames /\ ~(haveDeclared /\ current' = declared)
        /\ pc' = "declare" /\ UNCHANGED caller
  /\ UNCHANGED <<session, ops, handoff, declared, haveDeclared, peerAuthored, games,
                 retained, replay, nextBatchId, dLog, bounds>>

\* DiscardQueuedReplay, for the queue q and a replay of the first n of it.
DiscardQueuedReplay(q, n) ==
  /\ games' = From(q, 1 + IF n < Len(q) THEN n ELSE Len(q))
  /\ replayQueued' = 0

\* The rest of MaybeDeclare: another table forgets the open game.
DeclareAck ==
  /\ pc = "declare"
  /\ LET newTable == /\ haveDeclared
                     /\ \/ current.epoch # declared.epoch
                        \/ NewIdentity(declared, current)
     IN IF newTable
        THEN openGame' = <<>> /\ DiscardQueuedReplay(games, replayQueued)
        ELSE UNCHANGED <<openGame, games, replayQueued>>
  /\ declared' = current
  /\ haveDeclared' = TRUE
  /\ pc' = "take" /\ caller' = "serve"
  /\ UNCHANGED <<api, current, peerAuthored, gameOpenEpoch, openGameIdentity,
                 replayPending, nextBatchId, dLog, bounds>>

ReplayFirst(replayed, queued) == replayed \o queued

\* The head of SendGames: the open game goes back in front, to its own table.
TakeGames ==
  /\ pc = "take"
  /\ TakeSourceGames
  /\ LET own == /\ openGame # <<>>
                /\ openGame[1].epoch = declared.epoch
                /\ openGameIdentity = declared.identity
     IN IF replayPending /\ haveDeclared
        THEN /\ games' = ReplayFirst(IF own THEN openGame ELSE <<>>, games \o Taken)
             /\ replayQueued' = IF own THEN Len(openGame) ELSE replayQueued
             /\ replayPending' = FALSE
             /\ openGame' = <<>>
        ELSE /\ games' = games \o Taken
             /\ UNCHANGED <<replayQueued, replayPending, openGame>>
  /\ pc' = "send"
  /\ UNCHANGED <<session, ops, unread, caller, link, gameOpenEpoch,
                 openGameIdentity, dLog, bounds>>

\* SendGames returned true to MaybeDeclare or to Serve.
Return ==
  /\ pc' = IF caller = "serve" THEN "loop"
           ELSE IF current' = declared THEN "take" ELSE "declare"
  /\ caller' = "serve"

\* Mutant: the replay counter is not guarded.
PopGameUnguarded ==
  /\ games' = Tail(games)
  /\ replayQueued' = replayQueued - 1
PopGame ==
  /\ games' = Tail(games)
  /\ replayQueued' = IF replayQueued > 0 THEN replayQueued - 1 ELSE 0

Authored == declared.machine # None /\ peerAuthored

\* Mutant: a batch of an epoch that is over waits too.
AnyOtherEpochWaits(post) == post.epoch # declared.epoch
\* The Declare of this batch has not gone out yet.
AwaitsDeclare(post) == post.epoch > declared.epoch

SendReturns ==
  /\ pc = "send"
  /\ games # <<>> /\ haveDeclared => AwaitsDeclare(Head(games))
  /\ UNCHANGED <<current, unread>>
  /\ Return
  /\ UNCHANGED <<session, ops, handoff, declared, haveDeclared, peerAuthored, games,
                 retained, replay, nextBatchId, dLog, bounds>>

\* A batch of the declared epoch, but the table is not declared as authored:
\* the Declare it follows may be in the latch; otherwise it is dropped.
SendNotAuthored ==
  /\ pc = "send" /\ games # <<>> /\ haveDeclared
  /\ Head(games).epoch = declared.epoch /\ ~Authored
  /\ TakeDeclare
  /\ IF current' # declared
     THEN Return /\ UNCHANGED <<games, replayQueued>>
     ELSE PopGame /\ UNCHANGED <<pc, caller>>
  /\ UNCHANGED <<session, ops, handoff, declared, haveDeclared, peerAuthored,
                 retained, replayPending, nextBatchId, dLog, bounds>>

SendDropsOld ==
  /\ pc = "send" /\ games # <<>> /\ haveDeclared
  /\ Head(games).epoch < declared.epoch
  /\ PopGame
  /\ UNCHANGED <<api, pc, caller, link, retained, replayPending, nextBatchId,
                 dLog, bounds>>

SendBatch ==
  /\ pc = "send" /\ games # <<>> /\ haveDeclared
  /\ Head(games).epoch = declared.epoch /\ Authored
  /\ pc' = "sent"
  /\ UNCHANGED <<api, caller, link, games, retained, replay, nextBatchId, dLog, bounds>>

\* A game over the bound is no longer kept for a restarted daemon.
Retainable(kept, post) == SumOps(kept) + Len(post.ops) <= MaxQueuedOps

\* Mutant: only the batch with the game_start is kept.
RetainStartOnly(post) ==
  /\ openGameIdentity' = IF Starts(post) THEN declared.identity ELSE openGameIdentity
  /\ openGame' = IF Ends(post) THEN <<>> ELSE IF Starts(post) THEN <<post>> ELSE openGame

\* RetainAcknowledged: the open game's acknowledged batches, from its start.
RetainAcknowledged(post) ==
  LET kept == IF Starts(post) THEN <<>> ELSE openGame
  IN /\ openGameIdentity' = IF Starts(post) THEN declared.identity
                                            ELSE openGameIdentity
     /\ openGame' =
          IF ~Starts(post) /\ (openGame = <<>> \/ post.epoch # openGame[1].epoch)
          THEN openGame
          ELSE IF Ends(post) \/ ~Retainable(kept, post)
          THEN <<>>
          ELSE Append(kept, post)

\* The daemon drops a batch whose id it has already taken.
DaemonTakes(post) ==
  dLog' = IF \E i \in DOMAIN dLog : dLog[i].id = post.id
          THEN dLog ELSE Append(dLog, post)

GameAck ==
  /\ pc = "sent"
  /\ LET front == Head(games)
     IN /\ DaemonTakes(front)
        /\ gameOpenEpoch' = IF Ends(front) THEN 0
                            ELSE IF Starts(front) THEN front.epoch
                            ELSE gameOpenEpoch
        /\ RetainAcknowledged(front)
        /\ cut' = (cut \/ ((Starts(front) \/ openGame # <<>>) /\ ~Ends(front) /\ openGame' = <<>>))
  /\ PopGame
  /\ pc' = "send"
  /\ UNCHANGED <<api, caller, link, replayPending, nextBatchId, calls, losses, restarts>>

\* An error answer: the game is no longer whole, so it is not replayed.
GameRefused ==
  /\ pc = "sent" /\ Refusals
  /\ openGame' = IF openGame # <<>> /\ Head(games).epoch = openGame[1].epoch
                 THEN <<>> ELSE openGame
  /\ DiscardQueuedReplay(Tail(games), IF replayQueued > 0 THEN replayQueued - 1 ELSE 0)
  /\ pc' = "send"
  /\ cut' = TRUE
  /\ UNCHANGED <<api, caller, link, gameOpenEpoch, openGameIdentity, replayPending,
                 nextBatchId, dLog, calls, losses, restarts>>

\* A failed Exchange, or a failed poll in Serve: Disconnect.  A batch in
\* flight may have been taken by the daemon all the same.
Disconnect ==
  /\ pc \in {"hello", "loop", "declare", "sent"} /\ losses < MaxLosses
  /\ losses' = losses + 1
  /\ \/ UNCHANGED dLog
     \/ pc = "sent" /\ DaemonTakes(Head(games))
  /\ pc' = "down"
  /\ UNCHANGED <<api, caller, link, games, retained, replay, nextBatchId, calls, restarts, cut>>

\* The daemon restarts with nothing; the worker is told by a lost connection.
DaemonRestart ==
  /\ pc = "down" /\ restarts < MaxRestarts
  /\ restarts' = restarts + 1
  /\ dLog' = <<>>
  /\ UNCHANGED <<api, worker, calls, losses, cut>>

-----------------------------------------------------------------------------
Api ==
  \/ OnGameStart \/ OnGameEnd \/ DisplayChanged \/ ScriptCommit \/ PushPost
  \/ \E m \in Machines : DeclareMachine(m)
  \/ \E r \in RomIds \cup {None} : SetRomId(r)
  \/ \E kind \in Kind : ScriptGameOp(kind)

Worker ==
  \/ Connect \/ HelloAck \/ MaybeDeclare \/ DeclareAck \/ TakeGames
  \/ SendReturns \/ SendNotAuthored \/ SendDropsOld \/ SendBatch \/ GameAck

Next == Api \/ Worker \/ GameRefused \/ Disconnect \/ DaemonRestart

Spec == Init /\ [][Next]_vars

\* The worker never stops serving, a commit finishes its Push, and the daemon
\* answers; the environment (script, table, losses, restarts) owes nothing.
FairSpec == Spec /\ WF_vars(Worker) /\ WF_vars(PushPost)

-----------------------------------------------------------------------------
(* What is in play for the open game: what the worker retained, and what a *)
(* replay has still to send.                                               *)
OpenGame == openGame \o SubSeq(games, 1, replayQueued)

InSession == pc \notin {"down", "hello"}

TypeOK ==
  /\ epoch \in Nat /\ identity \in Nat /\ display \in Nat
  /\ machine \in Machines \cup {None} /\ rom \in RomIds \cup {None}
  /\ paths \in BOOLEAN /\ unread \in BOOLEAN /\ refusing \in BOOLEAN
  /\ ops \in Seq(Kind) /\ pushing \in Seq(Kind)
  /\ posted \in Snapshot /\ current \in Snapshot /\ declared \in Snapshot
  /\ queue \in Seq(Batch) /\ games \in Seq(Batch) /\ openGame \in Seq(Batch)
  /\ dLog \in Seq(Batch)
  /\ pc \in {"down", "hello", "loop", "declare", "take", "send", "sent"}
  /\ caller \in {"serve", "declare"}
  /\ haveDeclared \in BOOLEAN /\ peerAuthored \in BOOLEAN
  /\ gameOpenEpoch \in Nat /\ openGameIdentity \in Nat
  /\ replayPending \in BOOLEAN /\ replayQueued \in Nat
  /\ nextBatchId \in Nat \ {0} /\ batches \in Nat
  /\ game \in [epoch : Nat, n : Nat]
  /\ calls \in Nat /\ losses \in Nat /\ restarts \in Nat /\ cut \in BOOLEAN

\* A Game goes out only while its own table is declared: its epoch, and the
\* machine it was committed for, although a batch carries only the epoch and
\* the Declare it follows passed through a latch that may have dropped it.
RightTable ==
  pc = "sent" => /\ games # <<>> /\ haveDeclared
                 /\ Head(games).epoch = declared.epoch
                 /\ Head(games).machine = declared.machine
                 /\ declared.machine # None

\* Batch ids rise through the retained game and the queue behind it, so a
\* replay, whole or cut short and taken back, never puts a batch in front of
\* an older one and never holds one twice.
IdsInOrder ==
  LET held == openGame \o games
  IN /\ \A i, j \in 1 .. Len(held) : i < j => held[i].id < held[j].id
     /\ \A i \in 1 .. Len(held) : held[i].id < nextBatchId

\* What is kept for a restarted daemon is one unfinished game from its
\* game_start without a hole, whatever was evicted, refused, dropped or lost,
\* and the replay counter never claims a batch that is not a replayed one.
RetainedWhole ==
  /\ replayQueued <= Len(games)
  /\ OpenGame # <<>> => Starts(OpenGame[1])
  /\ \A i \in 1 .. Len(OpenGame) :
       /\ OpenGame[i].n = OpenGame[1].n + i - 1
       /\ OpenGame[i].epoch = OpenGame[1].epoch
       /\ ~Ends(OpenGame[i])

\* An overflow leaves no hole: behind whatever the queue gave up, a batch that
\* continues a game directly follows the batch before it, and what is queued
\* stays within the bound.
QueueWhole ==
  /\ SumOps(queue) <= MaxQueuedOps
  /\ \A i \in 2 .. Len(queue) :
       queue[i].game \notin {0, queue[i].n} => queue[i - 1].n = queue[i].n - 1

\* The retained game is bounded by MAX_QUEUED_GAME_OPS through replays too.
OpenGameBounded == SumOps(OpenGame) <= MaxQueuedOps

\* Once a session has decided on the replay, the daemon has every batch the
\* worker retains, restarted in between or not.
RetainedIsKnown ==
  InSession /\ ~replayPending =>
    \A i \in 1 .. Len(openGame) :
      \E j \in 1 .. Len(dLog) : dLog[j].id = openGame[i].id

\* A Declare for a new epoch never overtakes what the authored table it ends
\* had committed: a game_end flushed just before the table stopped is sent.
FlushedFirst ==
  pc = "declare" /\ haveDeclared /\ Authored /\ current.epoch # declared.epoch =>
    /\ \A i \in 1 .. Len(games) : games[i].epoch > declared.epoch
    /\ \A i \in 1 .. Len(queue) : queue[i].epoch > declared.epoch

\* One life of a daemon sees a game only from its start and without a hole,
\* unless it refused a batch or the game outgrew MAX_QUEUED_GAME_OPS: a batch
\* that continues a game directly follows the batch before it.
WholeGames ==
  ~cut => \A i \in 1 .. Len(dLog) :
    dLog[i].game # 0 /\ dLog[i].game # dLog[i].n =>
      i > 1 /\ dLog[i - 1].n = dLog[i].n - 1

\* Under tables, machines and a ROM that change while batches are on their way,
\* a Game is sent only for the table it was committed for, and everything an
\* ending table had committed is sent before the Declare of the next one.
TableOrder == RightTable /\ FlushedFirst

\* What the worker keeps for a restarted daemon stays, through every refusal,
\* eviction, loss and replay, one whole unfinished game of bounded size, in the
\* order of its ids with the queue behind it, and known to the daemon once the
\* session has decided on the replay.
Retained == RetainedWhole /\ IdsInOrder /\ OpenGameBounded /\ RetainedIsKnown

\* Every commit is settled: taken by the daemon, or dropped for good.
Settles == <>[](pushing = <<>> /\ queue = <<>> /\ games = <<>>)
=============================================================================
