# Verification of the Scorbit plugin for Visual Pinball X

The plugin joins a running pinball table to the Scorbit daemon: it tells the
daemon which table is played, hands it the display's frames, the emulator's
memory and the game calls of the table's script, and shows the daemon's overlay
and status to the player. This directory holds TLA+ models of its concurrent
core, the TLC runs that check them and the TLAPS proofs about them. Paths below
are relative to the repository, where the sources are in `src/`.

## The system

Four kinds of threads share the plugin's state.

| Thread | Runs | Owns |
| --- | --- | --- |
| API thread | VPX's callbacks: table start and end, one callback per rendered frame, the table's script | `VpxSessionSource`, `ReadBackState`, `StatusNotifier`, the script's uncommitted calls |
| Socket worker | `SocketWorker::Worker`: connect, handshake, serve, disconnect | the connection, `m_current`, `m_declared`, `m_games`, `m_openGame`, `m_asks`, `PlayerTable` |
| Capture thread | `DmdTap::Worker` | the last raw frame of the selected display |
| Render threads | `DmdOverlay` | a copy of the overlay |

They exchange data through a few small structures, which are where the
difficulty is: `Latch` (one slot, only the latest value survives), `GameQueue`
(a bounded queue that gives up whole games), `MemoryBridge` (a request and its
bounded wait), `SeqLock` (one writer, wait-free readers), `ReadBackChannel` (two
bounded queues and an admission flag) and `OverlayCache`.

### Components

| Component | State | Operations | What makes it correct |
| --- | --- | --- | --- |
| Authored game delivery (`VpxSessionSource`, `GameQueue`, `Latch`, `SocketWorker`) | epoch, identity, machine, latch, queue, worker's queue, retained game, replay counter, batch ids | script calls, `Commit`, table and ROM changes; `TakeDeclare`, `MaybeDeclare`, `SendGames`, `Handshake`, `Disconnect` | a batch is sent under its own table's Declare; one life of the daemon sees a game whole; what is kept is bounded; everything committed is settled |
| `SeqLock` | sequence, size, words | `Write`, `Read` | a read is whole and never goes back; it returns although the writer stops |
| Memory bridge (`MemoryBridge`) | queue of requests, subscription and its id, snapshot, running game | `Subscribe`, `Poll`, `ReadDirect`, `Write`, `Clear`, `Service`, `SetGameRunning` | a Write is answered for what happened; a Poll carries the subscription the daemon knows, of the running game; no wait outlives an unload |
| Read-backs (`ReadBack`) | admission flag, queued requests and results, pending requests, the script's results | `Request`, `Close`, `SendTopScoresRequests`, `AnswerTopScores`, `EndReadBacks`, `LoseQueuedRequests`, `Drain` | every id handed out is answered once; the script reads only results of its own table |
| Players and pictures (`PlayerTable`) | slots, copies on disk, claims | `Apply`, `Clear`, `SweepOnce` | no copy outlives its claim, a claim counts once |
| Overlay (`OverlayCache`, `OverlayState`, `DmdOverlay`'s render path) | bitmap, control, postponed operations, the override's frame ids | upload, control, clear, drain, `GetRenderFrame` | an operation posted while the cache is busy is neither lost nor reordered across a Clear; a consumer shows the newest composite |
| Overrides (`DmdOverlay`, `OverrideChain`) | displays of other plugins, our overrides of them, those withdrawn and not yet freed, a deferred apply | source changes, deferred apply in two broadcasts, render calls, detach, destroy | the chain ends in an override of ours; no freed display or override is called; nothing is withdrawn while VPX quits |
| Status (`FollowGame`, `NoSession`, `StatusNotifier`) | history, deferral deadline, what was shown | status record, game boundaries, frame | a warning of a game is told after it and only then; neither a lost connection nor a restarted daemon's first word ends a game |
| DMD tap (`DmdTap`) | sources, generation, last frame | source changes, capture, read | a frame is of the source whose generation it carries; a freed display is not read |
| Session (`SocketWorker`) | socket, sequence numbers, deadlines, what the peer offers | `Connect`, `Handshake`, `Exchange`, `Dispatch`, idle ping, Bye, `Stop` | an answer belongs to its request; a crossing request is answered in order; a silent daemon and a Stop both end the session |
| Lifecycle (`ScorbitPlugin`) | objects and subscriptions | load, unload, unload at quit, controller changes | nothing runs after unload, and unload ends |
| Codec (`WireProtocol`), wire dump, script binding, status light and windows | none of their own that other threads see | encoding, drawing, conversion | data, not control |

### What is hard

* Interleaving: the Declare goes through a latch and the batches through a
  queue, so that the worker sees them in any relative order, and some Declares
  never.
* Failure: the connection can go at any point of an exchange, the daemon may
  have acted or not, and may come back with nothing.
* Timeouts: the worker gives up on a request that the API thread has begun.
* Limits: every queue is bounded, and dropping the wrong thing leaves a hole.
* Memory model: readers on render threads may not take a lock.

`PROJECT.json` lists each such hazard with its line.

## Modules

| Module | Models | Note |
| --- | --- | --- |
| `GameDelivery` | the way of an authored table's game calls from the script to the daemon | three parties: API thread, worker, daemon (external) |
| `SeqLock` | `SeqLock.h`, one store or load per step, with C++'s weak ordering | |
| `AtomicPublish` | what `SeqLock` promises | abstract; `SeqLock` implements it |
| `MemoryBridge` | `MemoryBridge.cpp`, its worker side and its API side | uses the promise of `AtomicPublish` |
| `ReadBack` | a script's leaderboard requests, from the script to the daemon and back | three parties: API thread, worker, daemon (external) |
| `Overlay` | `OverlayCache.h`, `OverlayState.h` and `DmdOverlay::GetRenderFrame` | uses the promise of `AtomicPublish` |
| `SharedRecordProofs` | theorems about `SeqLock` and about `Overlay`, whose record is published through one | |
| `StatusNotice` | the worker's history of Status, the latch, `StatusNotifier`, the light's rules | discrete time; the machine and the daemon are external |
| `DmdTap` | `DmdTap.cpp`, `Refresh`, `UpdateDeclare`'s display part, `GetFrame` and `AnswerFrame` | uses the promise of `AtomicPublish` |
| `Overrides` | `DmdOverlay`'s overrides, `OverrideChain.h`, `ScorbitPluginUnload` | composes the overlay with the plugin's unload |
| `Session` | the connection, `Handshake`, `Exchange`, `Serve`, `Dispatch`, `Stop` | the daemon is external |
| `SessionProofs`, `DmdTapProofs`, `OverridesProofs`, `MemoryBridgeProofs`, `GameDeliveryProofs`, `StatusNoticeProofs`, `ReadBackProofs` | theorems about the module each is named after | |
| `MC*` | small instances | |

### GameDelivery

A variable is a member of the code, named after it. A *batch* carries, besides
the code's epoch, calls and batch id, three things the code does not have and the
properties speak about: the machine it was committed for, its number in commit
order and the number of its game's first batch. A call is a start, an end or any
other call. The wire's Declare is its epoch, identity, ROM, machine and one
number for every field that does not name the table.

A handler of the API thread touches what it shares with the worker once, so it is
one action; `Push` is one action per batch while the queue's mutex is held
(`Idle`). The worker's steps are divided where it waits: before `HelloAck`, before
the Declare's answer, before a batch's answer. Wherever it waits the connection
may be lost, and a batch in flight may have been taken all the same. The daemon
drops a batch whose id it has, as the comment on `GameBatch` says it does.

### SeqLock and AtomicPublish

A load may return any store that the reader is not already ordered after. Stores
of `m_seq` are identified with their values and stores of words with the number
of the Write that made them; `view[r]` is what the reader may no longer look
behind and `pend[r]` what its acquire fence would add. This is exactly the
release fence and release store of `Write` against the acquire load and the
acquire fence of `Read`.

### MemoryBridge

A part of a function that holds `m_mutex` is one action; `Answer` and the
publication of the snapshot, which do not hold it, are actions of their own. The
snapshot is loaded through a SeqLock, so a Poll may see any snapshot not older
than the one it is ordered after by the last `m_mutex` it took: `snaps` holds the
candidates. Bytes are the set of Writes that memory shows. The model assumes what
`SetGameRunning` itself relies on: a running game ends before the next starts.

### ReadBack

A request is its id, epoch and identity; a result is the id it answers. The API
thread admits a request under the channel's mutex and drains results once per
frame. The worker takes requests, waits for the Declare of their table, loses
those of another table, sends one and waits for the answer, while results come in
any order. `EndReadBacks` closes the channel and answers what is left as lost.
Ids are taken modulo `MaxId`, as the code takes them modulo 2^31 - 1.

### Overlay

The definitions every other module calls `Init`, `Next` and `Spec` are `OverlayInit`,
`OverlayNext` and `OverlaySpec` here, so that one module can hold the proofs about
`Overlay` and `SeqLock`. `holder` is what the worker has m_writer for: the API thread, which only tries
the mutex, finds it taken between `AnswerOverlay` or `Disconnect` and
`WorkerApplies`. The API thread's own critical section is one step, as nobody but
the worker waits for it. `window` holds the records that an override may still
copy, its own copy first. A buffer is which target frame, bitmap and platform it
shows; a consumer is one that skips a frame id it has, the kind that
`DmdOverlay.cpp:535` has in mind. `drawnBy`, `armedBy` and `due` are not in the
code and are there for the properties.

### StatusNotice

`record` and `history` are the worker's; `posted` and `unseen` are the latch
together with what a script call or the light's timer has already taken out of
it; `nf` is the notifier. A text is its marker and its kind, so two texts are
equal exactly when the code's are. A tick is a second: no time passes while a
frame or a Declare is due. `playing` is the machine's game, which the daemon knows
only once it is `aware`: a restarted daemon says "no game" until it has read the
machine, which is what `NO_GAME_DEFERRED` is for. `excused` says that the code is
entitled to take the game for over, and `trouble`, `gameFrom` and `screen` record
what the player should have been, and was, told.

### DmdTap

A picture is two pixels; each says which publication of a display and which frame
it was drawn for, so a mixture can be told. The capture thread's critical section
is cut at every pixel, as the producer draws without the lock; `OnSourcesChanged`
is cut between `m_hasSource` and the generation, and `Refresh` on the worker
between its three reads, as neither holds the lock there. A display is freed when
the broadcast that withdrew it has returned.

### Overrides

`shown` holds the other plugins' displays, with what each overrides: a display's
id, or the id of one of our overrides. `told` is a broadcast that has yet to
reach `OnSourcesChanged`, and `phase` the point `Apply` or the destructor has
reached; other plugins may publish and withdraw inside `Apply`'s own broadcasts.
`known` is what consumers have from the last broadcast, and they may call any of
it. `callbacks` is the main thread's queue and `flushing` what a flush has yet to
run. Only one controller is followed; which one is emulating changes by
`ControllersChange`. Taking the mutexes of several overrides is one step, where
the code takes one after the other; with one render thread that makes no
difference to whether it gets them.

### Session

A request of the daemon is its class: one per way that `Dispatch` has of
answering (`AnswerRead`, `AnswerWrite`, `AnswerStatus`, `Outcomes`). `down` is what
the worker has not read; a response is `current` when it has the seq that
`Exchange` waits for. A deadline is a step that is always possible, so every
property holds whatever the deadlines' values. A send succeeds, fails, or stops
at its deadline with part of the message out. `stream` is the history of one
connection, of which only what the properties need is kept once it has failed.

## Runs

| Run | Shows | Bounds |
| --- | --- | --- |
| `game_tables` | a batch goes out under its own table's Declare, and is flushed before the table ends; everything committed is eventually taken or dropped | two machines, a ROM, 2 epochs, 2 calls, daemons with and without authored tables, one change of the ROM or of the display, one lost connection |
| `game_replay` | what is kept for a restarted daemon is one whole bounded game in order of its ids; a full queue gives up whole games; a life of the daemon sees a game from its start without a hole, unless it refused part of it or it outgrew the bound | 4 calls, queue of 2, 2 epochs, refusals, 2 losses, one restart, 7 of these together (calls, tables, losses, restarts) |
| `seqlock_reads` | reads are whole, `SeqLock` implements `AtomicPublish`, and a read returns whatever the writer does | 3 Writes, values of 0 to 2 words, one reader |
| `bridge` | Writes are answered truly, Polls are of the subscription and of the game, waits end, an unload joins | 2 requests, 2 frames, 2 games, one Clear |
| `readback_requests` | every id is answered in the end and once, for its own table | 2 requests, 2 epochs, one change of identity, one lost connection, queues of 1 |
| `overlay` | operations are applied once and in order, although nothing is rendered; nothing of a daemon outlives its session; a consumer shows the newest composite and the dark buffer; a timed show that waited ends on time | 3 posts, queue of 2, 2 answers, 2 ticks, 2 target frames, one change of platform, 5 of these together, one consumer |
| `overlay_hidden` | *violation*: a hidden overlay goes out under the id of the lit frame | one consumer, one target frame |
| `status_notices` | a ROM game is kept through outages and a restarted daemon's first word, and ends in bounded time; notices keep out of a game and tell its trouble after it; the light agrees with them | 2 changes of table, each counted as 3 events, 2 sessions, 3 Statuses, one authored game, 3 instants, 7 events together; the code's times as 1 or 2 ticks, in the code's order |
| `frames` | a frame stays with its source and generation, no freed display is read, a new source is declared, the tap's thread is joined | 2 publications, displays of the controller and of a colouriser, one too large for the seqlock |
| `frames_torn` | *violation*: a frame can be published torn | as `frames` |
| `overrides` | which displays are overridden, that nothing freed is called, that no change is lost, and how unload and quit end | the controller's display and 2 more, 3 publications, 2 changes of controller, one render thread |
| `session` | whose answer is taken, what is answered, how a session ends and that it does | 2 lives of the daemon, 2 connections, 2 requests or stray responses |

A run's property is often the conjunction of named parts, each stated and
commented in its module: `Retained`, say, of `IdsInOrder`, `RetainedWhole`,
`OpenGameBounded` and `RetainedIsKnown`. An invariant that stands beside what a
step may not do is stated of the state the step leads to, so that the two are one
formula.

| Run | Properties |
| --- | --- |
| `game_tables` | `TypeOK`, `TableOrder`, `Settles` |
| `game_replay` | `Retained`, `QueueWhole`, `WholeGames` |
| `seqlock_reads` | `NoTornRead`, `ImplementsAtomic`, `ReadReturns` |
| `bridge` | `TypeOK`, `AnsweredTruly`, `WaitsEnd` |
| `readback_requests` | `TypeOK`, `AnsweredOnce`, `OwnTable`, `Answered` |
| `overlay` | `ArrivalOrder`, `ShownTruly`, `NotOutlived`, `Drained` |
| `status_notices` | `TypeOK`, `GameFollowed`, `QuietInGame`, `TroubleTold`, `ToldTruly` |
| `frames` | `TypeOK`, `ReadWhileAlive`, `FrameOfItsSource`, `ServedTruly`, `TapProgress` |
| `overrides` | `CallsAllocated`, `Settled`, `ChainRule`, `WithdrawnSafely`, `EndsInTime` |
| `session` | `TypeOK`, `AnsweredInOrder`, `OfThisPeer`, `EndsCleanly`, `SessionEnds` |

The bounds are chosen so that each case the code distinguishes occurs: a queue
that holds fewer calls than the script makes, a batch that is full, an epoch, an
identity or a display that changes while a batch is on its way, a connection lost
during a replay of a game that was itself a replay, a deadline before, while and
after Service has the request in work, a chain of two displays over the
controller's and a sibling, a request that overtakes a reply together with a
response that is not one. One batch more adds no case: batches are only compared
with their neighbours, with the declared epoch and with the bound. The readers of
a SeqLock do not interact, so one is enough for TLC; the proofs are for any
number, as are those about the consumers of an override. In
`game_replay`, `overlay` and `status_notices` the events are bounded together
(`MaxEvents`), which leaves every bound reachable but not all at once.

`CHECK_DEADLOCK FALSE` stands in the configurations of systems that may stop: an
unloaded plugin, a joined thread, an overlay that nobody asks, a bounded
environment that has used up its events.

### Fairness

`GameDelivery`: the worker runs and the daemon answers (weak fairness of
`Worker`), and a Push that has begun ends. The script, the table, lost
connections and restarts owe nothing. `SeqLock`: a reading thread runs; the
writer may stop in the middle of a Write. `MemoryBridge`: a function that has
begun goes on and time passes; no frame and no request is owed. `ReadBack`: the
worker runs and the daemon resolves what it acknowledged. `Overlay`: the worker
leaves m_writer and the plugin's quarter-second timer ticks, but no frame is
rendered. A tick may find the mutex taken; the daemon's requests are bounded, so
it does not find it taken for ever. `DmdTap`: the capture thread runs, the API
thread finishes what it began and renders frames; producers and the daemon owe
nothing. `Overrides`: broadcasts, callbacks and a begun unload go on, a render
call returns, and the API thread gets a mutex that is free again and again
(strong fairness: render calls come once a frame, so an entry's mutex is free
most of the time). `Session`: the worker's thread runs; nothing is assumed of the
daemon, as every wait for it has a deadline.

### Findings

* `overlay_hidden`: `GetRenderFrame` forgets that its last frame was a composite
  as soon as it copies a new record. A Hide, or the Clear at a session's end, over
  a target frame that has not changed therefore passes that frame through under
  the id of the lit one, and a consumer that skips ids it has keeps the overlay
  until the target's next frame. An overlay that times out does get a new id.
* `frames_torn`: the capture thread compares `frameId` before and after its copy.
  That tells it that a frame was *finished* meanwhile, not that the next was being
  drawn: a producer that writes pixels first and the id last, the order the
  comment in `DmdTap::Worker` assumes, may be half way through its next frame at
  both reads. `NeverReplaced`, a part of `ServedTruly`, is what the check does give.

### Observations

Things met while modelling that no run states, because no document contradicts
the code or because the effect is slight:

* A session with a daemon that does not serve authored tables drops a replay batch
  by batch, and returns in the middle of it when a Declare is in the latch
  (`SocketWorker.cpp:1247`). The next session puts back, and replays, a game
  without its start, although a comment in `Handshake` says that a replay cut
  short goes back whole.
* A ROM that starts beside an authored table makes the next Declare name no machine,
  and `SendGames` drops what the script had committed (`SocketWorker.cpp:1247`). When
  the ROM ends in the same epoch the script's game goes on, and the daemon is sent
  its rest without its start. `WholeGames` is therefore stated without ROMs.
* The source bounds its own queue only. Each session moves what was committed
  since to the worker's queue, so that the unacknowledged tail that
  `SocketWorker.h:317` takes for bounded grows from session to session.
* When one display chained onto our override of the controller's display and
  another overrides that display directly, `Targets` keeps ours beside the other:
  a sibling, which the head of `OverrideChain.h` rules out. Withdrawing it would
  take away what the first reads from (`ReadFromStays`), so `SiblingOnlyIfChained`
  states the rule with its exception.
* `m_peerMinor` and `m_peerCapabilities` are taken from HelloAck and reset by
  nothing: `Connect` and `Disconnect` leave them, although a comment calls them
  "What HelloAck offered this connection" (`SocketWorker.h:306`). `Dispatch` does not ask whether there is a
  session, so a read-back that a daemon asks for before it has answered Hello is
  held against what the last one offered. `NegotiatedOnly`, a part of `OfThisPeer`,
  is therefore stated of what is served after HelloAck; the model lets the daemon
  ask at any time.
* `Stop` during a send that was cut at its deadline still lets `Serve` send Bye
  behind the truncated message, as the comment there intends for any Stop;
  `StreamWhole` is therefore stated of a running worker.
* A `Players` message that overtakes the first Declare's reply is posted under the
  epoch of the table before, and dropped.
* `TableEnded` says that a frame before the next Declare must not end the old
  table's game (`StatusNotice.cpp:121`) and takes that game out of the notifier's
  record. A record that is posted after it, or was still in the latch, brings it back
  until the Declare: a loss of the session, its reason, a Status under the old
  Declare. The game's end is then told at the next table, with the old one's
  warnings. `SeenInv` of `StatusNoticeProofs` has to allow for it.
* A notice is not taken down at a game's start when a frame in between was hidden
  by the daemon or the settings: that frame cleared `m_posted`.
* Two games within one frame lose the first one's warning.
* For an unknown session state together with an authorisation problem the light
  shows the problem and the text's marker is `[?]`, as each looks at the other
  field first; `LightAgrees` names the exception.

## Proofs

`SharedRecordProofs` proves of `SeqLock`, for every set of readers, capacity, set of payloads,
number of retries and of Writes:

* `TypeCorrect`: `Spec => []TypeOK`;
* `Invariance`: the inductive invariant `IInv`;
* `NeverTorn`: `Spec => []NoTornRead`;
* `Refinement`: `Spec => ImplementsAtomic`.

`NoTornRead` is not inductive, as it says nothing of a copy in progress. `IInv`
adds what the writer has stored (`WriterInv`: the words of Write *k* are stored
while `m_seq` is 2*k* - 1, and each location's newest store of a finished Write is
the value published) and, for a reader in its copy (`ReaderInv`), that either
every word copied so far is what the `m_seq` it acquired published, or some load
returned a store of a later Write, which the acquire fence will turn into a
second `m_seq` different from the first. The only assumption is
`SeqLockAssumption`, on the types of the constants.

Of `Overlay` it proves, for every set of bitmaps and consumers, every limit of
the queue and every bound, from `OverlayAssumption` alone:

* `OverlayInvariant`: the inductive invariant `OverlayIInv`;
* `AppliedInOrder`: `OverlaySpec => []ArrivalOrder`;
* `ConsumersSeeTheState`: `OverlaySpec => []ShownTruly`;
* `Timely`: `OverlaySpec => []NotOutlived`.

`ShownTruly` speaks of the last call only. `OverlayIInv` adds that no consumer is ahead
of the override's frame id, that a consumer which has the newest id has the
composite (`lastComposited`) or the dark buffer (`servedDark`) of that id, and
that the composite is the one of the override's own copy of the record, the
target frame and the platform it remembers (`EntryInv`, `ConsumerInv`). It is the
place where the flaw of `overlay_hidden` shows: nothing can be said of a consumer
that has the newest id while `lastComposited` is false.

`NotOutlived` is about what is left of the state when a whole queue of operations
has been applied to it, one after the other (`ApplyAll`): once a daemon has gone
nothing of its drawing, and no record past the time it has to end at. `TimeInv`
says of the state that what it will hide at is what is due, of the one operation
that waits for m_writer that it is of the connected daemon or clears it, and of
every record that it ends when it is due. That `ApplyAll` keeps what each
operation keeps is the lemma `ApplyAllIn`, an induction over the queue.

`SessionProofs` proves, for every number of restarts, connections, requests and
stray responses:

* `SessionInvariant`: the inductive invariant `IInv`;
* `TypeCorrect`: `Spec => []TypeOK`;
* `Answered`: `Spec => []AnsweredInOrder`;
* `Peers`: `Spec => []OfThisPeer`;
* `CleanEnds`: `Spec => EndsCleanly`.

`OfThisPeer` says what the worker believes; where it comes from is a response
that is still unread. `ReplyInv` therefore speaks of the messages on their way:
the first one that `Exchange` would take is the daemon's answer to this request,
and it says what this daemon offers. `DaemonInv` counts the daemon's lives against the token file's, and
`CountInv` the requests: those read and those unread are no more than were sent
(the lemmas on `Count` are about taking and adding a message).

`DmdTapProofs` proves, for every set of displays and controllers, every size of
the seqlock and every number of frames and publications:

* `TapInvariant`: the inductive invariant `IInv`;
* `TypeCorrect`: `Spec => []TypeOK`;
* `AliveWhileRead`: `Spec => []ReadWhileAlive`;
* `OneSource`: `Spec => []FrameOfItsSource`;
* `Served`: `Spec => ServedTruly`.

The properties are about what was published; `CopyInv` says what holds half way:
every pixel copied so far is of the selected source's publication and of no
frame before the one wanted, and while the capture thread is in its critical
section that source is selected and shown (`SourceInv`), or going while the API
thread waits for the mutex. `OrderInv` orders what was published, what the worker
has and what it served by generation and frame id, with the duplicate check's
memory (`Remembered`) as the upper end.

`OverridesProofs` proves, for every set of displays, sizes and consumers and every
number of publications and changes of controller:

* `OverridesInvariant`: the inductive invariant `IInv`;
* `Allocated`: `Spec => []CallsAllocated`;
* `OverridesSettle`: `Spec => []Settled`;
* `ChainsEndInOurs`: `Spec => []ChainRule`;
* `Withdrawals`: `Spec => WithdrawnSafely`.

An entry's target may be freed as soon as the broadcast that withdraws it has
been delivered. `EntryInv` says that a live entry's target is shown, or going
while that broadcast is still to reach `OnSourcesChanged`, and that a consumer is
only inside a live entry; `PendingInv` that an Apply is queued as soon as one is
needed, unless the broadcast that asks for it is under way. `UnloadInv` follows
the unload: whatever stage it is in, the overlay was detached before the last
flush, and what the flush has not run is all that is left.

`ChainRule` asks where a chain of overrides ends, and `WithdrawnSafely` whether an
override on it is needed. Two walks answer: Apply's (`Desired`), from the root
over the overrides of other plugins, and a consumer's (`Reached`), which goes over
ours as well. `Desired` takes as many steps as there are displays; `WalkCloses`
shows that it has then met everything it can meet, as a step that meets nothing
new ends the walk and there are not enough displays for each step to meet one
(a pigeonhole argument). `ReachedIsDesired` shows that a display at which a
consumer's walk ends was met by Apply's. `TargetInv` adds for `WithdrawnSafely`
that the target an entry remembers has the form `Desired` gives it, so that an
entry whose target still ends a chain is not taken for an outdated one.

`MemoryBridgeProofs` proves, for all sets of ranges, every number of requests,
frames, games and Clears and whatever the handler does:

* `BridgeInvariant`: the inductive invariant `IInv`;
* `TypeCorrect`: `Spec => []TypeOK`;
* `ToldTruly`: `Spec => []AnsweredTruly`.

`Hands` says whose each request is (queued, in work, done or abandoned) and that
what its answer says is what was applied. `Subscribed` relates the four places a
subscription is in: asked for, installed, told to the daemon and taken by
`Service` for its snapshot. `Snapshots`, `Written` and `Current` speak of every
snapshot the worker may still load, and, more strongly, of those it may load once
it takes `m_mutex` again (`Fresh`): a stale snapshot is harmless only because the
worker is about to take that mutex.

`GameDeliveryProofs` proves, for every set of machines and ROMs, every size of
batch and queue, and every number of tables, calls, losses and restarts:

* `DeliveryInvariant`: the inductive invariant `IInv`;
* `TypeCorrect`: `Spec => []TypeOK`;
* `TablesInOrder`: `Spec => []TableOrder`;
* `QueueKeptWhole`: `Spec => []QueueWhole`;
* `KeptOneGame`: `Spec => []KeptGame`, that is, all of `Retained` but the start;
* `KeptWhole`: `Spec => []Retained`, if daemons serve authored tables;
* `DaemonSeesWholeGames`: `Spec => []WholeGames`, if daemons serve authored
  tables and no ROM runs beside the script.

The properties look at the worker's queue, the retained game and the source's
queue apart; none of them is inductive, since batches move from one to the next.
`IInv` puts them in one `Line`, what is retained, what the worker holds and what is
queued, in commit order: each batch is of the table it was committed for
(`BatchInv`), nothing is missing where one continues the last (`LineInv`), and a
prefix of it, the retained game and the part of a replay still to be sent, is one
unfinished game (`KeptInv`). `TableInv` says that the latch and the worker are
never ahead of the API thread and that a machine is named once within an epoch:
this is what makes a Declare that the latch dropped harmless. `SessionInv` and
`FlushInv` say what the worker knows where it waits. Each step is a step on the
line: a Push cuts it at a game's start or refuses the rest (`QueueInv`,
`LineCut`, `LineGrows`), the worker's steps let go of a prefix or keep it.

`KeptWhole` needs its hypothesis `PeerAuthored \subseteq {TRUE}`: a session with a
daemon that does not serve authored tables may cost the retained game its start
(see Observations; `SocketWorker.cpp:1247` among the hazards). `KeptOneGame`
does not.

`WholeGames` speaks of what the daemon has, which rests on more than the line.
`WholeInv` adds four parts to `IInv`. `RootInv`: the start of every game that goes
on, and of the one the script has open, is on the line (`Begun`, `Rooted`), so that
a step may let go of batches only if each game among them is over (`MayGo`): of an
epoch that is over, ended, or followed by the next start. `LogInv`: what the daemon
has is in commit order and a prefix of what the worker still holds, so that a batch
that goes on with a game directly follows the last one taken (`TakesWhole`).
`ReadyInv` and `OwnInv`: while its epoch lasts a table stays declared as it was, so
that no batch of it is dropped as not authored, and a replay is taken up unless its
table is over. API steps are `ApiWhole` and `PushWhole`; each step of the worker is
an instance of `WholeStep`. Both hypotheses are needed: a ROM that runs for a while,
like a daemon that serves no authored tables, makes `SendGames` drop what is on its
way (see Observations), and `ReadyInv` is where the proof uses that none does.

`StatusNoticeProofs` proves, for every set of Statuses and settings, all values of
the code's times, and every number of tables, games, sessions and Statuses:

* `NoticeInvariant`: the inductive invariant `IInv`;
* `TypeCorrect`: `Spec => []TypeOK`;
* `FollowsTheGame`: `Spec => []GameFollowed`;
* `StaysQuiet`: `Spec => QuietInGame`;
* `TellsTrouble`: `Spec => TroubleTold`;
* `TellsTruly`: `Spec => ToldTruly`.

What a frame shows depends on a record that went from the worker through the
latch to the notifier, and on what the notifier remembers of earlier frames.
`HistoryInv` says that a deferred end is due only to a "no game" of this session,
and follows from no earlier one. `SeenInv` says that the notifier holds the last
record, once it has taken it, but for a game that the table's end took away, which
is never one of this table. `ScreenInv` says that what is on screen is what the
notifier remembers. `CountInv` and `StartInv` compare counts: a game that the
notifier is not in is one that its next frame will find to have started.
`TroubleInv` uses them: a game's trouble is remembered or will be counted at that
frame. What a frame does is one lemma, `FrameFacts`, by the cases hidden, in a
game, at a game's end and outside; what a Status does to the history is another,
`AfterStatusFacts`; each step is then a step on the invariant's parts.

`ReadBackProofs` proves, for every set of requests and every limit on them:

* `TypeCorrect`: `Spec => []TypeOK`, the ids wrapping or not;
* `ReadBackInvariant`: the inductive invariant `IInv`, while the ids do not wrap;
* `OnceAnswered`: `Spec => []AnsweredOnce`, while the ids do not wrap;
* `ResultsOfOwnTable`: `Spec => []OwnTable`, while the ids do not wrap.

The hypothesis of the last three is `NoWrap`, `MaxRequests <= MaxId`: after
0x7FFFFFFF requests of one process the next id is 1, and `Drain`
(`ReadBack.cpp:451`) would compare it with an old `m_clearedThrough`. `IInv` says
that a request's id is then its number (`Numbers`) and that everything that is
left of a request on its way carries its epoch and, while it may still be asked,
its identity (`Tags`). A request waits in the script's queue, the worker's or
among the pending ones, in one of them and once (`OnePlace`); the rest are
answered, once (`Counted`). Epoch and identity name a table (`OneTable`); what
the script may still read of the current epoch was asked of the table it has
posted (`Readable`). Steps either let requests flow on (`Flow*`) or answer some
of those that wait (`Answers*`, one lemma for each place they wait in). The
filters of `Post`, `Drain` and `Disconnect` are proved about through the rank of
an element in its set (`Nth`, `At`, `ByIds`).

### What the proofs rest on, and what is left to TLC

The assumptions are those on the constants, named in the component's module:
`SeqLockAssumption`, `OverlayAssumption` and their likes, which state types and, where
the code has one, a bound of at least 1. Nothing else is assumed, but for the
hypotheses of `KeptWhole`, `DaemonSeesWholeGames` and those of `ReadBackProofs`.

The recursive functions (`Walk`, `Reached`, `ApplyAll`) are functions on Nat.
The theorems that define such a function, and induction over Nat, take an operator
as a parameter in the library. Here both are proved first-order: `NatSet` is
induction, for a set of numbers, from the pigeonhole theorem for finite sets
(`FS_PigeonHole`), and `Iteration` and `Iterated` show that a function can be
iterated, from which each recursive definition has the value it states.

Left to TLC:

* liveness under fairness (`Settles`, `ReadReturns`, `WaitsEnd`, `Answered`,
  `Drained`, `TapProgress`, `EndsInTime`, `SessionEnds`), which is out of the prover's reach;
* `AnsweredOnce` and `OwnTable` of `ReadBack` once its ids wrap, which no run's bounds reach;
* the two runs that expect a violation (see Observations).

## Not modelled

Encoding and decoding of messages, logging, drawing, windows, the conversion of a
script's arguments, file names and the wire dump: data without control shared
between threads. The daemon, VPX, PinMAME and other plugins are external and
appear as what they may do to the plugin. Loading the plugin and reading its
settings happen once, on one thread. `StatusNotice` fixes the settings for a
behaviour, and abstracts the reasons given for a lost session. `PlayerTable`, with
the copies of pictures it keeps on disk, is not modelled yet. `ReadBack`'s ids do
not wrap within its bounds: after 0x7FFFFFFF requests of one process `Drain`
(`ReadBack.cpp:451`) would compare a new small id with an old `m_clearedThrough`.

## Plan

1. Players and pictures: slots, claims and their files across a crash.
2. `ReadBack` past the wrap of its ids: what `Drain` then keeps and drops.
