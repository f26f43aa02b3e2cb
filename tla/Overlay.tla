------------------------------ MODULE Overlay ------------------------------
(***************************************************************************)
(* OverlayCache.h, OverlayState.h and the render path of DmdOverlay.cpp:   *)
(* the overlay from those who draw it to those who show it.                *)
(*                                                                         *)
(* Two writers share the overlay's state under m_writer.  The worker       *)
(* serves the daemon and waits for the mutex; the API thread serves other  *)
(* plugins, only tries the mutex and keeps what it could not apply for its *)
(* next frame or tick.  Consumers on threads of their own ask an override  *)
(* of the display for frames, which it composites from its own copy of the *)
(* record last published.                                                  *)
(*                                                                         *)
(* The SeqLock of the record is what AtomicPublish says: window holds the  *)
(* records the override may yet copy, the one it has first.  What the      *)
(* worker does under m_writer takes time, during which the API thread      *)
(* finds the mutex taken; the API thread's own critical section is a step. *)
(***************************************************************************)
EXTENDS Integers, Sequences

CONSTANTS
  Bitmaps,        \* uploads of an accepted size
  Unfit,          \* uploads that are malformed or of another size
  Durations,      \* of a show, in ticks of the clock; 0 is until hidden
  Consumers,      \* those who ask the override for frames
  PENDING_LIMIT,
  MayBeNull,      \* external: the target may have no frame
  \* Bounds on the API thread's and the daemon's operations, the clock,
  \* the frames of the target and the changes of platform.
  MaxPosts, MaxAnswers, MaxNow, MaxFrames, MaxPlatform

ASSUME OverlayAssumption ==
  /\ Durations \subseteq Nat /\ PENDING_LIMIT \in Nat /\ MayBeNull \in BOOLEAN
  /\ "none" \notin Bitmaps /\ Bitmaps \cap Unfit = {}
  /\ {MaxPosts, MaxAnswers, MaxNow, MaxFrames, MaxPlatform} \subseteq Nat

VARIABLES
  now,        \* steady_clock
  \* the cache
  holder,     \* what the worker, holding m_writer, is about to apply
  state,      \* m_state
  pending,    \* m_pending
  window,     \* the records published since the override's copy, and its copy
  \* worker
  connected,  \* m_connected
  answers,    \* how many sessions and requests of the daemon it has taken
  \* API thread
  detached,   \* m_detached
  platform,   \* m_platform, by the number of its changes
  posted,     \* how many operations it has accepted
  applied,    \* the number of the last of them that was applied
  \* the override and its consumers
  entry,      \* its Entry
  src,        \* external: the target's frame
  shown,      \* external: per consumer, the frame with the newest id it got
  last        \* the last frame served: to whom, how, and what it should be

cache  == <<holder, state, pending>>
render == <<entry, src, shown, last>>
overlayVars == <<now, cache, window, connected, answers, detached, platform, posted,
                 applied, render>>

Nobody == [kind |-> "free"]

\* State.  drawnBy, armedBy and due are not in the code: whose the bitmap and
\* the control are, and when a timed show of the API thread is to end.
NoOverlay == [bitmap |-> "none", enabled |-> FALSE, untilHidden |-> FALSE,
              hideAt |-> 0, drawnBy |-> "none", armedBy |-> "none", due |-> 0]

\* Publish's record: the state but for whose it is.
Record(st) == [bitmap |-> st.bitmap, enabled |-> st.enabled, hideAt |-> st.hideAt,
               untilHidden |-> st.untilHidden, due |-> st.due]

\* What a buffer shows: a blank, a frame of the target, a composite.
Blank == [of |-> "blank"]
Passed(frame) == [of |-> "target", frame |-> frame]
Composite(frame, rec, shade) ==
  [of |-> "composite", frame |-> frame, bitmap |-> rec.bitmap, shade |-> shade]

NewEntry == [live |-> TRUE, servedDark |-> FALSE, out |-> Blank, srcFrameId |-> 0,
             outFrameId |-> 0, lastComposited |-> FALSE, platform |-> -1]

OverlayInit ==
  /\ now = 1
  /\ holder = Nobody /\ state = NoOverlay /\ pending = <<>>
  /\ window = <<Record(NoOverlay)>>
  /\ connected = FALSE /\ answers = 0
  /\ detached = FALSE /\ platform = 0 /\ posted = 0 /\ applied = 0
  /\ entry = NewEntry /\ src = 1
  /\ shown = [c \in Consumers |-> [id |-> -1, content |-> Blank]]
  /\ last = [kind |-> "nothing"]

-----------------------------------------------------------------------------
(* State, under m_writer, and what an operation makes of it.               *)

Store(st, op) ==
  IF op.payload \in Bitmaps
  THEN [st EXCEPT !.bitmap = op.payload, !.drawnBy = op.by]
  ELSE st

\* Mutant: a show that had to wait is timed from the drain.
TimedFromDrain(op) == now
TimedFrom(op) == IF op.by = "api" THEN op.at ELSE now

Control(st, op) ==
  [st EXCEPT !.enabled = op.enable, !.armedBy = op.by,
             !.untilHidden = (op.ms = 0), !.hideAt = TimedFrom(op) + op.ms,
             !.due = IF op.by = "api" THEN op.at + op.ms ELSE now + op.ms]

Clear(st) == NoOverlay

Apply(st, op) ==
  CASE op.kind = "upload"  -> Store(st, op)
    [] op.kind = "control" -> Control(st, op)
    [] op.kind = "clear"   -> Clear(st)

\* m_pending applied in order.
ApplyAll(st, ops) ==
  LET f[i \in 0 .. Len(ops)] == IF i = 0 THEN st ELSE Apply(f[i - 1], ops[i])
  IN f[Len(ops)]

Publish(st) == window' = Append(window, Record(st))

Visible(rec) == /\ rec.enabled /\ rec.bitmap # "none"
                /\ rec.untilHidden \/ now < rec.hideAt

-----------------------------------------------------------------------------
(* Socket worker.                                                          *)

Connect ==
  /\ holder = Nobody /\ ~connected /\ answers < MaxAnswers
  /\ connected' = TRUE
  /\ answers' = answers + 1
  /\ UNCHANGED <<now, cache, window, detached, platform, posted, applied, render>>

\* AnswerOverlay of a valid request, up to the mutex: refused without a surface.
AnswerOverlay(op) ==
  /\ holder = Nobody /\ connected /\ answers < MaxAnswers
  /\ entry.live
  /\ holder' = op
  /\ answers' = answers + 1
  /\ UNCHANGED <<now, state, pending, window, connected, detached, platform, posted,
                 applied, render>>

\* Disconnect, up to the mutex.
Disconnect ==
  /\ holder = Nobody /\ connected
  /\ connected' = FALSE
  /\ holder' = [kind |-> "clear"]
  /\ UNCHANGED <<now, state, pending, window, answers, detached, platform, posted,
                 applied, render>>

\* Store, Control and Clear up to the end of their critical section.  A Store
\* that is ignored publishes nothing.
WorkerApplies ==
  /\ holder # Nobody
  /\ state' = Apply(state, holder)
  /\ IF holder.kind = "upload" /\ holder.payload \in Unfit
     THEN window' = window
     ELSE Publish(state')
  /\ holder' = Nobody
  /\ UNCHANGED <<now, pending, connected, answers, detached, platform, posted,
                 applied, render>>

-----------------------------------------------------------------------------
(* API thread.                                                             *)

\* Mutant: an operation tries the mutex although others wait.
TriesAlways == holder = Nobody
Tries == pending = <<>> /\ holder = Nobody

HasRoom == Len(pending) < PENDING_LIMIT

\* PostUpload and PostControl, called by OnOverlayMsg: applied at once, kept for
\* later or, with no room, refused.
Post(op) ==
  /\ ~detached /\ entry.live /\ posted < MaxPosts
  /\ op.kind = "upload" => op.payload \in Bitmaps /\ HasRoom
  /\ posted' = posted + 1
  /\ \/ /\ Tries
        /\ state' = Apply(state, op)
        /\ Publish(state')
        /\ applied' = op.n
        /\ UNCHANGED pending
     \/ /\ ~Tries /\ HasRoom
        /\ pending' = Append(pending, op)
        /\ UNCHANGED <<state, window, applied>>
  /\ UNCHANGED <<now, holder, connected, answers, detached, platform, render>>

DrainPending ==
  IF pending # <<>> /\ holder = Nobody
  THEN /\ state' = ApplyAll(state, pending)
       /\ Publish(state')
       /\ applied' = pending[Len(pending)].n
       /\ pending' = <<>>
  ELSE UNCHANGED <<state, window, applied, pending>>

\* SetController makes the platform unknown, until PinMAME, whose emulation has
\* then begun, answers QueryPlatform.
PlatformChanges == platform < MaxPlatform /\ platform' = platform + 1

SetController ==
  /\ PlatformChanges
  /\ UNCHANGED <<now, cache, window, connected, answers, detached, posted, applied, render>>

OnPrepareFrame ==
  /\ ~detached
  /\ PlatformChanges \/ UNCHANGED platform
  /\ DrainPending
  /\ UNCHANGED <<now, holder, connected, answers, detached, posted, render>>

\* Mutant: nothing is drained while no frame is rendered.
TickNothing == UNCHANGED <<state, window, applied, pending>>
TickDrains == DrainPending

\* The plugin's timer.
DrainSocketLog ==
  /\ ~detached
  /\ TickDrains
  /\ UNCHANGED <<now, holder, connected, answers, detached, platform, posted, render>>

\* DarkenStale of the override, whose target is no longer listed.
DarkenStale ==
  /\ entry.live
  /\ entry' = [entry EXCEPT !.live = FALSE]
  /\ UNCHANGED <<now, cache, window, connected, answers, detached, platform, posted,
                 applied, src, shown, last>>

\* At quit; the override stays listed.
Detach ==
  /\ ~detached
  /\ detached' = TRUE
  /\ entry' = [entry EXCEPT !.live = FALSE]
  /\ UNCHANGED <<now, cache, window, connected, answers, platform, posted, applied,
                 src, shown, last>>

-----------------------------------------------------------------------------
(* Render threads.                                                         *)

\* The frame [id, content] goes to c, who skips an id it has.
Serve(c, kind, want, id, content) ==
  /\ shown' = IF shown[c].id = id THEN shown
              ELSE [shown EXCEPT ![c] = [id |-> id, content |-> content]]
  /\ last' = [kind |-> kind, to |-> c, want |-> want]

Darkened(e) == IF e.servedDark THEN e
               ELSE [e EXCEPT !.servedDark = TRUE, !.outFrameId = @ + 1]

\* GetRenderFrame of an override that is not live.
RenderDark(c) ==
  /\ ~entry.live
  /\ entry' = Darkened(entry)
  /\ UNCHANGED window
  /\ Serve(c, "dark", Blank, entry'.outFrameId, Blank)

\* GetRenderFrame when the target has none.
RenderNull(c) ==
  /\ entry.live /\ MayBeNull
  /\ UNCHANGED <<entry, window>>
  /\ Serve(c, "null", Blank, entry.outFrameId, entry.out)

\* Mutant: a new record does not redo the composite.
KeepsComposite(e, changed) == [e EXCEPT !.platform = platform]
Refreshed(e, changed) ==
  [e EXCEPT !.lastComposited = @ /\ ~changed /\ e.platform = platform,
            !.platform = platform]

PassThrough(e) ==
  [e EXCEPT !.outFrameId = IF e.lastComposited \/ src # e.srcFrameId THEN @ + 1 ELSE @,
            !.lastComposited = FALSE, !.srcFrameId = src]

Composited(e, rec) ==
  IF e.lastComposited /\ src = e.srcFrameId THEN e
  ELSE [e EXCEPT !.out = Composite(src, rec, e.platform), !.lastComposited = TRUE,
                 !.srcFrameId = src, !.outFrameId = @ + 1]

\* GetRenderFrame with a frame of the target; the copy of the record may be
\* brought up to any that was published since.
RenderLive(c) ==
  /\ entry.live
  /\ \E k \in 1 .. Len(window) : window' = SubSeq(window, k, Len(window))
  /\ LET changed == Len(window') < Len(window)
         rec == Head(window')
         e == Refreshed(entry, changed)
     IN IF Visible(rec)
        THEN /\ entry' = Composited(e, rec)
             /\ Serve(c, "lit", Composite(src, rec, platform), entry'.outFrameId, entry'.out)
        ELSE /\ entry' = PassThrough(e)
             /\ Serve(c, "passed", Passed(src), entry'.outFrameId, Passed(src))

GetRenderFrame(c) ==
  /\ RenderDark(c) \/ RenderNull(c) \/ RenderLive(c)
  /\ UNCHANGED <<now, cache, connected, answers, detached, platform, posted, applied, src>>

\* The target has a new frame.
TargetFrame ==
  /\ src < MaxFrames /\ src' = src + 1
  /\ UNCHANGED <<now, cache, window, connected, answers, detached, platform, posted,
                 applied, entry, shown, last>>

Passes ==
  /\ now < MaxNow /\ now' = now + 1
  /\ UNCHANGED <<cache, window, connected, answers, detached, platform, posted, applied,
                 render>>

-----------------------------------------------------------------------------

\* The operations either writer may be asked for.
Uploads(by, payloads, n) == [kind : {"upload"}, by : {by}, payload : payloads, n : {n}]
Shows(by, at, n) ==
  [kind : {"control"}, by : {by}, enable : {TRUE}, ms : Durations, at : {at}, n : {n}]
Hide(by, at, n) ==
  [kind |-> "control", by |-> by, enable |-> FALSE, ms |-> 0, at |-> at, n |-> n]

OfDaemon == Uploads("daemon", Bitmaps \cup Unfit, 0) \cup Shows("daemon", 0, 0)
              \cup {Hide("daemon", 0, 0)}
OfApi == Uploads("api", Bitmaps, posted + 1) \cup Shows("api", now, posted + 1)
           \cup {Hide("api", now, posted + 1)}

OverlayNext ==
  \/ Connect \/ Disconnect \/ WorkerApplies
  \/ \E op \in OfDaemon : AnswerOverlay(op)
  \/ \E op \in OfApi : Post(op)
  \/ SetController \/ OnPrepareFrame \/ DrainSocketLog \/ DarkenStale \/ Detach
  \/ \E c \in Consumers : GetRenderFrame(c)
  \/ TargetFrame \/ Passes

OverlaySpec == OverlayInit /\ [][OverlayNext]_overlayVars

\* The worker leaves m_writer and the timer ticks; nothing is rendered.
OverlayFairSpec == OverlaySpec /\ WF_overlayVars(WorkerApplies) /\ WF_overlayVars(DrainSocketLog)

-----------------------------------------------------------------------------
(* Properties.                                                             *)

\* The operations the API thread accepted are applied in the order in which
\* they arrived, each once: those that wait are exactly those after the last
\* one applied, although the worker takes the mutex at any time, and never more
\* than the queue holds (Post, DrainPending).
ArrivalOrder ==
  /\ applied + Len(pending) = posted /\ Len(pending) <= PENDING_LIMIT
  /\ \A i \in DOMAIN pending : pending[i].n = applied + i

\* Whatever the writers' order, while none is at work the newest record is the
\* state: no operation is left unpublished and none of a lost order is shown
\* (Store, Control, Clear, Post and DrainPending each publish).
PublishedIsState == holder = Nobody => window[Len(window)] = Record(state)

\* A shown-until-hidden overlay does not outlive the daemon that drew it: once
\* the session's end is through, nothing of the daemon's is left in the state,
\* and what is left is the API thread's (Disconnect).
DaemonGone ==
  ~connected /\ holder = Nobody => "daemon" \notin {state.drawnBy, state.armedBy}

\* A timed show that had to wait in the queue is over when its time, counted
\* from its arrival, is (Op::at).
NotShownLate ==
  \A c \in Consumers : RenderLive(c) /\ last'.kind = "lit" =>
    Head(window').untilHidden \/ now < Head(window').due

\* Nothing of the overlay outlives its time: neither a daemon's drawing the
\* daemon, nor a timed show its end, although both can wait in the queue.
NotOutlived == [][DaemonGone' /\ NotShownLate]_overlayVars

\* A consumer that skips an id it has shows the composite of the newest copied
\* bitmap over the newest frame in the platform's shades whenever the overlay
\* is visible: no bitmap, frame or platform goes out under an old id
\* (GetRenderFrame).
LitIsShown == last.kind = "lit" => shown[last.to].content = last.want

\* Such a consumer shows the dark buffer once it asks an override that is no
\* longer live, not the lit frame it had.
DarkIsShown == last.kind = "dark" => shown[last.to].content = last.want

\* From a writer's mutex to a consumer's screen: what is published is the state,
\* and what such a consumer shows when it asks is what that state calls for.
ShownTruly == PublishedIsState /\ LitIsShown /\ DarkIsShown

\* Such a consumer shows the target's own frame once the overlay is hidden.
HiddenIsShown == last.kind = "passed" => shown[last.to].content = last.want

\* An operation that had to wait is applied although no frame is rendered.
Drained == pending # <<>> ~> pending = <<>> \/ detached
=============================================================================
