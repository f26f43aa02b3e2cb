------------------------------- MODULE DmdTap -------------------------------
(***************************************************************************)
(* DmdTap.cpp, VpxSessionSource's Refresh, UpdateDeclare (the display's    *)
(* part) and GetFrame, and SocketWorker::AnswerFrame: how the frames that  *)
(* the emulating controller draws reach the daemon.                        *)
(*                                                                         *)
(* Five parties interleave: the controllers, which publish and withdraw    *)
(* displays on the API thread and draw into them on threads of their own;  *)
(* the API thread, which selects the source under m_sourceMutex and posts  *)
(* Declares; the capture thread, which polls the source and copies its     *)
(* pixels; the session's worker, which answers a Frame request from what   *)
(* was published; and the daemon, which asks with the frame it holds.      *)
(*                                                                         *)
(* A picture is two pixels.  A pixel says which frame it was drawn for: the*)
(* publication of the display it belongs to and the frame's number.  The   *)
(* seqlock is used as AtomicPublish says it may be: a read returns what    *)
(* was last written, or fails.  The two readers, Declares and Frame        *)
(* requests, only read: a behaviour follows one of them.                   *)
(***************************************************************************)
EXTENDS Integers, Sequences, FiniteSets

CONSTANTS
  Displays,        \* the displays controllers may publish: records of DisplayType
  Controllers,     \* the endpoints that can be the emulating controller
  MAX_PIXELS,      \* the largest display the seqlock has room for
  MaxFrames,       \* bounds: the frames that each publication of a display draws,
  MaxLives,        \* and the publications
  MaxControllers   \* bound: SetController calls

\* A DisplaySrcId: its endpoint, its geometry and whether it has identify frames in
\* a format of shades (GetIdentifyFrame and identifyFormat).
DisplayType == [endpoint : Controllers \cup {"other"}, size : Nat \ {0}, identify : BOOLEAN]

ASSUME DmdTapAssumption ==
  /\ \A d \in Displays : d.size \in Nat \ {0} /\ d.identify \in BOOLEAN
  /\ "none" \notin Controllers
  /\ MAX_PIXELS \in Nat /\ MaxLives \in Nat /\ MaxFrames \in [1 .. MaxLives -> Nat]
  /\ MaxControllers \in Nat

VARIABLES
  shown,       \* the displays published and not withdrawn
  going,       \* those withdrawn by a broadcast that has not returned
  drawn,       \* what each display draws: see Blank
  lives,       \* publications so far
  m_controllerEndpointId, calls,
  selected,    \* what FilterSources left of the last broadcast
  m_source, m_hasSource, m_sourceGeneration,
  api,         \* where the API thread is in OnSourcesChanged or ~DmdTap
  m_running,
  pc,          \* where the capture thread is
  lastGeneration, lastFrameId, haveLast,   \* Worker's locals
  frame, left, \* m_back, and which of its pixels are still to be copied
  m_published, \* the seqlock's content
  m_apiTap, m_workerTap,  \* the two TapViews' latest; of the first only size and generation
  follows,     \* the reader followed: "declares" or "requests"
  m_posted,    \* the display's part of the last DeclareSnapshot posted
  request,     \* the Frame request being answered, and what Refresh has read for it;
               \* from: the generation when it came
  held,        \* the daemon's frame
  sourceOf     \* history: per generation, the publication selected (0: none) and its size

host    == <<shown, going, drawn, lives>>
source  == <<m_controllerEndpointId, calls, selected, m_source, m_hasSource, m_sourceGeneration, sourceOf>>
capture == <<pc, lastGeneration, lastFrameId, haveLast, frame, left, m_published>>
daemon  == <<follows, m_workerTap, request, held>>
vars    == <<host, source, api, m_running, capture, m_apiTap, m_posted, daemon>>

Pixels == {1, 2}

\* A display that has drawn nothing: publication of, frame id 0 (GetIdentifyFrame gives
\* no frame yet), the number each pixel was last drawn for.
Blank(life) == [of |-> life, id |-> 0, buf |-> [p \in Pixels |-> 0]]

NoFrame    == [id |-> 0, size |-> 0, gen |-> 0, px |-> [p \in Pixels |-> <<0, 0>>]]
NoSource   == [endpoint |-> "none", size |-> 0, identify |-> FALSE]  \* DisplaySrcId { }
NoRequest  == [step |-> "none", has |-> FALSE, have |-> FALSE, from |-> 0]
Undeclared == [size |-> 0, gen |-> 0]

Init ==
  /\ shown = {} /\ going = {} /\ lives = 0
  /\ drawn = [d \in Displays |-> Blank(0)]
  /\ m_controllerEndpointId = "none" /\ calls = 0 /\ selected = NoSource
  /\ m_source = NoSource /\ m_hasSource = FALSE /\ m_sourceGeneration = 0
  /\ sourceOf = <<[of |-> 0, size |-> 0]>>
  /\ api = "idle" /\ m_running = TRUE
  /\ pc = "sleep" /\ lastGeneration = 0 /\ lastFrameId = 0 /\ haveLast = FALSE
  /\ frame = NoFrame
  /\ left = {}
  /\ m_published = NoFrame
  /\ follows \in {"declares", "requests"}
  /\ m_apiTap = Undeclared /\ m_posted = Undeclared
  /\ m_workerTap = NoFrame /\ request = NoRequest /\ held = NoFrame

(***************************************************************************)
(* The host's displays (external).                                         *)
(***************************************************************************)

\* What FilterSources lets through: the controller's own displays with identify frames.
Conforming(c, items) == {d \in items : c # "none" /\ d.endpoint = c /\ d.identify}

\* FilterSources' selection: the largest; of equals, the first the broadcast collected.
Largest(items) == IF items = {} THEN {NoSource}
                  ELSE {d \in items : \A e \in items : e.size <= d.size}

\* The broadcast reaches m_sources, which filters the items and calls OnSourcesChanged.
\* After Unsubscribe it reaches nobody.
Broadcast(c, items) ==
  IF api = "idle"
  THEN /\ \E s \in Largest(Conforming(c, items)) : selected' = s
       /\ api' = "waiting"
  ELSE api = "gone" /\ UNCHANGED <<selected, api>>

\* A controller publishes a display, or withdraws one; either is broadcast.  The one
\* withdrawn is freed once the broadcast has returned.
PublishDisplay ==
  /\ lives < MaxLives /\ api = "idle"
  /\ \E d \in Displays \ shown :
       /\ shown' = shown \cup {d}
       /\ lives' = lives + 1
       /\ drawn' = [drawn EXCEPT ![d] = Blank(lives')]
       /\ Broadcast(m_controllerEndpointId, shown')
  /\ UNCHANGED <<going, m_controllerEndpointId, calls, m_source, m_hasSource,
                 m_sourceGeneration, sourceOf, m_running, capture, m_apiTap, m_posted, daemon>>

WithdrawDisplay ==
  /\ \E d \in shown :
       /\ shown' = shown \ {d}
       /\ Broadcast(m_controllerEndpointId, shown')
       /\ going' = IF api = "idle" THEN {d} ELSE {}
  /\ UNCHANGED <<drawn, lives, m_controllerEndpointId, calls, m_source, m_hasSource,
                 m_sourceGeneration, sourceOf, m_running, capture, m_apiTap, m_posted, daemon>>

\* A producer writes the pixels of its next frame in order, then advances frameId.
DrawPixel ==
  /\ \E d \in shown, p \in Pixels :
       /\ api # "gone" /\ d.endpoint \in Controllers  \* what the others draw is never read
       /\ drawn[d].id < MaxFrames[drawn[d].of] /\ drawn[d].buf[p] = drawn[d].id
       /\ \A q \in 1 .. p - 1 : drawn[d].buf[q] > drawn[d].id
       /\ drawn' = [drawn EXCEPT ![d].buf[p] = @ + 1]
  /\ UNCHANGED <<shown, going, lives, source, api, m_running, capture, m_apiTap, m_posted, daemon>>

AdvanceFrameId ==
  /\ \E d \in shown :
       /\ \A p \in Pixels : drawn[d].buf[p] = drawn[d].id + 1
       /\ drawn' = [drawn EXCEPT ![d].id = @ + 1]
  /\ UNCHANGED <<shown, going, lives, source, api, m_running, capture, m_apiTap, m_posted, daemon>>

(***************************************************************************)
(* The API thread.                                                         *)
(***************************************************************************)

\* Another game, or none: m_sources.Refresh() filters again with the new controller.
SetController ==
  /\ api = "idle" /\ calls < MaxControllers
  /\ \E c \in (Controllers \cup {"none"}) \ {m_controllerEndpointId} :
       /\ m_controllerEndpointId' = c
       /\ Broadcast(c, shown)
  /\ calls' = calls + 1
  /\ UNCHANGED <<host, m_source, m_hasSource, m_sourceGeneration, sourceOf,
                 m_running, capture, m_apiTap, m_posted, daemon>>

\* The capture thread holds m_sourceMutex while it reads a frame.
Locked == pc \in {"copy", "check"}

\* OnSourcesChanged up to the generation: the other threads read m_hasSource and the
\* generation without the lock, one after the other.
OnSourcesChanged ==
  /\ api = "waiting" /\ ~Locked
  /\ IF selected # NoSource /\ m_hasSource /\ m_source = selected
     THEN api' = "idle" /\ going' = {} /\ UNCHANGED <<m_source, m_hasSource>>
     ELSE /\ m_source' = selected /\ m_hasSource' = (selected # NoSource)
          /\ api' = "bump" /\ UNCHANGED going
  /\ UNCHANGED <<m_controllerEndpointId, calls, selected, m_sourceGeneration, sourceOf,
                 shown, drawn, lives, m_running, capture, m_apiTap, m_posted, daemon>>

BumpGeneration ==
  /\ api = "bump"
  /\ m_sourceGeneration' = m_sourceGeneration + 1
  /\ sourceOf' = Append(sourceOf, IF m_hasSource THEN [of |-> drawn[m_source].of, size |-> m_source.size]
                                  ELSE [of |-> 0, size |-> 0])
  /\ api' = "idle" /\ going' = {}
  /\ UNCHANGED <<m_controllerEndpointId, calls, selected, m_source, m_hasSource,
                 shown, drawn, lives, m_running, capture, m_apiTap, m_posted, daemon>>

\* Mutant: the capture thread is not joined before Unsubscribe.
JoinNobody ==
  /\ api = "joining"
  /\ api' = "gone"
  /\ UNCHANGED <<host, source, m_running, capture, m_apiTap, m_posted, daemon>>

\* ~DmdTap, once the session's worker has stopped: the capture thread is told and joined,
\* then the display broadcasts are unsubscribed from.
Destroy ==
  /\ api = "idle" /\ m_running /\ request = NoRequest
  /\ m_running' = FALSE /\ api' = "joining"
  /\ UNCHANGED <<host, source, capture, m_apiTap, m_posted, daemon>>

Join ==
  /\ api = "joining" /\ pc = "done"
  /\ api' = "gone"
  /\ UNCHANGED <<host, source, m_running, capture, m_apiTap, m_posted, daemon>>

(***************************************************************************)
(* The capture thread: Worker.                                             *)
(***************************************************************************)

\* Mutant: a replaced source does not reset the duplicate check.
KnownAlways == haveLast

\* Whether lastFrameId is a frame of the source now selected.
Known == haveLast /\ lastGeneration = m_sourceGeneration

\* A poll of the source under m_sourceMutex, up to its first GetIdentifyFrame: nothing to
\* do without a source, before its first frame, or when its frame was already captured.
Poll ==
  /\ pc = "sleep" /\ m_running /\ api # "bump"
  /\ IF ~m_hasSource
     THEN haveLast' = FALSE /\ UNCHANGED <<pc, lastGeneration, frame, left>>
     ELSE LET id == drawn[m_source].id IN
          /\ haveLast' = Known
          /\ lastGeneration' = m_sourceGeneration
          /\ IF id = 0 \/ (Known /\ id = lastFrameId)
             THEN UNCHANGED <<pc, frame, left>>
             ELSE pc' = "copy" /\ left' = Pixels /\ frame' = [NoFrame EXCEPT !.id = id]
  /\ UNCHANGED <<host, source, api, m_running, lastFrameId, m_published,
                 m_apiTap, m_posted, daemon>>

\* The memcpy, against a producer that may be drawing its next frame.
CopyPixel ==
  /\ pc = "copy"
  /\ \E p \in left :
       /\ \A q \in left : p <= q
       /\ frame' = [frame EXCEPT !.px[p] = <<drawn[m_source].of, drawn[m_source].buf[p]>>]
       /\ left' = left \ {p}
  /\ pc' = IF left' = {} THEN "check" ELSE "copy"
  /\ UNCHANGED <<host, source, api, m_running, lastGeneration, lastFrameId, haveLast, m_published,
                 m_apiTap, m_posted, daemon>>

\* The second GetIdentifyFrame tells that the producer has advanced.
Moved(id) == drawn[m_source].id # id

\* The frame is discarded, or stamped with its source while the lock is still held.
Check ==
  /\ pc = "check"
  /\ IF Moved(frame.id)
     THEN pc' = "sleep" /\ frame' = NoFrame /\ UNCHANGED <<lastFrameId, haveLast>>
     ELSE /\ pc' = "publish"
          /\ lastFrameId' = frame.id /\ haveLast' = TRUE
          /\ frame' = [frame EXCEPT !.size = m_source.size, !.gen = m_sourceGeneration]
  /\ UNCHANGED <<host, source, api, m_running, lastGeneration, left, m_published, m_apiTap, m_posted, daemon>>

\* Mutant: the generation is read once the lock is released.
PublishStamped ==
  /\ pc = "publish"
  /\ m_published' = IF frame.size <= MAX_PIXELS THEN [frame EXCEPT !.gen = m_sourceGeneration] ELSE m_published
  /\ pc' = "sleep" /\ frame' = NoFrame
  /\ UNCHANGED <<host, source, api, m_running, lastGeneration, lastFrameId, haveLast, left,
                 m_apiTap, m_posted, daemon>>

\* Mutant: a display past MAX_PIXELS is published all the same.
PublishAny ==
  /\ pc = "publish"
  /\ m_published' = frame
  /\ pc' = "sleep" /\ frame' = NoFrame
  /\ UNCHANGED <<host, source, api, m_running, lastGeneration, lastFrameId, haveLast, left,
                 m_apiTap, m_posted, daemon>>

\* Publish: the seqlock takes the record if it has room for it.
Publish ==
  /\ pc = "publish"
  /\ m_published' = IF frame.size <= MAX_PIXELS THEN frame ELSE m_published
  /\ pc' = "sleep" /\ frame' = NoFrame
  /\ UNCHANGED <<host, source, api, m_running, lastGeneration, lastFrameId, haveLast, left,
                 m_apiTap, m_posted, daemon>>

WorkerEnds ==
  /\ pc = "sleep" /\ ~m_running
  /\ pc' = "done"
  /\ UNCHANGED <<host, source, api, m_running, lastGeneration, lastFrameId, haveLast, frame, left,
                 m_published, m_apiTap, m_posted, daemon>>

(***************************************************************************)
(* What is read from the tap: Refresh, in each of the two views.           *)
(***************************************************************************)

\* GetLatest may give up only while the seqlock is being written.
Tears == IF pc = "publish" /\ m_published # NoFrame THEN BOOLEAN ELSE {FALSE}

\* GetLatest into a view, which keeps its frame when the copy tore.
HaveFrame(view, torn) == m_published # NoFrame /\ (~torn \/ view.size # 0)
Keeps(torn) == m_published = NoFrame \/ torn

\* view.hasSource: the frame was captured from the source selected now.
IsCurrent(has, have, view) == has /\ have /\ view.gen = m_sourceGeneration

\* UpdateDeclare, the display's part; the API thread itself writes the source, so only
\* the capture thread can come between Refresh's reads.
UpdateDeclare ==
  /\ api = "idle" /\ m_running /\ follows = "declares"
  /\ \E torn \in Tears :
       /\ m_apiTap' = IF Keeps(torn) THEN m_apiTap ELSE [size |-> m_published.size, gen |-> m_published.gen]
       /\ m_posted' = IF IsCurrent(m_hasSource, HaveFrame(m_apiTap, torn), m_apiTap')
                      THEN m_apiTap'
                      ELSE [size |-> 0, gen |-> m_sourceGeneration]
  /\ UNCHANGED <<host, source, api, m_running, capture, daemon>>

\* The daemon asks for what is newer than the frame it holds, or with SINCE_FRAME_NONE; a
\* new daemon holds none.
\* GetFrame's Refresh on the session's worker is three reads without a lock: m_hasSource
\* as the request is taken,
Ask ==
  /\ request = NoRequest /\ m_running /\ follows = "requests"
  /\ held' \in {held, NoFrame}
  /\ request' = [step |-> "frame", has |-> m_hasSource, have |-> FALSE, from |-> m_sourceGeneration]
  /\ UNCHANGED <<host, source, api, m_running, capture, m_apiTap, m_posted, follows, m_workerTap>>

\* the frame,
ReadLatest ==
  /\ request.step = "frame"
  /\ \E torn \in Tears :
       /\ m_workerTap' = IF Keeps(torn) THEN m_workerTap ELSE m_published
       /\ request' = [request EXCEPT !.step = "generation", !.have = HaveFrame(m_workerTap, torn)]
  /\ UNCHANGED <<host, source, api, m_running, capture, m_apiTap, m_posted, follows, held>>

\* Mutant: the frame's source is not compared.
UnchangedById(since, view) == since # NoFrame /\ since.id = view.id

\* The frame that the daemon says it holds is the one it would be sent.
Unchanged(since, view) == since # NoFrame /\ since.id = view.id /\ since.gen = view.gen

\* What the reply is made of: the frame read, if it is the selected source's.
Serves == request.step = "generation" /\ IsCurrent(request.has, request.have, m_workerTap)

\* and the generation, last.  The reply, and what the daemon makes of it: pixels replace its
\* frame, "unchanged" keeps it, and another generation empties its cache.
AnswerFrame ==
  /\ request.step = "generation"
  /\ held' = IF Serves
             THEN IF Unchanged(held, m_workerTap) THEN held ELSE m_workerTap
             ELSE IF held.gen = m_sourceGeneration THEN held ELSE NoFrame
  /\ request' = NoRequest
  /\ UNCHANGED <<host, source, api, m_running, capture, m_apiTap, m_posted, follows, m_workerTap>>

(***************************************************************************)

CaptureStep == Poll \/ CopyPixel \/ Check \/ Publish \/ WorkerEnds
ApiStep     == OnSourcesChanged \/ BumpGeneration \/ Join

Next ==
  \/ PublishDisplay \/ WithdrawDisplay \/ DrawPixel \/ AdvanceFrameId
  \/ SetController \/ OnSourcesChanged \/ BumpGeneration \/ Destroy \/ Join
  \/ Poll \/ CopyPixel \/ Check \/ Publish \/ WorkerEnds
  \/ UpdateDeclare \/ Ask \/ ReadLatest \/ AnswerFrame

Spec == Init /\ [][Next]_vars

\* The threads run, and a frame of the host calls UpdateDeclare again; nothing is assumed
\* of the host's displays, of the daemon or of the plugin's unloading.
FairSpec == Spec /\ WF_vars(CaptureStep) /\ WF_vars(ApiStep) /\ WF_vars(UpdateDeclare)

(***************************************************************************)
(* Properties.                                                             *)
(***************************************************************************)

Frames   == {m_published, m_workerTap, held} \ {NoFrame}
PixelOf  == (0 .. MaxLives) \X Nat
FrameType == [id : Nat, size : Nat, gen : Nat, px : [Pixels -> PixelOf]]

\* Every variable keeps its type; a frame that left the capture thread has an id, a size
\* and the generation of a source (DmdTap.h, VpxSessionSource.h's TapView).
TypeOK ==
  /\ shown \subseteq Displays /\ going \subseteq Displays /\ lives \in 0 .. MaxLives
  /\ drawn \in [Displays -> [of : 0 .. MaxLives, id : Nat, buf : [Pixels -> Nat]]]
  /\ m_source \in Displays \cup {NoSource} /\ selected \in Displays \cup {NoSource}
  /\ m_hasSource \in BOOLEAN /\ Len(sourceOf) = m_sourceGeneration + 1
  /\ api \in {"idle", "waiting", "bump", "joining", "gone"} /\ m_running \in BOOLEAN
  /\ pc \in {"sleep", "copy", "check", "publish", "done"} /\ left \subseteq Pixels
  /\ haveLast \in BOOLEAN /\ lastFrameId \in Nat /\ lastGeneration \in 0 .. m_sourceGeneration
  /\ {frame, m_published, m_workerTap, held} \subseteq FrameType
  /\ \A f \in Frames : f.id > 0 /\ f.size \in 1 .. MAX_PIXELS /\ f.gen \in 1 .. m_sourceGeneration
  /\ {m_posted, m_apiTap} \subseteq [size : 0 .. MAX_PIXELS, gen : 0 .. m_sourceGeneration]

\* The capture thread reads only a display that its controller has not freed: a source
\* change waits for the read in flight, and the destructor joins before it unsubscribes.
ReadWhileAlive == Locked => m_source \in shown \cup going

\* A frame that anyone holds was drawn, every pixel of it, by the source whose generation
\* and size it carries, whatever was selected between its copy and its use.
OfOneSource ==
  \A f \in Frames : /\ f.size = sourceOf[f.gen + 1].size
                    /\ \A p \in Pixels : f.px[p][1] = sourceOf[f.gen + 1].of

\* A source is a display of the emulating controller itself, with identify frames, and
\* colorizers' displays are never read, whatever is published while the controller changes.
OnlyTheController ==
  m_hasSource => m_source.endpoint \in Controllers /\ m_source.identify

\* What the second GetIdentifyFrame gives: when a frame is captured under an id, each of its
\* pixels is of that frame, or of one that the producer has not finished drawing; none is of
\* a frame that has replaced it.
NeverReplaced ==
  Check /\ pc' = "publish" =>
    \A p \in Pixels : frame.px[p][2] = frame.id \/ frame.px[p][2] > drawn[m_source].id

\* README.md: the tap "double-buffers so a consumer never sees a torn frame".
NeverTorn == \A f \in Frames : \A p \in Pixels : f.px[p][2] = f.id

\* A daemon that is told "unchanged" holds, pixel by pixel, the frame it would have been sent.
UnchangedTruly == Serves /\ Unchanged(held, m_workerTap) => held = m_workerTap

\* A frame is served only from a source that was selected after the request came: a source
\* lost or replaced earlier is never served again, although the tap keeps its last frame.
ServedFresh == Serves => m_workerTap.gen >= request.from

\* From the capture to the daemon a frame stays what its id says: not replaced before it is
\* captured, not outlived by its source when served, and "unchanged" only when it is.
ServedTruly == [][NeverReplaced /\ ServedFresh' /\ UnchangedTruly']_vars

\* The display declared is that of the source whose generation is declared with it.
DeclaredTruly == m_posted.size # 0 => m_posted.size = sourceOf[m_posted.gen + 1].size

\* Whatever displays come and go between the capture, the publish and the Declare, frames and
\* the declared display are of one source of the controller's own (SelectSource, Publish).
FrameOfItsSource == OfOneSource /\ OnlyTheController /\ DeclaredTruly

\* A source that has a frame the seqlock has room for is declared, unless a broadcast comes
\* first: the tap and Refresh settle on it, whatever the source before it left behind.
Declared ==
  (/\ follows = "declares" /\ api = "idle" /\ m_hasSource
   /\ m_source.size <= MAX_PIXELS /\ drawn[m_source].id > 0)
    ~> (m_posted = [size |-> m_source.size, gen |-> m_sourceGeneration] \/ api # "idle")

\* The destructor ends: nothing that the capture thread waits for is held by the API thread.
Joins == ~m_running ~> api = "gone"

\* The tap's threads get on: a source that can be served is declared, and the destructor ends.
TapProgress == Declared /\ Joins
=============================================================================
