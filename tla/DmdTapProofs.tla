---------------------------- MODULE DmdTapProofs ----------------------------
(***************************************************************************)
(* Theorems about DmdTap, for every set of displays and controllers, every *)
(* size of the seqlock and every number of frames and publications.        *)
(***************************************************************************)
EXTENDS DmdTap, SequenceTheorems, TLAPS

-----------------------------------------------------------------------------
(* The inductive invariant.                                                *)

Publication == [of : 0 .. MaxLives, size : Nat]
Declaration == [size : Nat, gen : Nat]
RequestType == [step : {"none", "frame", "generation"}, has : BOOLEAN, have : BOOLEAN, from : Nat]
Drawing     == [of : 0 .. MaxLives, id : Nat, buf : [Pixels -> Nat]]

TypeInv ==
  /\ shown \subseteq Displays /\ going \subseteq Displays /\ lives \in 0 .. MaxLives
  /\ drawn \in [Displays -> Drawing]
  /\ m_controllerEndpointId \in Controllers \cup {"none"}
  /\ m_source \in Displays \cup {NoSource} /\ selected \in Displays \cup {NoSource}
  /\ m_hasSource \in BOOLEAN /\ m_sourceGeneration \in Nat
  /\ sourceOf \in Seq(Publication) /\ Len(sourceOf) = m_sourceGeneration + 1
  /\ api \in {"idle", "waiting", "bump", "joining", "gone"} /\ m_running \in BOOLEAN
  /\ pc \in {"sleep", "copy", "check", "publish", "done"} /\ left \in SUBSET Pixels
  /\ haveLast \in BOOLEAN /\ lastFrameId \in Nat /\ lastGeneration \in 0 .. m_sourceGeneration
  /\ frame \in FrameType /\ m_published \in FrameType /\ m_workerTap \in FrameType
  /\ held \in FrameType
  /\ m_posted \in Declaration /\ m_apiTap \in Declaration
  /\ request \in RequestType /\ request.from <= m_sourceGeneration

\* A display is being drawn in order: a pixel is of the current frame or of the next one.
DrawnInv == \A d \in Displays, p \in Pixels : drawn[d].buf[p] \in {drawn[d].id, drawn[d].id + 1}

\* What the selected source is, and who keeps it alive while the API thread is where it is.
SourceInv ==
  /\ selected # NoSource => selected.endpoint \in Controllers /\ selected.identify
  /\ m_hasSource => /\ m_source # NoSource
                    /\ m_source.endpoint \in Controllers /\ m_source.identify
                    /\ api # "bump" =>
                         /\ m_sourceGeneration > 0
                         /\ sourceOf[m_sourceGeneration + 1] =
                              [of |-> drawn[m_source].of, size |-> m_source.size]
  /\ api \in {"idle", "bump", "joining"} /\ m_hasSource => m_source \in shown
  /\ api = "waiting" => /\ m_hasSource => m_source \in shown \cup going
                        /\ selected \in shown \cup {NoSource}
  /\ api = "idle" => going = {}
  /\ api = "gone" => pc = "done"
  /\ pc = "done" => ~m_running
  /\ Locked => m_hasSource /\ api # "bump"

\* The copy: what has been copied is the source's own, and of no frame before the one wanted.
CopyInv ==
  /\ pc \in {"sleep", "done"} => frame = NoFrame
  /\ pc = "copy" => left # {}
  /\ pc # "copy" => left = {}
  /\ Locked => /\ 0 < frame.id /\ frame.id <= drawn[m_source].id
               /\ lastGeneration = m_sourceGeneration
               /\ haveLast => lastFrameId < frame.id
               /\ \A p \in Pixels \ left : /\ frame.px[p][1] = drawn[m_source].of
                                           /\ frame.px[p][2] >= frame.id

\* A frame is what its generation says it is.
Stamped(f, gen, sources) ==
  /\ f.id > 0 /\ f.gen \in 1 .. gen
  /\ f.size = sources[f.gen + 1].size /\ f.size > 0
  /\ \A p \in Pixels : f.px[p][1] = sources[f.gen + 1].of

Fits(f) == f # NoFrame => Stamped(f, m_sourceGeneration, sourceOf) /\ f.size <= MAX_PIXELS

FrameInv ==
  /\ Fits(m_published) /\ Fits(m_workerTap) /\ Fits(held)
  /\ pc = "publish" => Stamped(frame, m_sourceGeneration, sourceOf)

\* The order in which frames are captured: by source, then by frame id.
Before(f, g) == f = NoFrame \/ f.gen < g.gen \/ (f.gen = g.gen /\ f.id < g.id)

NotAfter(f, g) == f = g \/ Before(f, g)

\* Frames of the source selected now are remembered by the duplicate check.
Remembered(f) ==
  (f # NoFrame /\ f.gen = m_sourceGeneration) =>
     /\ haveLast /\ lastGeneration = m_sourceGeneration /\ f.id <= lastFrameId
     /\ m_hasSource \/ api = "bump"

OrderInv ==
  /\ NotAfter(held, m_workerTap) /\ NotAfter(m_workerTap, m_published)
  /\ pc = "publish" => Before(m_published, frame) /\ Remembered(frame)
  /\ Remembered(m_published)
  /\ (m_hasSource /\ api # "bump" /\ haveLast /\ lastGeneration = m_sourceGeneration) =>
       lastFrameId <= drawn[m_source].id

\* A display that is declared is its generation's.
Declares(d, gen, sources) ==
  /\ d.gen <= gen
  /\ d.size <= MAX_PIXELS
  /\ d.size # 0 => d.size = sources[d.gen + 1].size

DeclareInv ==
  /\ Declares(m_apiTap, m_sourceGeneration, sourceOf)
  /\ Declares(m_posted, m_sourceGeneration, sourceOf)

IInv == TypeInv /\ DrawnInv /\ SourceInv /\ CopyInv /\ FrameInv /\ OrderInv /\ DeclareInv

-----------------------------------------------------------------------------
(* Lemmas.                                                                 *)

\* What was stamped with a generation stays so when another source is selected.
LEMMA StampedStays ==
  ASSUME NEW g \in Nat, NEW so \in Seq(Publication), Len(so) = g + 1, NEW x \in Publication,
         NEW f, Stamped(f, g, so)
  PROVE  Stamped(f, g + 1, Append(so, x))
<1>1. f.gen \in 1 .. g /\ f.gen + 1 \in 1 .. Len(so)
  BY DEF Stamped
<1>2. Append(so, x)[f.gen + 1] = so[f.gen + 1]
  BY <1>1, AppendProperties
<1> QED
  BY <1>1, <1>2 DEF Stamped

LEMMA DeclaresStays ==
  ASSUME NEW g \in Nat, NEW so \in Seq(Publication), Len(so) = g + 1, NEW x \in Publication,
         NEW d \in Declaration, Declares(d, g, so)
  PROVE  Declares(d, g + 1, Append(so, x))
<1>1. d.gen \in 0 .. g /\ d.gen + 1 \in 1 .. Len(so)
  BY DEF Declares, Declaration
<1>2. Append(so, x)[d.gen + 1] = so[d.gen + 1]
  BY <1>1, AppendProperties
<1> QED
  BY <1>1, <1>2 DEF Declares, Declaration

\* The order of frames is transitive.
LEMMA NotAfterBefore ==
  ASSUME NEW f \in FrameType, NEW g \in FrameType, NEW h \in FrameType,
         NotAfter(f, g), Before(g, h)
  PROVE  Before(f, h)
<1>1. f.id \in Nat /\ f.gen \in Nat /\ g.id \in Nat /\ g.gen \in Nat /\ h.id \in Nat /\ h.gen \in Nat
  BY DEF FrameType
<1>2. g = NoFrame => g.id = 0 /\ g.gen = 0
  BY DEF NoFrame
<1> QED
  BY <1>1, <1>2 DEF NotAfter, Before

LEMMA NotAfterTransitive ==
  ASSUME NEW f \in FrameType, NEW g \in FrameType, NEW h \in FrameType,
         NotAfter(f, g), NotAfter(g, h)
  PROVE  NotAfter(f, h)
<1> QED
  BY NotAfterBefore DEF NotAfter

LEMMA NoFrameType == NoFrame \in FrameType
<1>1. [p \in Pixels |-> <<0, 0>>] \in [Pixels -> PixelOf]
  BY DmdTapAssumption DEF PixelOf, DmdTapAssumption
<1> QED
  BY <1>1 DEF NoFrame, FrameType

\* A publication begins with nothing drawn.
LEMMA BlankType ==
  ASSUME NEW life \in 0 .. MaxLives
  PROVE  /\ Blank(life) \in Drawing /\ Blank(life).of = life
         /\ \A p \in Pixels : Blank(life).buf[p] = Blank(life).id
<1>1. [p \in Pixels |-> 0] \in [Pixels -> Nat]
  OBVIOUS
<1> QED
  BY <1>1 DEF Blank, Drawing

\* What FilterSources selects.
LEMMA SelectedIs ==
  ASSUME NEW c \in Controllers \cup {"none"}, NEW items, NEW s \in Largest(Conforming(c, items)),
         s # NoSource
  PROVE  s \in items /\ s.endpoint \in Controllers /\ s.identify
<1>1. s \in Conforming(c, items)
  BY DEF Largest
<1> QED
  BY <1>1 DEF Conforming

\* The display a controller draws into now is one whose geometry is known.
LEMMA SourceType ==
  ASSUME TypeInv, m_hasSource, m_source # NoSource
  PROVE  /\ m_source \in Displays /\ m_source.size \in Nat \ {0}
         /\ drawn[m_source].of \in 0 .. MaxLives /\ drawn[m_source].id \in Nat
         /\ \A p \in Pixels : drawn[m_source].buf[p] \in Nat
<1>1. m_source \in Displays
  BY DEF TypeInv
<1>2. drawn[m_source] \in Drawing
  BY <1>1 DEF TypeInv
<1> QED
  BY <1>1, <1>2, DmdTapAssumption DEF DmdTapAssumption, Drawing

-----------------------------------------------------------------------------
(* The initial state and the host's displays.                              *)

LEMMA InitInv == Init => IInv
<1> SUFFICES ASSUME Init PROVE IInv
  OBVIOUS
<1> USE DmdTapAssumption DEF Init, IInv
<1>1. NoFrame \in FrameType
  BY NoFrameType
<1>2. Blank(0) \in Drawing /\ \A p \in Pixels : Blank(0).buf[p] = Blank(0).id
  BY BlankType DEF DmdTapAssumption
<1>3. [of |-> 0, size |-> 0] \in Publication
  BY DEF Publication, DmdTapAssumption
<1>4. sourceOf \in Seq(Publication) /\ Len(sourceOf) = 1
  BY <1>3
<1>5. Undeclared \in Declaration /\ NoRequest \in RequestType /\ NoRequest.from = 0
  BY DEF Undeclared, Declaration, NoRequest, RequestType
<1>6. TypeInv
  <2>1. drawn \in [Displays -> Drawing] /\ lives \in 0 .. MaxLives
    BY <1>2 DEF DmdTapAssumption
  <2>2. frame \in FrameType /\ m_published \in FrameType /\ m_workerTap \in FrameType /\ held \in FrameType
    BY <1>1
  <2>3. m_posted \in Declaration /\ m_apiTap \in Declaration /\ request \in RequestType
        /\ request.from <= m_sourceGeneration
    BY <1>5
  <2>4. /\ shown \subseteq Displays /\ going \subseteq Displays /\ left \in SUBSET Pixels
        /\ m_controllerEndpointId \in Controllers \cup {"none"}
        /\ m_source \in Displays \cup {NoSource} /\ selected \in Displays \cup {NoSource}
        /\ m_hasSource \in BOOLEAN /\ m_running \in BOOLEAN /\ haveLast \in BOOLEAN
        /\ api = "idle" /\ pc = "sleep"
    OBVIOUS
  <2>5. /\ m_sourceGeneration \in Nat /\ lastFrameId \in Nat
        /\ lastGeneration \in 0 .. m_sourceGeneration /\ m_sourceGeneration + 1 = 1
    OBVIOUS
  <2> HIDE DEF Init
  <2> QED
    BY <1>4, <2>1, <2>2, <2>3, <2>4, <2>5 DEF TypeInv
<1>7. DrawnInv
  <2>1. \A d \in Displays : drawn[d] = Blank(0)
    OBVIOUS
  <2> QED
    BY <1>2, <2>1 DEF DrawnInv, Drawing
<1>8. SourceInv /\ CopyInv
  BY DEF SourceInv, CopyInv, Locked
<1>9. FrameInv /\ OrderInv
  BY DEF FrameInv, OrderInv, Fits, NotAfter, Remembered
<1>10. DeclareInv
  BY DEF DeclareInv, Declares, Undeclared, DmdTapAssumption
<1> QED
  BY <1>6, <1>7, <1>8, <1>9, <1>10

\* A new publication is of no display that the API thread, idle, has selected.
LEMMA PublishDisplayInv == IInv /\ PublishDisplay => IInv'
<1> SUFFICES ASSUME IInv, PublishDisplay PROVE IInv'
  OBVIOUS
<1> USE DEF IInv
<1>0. /\ lives < MaxLives /\ api = "idle"
      /\ UNCHANGED <<going, m_controllerEndpointId, calls, m_source, m_hasSource, m_sourceGeneration, sourceOf>>
      /\ UNCHANGED <<m_running, pc, lastGeneration, lastFrameId, haveLast, frame, left, m_published>>
      /\ UNCHANGED <<m_apiTap, m_posted, follows, m_workerTap, request, held>>
  BY DEF PublishDisplay, capture, daemon
<1>1. PICK d \in Displays \ shown :
        /\ shown' = shown \cup {d} /\ lives' = lives + 1
        /\ drawn' = [drawn EXCEPT ![d] = Blank(lives')]
        /\ Broadcast(m_controllerEndpointId, shown')
  BY DEF PublishDisplay
<1>2. PICK s \in Largest(Conforming(m_controllerEndpointId, shown')) : selected' = s /\ api' = "waiting"
  BY <1>0, <1>1 DEF Broadcast
<1>3. selected' # NoSource => /\ selected' \in shown'
                              /\ selected'.endpoint \in Controllers /\ selected'.identify
  BY <1>2, SelectedIs DEF TypeInv
<1>4. lives' \in 0 .. MaxLives
  BY <1>0, <1>1, DmdTapAssumption DEF TypeInv, DmdTapAssumption
<1>5. drawn \in [Displays -> Drawing]
  BY DEF TypeInv
<1>6. Blank(lives') \in Drawing /\ \A p \in Pixels : Blank(lives').buf[p] = Blank(lives').id
  BY <1>4, BlankType
<1>7. /\ drawn' \in [Displays -> Drawing]
      /\ drawn'[d] = Blank(lives') /\ \A e \in Displays \ {d} : drawn'[e] = drawn[e]
  BY <1>1, <1>5, <1>6
<1>8. m_hasSource => drawn'[m_source] = drawn[m_source]
  BY <1>0, <1>7 DEF SourceInv, TypeInv
<1>9. TypeInv'
  BY <1>0, <1>1, <1>2, <1>3, <1>4, <1>7 DEF TypeInv
<1>10. DrawnInv'
  BY <1>6, <1>7 DEF DrawnInv, Drawing
<1>11. SourceInv'
  BY <1>0, <1>1, <1>2, <1>3, <1>8 DEF SourceInv, Locked
<1>12. CopyInv'
  BY <1>0, <1>8 DEF CopyInv, SourceInv, Locked
<1>13. FrameInv' /\ DeclareInv'
  BY <1>0 DEF FrameInv, Fits, DeclareInv
<1>14. OrderInv'
  BY <1>0, <1>2, <1>8 DEF OrderInv, Remembered
<1> QED
  BY <1>9, <1>10, <1>11, <1>12, <1>13, <1>14

\* A withdrawn display is going until its broadcast has returned.
LEMMA WithdrawDisplayInv == IInv /\ WithdrawDisplay => IInv'
<1> SUFFICES ASSUME IInv, WithdrawDisplay PROVE IInv'
  OBVIOUS
<1> USE DEF IInv
<1>0. /\ UNCHANGED <<drawn, lives, m_controllerEndpointId, calls, m_source, m_hasSource, m_sourceGeneration, sourceOf>>
      /\ UNCHANGED <<m_running, pc, lastGeneration, lastFrameId, haveLast, frame, left, m_published>>
      /\ UNCHANGED <<m_apiTap, m_posted, follows, m_workerTap, request, held>>
  BY DEF WithdrawDisplay, capture, daemon
<1>1. PICK d \in shown :
        /\ shown' = shown \ {d} /\ Broadcast(m_controllerEndpointId, shown')
        /\ going' = IF api = "idle" THEN {d} ELSE {}
  BY DEF WithdrawDisplay
<1>2. \/ api = "idle" /\ api' = "waiting" /\ going' = {d}
      \/ api = "gone" /\ UNCHANGED <<api, selected>> /\ going' = {}
  BY <1>1 DEF Broadcast
<1>3. api = "idle" /\ selected' # NoSource =>
        /\ selected' \in shown' /\ selected'.endpoint \in Controllers /\ selected'.identify
  BY <1>1, SelectedIs DEF TypeInv, Broadcast
<1>4. TypeInv'
  BY <1>0, <1>1, <1>2, <1>3 DEF TypeInv
<1>5. DrawnInv' /\ FrameInv' /\ DeclareInv'
  BY <1>0 DEF DrawnInv, FrameInv, Fits, DeclareInv
<1>6. SourceInv'
  BY <1>0, <1>1, <1>2, <1>3 DEF SourceInv, Locked
<1>7. CopyInv'
  BY <1>0 DEF CopyInv, Locked
<1>8. OrderInv'
  BY <1>0, <1>2 DEF OrderInv, Remembered
<1> QED
  BY <1>4, <1>5, <1>6, <1>7, <1>8

\* The pixel drawn is ahead of the frame that may be copied.
LEMMA DrawPixelInv == IInv /\ DrawPixel => IInv'
<1> SUFFICES ASSUME IInv, DrawPixel PROVE IInv'
  OBVIOUS
<1> USE DEF IInv
<1>0. /\ UNCHANGED <<shown, going, lives, m_controllerEndpointId, calls, selected, m_source, m_hasSource>>
      /\ UNCHANGED <<m_sourceGeneration, sourceOf, api>>
      /\ UNCHANGED <<m_running, pc, lastGeneration, lastFrameId, haveLast, frame, left, m_published>>
      /\ UNCHANGED <<m_apiTap, m_posted, follows, m_workerTap, request, held>>
  BY DEF DrawPixel, capture, daemon, source
<1>1. PICK d \in shown, p \in Pixels : /\ drawn[d].buf[p] = drawn[d].id
                                       /\ drawn' = [drawn EXCEPT ![d].buf[p] = @ + 1]
  BY DEF DrawPixel
<1>2. d \in Displays /\ drawn \in [Displays -> Drawing]
  BY DEF TypeInv
<1>3. /\ drawn[d] \in Drawing /\ drawn[d].id \in Nat /\ drawn[d].buf \in [Pixels -> Nat]
  BY <1>2 DEF Drawing
<1>4. /\ drawn'[d] = [drawn[d] EXCEPT !.buf = [drawn[d].buf EXCEPT ![p] = drawn[d].id + 1]]
      /\ \A e \in Displays \ {d} : drawn'[e] = drawn[e]
      /\ DOMAIN drawn' = Displays
  BY <1>1, <1>2
<1>5. /\ drawn'[d] \in Drawing /\ drawn'[d].of = drawn[d].of /\ drawn'[d].id = drawn[d].id
      /\ drawn'[d].buf[p] = drawn[d].id + 1
      /\ \A q \in Pixels \ {p} : drawn'[d].buf[q] = drawn[d].buf[q]
  BY <1>3, <1>4 DEF Drawing
<1>6. drawn' \in [Displays -> Drawing]
  BY <1>1, <1>2, <1>4, <1>5
<1>7. \A e \in Displays : drawn'[e].of = drawn[e].of /\ drawn'[e].id = drawn[e].id
  BY <1>4, <1>5
<1>8. m_hasSource => m_source \in Displays
  BY DEF SourceInv, TypeInv
<1>9. TypeInv'
  BY <1>0, <1>6 DEF TypeInv
<1>10. DrawnInv'
  BY <1>3, <1>4, <1>5 DEF DrawnInv
<1>11. SourceInv'
  BY <1>0, <1>7, <1>8 DEF SourceInv, Locked
<1>12. CopyInv'
  BY <1>0, <1>7, <1>8 DEF CopyInv, SourceInv, Locked
<1>13. FrameInv' /\ DeclareInv'
  BY <1>0 DEF FrameInv, Fits, DeclareInv
<1>14. OrderInv'
  BY <1>0, <1>7, <1>8 DEF OrderInv, Remembered
<1> QED
  BY <1>9, <1>10, <1>11, <1>12, <1>13, <1>14

\* A finished frame is never older than the one being copied.
LEMMA AdvanceFrameIdInv == IInv /\ AdvanceFrameId => IInv'
<1> SUFFICES ASSUME IInv, AdvanceFrameId PROVE IInv'
  OBVIOUS
<1> USE DEF IInv
<1>0. /\ UNCHANGED <<shown, going, lives, m_controllerEndpointId, calls, selected, m_source, m_hasSource>>
      /\ UNCHANGED <<m_sourceGeneration, sourceOf, api>>
      /\ UNCHANGED <<m_running, pc, lastGeneration, lastFrameId, haveLast, frame, left, m_published>>
      /\ UNCHANGED <<m_apiTap, m_posted, follows, m_workerTap, request, held>>
  BY DEF AdvanceFrameId, capture, daemon, source
<1>1. PICK d \in shown : /\ \A p \in Pixels : drawn[d].buf[p] = drawn[d].id + 1
                         /\ drawn' = [drawn EXCEPT ![d].id = @ + 1]
  BY DEF AdvanceFrameId
<1>2. d \in Displays /\ drawn \in [Displays -> Drawing] /\ drawn[d] \in Drawing /\ drawn[d].id \in Nat
  BY DEF TypeInv, Drawing
<1>3. /\ drawn'[d] = [drawn[d] EXCEPT !.id = drawn[d].id + 1]
      /\ \A e \in Displays \ {d} : drawn'[e] = drawn[e]
      /\ DOMAIN drawn' = Displays
  BY <1>1, <1>2
<1>4. /\ drawn'[d] \in Drawing /\ drawn'[d].of = drawn[d].of /\ drawn'[d].id = drawn[d].id + 1
      /\ drawn'[d].buf = drawn[d].buf
  BY <1>2, <1>3 DEF Drawing
<1>5. drawn' \in [Displays -> Drawing]
  BY <1>1, <1>2, <1>3, <1>4
<1>6. \A e \in Displays : drawn'[e].of = drawn[e].of /\ drawn'[e].id >= drawn[e].id /\ drawn[e].id \in Nat
  BY <1>2, <1>3, <1>4 DEF Drawing
<1>7. m_hasSource => m_source \in Displays
  BY DEF SourceInv, TypeInv
<1>8. frame.id \in Nat /\ lastFrameId \in Nat /\ drawn' \in [Displays -> Drawing]
  BY <1>5 DEF TypeInv, FrameType
<1>9. \A e \in Displays : drawn'[e].id \in Nat
  BY <1>5 DEF Drawing
<1>10. TypeInv'
  BY <1>0, <1>5 DEF TypeInv
<1>11. DrawnInv'
  BY <1>1, <1>2, <1>3, <1>4 DEF DrawnInv
<1>12. SourceInv'
  BY <1>0, <1>6, <1>7 DEF SourceInv, Locked
<1>13. CopyInv'
  BY <1>0, <1>6, <1>7, <1>8, <1>9 DEF CopyInv, SourceInv, Locked
<1>14. FrameInv' /\ DeclareInv'
  BY <1>0 DEF FrameInv, Fits, DeclareInv
<1>15. OrderInv'
  BY <1>0, <1>6, <1>7, <1>8, <1>9 DEF OrderInv, Remembered
<1> QED
  BY <1>10, <1>11, <1>12, <1>13, <1>14, <1>15

-----------------------------------------------------------------------------
(* The API thread.                                                         *)

\* Another controller: what is selected is a display of that one.
LEMMA SetControllerInv == IInv /\ SetController => IInv'
<1> SUFFICES ASSUME IInv, SetController PROVE IInv'
  OBVIOUS
<1> USE DEF IInv
<1>0. /\ api = "idle"
      /\ UNCHANGED <<shown, going, lives, drawn, m_source, m_hasSource, m_sourceGeneration, sourceOf>>
      /\ UNCHANGED <<m_running, pc, lastGeneration, lastFrameId, haveLast, frame, left, m_published>>
      /\ UNCHANGED <<m_apiTap, m_posted, follows, m_workerTap, request, held>>
  BY DEF SetController, host, capture, daemon
<1>1. PICK c \in (Controllers \cup {"none"}) \ {m_controllerEndpointId} :
        m_controllerEndpointId' = c /\ Broadcast(c, shown)
  BY DEF SetController
<1>2. PICK s \in Largest(Conforming(c, shown)) : selected' = s /\ api' = "waiting"
  BY <1>0, <1>1 DEF Broadcast
<1>3. selected' # NoSource => /\ selected' \in shown
                              /\ selected'.endpoint \in Controllers /\ selected'.identify
  BY <1>2, SelectedIs
<1>4. TypeInv'
  BY <1>0, <1>1, <1>2, <1>3 DEF TypeInv
<1>5. DrawnInv' /\ FrameInv' /\ DeclareInv'
  BY <1>0 DEF DrawnInv, FrameInv, Fits, DeclareInv
<1>6. SourceInv' /\ CopyInv'
  BY <1>0, <1>2, <1>3 DEF SourceInv, CopyInv, Locked
<1>7. OrderInv'
  BY <1>0, <1>2 DEF OrderInv, Remembered
<1> QED
  BY <1>4, <1>5, <1>6, <1>7

\* The source changes only while no read is in flight.
LEMMA OnSourcesChangedInv == IInv /\ OnSourcesChanged => IInv'
<1> SUFFICES ASSUME IInv, OnSourcesChanged PROVE IInv'
  OBVIOUS
<1> USE DEF IInv
<1>0. /\ api = "waiting" /\ ~Locked
      /\ UNCHANGED <<m_controllerEndpointId, calls, selected, m_sourceGeneration, sourceOf, shown, drawn, lives>>
      /\ UNCHANGED <<m_running, pc, lastGeneration, lastFrameId, haveLast, frame, left, m_published>>
      /\ UNCHANGED <<m_apiTap, m_posted, follows, m_workerTap, request, held>>
  BY DEF OnSourcesChanged, capture, daemon
<1>1. \/ /\ selected # NoSource /\ m_hasSource /\ m_source = selected
         /\ api' = "idle" /\ going' = {} /\ UNCHANGED <<m_source, m_hasSource>>
      \/ /\ m_source' = selected /\ m_hasSource' = (selected # NoSource)
         /\ api' = "bump" /\ UNCHANGED going
  BY DEF OnSourcesChanged
<1>2. pc \notin {"copy", "check"}
  BY <1>0 DEF Locked
<1>3. TypeInv'
  BY <1>0, <1>1 DEF TypeInv
<1>4. DrawnInv' /\ FrameInv' /\ DeclareInv'
  BY <1>0 DEF DrawnInv, FrameInv, Fits, DeclareInv
<1>5. SourceInv'
  BY <1>0, <1>1, <1>2 DEF SourceInv, Locked
<1>6. CopyInv'
  BY <1>0, <1>2 DEF CopyInv, Locked
<1>7. OrderInv'
  BY <1>0, <1>1 DEF OrderInv, Remembered
<1> QED
  BY <1>3, <1>4, <1>5, <1>6, <1>7

\* Nothing is of the new generation yet; everything else keeps its own.
LEMMA BumpGenerationInv == IInv /\ BumpGeneration => IInv'
<1> SUFFICES ASSUME IInv, BumpGeneration PROVE IInv'
  OBVIOUS
<1> USE DEF IInv
<1> DEFINE x == IF m_hasSource THEN [of |-> drawn[m_source].of, size |-> m_source.size]
                ELSE [of |-> 0, size |-> 0]
<1>0. /\ api = "bump" /\ api' = "idle" /\ going' = {}
      /\ m_sourceGeneration' = m_sourceGeneration + 1
      /\ sourceOf' = Append(sourceOf, x)
      /\ UNCHANGED <<m_controllerEndpointId, calls, selected, m_source, m_hasSource, shown, drawn, lives>>
      /\ UNCHANGED <<m_running, pc, lastGeneration, lastFrameId, haveLast, frame, left, m_published>>
      /\ UNCHANGED <<m_apiTap, m_posted, follows, m_workerTap, request, held>>
  BY DEF BumpGeneration, capture, daemon
<1>1. x \in Publication
  BY SourceType, DmdTapAssumption DEF SourceInv, Publication, DmdTapAssumption
<1>2. m_hasSource => x = [of |-> drawn[m_source].of, size |-> m_source.size]
  OBVIOUS
<1> HIDE DEF x
<1>3. /\ m_sourceGeneration \in Nat /\ sourceOf \in Seq(Publication)
      /\ Len(sourceOf) = m_sourceGeneration + 1
  BY DEF TypeInv
<1>4. /\ sourceOf' \in Seq(Publication) /\ Len(sourceOf') = m_sourceGeneration' + 1
      /\ sourceOf'[m_sourceGeneration' + 1] = x
  BY <1>0, <1>1, <1>3, AppendProperties
<1>5. \A f : Stamped(f, m_sourceGeneration, sourceOf) => Stamped(f, m_sourceGeneration', sourceOf')
  BY <1>0, <1>1, <1>3, StampedStays
<1>6. \A d \in Declaration : Declares(d, m_sourceGeneration, sourceOf) => Declares(d, m_sourceGeneration', sourceOf')
  BY <1>0, <1>1, <1>3, DeclaresStays
<1>7. pc \notin {"copy", "check"}
  BY <1>0 DEF SourceInv, Locked
<1>8. TypeInv'
  <2>1. request.from \in Nat
    BY DEF TypeInv, RequestType
  <2>2. m_sourceGeneration' \in Nat /\ lastGeneration' \in 0 .. m_sourceGeneration'
        /\ request'.from <= m_sourceGeneration'
    BY <1>0, <1>3, <2>1 DEF TypeInv
  <2> QED
    BY <1>0, <1>4, <2>2 DEF TypeInv
<1>9. DrawnInv'
  BY <1>0 DEF DrawnInv
<1>10. SourceInv'
  BY <1>0, <1>2, <1>3, <1>4, <1>7 DEF SourceInv, Locked
<1>11. CopyInv'
  BY <1>0, <1>7 DEF CopyInv, Locked
<1>12. FrameInv'
  BY <1>0, <1>5 DEF FrameInv, Fits
<1>13. DeclareInv'
  BY <1>0, <1>6 DEF DeclareInv, TypeInv
<1>14. OrderInv'
  <2>1. m_published # NoFrame => m_published.gen \in 1 .. m_sourceGeneration
    BY DEF FrameInv, Fits, Stamped
  <2>2. pc = "publish" => frame.gen \in 1 .. m_sourceGeneration
    BY DEF FrameInv, Stamped
  <2>3. Remembered(m_published)'
    BY <1>0, <1>3, <2>1 DEF Remembered
  <2>4. pc = "publish" => Remembered(frame)'
    BY <1>0, <1>3, <2>2 DEF Remembered
  <2>5. lastGeneration # m_sourceGeneration'
    BY <1>0, <1>3 DEF TypeInv
  <2> QED
    BY <1>0, <2>3, <2>4, <2>5 DEF OrderInv
<1> QED
  BY <1>8, <1>9, <1>10, <1>11, <1>12, <1>13, <1>14

\* The destructor waits for the capture thread, and withdrawals wait for the destructor.
LEMMA DestroyInv == IInv /\ Destroy => IInv'
<1> SUFFICES ASSUME IInv, Destroy PROVE IInv'
  OBVIOUS
<1> USE DEF IInv
<1>0. /\ api = "idle" /\ m_running' = FALSE /\ api' = "joining"
      /\ UNCHANGED <<shown, going, lives, drawn, m_controllerEndpointId, calls, selected, m_source, m_hasSource>>
      /\ UNCHANGED <<m_sourceGeneration, sourceOf>>
      /\ UNCHANGED <<pc, lastGeneration, lastFrameId, haveLast, frame, left, m_published>>
      /\ UNCHANGED <<m_apiTap, m_posted, follows, m_workerTap, request, held>>
  BY DEF Destroy, host, source, capture, daemon
<1>1. TypeInv'
  BY <1>0 DEF TypeInv
<1>2. DrawnInv' /\ FrameInv' /\ DeclareInv'
  BY <1>0 DEF DrawnInv, FrameInv, Fits, DeclareInv
<1>3. SourceInv' /\ CopyInv'
  BY <1>0 DEF SourceInv, CopyInv, Locked
<1>4. OrderInv'
  BY <1>0 DEF OrderInv, Remembered
<1> QED
  BY <1>1, <1>2, <1>3, <1>4

LEMMA JoinInv == IInv /\ Join => IInv'
<1> SUFFICES ASSUME IInv, Join PROVE IInv'
  OBVIOUS
<1> USE DEF IInv
<1>0. /\ api = "joining" /\ pc = "done" /\ api' = "gone"
      /\ UNCHANGED <<shown, going, lives, drawn, m_controllerEndpointId, calls, selected, m_source, m_hasSource>>
      /\ UNCHANGED <<m_sourceGeneration, sourceOf, m_running>>
      /\ UNCHANGED <<pc, lastGeneration, lastFrameId, haveLast, frame, left, m_published>>
      /\ UNCHANGED <<m_apiTap, m_posted, follows, m_workerTap, request, held>>
  BY DEF Join, host, source, capture, daemon
<1>1. TypeInv'
  BY <1>0 DEF TypeInv
<1>2. DrawnInv' /\ FrameInv' /\ DeclareInv'
  BY <1>0 DEF DrawnInv, FrameInv, Fits, DeclareInv
<1>3. SourceInv' /\ CopyInv'
  BY <1>0 DEF SourceInv, CopyInv, Locked
<1>4. OrderInv'
  BY <1>0 DEF OrderInv, Remembered
<1> QED
  BY <1>1, <1>2, <1>3, <1>4

-----------------------------------------------------------------------------
(* The capture thread.                                                     *)

\* A frame worth copying is newer than everything captured of its source.
LEMMA PollInv == IInv /\ Poll => IInv'
<1> SUFFICES ASSUME IInv, Poll PROVE IInv'
  OBVIOUS
<1> USE DEF IInv
<1>0. /\ pc = "sleep" /\ m_running /\ api # "bump"
      /\ UNCHANGED <<shown, going, lives, drawn, m_controllerEndpointId, calls, selected, m_source, m_hasSource>>
      /\ UNCHANGED <<m_sourceGeneration, sourceOf, api, m_running, lastFrameId, m_published>>
      /\ UNCHANGED <<m_apiTap, m_posted, follows, m_workerTap, request, held>>
  BY DEF Poll, host, source, daemon
<1>1. left = {} /\ frame = NoFrame
  BY <1>0 DEF CopyInv
<1>2. DrawnInv' /\ DeclareInv'
  BY <1>0 DEF DrawnInv, DeclareInv
<1>3. m_sourceGeneration \in Nat /\ lastFrameId \in Nat /\ haveLast \in BOOLEAN
  BY DEF TypeInv
<1>4. CASE ~m_hasSource
  <2>0. haveLast' = FALSE /\ UNCHANGED <<pc, lastGeneration, frame, left>>
    BY <1>4 DEF Poll
  <2>1. TypeInv' /\ FrameInv'
    BY <1>0, <2>0 DEF TypeInv, FrameInv, Fits
  <2>2. SourceInv' /\ CopyInv'
    BY <1>0, <1>1, <2>0 DEF SourceInv, CopyInv, Locked
  <2>3. m_published = NoFrame \/ m_published.gen # m_sourceGeneration
    BY <1>0, <1>4 DEF OrderInv, Remembered
  <2>4. OrderInv'
    BY <1>0, <1>4, <2>0, <2>3 DEF OrderInv, Remembered
  <2> QED
    BY <1>2, <2>1, <2>2, <2>4
<1>5. CASE m_hasSource
  <2> DEFINE id == drawn[m_source].id
  <2>0. haveLast' = Known /\ lastGeneration' = m_sourceGeneration
    BY <1>5 DEF Poll
  <2>1. \/ UNCHANGED <<pc, frame, left>>
        \/ /\ id # 0 /\ ~(Known /\ id = lastFrameId)
           /\ pc' = "copy" /\ left' = Pixels /\ frame' = [NoFrame EXCEPT !.id = id]
    BY <1>5 DEF Poll
  <2>2. m_source \in Displays /\ id \in Nat
    BY <1>5, SourceType DEF SourceInv
  <2>3. Known => lastFrameId <= id
    BY <1>0, <1>5 DEF OrderInv, Known
  <2> HIDE DEF id
  <2>4. [NoFrame EXCEPT !.id = id] \in FrameType /\ [NoFrame EXCEPT !.id = id].id = id
    BY <2>2, NoFrameType DEF FrameType
  <2>5. TypeInv'
    <3>1. frame' \in FrameType /\ pc' \in {"sleep", "copy"} /\ left' \in SUBSET Pixels
      BY <1>0, <2>1, <2>4 DEF TypeInv
    <3>2. haveLast' \in BOOLEAN
      BY <1>3, <2>0 DEF Known
    <3> QED
      BY <1>0, <1>3, <2>0, <3>1, <3>2 DEF TypeInv
  <2>6. FrameInv'
    BY <1>0, <2>1 DEF FrameInv, Fits
  <2>7. SourceInv'
    BY <1>0, <1>5, <2>1 DEF SourceInv, Locked
  <2>8. CopyInv'
    <3>1. CASE UNCHANGED <<pc, frame, left>>
      BY <1>0, <1>1, <3>1 DEF CopyInv, Locked
    <3>2. CASE /\ id # 0 /\ ~(Known /\ id = lastFrameId)
               /\ pc' = "copy" /\ left' = Pixels /\ frame' = [NoFrame EXCEPT !.id = id]
      <4>1. frame'.id = id /\ drawn'[m_source'].id = id /\ Pixels # {}
        BY <1>0, <2>4, <3>2 DEF id, Pixels
      <4>2. haveLast' => lastFrameId < id
        BY <1>3, <2>0, <2>2, <2>3, <3>2
      <4> QED
        BY <1>0, <2>0, <2>2, <3>2, <4>1, <4>2 DEF CopyInv, Locked
    <3> QED
      BY <2>1, <3>1, <3>2
  <2>9. OrderInv'
    <3>1. pc' # "publish"
      BY <1>0, <2>1
    <3>2. Remembered(m_published)'
      BY <1>0, <1>5, <2>0 DEF OrderInv, Remembered, Known
    <3>3. haveLast' => lastFrameId <= drawn[m_source].id
      BY <2>0, <2>3 DEF id
    <3> QED
      BY <1>0, <3>1, <3>2, <3>3 DEF OrderInv
  <2> QED
    BY <1>2, <2>5, <2>6, <2>7, <2>8, <2>9
<1> QED
  BY <1>3, <1>4, <1>5 DEF TypeInv

\* A pixel is copied as its producer has drawn it.
LEMMA CopyPixelInv == IInv /\ CopyPixel => IInv'
<1> SUFFICES ASSUME IInv, CopyPixel PROVE IInv'
  OBVIOUS
<1> USE DEF IInv
<1>0. /\ pc = "copy" /\ pc' = IF left' = {} THEN "check" ELSE "copy"
      /\ UNCHANGED <<shown, going, lives, drawn, m_controllerEndpointId, calls, selected, m_source, m_hasSource>>
      /\ UNCHANGED <<m_sourceGeneration, sourceOf, api, m_running, lastGeneration, lastFrameId, haveLast, m_published>>
      /\ UNCHANGED <<m_apiTap, m_posted, follows, m_workerTap, request, held>>
  BY DEF CopyPixel, host, source, daemon
<1>1. PICK p \in left :
        /\ frame' = [frame EXCEPT !.px[p] = <<drawn[m_source].of, drawn[m_source].buf[p]>>]
        /\ left' = left \ {p}
  BY DEF CopyPixel
<1>2. m_hasSource /\ m_source # NoSource /\ api # "bump"
  BY <1>0 DEF SourceInv, Locked
<1>3. /\ m_source \in Displays /\ p \in Pixels /\ drawn[m_source].id \in Nat
      /\ drawn[m_source].of \in 0 .. MaxLives /\ drawn[m_source].buf[p] \in Nat
  BY <1>1, <1>2, SourceType DEF TypeInv
<1>4. drawn[m_source].buf[p] >= drawn[m_source].id
  BY <1>3 DEF DrawnInv
<1>5. <<drawn[m_source].of, drawn[m_source].buf[p]>> \in PixelOf
  BY <1>3 DEF PixelOf
<1>6. frame \in FrameType /\ frame.id \in Nat /\ frame.px \in [Pixels -> PixelOf]
  BY DEF TypeInv, FrameType
<1>7. /\ frame' \in FrameType /\ frame'.id = frame.id
      /\ frame'.px[p] = <<drawn[m_source].of, drawn[m_source].buf[p]>>
      /\ \A q \in Pixels \ {p} : frame'.px[q] = frame.px[q]
  BY <1>1, <1>3, <1>5, <1>6 DEF FrameType
<1>8. pc' \in {"copy", "check"} /\ (pc' = "copy" <=> left' # {})
  BY <1>0
<1>9. TypeInv'
  BY <1>0, <1>1, <1>7, <1>8 DEF TypeInv
<1>10. DrawnInv' /\ DeclareInv'
  BY <1>0 DEF DrawnInv, DeclareInv
<1>11. SourceInv'
  BY <1>0, <1>2, <1>8 DEF SourceInv, Locked
<1>12. CopyInv'
  <2>1. /\ 0 < frame.id /\ frame.id <= drawn[m_source].id
        /\ lastGeneration = m_sourceGeneration
        /\ haveLast => lastFrameId < frame.id
        /\ \A q \in Pixels \ left : frame.px[q][1] = drawn[m_source].of /\ frame.px[q][2] >= frame.id
    BY <1>0 DEF CopyInv, Locked
  <2>2. /\ frame'.px[p][1] = drawn[m_source].of /\ frame'.px[p][2] >= frame.id
    BY <1>3, <1>4, <1>6, <1>7, <2>1
  <2>3. \A q \in Pixels \ left' : frame'.px[q][1] = drawn[m_source].of /\ frame'.px[q][2] >= frame.id
    BY <1>1, <1>7, <2>1, <2>2
  <2> QED
    BY <1>0, <1>7, <1>8, <2>1, <2>3 DEF CopyInv, Locked
<1>13. FrameInv'
  BY <1>0, <1>8 DEF FrameInv, Fits
<1>14. OrderInv'
  BY <1>0, <1>8 DEF OrderInv, Remembered
<1> QED
  BY <1>9, <1>10, <1>11, <1>12, <1>13, <1>14

\* The frame that is kept is its source's, stamped before the source can change.
LEMMA CheckInv == IInv /\ Check => IInv'
<1> SUFFICES ASSUME IInv, Check PROVE IInv'
  OBVIOUS
<1> USE DEF IInv
<1>0. /\ pc = "check"
      /\ UNCHANGED <<shown, going, lives, drawn, m_controllerEndpointId, calls, selected, m_source, m_hasSource>>
      /\ UNCHANGED <<m_sourceGeneration, sourceOf, api, m_running, lastGeneration, left, m_published>>
      /\ UNCHANGED <<m_apiTap, m_posted, follows, m_workerTap, request, held>>
  BY DEF Check, host, source, daemon
<1>1. /\ m_hasSource /\ m_source # NoSource /\ api # "bump" /\ m_sourceGeneration > 0
      /\ sourceOf[m_sourceGeneration + 1] = [of |-> drawn[m_source].of, size |-> m_source.size]
  BY <1>0 DEF SourceInv, Locked
<1>2. /\ 0 < frame.id /\ frame.id <= drawn[m_source].id /\ left = {}
      /\ lastGeneration = m_sourceGeneration /\ (haveLast => lastFrameId < frame.id)
      /\ \A p \in Pixels : frame.px[p][1] = drawn[m_source].of
  BY <1>0 DEF CopyInv, Locked
<1>3. m_source.size \in Nat \ {0} /\ frame \in FrameType /\ frame.id \in Nat
      /\ m_sourceGeneration \in Nat
  BY <1>1, SourceType DEF TypeInv, FrameType
<1>4. DrawnInv' /\ DeclareInv'
  BY <1>0 DEF DrawnInv, DeclareInv
<1>5. CASE Moved(frame.id)
  <2>0. pc' = "sleep" /\ frame' = NoFrame /\ UNCHANGED <<lastFrameId, haveLast>>
    BY <1>5 DEF Check
  <2>1. TypeInv'
    BY <1>0, <2>0, NoFrameType DEF TypeInv
  <2>2. SourceInv' /\ CopyInv'
    BY <1>0, <1>2, <2>0 DEF SourceInv, CopyInv, Locked
  <2>3. FrameInv' /\ OrderInv'
    BY <1>0, <2>0 DEF FrameInv, Fits, OrderInv, Remembered
  <2> QED
    BY <1>4, <2>1, <2>2, <2>3
<1>6. CASE ~Moved(frame.id)
  <2>0. /\ pc' = "publish" /\ lastFrameId' = frame.id /\ haveLast' = TRUE
        /\ frame' = [frame EXCEPT !.size = m_source.size, !.gen = m_sourceGeneration]
    BY <1>6 DEF Check
  <2>1. /\ frame' \in FrameType /\ frame'.id = frame.id /\ frame'.px = frame.px
        /\ frame'.size = m_source.size /\ frame'.gen = m_sourceGeneration
    BY <1>3, <2>0 DEF FrameType
  <2>2. TypeInv'
    BY <1>0, <1>3, <2>0, <2>1 DEF TypeInv
  <2>3. SourceInv' /\ CopyInv'
    BY <1>0, <1>2, <2>0 DEF SourceInv, CopyInv, Locked
  <2>4. Stamped(frame', m_sourceGeneration, sourceOf)
    BY <1>1, <1>2, <1>3, <2>1 DEF Stamped
  <2>5. FrameInv'
    BY <1>0, <2>4 DEF FrameInv, Fits
  <2>6. Before(m_published, frame')
    <3>1. SUFFICES ASSUME m_published # NoFrame PROVE Before(m_published, frame')
      BY DEF Before
    <3>2. m_published.gen \in 1 .. m_sourceGeneration /\ m_published.id \in Nat
      BY <3>1 DEF FrameInv, Fits, Stamped, TypeInv, FrameType
    <3>3. m_published.gen = m_sourceGeneration => m_published.id <= lastFrameId /\ lastFrameId < frame.id
      BY <1>2, <3>1 DEF OrderInv, Remembered
    <3> QED
      BY <1>3, <2>1, <3>2, <3>3 DEF Before, TypeInv
  <2>7. Remembered(m_published)'
    <3>1. SUFFICES ASSUME m_published # NoFrame, m_published.gen = m_sourceGeneration
                   PROVE  m_published.id <= frame.id
      BY <1>0, <1>1, <1>2, <2>0 DEF Remembered
    <3>2. m_published.id <= lastFrameId /\ lastFrameId < frame.id /\ m_published.id \in Nat /\ lastFrameId \in Nat
      BY <1>2, <3>1 DEF OrderInv, Remembered, TypeInv, FrameType
    <3> QED
      BY <1>3, <3>2
  <2>8. Remembered(frame)'
    BY <1>0, <1>1, <1>2, <1>3, <2>0, <2>1 DEF Remembered
  <2>9. OrderInv'
    BY <1>0, <1>2, <2>0, <2>6, <2>7, <2>8 DEF OrderInv
  <2> QED
    BY <1>4, <2>2, <2>3, <2>5, <2>9
<1> QED
  BY <1>5, <1>6

\* What is published comes after everything that anyone holds.
LEMMA PublishInv == IInv /\ Publish => IInv'
<1> SUFFICES ASSUME IInv, Publish PROVE IInv'
  OBVIOUS
<1> USE DEF IInv
<1>0. /\ pc = "publish" /\ pc' = "sleep" /\ frame' = NoFrame
      /\ UNCHANGED <<shown, going, lives, drawn, m_controllerEndpointId, calls, selected, m_source, m_hasSource>>
      /\ UNCHANGED <<m_sourceGeneration, sourceOf, api, m_running, lastGeneration, lastFrameId, haveLast, left>>
      /\ UNCHANGED <<m_apiTap, m_posted, follows, m_workerTap, request, held>>
  BY DEF Publish, host, source, daemon
<1>1. (m_published' = frame /\ frame.size <= MAX_PIXELS) \/ m_published' = m_published
  BY DEF Publish
<1>2. /\ frame \in FrameType /\ m_published \in FrameType /\ m_workerTap \in FrameType
      /\ NoFrame \in FrameType
  BY NoFrameType DEF TypeInv
<1>3. TypeInv'
  BY <1>0, <1>1, <1>2 DEF TypeInv
<1>4. DrawnInv' /\ DeclareInv'
  BY <1>0 DEF DrawnInv, DeclareInv
<1>5. SourceInv' /\ CopyInv'
  BY <1>0 DEF SourceInv, CopyInv, Locked
<1>6. FrameInv'
  BY <1>0, <1>1 DEF FrameInv, Fits
<1>7. OrderInv'
  <2>1. NotAfter(m_workerTap, m_published) /\ Before(m_published, frame)
    BY <1>0 DEF OrderInv
  <2>2. NotAfter(m_workerTap, m_published')
    BY <1>1, <1>2, <2>1, NotAfterBefore DEF NotAfter
  <2>3. Remembered(m_published')
    BY <1>0, <1>1 DEF OrderInv
  <2>4. Remembered(m_published)'
    BY <1>0, <2>3 DEF Remembered
  <2> QED
    BY <1>0, <2>2, <2>4 DEF OrderInv
<1> QED
  BY <1>3, <1>4, <1>5, <1>6, <1>7

LEMMA WorkerEndsInv == IInv /\ WorkerEnds => IInv'
<1> SUFFICES ASSUME IInv, WorkerEnds PROVE IInv'
  OBVIOUS
<1> USE DEF IInv
<1>0. /\ pc = "sleep" /\ ~m_running /\ pc' = "done"
      /\ UNCHANGED <<shown, going, lives, drawn, m_controllerEndpointId, calls, selected, m_source, m_hasSource>>
      /\ UNCHANGED <<m_sourceGeneration, sourceOf, api, m_running>>
      /\ UNCHANGED <<lastGeneration, lastFrameId, haveLast, frame, left, m_published>>
      /\ UNCHANGED <<m_apiTap, m_posted, follows, m_workerTap, request, held>>
  BY DEF WorkerEnds, host, source, daemon
<1>1. TypeInv' /\ DrawnInv' /\ FrameInv' /\ DeclareInv'
  BY <1>0 DEF TypeInv, DrawnInv, FrameInv, Fits, DeclareInv
<1>2. SourceInv' /\ CopyInv'
  BY <1>0 DEF SourceInv, CopyInv, Locked
<1>3. OrderInv'
  BY <1>0 DEF OrderInv, Remembered
<1> QED
  BY <1>1, <1>2, <1>3

-----------------------------------------------------------------------------
(* What is read from the tap.                                              *)

LEMMA UpdateDeclareInv == IInv /\ UpdateDeclare => IInv'
<1> SUFFICES ASSUME IInv, UpdateDeclare PROVE IInv'
  OBVIOUS
<1> USE DEF IInv
<1>0. /\ UNCHANGED <<shown, going, lives, drawn, m_controllerEndpointId, calls, selected, m_source, m_hasSource>>
      /\ UNCHANGED <<m_sourceGeneration, sourceOf, api, m_running>>
      /\ UNCHANGED <<pc, lastGeneration, lastFrameId, haveLast, frame, left, m_published>>
      /\ UNCHANGED <<follows, m_workerTap, request, held>>
  BY DEF UpdateDeclare, host, source, capture, daemon
<1>1. PICK torn \in Tears :
        /\ m_apiTap' = IF Keeps(torn) THEN m_apiTap ELSE [size |-> m_published.size, gen |-> m_published.gen]
        /\ m_posted' = IF IsCurrent(m_hasSource, HaveFrame(m_apiTap, torn), m_apiTap')
                       THEN m_apiTap' ELSE [size |-> 0, gen |-> m_sourceGeneration]
  BY DEF UpdateDeclare
<1>2. m_sourceGeneration \in Nat /\ m_published \in FrameType /\ MAX_PIXELS \in Nat
  BY DmdTapAssumption DEF TypeInv, DmdTapAssumption
<1>3. [size |-> m_published.size, gen |-> m_published.gen] \in Declaration
  BY <1>2 DEF FrameType, Declaration
<1>4. m_published # NoFrame =>
        Declares([size |-> m_published.size, gen |-> m_published.gen], m_sourceGeneration, sourceOf)
  BY <1>2 DEF FrameInv, Fits, Stamped, Declares
<1>5. m_apiTap' \in Declaration /\ Declares(m_apiTap', m_sourceGeneration, sourceOf)
  BY <1>1, <1>3, <1>4 DEF Keeps, TypeInv, DeclareInv
<1>6. /\ [size |-> 0, gen |-> m_sourceGeneration] \in Declaration
      /\ Declares([size |-> 0, gen |-> m_sourceGeneration], m_sourceGeneration, sourceOf)
  BY <1>2 DEF Declaration, Declares
<1>7. m_posted' \in Declaration /\ Declares(m_posted', m_sourceGeneration, sourceOf)
  BY <1>1, <1>5, <1>6
<1>8. TypeInv' /\ DrawnInv' /\ FrameInv' /\ DeclareInv'
  BY <1>0, <1>5, <1>7 DEF TypeInv, DrawnInv, FrameInv, Fits, DeclareInv
<1>9. SourceInv' /\ CopyInv'
  BY <1>0 DEF SourceInv, CopyInv, Locked
<1>10. OrderInv'
  BY <1>0 DEF OrderInv, Remembered
<1> QED
  BY <1>8, <1>9, <1>10

LEMMA AskInv == IInv /\ Ask => IInv'
<1> SUFFICES ASSUME IInv, Ask PROVE IInv'
  OBVIOUS
<1> USE DEF IInv
<1>0. /\ UNCHANGED <<shown, going, lives, drawn, m_controllerEndpointId, calls, selected, m_source, m_hasSource>>
      /\ UNCHANGED <<m_sourceGeneration, sourceOf, api, m_running>>
      /\ UNCHANGED <<pc, lastGeneration, lastFrameId, haveLast, frame, left, m_published>>
      /\ UNCHANGED <<m_apiTap, m_posted, follows, m_workerTap>>
  BY DEF Ask, host, source, capture
<1>1. /\ held' \in {held, NoFrame}
      /\ request' = [step |-> "frame", has |-> m_hasSource, have |-> FALSE, from |-> m_sourceGeneration]
  BY DEF Ask
<1>2. request' \in RequestType /\ request'.from <= m_sourceGeneration
  BY <1>1 DEF TypeInv, RequestType
<1>3. TypeInv'
  BY <1>0, <1>1, <1>2, NoFrameType DEF TypeInv
<1>4. DrawnInv' /\ FrameInv' /\ DeclareInv'
  BY <1>0, <1>1 DEF DrawnInv, FrameInv, Fits, DeclareInv
<1>5. SourceInv' /\ CopyInv'
  BY <1>0 DEF SourceInv, CopyInv, Locked
<1>6. OrderInv'
  BY <1>0, <1>1 DEF OrderInv, Remembered, NotAfter, Before
<1> QED
  BY <1>3, <1>4, <1>5, <1>6

LEMMA ReadLatestInv == IInv /\ ReadLatest => IInv'
<1> SUFFICES ASSUME IInv, ReadLatest PROVE IInv'
  OBVIOUS
<1> USE DEF IInv
<1>0. /\ UNCHANGED <<shown, going, lives, drawn, m_controllerEndpointId, calls, selected, m_source, m_hasSource>>
      /\ UNCHANGED <<m_sourceGeneration, sourceOf, api, m_running>>
      /\ UNCHANGED <<pc, lastGeneration, lastFrameId, haveLast, frame, left, m_published>>
      /\ UNCHANGED <<m_apiTap, m_posted, follows, held>>
  BY DEF ReadLatest, host, source, capture
<1>1. PICK torn \in Tears :
        /\ m_workerTap' = IF Keeps(torn) THEN m_workerTap ELSE m_published
        /\ request' = [request EXCEPT !.step = "generation", !.have = HaveFrame(m_workerTap, torn)]
  BY DEF ReadLatest
<1>2. HaveFrame(m_workerTap, torn) \in BOOLEAN
  BY DEF HaveFrame
<1>3. request' \in RequestType /\ request'.from = request.from
  BY <1>1, <1>2 DEF TypeInv, RequestType
<1>4. /\ held \in FrameType /\ m_workerTap \in FrameType /\ m_published \in FrameType
  BY DEF TypeInv
<1>5. m_workerTap' \in {m_workerTap, m_published}
  BY <1>1
<1>6. TypeInv'
  BY <1>0, <1>3, <1>4, <1>5 DEF TypeInv
<1>7. DrawnInv' /\ FrameInv' /\ DeclareInv'
  BY <1>0, <1>5 DEF DrawnInv, FrameInv, Fits, DeclareInv
<1>8. SourceInv' /\ CopyInv'
  BY <1>0 DEF SourceInv, CopyInv, Locked
<1>9. NotAfter(held, m_workerTap') /\ NotAfter(m_workerTap', m_published)
  BY <1>4, <1>5, NotAfterTransitive DEF OrderInv, NotAfter
<1>10. OrderInv'
  BY <1>0, <1>9 DEF OrderInv, Remembered
<1> QED
  BY <1>6, <1>7, <1>8, <1>10

LEMMA AnswerFrameInv == IInv /\ AnswerFrame => IInv'
<1> SUFFICES ASSUME IInv, AnswerFrame PROVE IInv'
  OBVIOUS
<1> USE DEF IInv
<1>0. /\ UNCHANGED <<shown, going, lives, drawn, m_controllerEndpointId, calls, selected, m_source, m_hasSource>>
      /\ UNCHANGED <<m_sourceGeneration, sourceOf, api, m_running>>
      /\ UNCHANGED <<pc, lastGeneration, lastFrameId, haveLast, frame, left, m_published>>
      /\ UNCHANGED <<m_apiTap, m_posted, follows, m_workerTap>>
  BY DEF AnswerFrame, host, source, capture
<1>1. request' = NoRequest /\ held' \in {held, m_workerTap, NoFrame}
  BY DEF AnswerFrame
<1>2. request' \in RequestType /\ request'.from <= m_sourceGeneration
  BY <1>1 DEF TypeInv, RequestType, NoRequest
<1>3. TypeInv'
  BY <1>0, <1>1, <1>2, NoFrameType DEF TypeInv
<1>4. DrawnInv' /\ FrameInv' /\ DeclareInv'
  BY <1>0, <1>1 DEF DrawnInv, FrameInv, Fits, DeclareInv
<1>5. SourceInv' /\ CopyInv'
  BY <1>0 DEF SourceInv, CopyInv, Locked
<1>6. OrderInv'
  BY <1>0, <1>1 DEF OrderInv, Remembered, NotAfter, Before
<1> QED
  BY <1>3, <1>4, <1>5, <1>6

-----------------------------------------------------------------------------
(* The theorems.                                                           *)

LEMMA StepInv == IInv /\ [Next]_vars => IInv'
<1> SUFFICES ASSUME IInv, [Next]_vars PROVE IInv'
  OBVIOUS
<1>1. CASE UNCHANGED vars
  <2>1. /\ UNCHANGED <<shown, going, lives, drawn, m_controllerEndpointId, calls, selected, m_source, m_hasSource>>
        /\ UNCHANGED <<m_sourceGeneration, sourceOf, api, m_running>>
        /\ UNCHANGED <<pc, lastGeneration, lastFrameId, haveLast, frame, left, m_published>>
        /\ UNCHANGED <<m_apiTap, m_posted, follows, m_workerTap, request, held>>
    BY <1>1 DEF vars, host, source, capture, daemon
  <2>2. TypeInv' /\ DrawnInv' /\ FrameInv' /\ DeclareInv'
    BY <2>1 DEF IInv, TypeInv, DrawnInv, FrameInv, Fits, DeclareInv
  <2>3. SourceInv' /\ CopyInv' /\ OrderInv'
    BY <2>1 DEF IInv, SourceInv, CopyInv, Locked, OrderInv, Remembered
  <2> QED
    BY <2>2, <2>3 DEF IInv
<1>2. CASE Next
  BY <1>2, PublishDisplayInv, WithdrawDisplayInv, DrawPixelInv, AdvanceFrameIdInv, SetControllerInv,
     OnSourcesChangedInv, BumpGenerationInv, DestroyInv, JoinInv, PollInv, CopyPixelInv, CheckInv, PublishInv,
     WorkerEndsInv, UpdateDeclareInv, AskInv, ReadLatestInv, AnswerFrameInv
  DEF Next
<1> QED
  BY <1>1, <1>2

\* The invariant that the theorems below rest on, in every reachable state.
THEOREM TapInvariant == Spec => []IInv
<1>1. Init => IInv
  BY InitInv
<1>2. IInv /\ [Next]_vars => IInv'
  BY StepInv
<1> QED
  BY <1>1, <1>2, PTL DEF Spec

\* Every variable keeps its type; a frame that left the capture thread fits the seqlock and carries the
\* generation of a source that was selected (DmdTap.h).
THEOREM TypeCorrect == Spec => []TypeOK
<1>1. IInv => TypeOK
  <2> SUFFICES ASSUME IInv PROVE TypeOK
    OBVIOUS
  <2> USE DEF IInv
  <2>1. \A f \in Frames : f.id > 0 /\ f.size \in 1 .. MAX_PIXELS /\ f.gen \in 1 .. m_sourceGeneration
    <3>1. MAX_PIXELS \in Nat
      BY DmdTapAssumption DEF DmdTapAssumption
    <3>2. \A f \in Frames : f \in FrameType /\ Stamped(f, m_sourceGeneration, sourceOf) /\ f.size <= MAX_PIXELS
      BY DEF Frames, TypeInv, FrameInv, Fits
    <3> QED
      BY <3>1, <3>2 DEF Stamped, FrameType
  <2>2. \A d \in Declaration : Declares(d, m_sourceGeneration, sourceOf) =>
          d \in [size : 0 .. MAX_PIXELS, gen : 0 .. m_sourceGeneration]
    BY DmdTapAssumption DEF DmdTapAssumption, Declaration, Declares, TypeInv
  <2>3. {m_posted, m_apiTap} \subseteq [size : 0 .. MAX_PIXELS, gen : 0 .. m_sourceGeneration]
    BY <2>2 DEF TypeInv, DeclareInv
  <2>4. {frame, m_published, m_workerTap, held} \subseteq FrameType
    BY DEF TypeInv
  <2>5. drawn \in [Displays -> [of : 0 .. MaxLives, id : Nat, buf : [Pixels -> Nat]]]
    BY DEF TypeInv, Drawing
  <2> QED
    BY <2>1, <2>3, <2>4, <2>5 DEF TypeInv, TypeOK
<1> QED
  BY <1>1, TapInvariant, PTL

\* The capture thread never reads a display that its controller has freed: OnSourcesChanged waits for
\* m_sourceMutex and ~DmdTap joins before it unsubscribes.
THEOREM AliveWhileRead == Spec => []ReadWhileAlive
<1>1. IInv => ReadWhileAlive
  <2> SUFFICES ASSUME IInv, Locked PROVE m_source \in shown \cup going
    BY DEF ReadWhileAlive
  <2>1. m_hasSource /\ api # "bump" /\ api # "gone"
    BY DEF IInv, SourceInv, Locked
  <2> QED
    BY <2>1 DEF IInv, SourceInv, TypeInv
<1> QED
  BY <1>1, TapInvariant, PTL

\* Frames and the declared display are of the one source whose generation they carry, and that source
\* is a display of the emulating controller's own (Worker, Publish, Refresh).
THEOREM OneSource == Spec => []FrameOfItsSource
<1>1. IInv => FrameOfItsSource
  <2> SUFFICES ASSUME IInv PROVE FrameOfItsSource
    OBVIOUS
  <2> USE DEF IInv
  <2>1. OfOneSource
    BY DEF OfOneSource, Frames, FrameInv, Fits, Stamped
  <2>2. OnlyTheController
    BY DEF OnlyTheController, SourceInv
  <2>3. DeclaredTruly
    BY DEF DeclaredTruly, DeclareInv, Declares
  <2> QED
    BY <2>1, <2>2, <2>3 DEF FrameOfItsSource
<1> QED
  BY <1>1, TapInvariant, PTL

\* A captured frame is not replaced while it is copied, one served is of a source selected after the
\* request came, and "unchanged" means equal pixel by pixel (Worker, GetFrame, AnswerFrame).
THEOREM Served == Spec => ServedTruly
<1>1. IInv => ServedFresh
  <2> SUFFICES ASSUME IInv, Serves PROVE m_workerTap.gen >= request.from
    BY DEF ServedFresh
  <2>1. m_workerTap.gen = m_sourceGeneration
    BY DEF Serves, IsCurrent
  <2> QED
    BY <2>1 DEF IInv, TypeInv, RequestType
<1>2. IInv => UnchangedTruly
  <2> SUFFICES ASSUME IInv, Serves, Unchanged(held, m_workerTap) PROVE held = m_workerTap
    BY DEF UnchangedTruly
  <2>1. held # NoFrame /\ held.id = m_workerTap.id /\ held.gen = m_workerTap.gen
    BY DEF Unchanged
  <2>2. held.id \in Nat /\ held.gen \in Nat
    BY DEF IInv, TypeInv, FrameType
  <2>3. ~Before(held, m_workerTap)
    BY <2>1, <2>2 DEF Before
  <2> QED
    BY <2>3 DEF IInv, OrderInv, NotAfter
<1>3. IInv => NeverReplaced
  <2> SUFFICES ASSUME IInv, Check, pc' = "publish", NEW p \in Pixels
               PROVE  frame.px[p][2] = frame.id \/ frame.px[p][2] > drawn[m_source].id
    BY DEF NeverReplaced
  <2>1. drawn[m_source].id = frame.id /\ pc = "check"
    BY DEF Check, Moved
  <2>2. left = {} /\ frame.px[p][2] >= frame.id
    BY <2>1 DEF IInv, CopyInv, Locked
  <2>3. frame.id \in Nat /\ frame.px[p] \in PixelOf
    BY DEF IInv, TypeInv, FrameType
  <2>4. frame.px[p][2] \in Nat
    BY <2>3 DEF PixelOf
  <2> QED
    BY <2>1, <2>2, <2>3, <2>4
<1>4. IInv /\ IInv' /\ [Next]_vars => [NeverReplaced /\ ServedFresh' /\ UnchangedTruly']_vars
  <2>1. IInv' => ServedFresh' /\ UnchangedTruly'
    BY <1>1, <1>2, PTL
  <2> QED
    BY <1>3, <2>1
<1> QED
  BY <1>4, TapInvariant, PTL DEF Spec, ServedTruly
=============================================================================
