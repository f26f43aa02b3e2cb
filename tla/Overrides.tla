----------------------------- MODULE Overrides -----------------------------
(***************************************************************************)
(* DmdOverlay's overrides: which displays the plugin overrides, how it     *)
(* lists and withdraws the overrides, and how both end when the plugin     *)
(* unloads or VPX quits (ScorbitPluginUnload).                             *)
(*                                                                         *)
(* On the API thread, other plugins publish and withdraw displays; each    *)
(* change is a broadcast, in which DmdOverlay stops calling targets that   *)
(* are gone, and a display is freed when its broadcast has returned.  The  *)
(* overrides themselves change in a deferred callback, with broadcasts of  *)
(* their own, inside which consumers may publish and withdraw again.       *)
(* Meanwhile consumers' render threads call overrides, and those call      *)
(* their targets under the entry's mutex.  As CtrlItemConsumer promises, a *)
(* consumer drops a withdrawn override inside the broadcast that withdrew  *)
(* it.  What the render call draws is Overlay's subject.                   *)
(***************************************************************************)
EXTENDS Naturals, Sequences, FiniteSets

CONSTANTS
  Outputs,       \* the displays of colourisers and upscalers, as ids
  Sizes,         \* the sizes a display may have; 0 cannot be composited on
  Consumers,     \* render threads
  MaxPublished,  \* bound: publications of displays
  MaxSwitches    \* bound: changes of the emulating controller

\* Display ids; an override of ours has id Ours + its number (m_nextResId).
None == 0
Root == 1   \* the display that the emulating controller publishes itself
Ours == 100

Undeclared == [entries |-> {}, surface |-> FALSE]

ASSUME OverridesAssumption ==
  /\ Outputs \subseteq 2 .. Ours - 1 /\ IsFiniteSet(Outputs)
  /\ Sizes \subseteq Nat
  /\ MaxPublished \in Nat /\ MaxSwitches \in Nat

VARIABLES
  shown,       \* the displays other plugins publish: id, what it overrides, size
  published,   \* publications so far
  going,       \* displays withdrawn by a broadcast that has not returned
  told,        \* a broadcast has yet to reach OnSourcesChanged
  m_controller, switches,
  m_entries,   \* the overrides listed, by number: target, and live
  m_retired,   \* those withdrawn and not yet freed
  known,       \* the overrides that consumers have from the last broadcast
  calling,     \* per consumer, the override whose target it is in (0: none)
  phase,       \* where Apply, or the destructor, is
  desired, removed, added,   \* Apply's locals
  m_applyPending, m_detached,
  callbacks,   \* queued for the main thread: "apply" and "drain"
  flushing,    \* those that FlushPendingCallbacks has yet to run
  m_surface,
  moved,       \* m_surfaceGeneration is not the one last declared
  unload,      \* where ScorbitPluginUnload is
  unloadingAtQuit,
  declared     \* history: the overrides and m_surface as last declared, while ~moved

displays == <<shown, published, going, told>>
applying == <<phase, desired, removed, added>>
surface  == <<m_surface, moved, declared>>
queue    == <<m_applyPending, callbacks, flushing>>
ending   == <<unload, unloadingAtQuit>>
control  == <<m_controller, switches>>
entries  == <<m_entries, m_retired>>
vars     == <<displays, control, entries, known, calling, applying, m_detached, queue, surface, ending>>

Init ==
  /\ shown = {} /\ published = 0 /\ going = {} /\ told = FALSE
  /\ m_controller = None /\ switches = 0
  /\ m_entries = <<>> /\ m_retired = {} /\ known = {} /\ calling = [c \in Consumers |-> 0]
  /\ phase = "none" /\ desired = {} /\ removed = FALSE /\ added = FALSE
  /\ m_applyPending = FALSE /\ m_detached = FALSE
  /\ callbacks = {"drain"} /\ flushing = {}
  /\ m_surface = FALSE /\ moved = TRUE /\ declared = Undeclared
  /\ unload = "no" /\ unloadingAtQuit = FALSE

(***************************************************************************)
(* The chain rule: OverrideChain.h and Desired.                            *)
(***************************************************************************)

Listed == DOMAIN m_entries

\* The id of the display that override k overrides.
Base(k) == m_entries[k].target.source.id

\* Mutant: a source that chained onto one of ours sits on nothing else.
ParentAsListed(s) == s.over

\* What a display sits on: a source that overrides one of ours sits on what ours overrides.
Parent(s) == IF \E k \in Listed : Ours + k = s.over THEN Base(s.over - Ours) ELSE s.over

Children(id) == {s \in shown : Parent(s) = id /\ s.id # id}

\* The walk from the root over its children: the displays reached in at most n steps.
Walk[n \in Nat] == IF n = 0 THEN {Root} ELSE Walk[n - 1] \cup {s.id : s \in UNION {Children(i) : i \in Walk[n - 1]}}

\* Mutant: an override that something chained onto is withdrawn like any other.
KeptNever(id) == FALSE

\* Something chained onto our override of this display, and reads from it.
Kept(id) == \E s \in shown, k \in Listed : s.over = Ours + k /\ Base(k) = id

IsTarget(id) == Children(id) = {} \/ Kept(id)

\* Targets and Desired: of the root's chain, the leaves and what is kept, if they can be
\* composited on; nothing without a controller, or a root to start from.
Desired ==
  LET roots == {s \in shown : s.id = Root /\ s.size > 0} IN
  IF m_controller = None \/ m_detached THEN {}
  ELSE {[source |-> s, identify |-> s.id = Root, base |-> r.size] :
          r \in roots,
          s \in {s \in shown : s.id \in Walk[Cardinality(shown)] /\ IsTarget(s.id) /\ s.size > 0}}

NeedsApply == \/ Cardinality(Desired) # Cardinality(Listed)
              \/ \E k \in Listed : ~m_entries[k].live \/ m_entries[k].target \notin Desired

\* ScheduleApply, if NeedsApply in the next state.
ScheduleIfNeeded ==
  IF ~m_detached' /\ NeedsApply' /\ ~m_applyPending
  THEN m_applyPending' = TRUE /\ callbacks' = callbacks \cup {"apply"}
  ELSE UNCHANGED <<m_applyPending, callbacks>>

\* UpdateSurface, for the entries of the next state, after changes to them.
UpdateSurface(changes) ==
  /\ m_surface' = (\E k \in DOMAIN m_entries' : m_entries'[k].live)
  /\ moved' = (moved \/ changes \/ m_surface' # m_surface)
  /\ declared' = IF moved' THEN Undeclared ELSE declared

\* Entries that no render call is in: taking their mutex waits for that.
Free(ks) == \A c \in Consumers : calling[c] \notin ks

\* Our own ON_SRC_CHG: consumers drop what is no longer listed, which waits for their calls;
\* it reaches our own consumer too, unless it has unsubscribed.
Broadcast ==
  /\ \A c \in Consumers : calling[c] \in DOMAIN m_entries' \cup {0}
  /\ known' = DOMAIN m_entries'
  /\ told' = ~m_detached'

(***************************************************************************)
(* Other plugins' displays (external).                                     *)
(***************************************************************************)

\* The API thread is not inside one of the plugin's own steps: it runs the host, or a
\* consumer inside a broadcast of ours.
HostRuns == ~told /\ (phase \in {"removed", "added", "withdrawn"} \/ (phase = "none" /\ unload \in {"no", "done"}))

\* What a display can override: a controller's none, another's a display or one of our overrides.
Overridable(id) == IF id = Root THEN {None} ELSE {s.id : s \in {s \in shown : s.id # id}} \cup {Ours + k : k \in known}

\* A display appears, or replaces the one that its plugin had.
PublishDisplay ==
  /\ HostRuns /\ published < MaxPublished /\ unload # "done"
  /\ \E id \in Outputs \cup {Root}, size \in Sizes :
     \E over \in Overridable(id) :
       LET old == {s \in shown : s.id = id} IN
       /\ shown' = (shown \ old) \cup {[id |-> id, over |-> over, size |-> size]}
       /\ going' = IF m_detached THEN {} ELSE old
  /\ published' = published + 1
  /\ told' = ~m_detached
  /\ UNCHANGED <<control, entries, known, calling, applying, m_detached, queue, surface, ending>>

\* A display goes.  It is freed when the broadcast has returned, at once if nobody here listens.
WithdrawDisplay ==
  /\ HostRuns
  /\ \E s \in shown : shown' = shown \ {s} /\ going' = IF m_detached THEN {} ELSE {s}
  /\ told' = ~m_detached
  /\ UNCHANGED <<published, control, entries, known, calling, applying, m_detached, queue, surface, ending>>

(***************************************************************************)
(* DmdOverlay on the API thread.                                           *)
(***************************************************************************)

\* The target is no longer listed exactly as it was.
Stale(k) == m_entries[k].target.source \notin shown

StaleEntries == {k \in Listed : Stale(k)}

Dark(ks) == [k \in Listed |-> IF k \in ks THEN [m_entries[k] EXCEPT !.live = FALSE] ELSE m_entries[k]]

\* The entries' mutexes have been taken.
Locked(ks) == Free(ks)

\* OnSourcesChanged: DarkenStale, then an Apply is scheduled if one is needed.
OnSourcesChanged ==
  /\ told /\ Locked(StaleEntries)
  /\ m_entries' = Dark(StaleEntries)
  /\ UpdateSurface(FALSE)
  /\ told' = FALSE /\ going' = {}
  /\ UNCHANGED <<shown, m_controller, m_detached>>
  /\ ScheduleIfNeeded
  /\ UNCHANGED <<published, switches, m_retired, known, calling, applying, flushing, ending>>

\* OnControllersChanged to another controller, or none, from the host or from Unsubscribe.
SetController(c) ==
  /\ m_controller' = c
  /\ UNCHANGED <<shown, m_entries, m_detached>>
  /\ ScheduleIfNeeded

ControllersChange ==
  /\ ~told /\ phase = "none" /\ unload = "no" /\ switches < MaxSwitches
  /\ SetController(IF m_controller = None THEN Root ELSE None)
  /\ switches' = switches + 1
  /\ UNCHANGED <<published, going, told, m_retired, known, calling, applying, flushing, surface, ending>>

\* Mutant: a flush waits for a turn of the main thread.
RunsWhileLoaded(callback) == ~told /\ phase = "none" /\ unload = "no" /\ callback \in callbacks /\ UNCHANGED flushing

\* A callback is run by the main thread, or by a flush while the plugin unloads.
Runs(callback) ==
  /\ ~told /\ phase = "none" /\ callback \in callbacks
  /\ IF unload = "no" THEN UNCHANGED flushing ELSE callback \in flushing /\ flushing' = flushing \ {callback}

\* OnDeferredApply finds the overlay gone, detached or with nothing pending, or starts Apply,
\* which first frees the retired whose time is up, each by its own age.
OnDeferredApply ==
  /\ Runs("apply")
  /\ callbacks' = callbacks \ {"apply"}
  /\ IF unload = "last flush" \/ ~m_applyPending \/ m_detached
     THEN UNCHANGED <<m_retired, applying, m_applyPending>>
     ELSE /\ m_applyPending' = FALSE
          /\ m_retired' \in SUBSET m_retired
          /\ phase' = "start" /\ desired' = Desired /\ UNCHANGED <<removed, added>>
  /\ UNCHANGED <<displays, control, m_entries, known, calling, m_detached, surface, ending>>

\* The entries that are no longer desired, or went dark since they were made.
Outdated == {k \in Listed : ~m_entries[k].live \/ m_entries[k].target \notin desired}

\* The entries no longer wanted are retired, and the first broadcast withdraws them.
ApplyRemove ==
  /\ phase = "start" /\ Outdated # {} /\ Free(Outdated)
  /\ m_entries' = [k \in Listed \ Outdated |-> m_entries[k]]
  /\ m_retired' = m_retired \cup Outdated
  /\ UNCHANGED m_detached /\ Broadcast
  /\ phase' = "removed" /\ removed' = TRUE
  /\ UNCHANGED <<shown, published, going, control, calling, desired, added, queue, surface, ending>>

\* Asked again after a broadcast, in which a consumer can have withdrawn a display.
ToAdd == IF removed THEN Desired ELSE desired

\* MakeEntry's number for each new target, one that nothing refers to (m_nextResId).
NewNumbers(targets) ==
  LET used    == Listed \cup m_retired \cup {s.over - Ours : s \in {s \in shown : s.over > Ours}}
      free    == (1 .. Cardinality(used) + Cardinality(targets)) \ used
      least   == {ks \in SUBSET free : /\ Cardinality(ks) = Cardinality(targets)
                                       /\ \A k \in ks, l \in free \ ks : k < l}
  IN UNION {{f \in [ks -> targets] : \A k, l \in ks : k < l => f[k].source.id < f[l].source.id} : ks \in least}

\* The missing ones are made, and the second broadcast lists them.
ApplyAdd ==
  /\ ~told /\ (phase = "removed" \/ (phase = "start" /\ Outdated = {}))
  /\ LET missing == ToAdd \ {m_entries[k].target : k \in Listed} IN
     \E new \in NewNumbers(missing) :
       /\ m_entries' = [k \in Listed \cup DOMAIN new |->
                          IF k \in Listed THEN m_entries[k] ELSE [target |-> new[k], live |-> TRUE]]
       /\ added' = (missing # {})
       /\ UNCHANGED m_detached
       /\ IF missing # {} THEN Broadcast ELSE UNCHANGED <<known, told>>
  /\ phase' = "added"
  /\ UNCHANGED <<shown, published, going, control, m_retired, calling, desired, removed, queue, surface, ending>>

\* A changed set of overrides moves the generation.
Changed == removed \/ added

\* Mutant: pending is cleared when Apply has ended.
PendingCleared == m_applyPending' = FALSE

\* m_applyPending was cleared before Apply; what was scheduled inside it stays so.
PendingKept == UNCHANGED m_applyPending

ApplyEnd ==
  /\ ~told /\ phase = "added"
  /\ UNCHANGED entries
  /\ UpdateSurface(Changed)
  /\ phase' = "none" /\ desired' = {} /\ removed' = FALSE /\ added' = FALSE
  /\ PendingKept
  /\ UNCHANGED <<displays, control, known, calling, m_detached, callbacks, flushing, ending>>

\* VpxSessionSource::UpdateDeclare, at the tick or a frame, posts again when the generation moved.
UpdateDeclare ==
  /\ moved' = FALSE /\ UNCHANGED m_surface
  /\ declared' = IF moved THEN [entries |-> Listed, surface |-> m_surface] ELSE declared

OnPrepareFrame ==
  /\ ~told /\ phase = "none" /\ unload = "no"
  /\ UpdateDeclare
  /\ UNCHANGED <<displays, control, entries, known, calling, applying, m_detached, queue, ending>>

(***************************************************************************)
(* Render threads: GetRenderFrame and GetIdentifyFrame.                    *)
(***************************************************************************)

\* A call that finds its entry live goes into the target with the entry's mutex held; any
\* other is answered from the entry's own buffers.
Call(c) ==
  /\ calling[c] = 0
  /\ \E k \in known \cap Listed : /\ m_entries[k].live /\ Free({k})
                                  /\ calling' = [calling EXCEPT ![c] = k]
  /\ UNCHANGED <<displays, control, entries, known, applying, m_detached, queue, surface, ending>>

Return(c) ==
  /\ calling[c] # 0
  /\ calling' = [calling EXCEPT ![c] = 0]
  /\ UNCHANGED <<displays, control, entries, known, applying, m_detached, queue, surface, ending>>

(***************************************************************************)
(* ScorbitPluginUnload, from the host or from the quit hook.               *)
(***************************************************************************)

\* Detach: every entry dark, no more broadcasts heard.
Detach ==
  /\ Free(Listed)
  /\ m_entries' = Dark(Listed)
  /\ m_detached' = TRUE /\ m_surface' = FALSE

\* The tick stops; at quit the overlay is detached; the worker is joined; pending callbacks
\* are flushed.
Unload(quit) ==
  /\ ~told /\ phase = "none" /\ unload = "no"
  /\ unload' = "stopping" /\ unloadingAtQuit' = quit
  /\ flushing' = callbacks
  /\ IF quit THEN Detach ELSE UNCHANGED <<m_entries, m_detached, m_surface>>
  /\ moved' = TRUE /\ declared' = Undeclared   \* nothing declares again
  /\ UNCHANGED <<displays, control, m_retired, known, calling, applying, m_applyPending, callbacks>>

\* DrainSocketLog reschedules itself while the plugin is loaded.
DrainSocketLog ==
  /\ Runs("drain")
  /\ IF unload = "no" THEN UpdateDeclare /\ UNCHANGED callbacks
     ELSE callbacks' = callbacks \ {"drain"} /\ UNCHANGED surface
  /\ UNCHANGED <<displays, control, entries, known, calling, applying, m_detached, m_applyPending, ending>>

\* controllers->Unsubscribe(): the controller is gone.
UnsubscribeControllers ==
  /\ ~told /\ phase = "none" /\ unload = "stopping" /\ flushing = {}
  /\ IF m_controller # None THEN SetController(None)
     ELSE UNCHANGED <<m_controller, shown, m_entries, m_detached, m_applyPending, callbacks>>
  /\ unload' = "uncontrolled"
  /\ UNCHANGED <<published, going, told, switches, m_retired, known, calling, applying, flushing, surface, unloadingAtQuit>>

\* Mutant: the destructor frees its entries without having withdrawn them.
Abandon == UNCHANGED <<known, told, phase>>

\* The destructor's broadcast, if anything was listed.
Withdraw == IF Listed # {} THEN Broadcast /\ phase' = "withdrawn" ELSE UNCHANGED <<known, told, phase>>

\* ~DmdOverlay, not run at quit: detached, its entries withdrawn with a broadcast,
DestroyOverlay ==
  /\ unload = "uncontrolled" /\ ~told /\ phase = "none" /\ ~unloadingAtQuit
  /\ Free(Listed)
  /\ m_entries' = <<>> /\ m_retired' = m_retired \cup Listed
  /\ m_detached' = TRUE /\ m_surface' = FALSE
  /\ Withdraw
  /\ unload' = "overlay gone"
  /\ UNCHANGED <<shown, published, going, control, calling, desired, removed, added, queue, moved, declared,
                 unloadingAtQuit>>

\* What the second flush runs.
LeftOver == callbacks

\* and freed; then the last callbacks are flushed,
LastFlush ==
  /\ ~told /\ (unload = "overlay gone" \/ (unload = "uncontrolled" /\ unloadingAtQuit))
  /\ m_retired' = IF unloadingAtQuit THEN m_retired ELSE {}
  /\ phase' = "none" /\ unload' = "last flush"
  /\ flushing' = LeftOver
  /\ UNCHANGED <<displays, control, m_entries, known, calling, desired, removed, added, m_detached, m_applyPending,
                 callbacks, surface, unloadingAtQuit>>

\* and nothing of the plugin is left to run.
UnloadEnds ==
  /\ unload = "last flush" /\ flushing = {}
  /\ unload' = "done"
  /\ UNCHANGED <<displays, control, entries, known, calling, applying, m_detached, queue, surface, unloadingAtQuit>>

\* What the API thread does of the plugin's own accord, apart from the tick.
OwnStep == \/ OnSourcesChanged \/ OnDeferredApply \/ ApplyRemove \/ ApplyAdd \/ ApplyEnd
           \/ UnsubscribeControllers \/ DestroyOverlay \/ LastFlush \/ UnloadEnds

Next == \/ PublishDisplay \/ WithdrawDisplay \/ ControllersChange
        \/ OwnStep \/ OnPrepareFrame \/ DrainSocketLog
        \/ \E c \in Consumers : Call(c) \/ Return(c)
        \/ \E quit \in BOOLEAN : Unload(quit)

Spec == Init /\ [][Next]_vars

\* Broadcasts, callbacks and a begun unload go on; render calls return, and come once a frame,
\* so that a thread waiting for an entry's mutex gets it between two of them.
FairSpec == /\ Spec
            /\ SF_vars(OwnStep) /\ WF_vars(unload # "no" /\ DrainSocketLog)
            /\ \A c \in Consumers : WF_vars(Return(c))

(***************************************************************************)
(* Properties.                                                             *)
(***************************************************************************)

\* A render call is only ever inside a target that its plugin has not freed: DarkenStale and
\* Detach wait for the call under the entry's mutex before the broadcast returns.
TargetAlive == \A c \in Consumers : calling[c] # 0 => m_entries[calling[c]].target.source \in shown \cup going

\* An override that a consumer still holds from a broadcast, or is in, is allocated: Apply and
\* the destructor free only what an earlier broadcast withdrew.
KnownAllocated == known \cup ({calling[c] : c \in Consumers} \ {0}) \subseteq Listed \cup m_retired

\* When the plugin is unloaded none of its callbacks is left for the host to run.
NothingPending == unload = "done" => callbacks = {}

\* Nothing that is called has been freed: not a target in a render call, not an override of ours
\* that a consumer holds, not the plugin while the host has a callback of it to run.
CallsAllocated == TargetAlive /\ KnownAllocated /\ NothingPending

\* No Apply runs or is queued, and the overlay listens.
AtRest == ~told /\ phase = "none" /\ "apply" \notin callbacks /\ ~m_detached

\* With nothing queued the overrides are those the display list calls for, each once and calling
\* its target: no change is lost, one inside Apply's own broadcasts included (m_applyPending).
AsDesired == AtRest => /\ \A k \in Listed : m_entries[k].live
                       /\ {m_entries[k].target : k \in Listed} = Desired
                       /\ Cardinality(Listed) = Cardinality(Desired)

\* The displays a consumer reaches from the root, over every override as listed.
Reached[n \in Nat] ==
  IF n = 0 THEN {Root}
  ELSE LET r == Reached[n - 1] IN
       r \cup {s.id : s \in {s \in shown : s.over \in r}}
         \cup {Ours + k : k \in {k \in Listed : Base(k) \in r}}

\* Wherever a consumer's walk from the controller's display ends, it ends at an override of ours,
\* unless the end cannot be composited on (Chain::Targets).
ChainEndsInOurs ==
  (AtRest /\ m_controller # None /\ \E r \in shown : r.id = Root /\ r.size > 0) =>
    \A s \in shown : (s.size > 0 /\ s.id \in Reached[2 * Cardinality(shown)]) =>
      \/ \E o \in shown : o.over = s.id
      \/ \E k \in Listed : Base(k) = s.id

\* Our override stands beside another plugin's of the same display only while a third chained
\* onto ours and reads from it ("never a sibling", OverrideChain.h, and its one exception).
SiblingOnlyIfChained ==
  AtRest => \A k \in Listed, s \in shown :
              s.over = Base(k) => \E o \in shown : o.over = Ours + k

\* The chain rule (OverrideChain.h), whatever plugins publish over the root, over each other and
\* over ours, and in whatever order: each chain ends in an override of ours, beside another's only while
\* a third display is chained onto ours.
ChainRule == ChainEndsInOurs /\ SiblingOnlyIfChained

\* Apply never withdraws an override that a colouriser reads from, while its target and the
\* controller's display stay as they were.
ReadFromStays ==
  \A k \in Listed :
    (/\ phase = "start" /\ m_entries[k].live /\ m_controller # None
     /\ \E s \in shown : s.over = Ours + k
     /\ \E r \in shown : r.id = Root /\ r.size = m_entries[k].target.base
     /\ Base(k) \in Reached[2 * Cardinality(shown)])
    => k \in Listed'

\* A declaration whose generation is still current describes the overrides as they are: every
\* change that the daemon draws over moves m_surfaceGeneration.
DeclaredSurface ==
  (AtRest /\ ~moved) => declared.entries = Listed /\ declared.surface = m_surface

\* Once the deferred Apply has run, the overrides listed and the surface declared are those that
\* the display list calls for, however displays changed while it ran (RequestApply, Apply).
Settled == AsDesired /\ DeclaredSurface

\* While VPX quits nothing is withdrawn or listed any more, however the controllers go
\* (SB-5801: a colouriser that restarts its thread then deadlocks exit()).
QuitSilent == unloadingAtQuit => UNCHANGED known

\* An override is withdrawn only when nobody is hurt by it: not from under a colouriser that reads
\* from it, and not while VPX quits (Apply, Detach).
WithdrawnSafely == [][ReadFromStays /\ QuitSilent]_vars

\* Overrides whose targets have gone do not stay listed, unless the plugin unloads at quit.
StaleWithdrawn ==
  (\E k \in Listed : ~m_entries[k].live) ~> (unloadingAtQuit \/ \A k \in Listed : m_entries[k].live)

\* Unloading ends, and no render call or callback holds it up for ever.
Unloads == unload # "no" ~> unload = "done"

\* Neither a dead override nor an unload waits for ever (RequestApply, Flush).
EndsInTime == StaleWithdrawn /\ Unloads
====
