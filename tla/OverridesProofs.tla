-------------------------- MODULE OverridesProofs --------------------------
(***************************************************************************)
(* Theorems about Overrides, for every set of displays, sizes and          *)
(* consumers and every number of publications and controller changes.      *)
(***************************************************************************)
EXTENDS Overrides, FiniteSetTheorems, FunctionTheorems, TLAPS

-----------------------------------------------------------------------------
(* The inductive invariant.                                                *)

DisplayType == [id : Outputs \cup {Root}, over : Nat, size : Sizes]
TargetType  == [source : DisplayType, identify : BOOLEAN, base : Sizes]
EntryType   == [target : TargetType, live : BOOLEAN]
Callbacks   == {"apply", "drain"}

TypeInv ==
  /\ shown \subseteq DisplayType /\ IsFiniteSet(shown) /\ going \subseteq DisplayType
  /\ told \in BOOLEAN /\ m_controller \in {None, Root}
  /\ m_entries \in [Listed -> EntryType] /\ Listed \subseteq Nat \ {0}
  /\ m_retired \subseteq Nat /\ calling \in [Consumers -> Nat]
  /\ phase \in {"none", "start", "removed", "added", "withdrawn"}
  /\ desired \subseteq TargetType /\ removed \in BOOLEAN /\ added \in BOOLEAN
  /\ m_applyPending \in BOOLEAN /\ m_detached \in BOOLEAN
  /\ callbacks \subseteq Callbacks /\ flushing \subseteq Callbacks
  /\ m_surface \in BOOLEAN /\ moved \in BOOLEAN
  /\ unload \in {"no", "stopping", "uncontrolled", "overlay gone", "last flush", "done"}
  /\ unloadingAtQuit \in BOOLEAN

\* A plugin publishes one display under an id, and not over itself.
ShownInv ==
  /\ \A s, t \in shown : s.id = t.id => s = t
  /\ \A s \in shown : s.over # s.id
  /\ ~told => going = {}

\* What is listed: each target once; a live one is still there, while the broadcast that tells of
\* its end has not reached the overlay at the latest.
EntryInv ==
  /\ known = Listed
  /\ \A k, l \in Listed : m_entries[k].target = m_entries[l].target => k = l
  /\ \A k \in Listed : m_entries[k].live => m_entries[k].target.source \in shown \cup going
  /\ \A c \in Consumers : calling[c] # 0 => calling[c] \in Listed /\ m_entries[calling[c]].live

\* Where Apply is.
ApplyInv ==
  /\ phase = "start" => ~told /\ ~m_detached /\ desired = Desired /\ ~removed /\ ~added
  /\ phase \notin {"removed", "added"} => ~removed /\ ~added
  /\ phase \in {"removed", "added"} => ~m_detached
  /\ phase = "removed" => removed

\* The overlay is detached for good, before the last callbacks are flushed.
UnloadInv ==
  /\ m_detached => /\ phase \in {"none", "withdrawn"} /\ ~told
                   /\ \A k \in Listed : ~m_entries[k].live
  /\ unload \in {"overlay gone", "last flush", "done"} \/ unloadingAtQuit => m_detached
  /\ unload = "no" => ~unloadingAtQuit
  /\ unload # "no" => moved
  /\ unload = "last flush" => callbacks \subseteq flushing
  /\ unload = "done" => callbacks = {}

\* An Apply is queued whenever one is needed, unless a broadcast has yet to ask for it.
PendingInv ==
  /\ (~told /\ ~m_detached /\ phase # "start" /\ NeedsApply) => m_applyPending
  /\ m_applyPending /\ ~m_detached => "apply" \in callbacks

\* What was declared last is what is there, while no change has been made to it.
SurfaceInv ==
  (~moved /\ ~removed /\ ~added) => declared.entries = Listed /\ declared.surface = m_surface

IInv == TypeInv /\ ShownInv /\ EntryInv /\ ApplyInv /\ UnloadInv /\ PendingInv /\ SurfaceInv

-----------------------------------------------------------------------------
(* Lemmas about the chain rule.                                            *)

\* What is desired is a target that is listed, once per display.
LEMMA DesiredIs ==
  ASSUME TypeInv, ShownInv
  PROVE  /\ \A t \in Desired : /\ t \in TargetType /\ t.source \in shown /\ IsTarget(t.source.id)
                               /\ t.source.size > 0
         /\ \A t, u \in Desired : t.source = u.source => t = u
         /\ IsFiniteSet(Desired)
         /\ m_detached => Desired = {}
<1> DEFINE roots == {s \in shown : s.id = Root /\ s.size > 0}
           able  == {s \in shown : s.id \in Walk[Cardinality(shown)] /\ IsTarget(s.id) /\ s.size > 0}
           made(s, r) == [source |-> s, identify |-> s.id = Root, base |-> r.size]
<1>1. Desired \subseteq {made(s, r) : r \in roots, s \in able}
  BY DEF Desired
<1>2. \A r, q \in roots : r = q
  BY DEF ShownInv
<1>3. \A t \in Desired : \E r \in roots, s \in able : t = made(s, r)
  BY <1>1
<1>4. \A r \in roots, s \in able :
        /\ made(s, r).source = s /\ made(s, r) \in TargetType /\ s \in shown
        /\ IsTarget(s.id) /\ s.size > 0
  BY DEF TypeInv, TargetType, DisplayType
<1>5. \A t \in Desired : /\ t \in TargetType /\ t.source \in shown /\ IsTarget(t.source.id)
                         /\ t.source.size > 0
  BY <1>3, <1>4
<1>6. \A t, u \in Desired : t.source = u.source => t = u
  BY <1>2, <1>3, <1>4
<1>7. IsFiniteSet(Desired)
  <2> DEFINE f == [t \in Desired |-> t.source]
  <2>1. f \in [Desired -> shown]
    BY <1>5
  <2>2. \A t, u \in Desired : f[t] = f[u] => t = u
    BY <1>6
  <2>3. f \in Injection(Desired, shown)
    BY <2>1, <2>2 DEF Injection, IsInjective
  <2> QED
    BY <2>3, FS_Injection DEF TypeInv
<1> QED
  BY <1>5, <1>6, <1>7 DEF Desired

\* Nothing else is looked at to find what is desired.
LEMMA DesiredSame ==
  ASSUME UNCHANGED <<shown, m_entries, m_controller, m_detached>>
  PROVE  Desired' = Desired /\ NeedsApply' = NeedsApply
<1>1. Listed' = Listed
  BY DEF Listed
<1>2. \A k : Base(k)' = Base(k)
  BY DEF Base
<1>3. Desired' = Desired
  BY DEF Desired, Walk, Children, Parent, IsTarget, Kept, Listed, Base
<1> QED
  BY <1>1, <1>3 DEF NeedsApply, Listed

\* The overrides listed, each of a target that is desired, are as many as are desired just when
\* they are all that is desired.
LEMMA Counted ==
  ASSUME TypeInv, ShownInv, EntryInv, \A k \in Listed : m_entries[k].target \in Desired
  PROVE  /\ Cardinality(Desired) = Cardinality(Listed) <=> Desired = {m_entries[k].target : k \in Listed}
         /\ IsFiniteSet(Listed)
<1> DEFINE f == [k \in Listed |-> m_entries[k].target]
<1>1. f \in [Listed -> Desired]
  OBVIOUS
<1>2. \A k, l \in Listed : f[k] = f[l] => k = l
  BY DEF EntryInv
<1>3. f \in Injection(Listed, Desired)
  BY <1>1, <1>2 DEF Injection, IsInjective
<1>4. IsFiniteSet(Desired)
  BY DesiredIs
<1>5. /\ IsFiniteSet(Listed)
      /\ Cardinality(Listed) = Cardinality(Desired) <=> f \in Surjection(Listed, Desired)
  BY <1>3, <1>4, FS_Injection
<1>6. f \in Surjection(Listed, Desired) <=> \A t \in Desired : \E k \in Listed : f[k] = t
  BY <1>1 DEF Surjection
<1>7. (\A t \in Desired : \E k \in Listed : f[k] = t) <=> Desired = {m_entries[k].target : k \in Listed}
  OBVIOUS
<1> QED
  BY <1>5, <1>6, <1>7

\* Without a need for Apply, what is listed is live and what is desired.
LEMMA NoNeed ==
  ASSUME TypeInv, ShownInv, EntryInv
  PROVE  ~NeedsApply <=> /\ \A k \in Listed : m_entries[k].live
                         /\ Desired = {m_entries[k].target : k \in Listed}
<1>1. ~NeedsApply <=> /\ Cardinality(Desired) = Cardinality(Listed)
                      /\ \A k \in Listed : m_entries[k].live /\ m_entries[k].target \in Desired
  BY DEF NeedsApply
<1>2. CASE \A k \in Listed : m_entries[k].target \in Desired
  <2>1. Cardinality(Desired) = Cardinality(Listed) <=> Desired = {m_entries[k].target : k \in Listed}
    BY <1>2, Counted
  <2> QED
    BY <1>1, <1>2, <2>1
<1>3. CASE ~ \A k \in Listed : m_entries[k].target \in Desired
  <2>1. Desired # {m_entries[k].target : k \in Listed}
    BY <1>3
  <2> QED
    BY <1>1, <1>3, <2>1
<1> QED
  BY <1>2, <1>3

\* The displays of other plugins have ids of their own, apart from those of our overrides.
LEMMA IdIs ==
  ASSUME NEW s \in DisplayType
  PROVE  s.id \in Nat /\ s.id < Ours /\ s.id # None /\ s.over \in Nat
<1>1. Root \in Nat /\ Root < Ours /\ Root # None /\ Ours = 100
  BY DEF Root, Ours, None
<1>2. \A i \in Outputs : i \in 2 .. Ours - 1
  BY OverridesAssumption DEF OverridesAssumption
<1>3. \A i \in Outputs : i \in Nat /\ i < Ours /\ i # None
  BY <1>1, <1>2 DEF None
<1> QED
  BY <1>1, <1>3 DEF DisplayType

\* New overrides have numbers of their own and targets of their own.
LEMMA NewNumbersIs ==
  ASSUME TypeInv, NEW targets \in SUBSET TargetType, NEW new \in NewNumbers(targets)
  PROVE  /\ DOMAIN new \subseteq Nat \ {0} /\ DOMAIN new \cap Listed = {}
         /\ new \in [DOMAIN new -> targets]
         /\ \A k, l \in DOMAIN new : new[k] = new[l] => k = l
<1> DEFINE used == Listed \cup m_retired \cup {s.over - Ours : s \in {s \in shown : s.over > Ours}}
           free == (1 .. Cardinality(used) + Cardinality(targets)) \ used
<1>1. PICK ks \in SUBSET free :
        new \in {f \in [ks -> targets] : \A k, l \in ks : k < l => f[k].source.id < f[l].source.id}
  BY DEF NewNumbers
<1>2. DOMAIN new = ks /\ new \in [ks -> targets] /\ ks \subseteq free
  BY <1>1
<1>3. \A k, l \in ks : k < l => new[k].source.id < new[l].source.id
  BY <1>1
<1>4. \A k \in free : k \in Nat /\ k # 0 /\ k \notin Listed
  OBVIOUS
<1> HIDE DEF free
<1>5. ks \subseteq Nat \ {0} /\ ks \cap Listed = {}
  BY <1>2, <1>4
<1>6. \A k \in ks : new[k].source.id \in Nat
  BY <1>2, IdIs DEF TargetType
<1>7. \A k, l \in ks : new[k] = new[l] => k = l
  <2> SUFFICES ASSUME NEW k \in ks, NEW l \in ks, new[k] = new[l], k # l PROVE FALSE
    OBVIOUS
  <2>1. k < l \/ l < k
    BY <1>5
  <2>2. new[k].source.id < new[k].source.id
    BY <1>3, <2>1
  <2> QED
    BY <1>6, <2>2
<1> QED
  BY <1>2, <1>5, <1>7

\* RequestApply queues an Apply that is needed and not queued yet, unless the overlay is detached.
LEMMA Scheduled ==
  ASSUME TypeInv, PendingInv, ScheduleIfNeeded, m_detached' = m_detached
  PROVE  /\ m_applyPending' \in BOOLEAN /\ callbacks' \subseteq Callbacks
         /\ (~m_detached' /\ NeedsApply') => m_applyPending'
         /\ m_applyPending' /\ ~m_detached' => "apply" \in callbacks'
         /\ m_detached => callbacks' = callbacks
<1>1. CASE ~m_detached' /\ NeedsApply' /\ ~m_applyPending
  <2>1. m_applyPending' = TRUE /\ callbacks' = callbacks \cup {"apply"}
    BY <1>1 DEF ScheduleIfNeeded
  <2> QED
    BY <1>1, <2>1 DEF TypeInv, Callbacks
<1>2. CASE ~(~m_detached' /\ NeedsApply' /\ ~m_applyPending)
  <2>1. m_applyPending' = m_applyPending /\ callbacks' = callbacks
    BY <1>2 DEF ScheduleIfNeeded
  <2> QED
    BY <1>2, <2>1 DEF TypeInv, PendingInv
<1> QED
  BY <1>1, <1>2

\* Darkened entries stay listed, with their targets.
LEMMA DarkIs ==
  ASSUME TypeInv, NEW ks
  PROVE  /\ DOMAIN Dark(ks) = Listed /\ Dark(ks) \in [Listed -> EntryType]
         /\ \A k \in Listed : /\ Dark(ks)[k].target = m_entries[k].target
                              /\ Dark(ks)[k].live <=> m_entries[k].live /\ k \notin ks
<1>1. \A k \in Listed : m_entries[k] \in EntryType
  BY DEF TypeInv
<1>2. \A k \in Listed : /\ [m_entries[k] EXCEPT !.live = FALSE] \in EntryType
                        /\ [m_entries[k] EXCEPT !.live = FALSE].target = m_entries[k].target
                        /\ ~[m_entries[k] EXCEPT !.live = FALSE].live
  BY <1>1 DEF EntryType
<1> QED
  BY <1>1, <1>2 DEF Dark

-----------------------------------------------------------------------------
(* The walks over the displays.                                            *)

\* Induction, over the set of the numbers that have the property.
LEMMA NatSet ==
  ASSUME NEW S, 0 \in S, \A n \in Nat : n \in S => n + 1 \in S,
         NEW x \in Nat
  PROVE  x \in S
<1> SUFFICES ASSUME x \notin S PROVE FALSE
  OBVIOUS
<1> DEFINE T == {n \in 0 .. x : n \notin S}
           f == [n \in T |-> n - 1]
<1>1. IsFiniteSet(T)
  BY FS_Interval, FS_Subset, 0 \in Int, x \in Int
<1>2. x \in T
  OBVIOUS
<1>3. ASSUME NEW n \in T PROVE n \in Nat /\ n - 1 \in T \ {x}
  <2>1. n \in 0 .. x /\ n \notin S /\ n # 0
    OBVIOUS
  <2>2. n - 1 \in Nat /\ n - 1 + 1 = n /\ n - 1 \in 0 .. x /\ n - 1 # x
    BY <2>1
  <2> QED
    BY <2>1, <2>2
<1>4. f \in [T -> T \ {x}]
  BY <1>3
<1>5. \A a, b \in T : f[a] = f[b] => a = b
  BY <1>3
<1>6. IsFiniteSet(T \ {x}) /\ Cardinality(T \ {x}) = Cardinality(T) - 1 /\ Cardinality(T) \in Nat
  BY <1>1, <1>2, FS_RemoveElement, FS_CardinalityType
<1> HIDE DEF T, f
<1>7. \E a, b \in T : a # b /\ f[a] = f[b]
  BY <1>1, <1>4, <1>6, FS_PigeonHole
<1> QED
  BY <1>5, <1>7

\* An iteration of G from z: the function that the recursive definition names.
LEMMA Iteration ==
  ASSUME NEW U, NEW z \in U, NEW G \in [U -> U]
  PROVE  \E f \in [Nat -> U] : \A n \in Nat : f[n] = IF n = 0 THEN z ELSE G[f[n - 1]]
<1> DEFINE Upto(n) == {g \in [0 .. n -> U] : g[0] = z /\ \A i \in 0 .. n : i # 0 => g[i] = G[g[i - 1]]}
           S == {n \in Nat : Upto(n) # {}}
<1>1. ASSUME NEW n \in Nat PROVE Upto(n) # {}
  <2>1. 0 \in S
    <3>1. [i \in 0 .. 0 |-> z] \in Upto(0)
      OBVIOUS
    <3> QED
      BY <3>1
  <2>2. ASSUME NEW m \in Nat, m \in S PROVE m + 1 \in S
    <3>1. PICK g \in [0 .. m -> U] : g[0] = z /\ \A i \in 0 .. m : i # 0 => g[i] = G[g[i - 1]]
      BY <2>2
    <3> DEFINE h == [i \in 0 .. m + 1 |-> IF i = m + 1 THEN G[g[m]] ELSE g[i]]
    <3>2. h \in [0 .. m + 1 -> U]
      OBVIOUS
    <3>3. h[0] = z
      BY <3>1
    <3>4. ASSUME NEW i \in 0 .. m + 1, i # 0 PROVE h[i] = G[h[i - 1]]
      <4>1. i - 1 \in 0 .. m /\ h[i - 1] = g[i - 1]
        BY <3>4
      <4>2. CASE i = m + 1
        BY <4>1, <4>2
      <4>3. CASE i # m + 1
        <5>1. i \in 0 .. m /\ h[i] = g[i]
          BY <4>3
        <5> QED
          BY <3>1, <3>4, <4>1, <5>1
      <4> QED
        BY <4>2, <4>3
    <3> HIDE DEF h
    <3>5. h \in Upto(m + 1)
      BY <3>2, <3>3, <3>4
    <3> QED
      BY <3>5
  <2> HIDE DEF S
  <2>3. n \in S
    BY <2>1, <2>2, NatSet
  <2> QED
    BY <2>3 DEF S
<1>2. ASSUME NEW n \in Nat, NEW g \in Upto(n), NEW m \in Nat, m <= n, NEW h \in Upto(m), NEW k \in 0 .. m
      PROVE  g[k] = h[k]
  <2> DEFINE E == {i \in Nat : i <= m => g[i] = h[i]}
  <2>1. 0 \in E
    OBVIOUS
  <2>2. ASSUME NEW i \in Nat, i \in E PROVE i + 1 \in E
    <3> SUFFICES ASSUME i + 1 <= m PROVE g[i + 1] = h[i + 1]
      OBVIOUS
    <3>1. i + 1 \in 0 .. m /\ i + 1 \in 0 .. n /\ i + 1 # 0 /\ i + 1 - 1 = i /\ g[i] = h[i]
      BY <1>2, <2>2
    <3> QED
      BY <3>1
  <2> HIDE DEF E
  <2>3. k \in Nat
    OBVIOUS
  <2>4. k \in E
    BY <2>1, <2>2, <2>3, NatSet
  <2> QED
    BY <2>4 DEF E
<1> DEFINE a(n) == CHOOSE g \in Upto(n) : TRUE
           f == [n \in Nat |-> a(n)[n]]
<1>3. ASSUME NEW n \in Nat PROVE a(n) \in Upto(n)
  BY <1>1
<1> HIDE DEF a
<1>4. ASSUME NEW n \in Nat PROVE f[n] \in U
  BY <1>3
<1>5. ASSUME NEW n \in Nat PROVE f[n] = IF n = 0 THEN z ELSE G[f[n - 1]]
  <2>1. CASE n = 0
    BY <1>3, <2>1
  <2>2. CASE n # 0
    <3>1. n - 1 \in Nat /\ n - 1 <= n /\ n - 1 \in 0 .. n - 1 /\ n \in 0 .. n
      BY <2>2
    <3>2. a(n) \in Upto(n) /\ a(n - 1) \in Upto(n - 1)
      BY <1>3, <3>1
    <3>3. a(n)[n] = G[a(n)[n - 1]]
      BY <2>2, <3>1, <3>2
    <3> HIDE DEF Upto
    <3>4. a(n)[n - 1] = a(n - 1)[n - 1]
      BY <1>2, <3>1, <3>2
    <3> QED
      BY <2>2, <3>1, <3>3, <3>4
  <2> QED
    BY <2>1, <2>2
<1> HIDE DEF f
<1>6. f \in [Nat -> U]
  BY <1>4 DEF f
<1> QED
  BY <1>5, <1>6

\* The ids that a walk of Desired, or of a consumer, may reach.
Ids == {Root} \cup {s.id : s \in shown} \cup {Ours + k : k \in Listed}

\* What Desired's walk does in a step: to the children.
Onward(X) == X \cup {s.id : s \in UNION {Children(i) : i \in X}}

\* What a consumer's walk does in a step.
Further(X) == X \cup {s.id : s \in {s \in shown : s.over \in X}} \cup {Ours + k : k \in {k \in Listed : Base(k) \in X}}

LEMMA WalkIs ==
  /\ Walk[0] = {Root}
  /\ \A n \in Nat : Walk[n + 1] = Onward(Walk[n])
<1> DEFINE G == [X \in SUBSET Ids |-> Onward(X)]
           P(f) == f = [n \in Nat |-> IF n = 0 THEN {Root} ELSE f[n - 1] \cup {s.id : s \in UNION {Children(i) : i \in f[n - 1]}}]
<1>1. \A X \in SUBSET Ids : Onward(X) \in SUBSET Ids
  BY DEF Onward, Ids, Children
<1>2. G \in [SUBSET Ids -> SUBSET Ids] /\ {Root} \in SUBSET Ids
  BY <1>1 DEF Ids
<1>3. PICK f \in [Nat -> SUBSET Ids] : \A n \in Nat : f[n] = IF n = 0 THEN {Root} ELSE G[f[n - 1]]
  <2> DEFINE U == SUBSET Ids
             z == {Root}
  <2>1. z \in U /\ G \in [U -> U]
    BY <1>2
  <2> HIDE DEF G, U, z
  <2>2. \E f \in [Nat -> U] : \A n \in Nat : f[n] = IF n = 0 THEN z ELSE G[f[n - 1]]
    BY <2>1, Iteration
  <2> QED
    BY <2>2 DEF U, z
<1>4. P(f)
  <2>1. \A n \in Nat \ {0} : f[n - 1] \in SUBSET Ids
    OBVIOUS
  <2>2. \A n \in Nat \ {0} : G[f[n - 1]] = f[n - 1] \cup {s.id : s \in UNION {Children(i) : i \in f[n - 1]}}
    BY <2>1 DEF Onward
  <2>3. f = [n \in Nat |-> IF n = 0 THEN {Root} ELSE f[n - 1] \cup {s.id : s \in UNION {Children(i) : i \in f[n - 1]}}]
    BY <1>3, <2>2
  <2> QED
    BY <2>3
<1>5. Walk = CHOOSE g : P(g)
  BY DEF Walk
<1>6. P(Walk)
  <2> HIDE DEF P
  <2> QED
    BY <1>4, <1>5
<1>7. \A n \in Nat : Walk[n] = IF n = 0 THEN {Root} ELSE Onward(Walk[n - 1])
  BY <1>6 DEF Onward
<1>8. \A n \in Nat : n + 1 \in Nat /\ n + 1 # 0 /\ n + 1 - 1 = n
  OBVIOUS
<1>9. \A n \in Nat : Walk[n + 1] = Onward(Walk[n])
  <2> HIDE DEF P
  <2> TAKE n \in Nat
  <2> QED
    BY <1>7, <1>8
<1> QED
  BY <1>7, <1>9

LEMMA ReachedIs ==
  /\ Reached[0] = {Root}
  /\ \A n \in Nat : Reached[n + 1] = Further(Reached[n])
<1> DEFINE G == [X \in SUBSET Ids |-> Further(X)]
           P(f) == f = [n \in Nat |->
                          IF n = 0 THEN {Root}
                          ELSE LET r == f[n - 1] IN
                               r \cup {s.id : s \in {s \in shown : s.over \in r}}
                                 \cup {Ours + k : k \in {k \in Listed : Base(k) \in r}}]
<1>1. \A X \in SUBSET Ids : Further(X) \in SUBSET Ids
  BY DEF Further, Ids
<1>2. G \in [SUBSET Ids -> SUBSET Ids] /\ {Root} \in SUBSET Ids
  BY <1>1 DEF Ids
<1>3. PICK f \in [Nat -> SUBSET Ids] : \A n \in Nat : f[n] = IF n = 0 THEN {Root} ELSE G[f[n - 1]]
  <2> DEFINE U == SUBSET Ids
             z == {Root}
  <2>1. z \in U /\ G \in [U -> U]
    BY <1>2
  <2> HIDE DEF G, U, z
  <2>2. \E f \in [Nat -> U] : \A n \in Nat : f[n] = IF n = 0 THEN z ELSE G[f[n - 1]]
    BY <2>1, Iteration
  <2> QED
    BY <2>2 DEF U, z
<1>4. P(f)
  <2>1. \A n \in Nat \ {0} : f[n - 1] \in SUBSET Ids
    OBVIOUS
  <2>2. \A n \in Nat \ {0} : G[f[n - 1]] = Further(f[n - 1])
    BY <2>1
  <2>3. f = [n \in Nat |-> IF n = 0 THEN {Root} ELSE Further(f[n - 1])]
    BY <1>3, <2>2
  <2> QED
    BY <2>3 DEF Further
<1>5. Reached = CHOOSE g : P(g)
  BY DEF Reached
<1>6. P(Reached)
  <2> HIDE DEF P
  <2> QED
    BY <1>4, <1>5
<1>7. \A n \in Nat : Reached[n] = IF n = 0 THEN {Root} ELSE Further(Reached[n - 1])
  BY <1>6 DEF Further
<1>8. \A n \in Nat : n + 1 \in Nat /\ n + 1 # 0 /\ n + 1 - 1 = n
  OBVIOUS
<1>9. \A n \in Nat : Reached[n + 1] = Further(Reached[n])
  <2> HIDE DEF P
  <2> TAKE n \in Nat
  <2> QED
    BY <1>7, <1>8
<1> QED
  BY <1>7, <1>9

\* Desired's walk of as many steps as there are displays reaches all that a walk reaches.
LEMMA WalkCloses ==
  ASSUME TypeInv, NEW r \in shown, r.id = Root
  PROVE  /\ Root \in Walk[Cardinality(shown)]
         /\ \A x \in Walk[Cardinality(shown)] : x \in Nat /\ x < Ours
         /\ \A s \in shown : Parent(s) \in Walk[Cardinality(shown)] => s.id \in Walk[Cardinality(shown)]
<1> DEFINE I == {s.id : s \in shown}
           N == Cardinality(shown)
<1>1. IsFiniteSet(I) /\ Cardinality(I) \in Nat /\ N \in Nat /\ Cardinality(I) <= N
  <2>1. IsFiniteSet(I) /\ Cardinality(I) <= N
    <3> DEFINE f == [s \in shown |-> s.id]
    <3>1. f \in Surjection(shown, I)
      BY DEF Surjection
    <3> QED
      BY <3>1, FS_Surjection DEF TypeInv
  <2> QED
    BY <2>1, FS_CardinalityType DEF TypeInv
<1>2. ASSUME NEW X \in SUBSET I PROVE Onward(X) \in SUBSET I /\ X \subseteq Onward(X)
  BY DEF Onward, Children
<1>3. ASSUME NEW n \in Nat PROVE Walk[n] \in SUBSET I /\ Root \in Walk[n]
  <2> DEFINE S == {m \in Nat : Walk[m] \in SUBSET I /\ Root \in Walk[m]}
  <2>1. 0 \in S
    BY WalkIs
  <2>2. ASSUME NEW m \in Nat, m \in S PROVE m + 1 \in S
    <3>1. Walk[m] \in SUBSET I /\ Root \in Walk[m] /\ Walk[m + 1] = Onward(Walk[m])
      BY <2>2, WalkIs
    <3> QED
      BY <1>2, <3>1
  <2> HIDE DEF S
  <2>3. n \in S
    BY <2>1, <2>2, NatSet
  <2> QED
    BY <2>3 DEF S
<1>4. ASSUME NEW n \in Nat PROVE Onward(Walk[n]) = Walk[n] \/ Cardinality(Walk[n]) > n
  <2> DEFINE S == {m \in Nat : Onward(Walk[m]) = Walk[m] \/ Cardinality(Walk[m]) > m}
  <2>1. 0 \in S
    <3>1. Cardinality(Walk[0]) = 1
      BY WalkIs, FS_Singleton
    <3> QED
      BY <3>1
  <2>2. ASSUME NEW m \in Nat, m \in S PROVE m + 1 \in S
    <3>1. Walk[m + 1] = Onward(Walk[m]) /\ Walk[m] \in SUBSET I /\ Walk[m + 1] \in SUBSET I /\ Walk[m] \subseteq Walk[m + 1]
      BY <1>2, <1>3, WalkIs
    <3>2. CASE Onward(Walk[m]) = Walk[m]
      BY <3>1, <3>2
    <3>3. CASE Onward(Walk[m]) # Walk[m]
      <4>1. Cardinality(Walk[m]) > m
        BY <2>2, <3>3
      <4>2. IsFiniteSet(Walk[m + 1])
        BY <1>1, <3>1, FS_Subset
      <4>3. Cardinality(Walk[m]) < Cardinality(Walk[m + 1]) /\ Cardinality(Walk[m]) \in Nat /\ Cardinality(Walk[m + 1]) \in Nat
        BY <3>1, <3>3, <4>2, FS_Subset, FS_CardinalityType
      <4> QED
        BY <4>1, <4>3
    <3> QED
      BY <3>2, <3>3
  <2> HIDE DEF S
  <2>3. n \in S
    BY <2>1, <2>2, NatSet
  <2> QED
    BY <2>3 DEF S
<1>7. \A x \in Walk[N] : x \in Nat /\ x < Ours
  <2>1. \A s \in shown : s.id \in Nat /\ s.id < Ours
    BY IdIs DEF TypeInv
  <2>2. Walk[N] \subseteq I
    BY <1>1, <1>3
  <2> QED
    BY <2>1, <2>2
<1> HIDE DEF I
<1>5. Onward(Walk[N]) = Walk[N]
  <2>1. Walk[N] \in SUBSET I /\ Cardinality(Walk[N]) \in Nat /\ Cardinality(Walk[N]) <= Cardinality(I)
    BY <1>1, <1>3, FS_Subset, FS_CardinalityType
  <2> QED
    BY <1>1, <1>4, <2>1
<1>6. ASSUME NEW s \in shown, Parent(s) \in Walk[N] PROVE s.id \in Walk[N]
  <2>1. CASE s.id = Parent(s)
    BY <1>6, <2>1
  <2>2. CASE s.id # Parent(s)
    <3>1. s \in Children(Parent(s))
      BY <2>2 DEF Children
    <3>2. s.id \in Onward(Walk[N])
      BY <1>6, <3>1 DEF Onward
    <3> QED
      BY <1>5, <3>2
  <2> QED
    BY <2>1, <2>2
<1> QED
  BY <1>1, <1>3, <1>6, <1>7

\* Of a closed walk, whatever a consumer reaches is on it, or is an override of what is on it.
LEMMA ReachedInWalk ==
  ASSUME TypeInv, NEW W, Root \in W, \A x \in W : x \in Nat /\ x < Ours,
         \A s \in shown : Parent(s) \in W => s.id \in W,
         NEW n \in Nat
  PROVE  \A x \in Reached[n] : x \in W \/ \E k \in Listed : x = Ours + k /\ Base(k) \in W
<1> DEFINE In(x) == x \in W \/ \E k \in Listed : x = Ours + k /\ Base(k) \in W
           S == {m \in Nat : \A x \in Reached[m] : In(x)}
<1>1. 0 \in S
  BY ReachedIs
<1>4. Ours \in Nat /\ \A k \in Listed : k \in Nat /\ k # 0
  BY DEF TypeInv, Ours
<1>2. ASSUME NEW m \in Nat, m \in S PROVE m + 1 \in S
  <2>1. \A x \in Reached[m] : In(x)
    BY <1>2
  <2>2. ASSUME NEW s \in shown, s.over \in Reached[m] PROVE In(s.id)
    <3>1. In(s.over)
      BY <2>1, <2>2
    <3>2. CASE \E k \in Listed : Ours + k = s.over
      <4>1. PICK k \in Listed : Ours + k = s.over
        BY <3>2
      <4>2. k \in Nat /\ s.over - Ours = k /\ \A l \in Listed : s.over = Ours + l => l = k
        BY <1>4, <4>1
      <4>3. Parent(s) = Base(k)
        BY <3>2, <4>2 DEF Parent
      <4>4. ~(s.over \in W)
        <5> SUFFICES ASSUME s.over \in W PROVE FALSE
          OBVIOUS
        <5>1. s.over \in Nat /\ s.over < Ours
          OBVIOUS
        <5> QED
          BY <1>4, <4>1, <5>1
      <4>5. Base(k) \in W
        BY <3>1, <4>2, <4>4
      <4> QED
        BY <4>3, <4>5
    <3>3. CASE ~ \E k \in Listed : Ours + k = s.over
      BY <3>1, <3>3 DEF Parent
    <3> QED
      BY <3>2, <3>3
  <2>3. ASSUME NEW k \in Listed, Base(k) \in Reached[m] PROVE In(Ours + k)
    <3>1. In(Base(k))
      BY <2>1, <2>3
    <3>2. Base(k) \in Nat /\ Base(k) < Ours
      BY IdIs DEF TypeInv, EntryType, TargetType, Base
    <3>3. \A l \in Listed : Base(k) # Ours + l
      BY <1>4, <3>2
    <3> QED
      BY <3>1, <3>3
  <2>4. ASSUME NEW x \in Reached[m + 1] PROVE In(x)
    <3>1. x \in Further(Reached[m])
      BY <2>4, ReachedIs
    <3>2. \/ x \in Reached[m]
          \/ \E s \in shown : s.over \in Reached[m] /\ x = s.id
          \/ \E k \in Listed : Base(k) \in Reached[m] /\ x = Ours + k
      BY <3>1 DEF Further
    <3> QED
      BY <2>1, <2>2, <2>3, <3>2
  <2> QED
    BY <2>4
<1> HIDE DEF S
<1>3. n \in S
  BY <1>1, <1>2, NatSet
<1> QED
  BY <1>3 DEF S

\* What both walks have in common: what a consumer reaches, Desired looks at.
LEMMA ReachedIsDesired ==
  ASSUME TypeInv, ShownInv, m_controller # None, ~m_detached,
         NEW r \in shown, r.id = Root, r.size > 0,
         NEW s \in shown, s.size > 0, IsTarget(s.id), NEW n \in Nat, s.id \in Reached[n]
  PROVE  [source |-> s, identify |-> s.id = Root, base |-> r.size] \in Desired
<1> DEFINE W == Walk[Cardinality(shown)]
<1>1. /\ Root \in W /\ \A x \in W : x \in Nat /\ x < Ours
      /\ \A t \in shown : Parent(t) \in W => t.id \in W
  BY WalkCloses
<1> HIDE DEF W
<1>2. s.id \in W \/ \E k \in Listed : s.id = Ours + k /\ Base(k) \in W
  BY <1>1, ReachedInWalk
<1>3. /\ s.id \in Nat /\ s.id < Ours /\ Ours \in Nat /\ \A k \in Listed : k \in Nat
  BY IdIs DEF TypeInv, Ours
<1>4. \A k \in Listed : s.id # Ours + k
  BY <1>3
<1>5. s.id \in Walk[Cardinality(shown)]
  BY <1>2, <1>4 DEF W
<1> QED
  BY <1>5 DEF Desired

-----------------------------------------------------------------------------
(* The initial state and other plugins' displays.                          *)

LEMMA InitInv == Init => IInv
<1> SUFFICES ASSUME Init PROVE IInv
  OBVIOUS
<1> USE DEF Init, IInv
<1>1. Listed = {} /\ m_entries \in [Listed -> EntryType]
  BY DEF Listed
<1>2. IsFiniteSet(shown)
  BY FS_EmptySet
<1>3. calling \in [Consumers -> Nat]
  OBVIOUS
<1>4. TypeInv
  BY <1>1, <1>2, <1>3 DEF TypeInv, Callbacks
<1>5. ShownInv /\ EntryInv /\ ApplyInv /\ UnloadInv /\ SurfaceInv
  BY <1>1, <1>3 DEF ShownInv, EntryInv, ApplyInv, UnloadInv, SurfaceInv
<1>6. Desired = {}
  BY DEF Desired
<1>7. ~NeedsApply
  BY <1>1, <1>6 DEF NeedsApply
<1>8. PendingInv
  BY <1>7 DEF PendingInv
<1> QED
  BY <1>4, <1>5, <1>8

\* The host runs when Apply has nothing to decide.
LEMMA HostRunsThen ==
  ASSUME IInv, HostRuns
  PROVE  ~told /\ phase # "start" /\ going = {} /\ IsFiniteSet(shown)
<1> QED
  BY DEF HostRuns, IInv, ShownInv, TypeInv

\* A live override's target is still listed, or is one that the broadcast to come tells of.
LEMMA ChangedDisplays ==
  ASSUME IInv, ~told, phase # "start", going = {},
         shown \ shown' \subseteq going' \/ m_detached,
         shown' \subseteq DisplayType, IsFiniteSet(shown'), going' \subseteq DisplayType,
         \A s, t \in shown' : s.id = t.id => s = t,
         \A s \in shown' : s.over # s.id,
         m_detached => going' = {}, told' = ~m_detached,
         UNCHANGED <<m_controller, m_entries, m_retired, known, calling, phase, desired, removed, added>>,
         UNCHANGED <<m_detached, m_applyPending, callbacks, flushing, m_surface, moved, declared>>,
         UNCHANGED <<unload, unloadingAtQuit>>
  PROVE  IInv'
<1> USE DEF IInv
<1>0. Listed' = Listed
  BY DEF Listed
<1>1. TypeInv'
  <2>1. m_entries' \in [Listed' -> EntryType] /\ Listed' \subseteq Nat \ {0} /\ told' \in BOOLEAN
    BY <1>0 DEF TypeInv
  <2>2. /\ shown' \subseteq DisplayType /\ IsFiniteSet(shown') /\ going' \subseteq DisplayType
        /\ m_controller' \in {None, Root} /\ m_retired' \subseteq Nat /\ calling' \in [Consumers -> Nat]
        /\ phase' \in {"none", "start", "removed", "added", "withdrawn"}
    BY DEF TypeInv
  <2>3. /\ desired' \subseteq TargetType /\ removed' \in BOOLEAN /\ added' \in BOOLEAN
        /\ m_applyPending' \in BOOLEAN /\ m_detached' \in BOOLEAN
        /\ callbacks' \subseteq Callbacks /\ flushing' \subseteq Callbacks
    BY DEF TypeInv
  <2>4. /\ m_surface' \in BOOLEAN /\ moved' \in BOOLEAN /\ unloadingAtQuit' \in BOOLEAN
        /\ unload' \in {"no", "stopping", "uncontrolled", "overlay gone", "last flush", "done"}
    BY DEF TypeInv
  <2> QED
    BY <2>1, <2>2, <2>3, <2>4 DEF TypeInv
<1>2. ShownInv'
  BY DEF ShownInv, TypeInv
<1>3. EntryInv'
  <2>1. \A k \in Listed : m_entries[k].live => m_entries[k].target.source \in shown /\ ~m_detached
    BY DEF EntryInv, UnloadInv
  <2>2. \A k \in Listed : m_entries[k].live => m_entries[k].target.source \in shown' \cup going'
    BY <2>1
  <2> QED
    BY <1>0, <2>2 DEF EntryInv
<1>4. ApplyInv' /\ UnloadInv' /\ SurfaceInv'
  BY <1>0 DEF ApplyInv, UnloadInv, SurfaceInv
<1>5. PendingInv'
  BY DEF PendingInv
<1> QED
  BY <1>1, <1>2, <1>3, <1>4, <1>5

LEMMA PublishDisplayInv == IInv /\ PublishDisplay => IInv'
<1> SUFFICES ASSUME IInv, PublishDisplay PROVE IInv'
  OBVIOUS
<1>0. /\ HostRuns /\ told' = ~m_detached
      /\ UNCHANGED <<m_controller, m_entries, m_retired, known, calling, phase, desired, removed, added>>
      /\ UNCHANGED <<m_detached, m_applyPending, callbacks, flushing, m_surface, moved, declared>>
      /\ UNCHANGED <<unload, unloadingAtQuit>>
  BY DEF PublishDisplay, control, entries, applying, queue, surface, ending
<1> DEFINE old(id) == {s \in shown : s.id = id}
<1>1. PICK id \in Outputs \cup {Root}, size \in Sizes :
        \E over \in Overridable(id) :
          /\ shown' = (shown \ old(id)) \cup {[id |-> id, over |-> over, size |-> size]}
          /\ going' = IF m_detached THEN {} ELSE old(id)
  BY DEF PublishDisplay
<1>2. PICK over \in Overridable(id) :
          /\ shown' = (shown \ old(id)) \cup {[id |-> id, over |-> over, size |-> size]}
          /\ going' = IF m_detached THEN {} ELSE old(id)
  BY <1>1
<1> DEFINE new == [id |-> id, over |-> over, size |-> size]
<1>3. ~told /\ phase # "start" /\ going = {} /\ IsFiniteSet(shown)
  BY <1>0, HostRunsThen
<1>4. shown \subseteq DisplayType /\ known \subseteq Nat \ {0}
  BY DEF IInv, TypeInv, EntryInv
<1>5. \A i \in Outputs \cup {Root} : i \in Nat /\ i < Ours /\ i # None
  BY OverridesAssumption DEF OverridesAssumption, Root, Ours, None
<1>6. over \in Nat /\ over # id
  <2>1. CASE id = Root
    BY <1>2, <2>1 DEF Overridable, Root, None
  <2>2. CASE id # Root
    <3>1. over \in {s.id : s \in {s \in shown : s.id # id}} \cup {Ours + k : k \in known}
      BY <1>2, <2>2 DEF Overridable
    <3>2. CASE over \in {s.id : s \in {s \in shown : s.id # id}}
      BY <1>4, <3>2, IdIs
    <3>3. CASE over \in {Ours + k : k \in known}
      <4>1. PICK k \in known : over = Ours + k
        BY <3>3
      <4>2. k \in Nat /\ id \in Nat /\ id < Ours
        BY <1>4, <1>5
      <4> QED
        BY <4>1, <4>2 DEF Ours
    <3> QED
      BY <3>1, <3>2, <3>3
  <2> QED
    BY <2>1, <2>2
<1>7. new \in DisplayType /\ new.id = id /\ new.over = over
  BY <1>6 DEF DisplayType
<1> HIDE DEF new
<1>8. shown' = (shown \ old(id)) \cup {new}
  BY <1>2 DEF new
<1>9. IsFiniteSet(shown')
  <2>1. IsFiniteSet(shown \ old(id))
    BY <1>3, FS_Difference
  <2> QED
    BY <1>8, <2>1, FS_AddElement
<1>10. shown' \subseteq DisplayType /\ going' \subseteq DisplayType
  BY <1>2, <1>4, <1>7, <1>8
<1>11. \A s, t \in shown' : s.id = t.id => s = t
  BY <1>7, <1>8 DEF IInv, ShownInv
<1>12. \A s \in shown' : s.over # s.id
  BY <1>6, <1>7, <1>8 DEF IInv, ShownInv
<1>13. shown \ shown' \subseteq going' \/ m_detached
  BY <1>2
<1>14. m_detached => going' = {}
  BY <1>2
<1> QED
  BY <1>0, <1>3, <1>9, <1>10, <1>11, <1>12, <1>13, <1>14, ChangedDisplays

LEMMA WithdrawDisplayInv == IInv /\ WithdrawDisplay => IInv'
<1> SUFFICES ASSUME IInv, WithdrawDisplay PROVE IInv'
  OBVIOUS
<1>0. /\ HostRuns /\ told' = ~m_detached
      /\ UNCHANGED <<m_controller, m_entries, m_retired, known, calling, phase, desired, removed, added>>
      /\ UNCHANGED <<m_detached, m_applyPending, callbacks, flushing, m_surface, moved, declared>>
      /\ UNCHANGED <<unload, unloadingAtQuit>>
  BY DEF WithdrawDisplay, control, entries, applying, queue, surface, ending
<1>1. PICK s \in shown : shown' = shown \ {s} /\ going' = IF m_detached THEN {} ELSE {s}
  BY DEF WithdrawDisplay
<1>2. ~told /\ phase # "start" /\ going = {} /\ IsFiniteSet(shown)
  BY <1>0, HostRunsThen
<1>3. IsFiniteSet(shown')
  BY <1>1, <1>2, FS_RemoveElement
<1>4. shown' \subseteq DisplayType /\ going' \subseteq DisplayType
  BY <1>1 DEF IInv, TypeInv
<1>5. /\ \A t, u \in shown' : t.id = u.id => t = u
      /\ \A t \in shown' : t.over # t.id
  BY <1>1 DEF IInv, ShownInv
<1>6. (shown \ shown' \subseteq going' \/ m_detached) /\ (m_detached => going' = {})
  BY <1>1
<1> QED
  BY <1>0, <1>2, <1>3, <1>4, <1>5, <1>6, ChangedDisplays

-----------------------------------------------------------------------------
(* DmdOverlay on the API thread.                                           *)

\* DarkenStale leaves live only what is still listed, and asks for the Apply it calls for.
LEMMA OnSourcesChangedInv == IInv /\ OnSourcesChanged => IInv'
<1> SUFFICES ASSUME IInv, OnSourcesChanged PROVE IInv'
  OBVIOUS
<1> USE DEF IInv
<1>0. /\ told /\ Free(StaleEntries) /\ m_entries' = Dark(StaleEntries) /\ UpdateSurface(FALSE)
      /\ told' = FALSE /\ going' = {} /\ ScheduleIfNeeded
      /\ UNCHANGED <<shown, m_controller, m_detached, m_retired, known, calling>>
      /\ UNCHANGED <<phase, desired, removed, added, flushing, unload, unloadingAtQuit>>
  BY DEF OnSourcesChanged, Locked, applying, ending
<1>1. ~m_detached /\ phase # "start"
  BY <1>0 DEF UnloadInv, ApplyInv
<1>2. /\ DOMAIN m_entries' = Listed /\ m_entries' \in [Listed -> EntryType]
      /\ \A k \in Listed : /\ m_entries'[k].target = m_entries[k].target
                           /\ m_entries'[k].live <=> m_entries[k].live /\ k \notin StaleEntries
  BY <1>0, DarkIs
<1>3. Listed' = Listed
  BY <1>2 DEF Listed
<1>4. \A k \in Listed : m_entries'[k].live => m_entries[k].target.source \in shown
  BY <1>2 DEF StaleEntries, Stale
<1>5. /\ m_applyPending' \in BOOLEAN /\ callbacks' \subseteq Callbacks
      /\ (~m_detached' /\ NeedsApply') => m_applyPending'
      /\ m_applyPending' /\ ~m_detached' => "apply" \in callbacks'
  BY <1>0, Scheduled
<1>6. /\ m_surface' \in BOOLEAN /\ moved' \in BOOLEAN /\ (moved => moved')
      /\ ~moved' => m_surface' = m_surface /\ declared' = declared
  BY <1>0 DEF UpdateSurface, TypeInv
<1>7. TypeInv'
  <2>1. m_entries' \in [Listed' -> EntryType] /\ Listed' \subseteq Nat \ {0}
    BY <1>2, <1>3 DEF TypeInv
  <2> QED
    BY <1>0, <1>5, <1>6, <2>1 DEF TypeInv
<1>8. ShownInv'
  BY <1>0 DEF ShownInv
<1>9. EntryInv'
  <2>1. \A c \in Consumers : calling[c] # 0 => calling[c] \in Listed /\ m_entries'[calling[c]].live
    BY <1>0, <1>2 DEF EntryInv, Free
  <2> QED
    BY <1>0, <1>2, <1>3, <1>4, <2>1 DEF EntryInv
<1>10. ApplyInv' /\ UnloadInv'
  BY <1>0, <1>1, <1>6 DEF ApplyInv, UnloadInv
<1>11. PendingInv'
  BY <1>5 DEF PendingInv
<1>12. SurfaceInv'
  BY <1>0, <1>3, <1>6 DEF SurfaceInv
<1> QED
  BY <1>7, <1>8, <1>9, <1>10, <1>11, <1>12

\* Another controller, from the host or from Unsubscribe.
LEMMA SetControllerInv ==
  ASSUME IInv, NEW c \in {None, Root}, SetController(c), phase # "start", unload' # "done",
         unload' \in {"last flush", "overlay gone"} => unload' = unload,
         UNCHANGED <<going, told, m_retired, known, calling, phase, desired, removed, added>>,
         UNCHANGED <<flushing, m_surface, moved, declared, unloadingAtQuit>>,
         unload' = unload \/ (unload # "no" /\ unload' = "uncontrolled")
  PROVE  IInv'
<1> USE DEF IInv
<1>0. m_controller' = c /\ UNCHANGED <<shown, m_entries, m_detached>> /\ ScheduleIfNeeded
  BY DEF SetController
<1>1. Listed' = Listed
  BY <1>0 DEF Listed
<1>2. /\ m_applyPending' \in BOOLEAN /\ callbacks' \subseteq Callbacks
      /\ (~m_detached' /\ NeedsApply') => m_applyPending'
      /\ m_applyPending' /\ ~m_detached' => "apply" \in callbacks'
      /\ m_detached => callbacks' = callbacks
  BY <1>0, Scheduled
<1>3. unload' \in {"no", "stopping", "uncontrolled", "overlay gone", "last flush", "done"}
  BY DEF TypeInv
<1>4. TypeInv'
  <2>1. m_entries' \in [Listed' -> EntryType] /\ Listed' \subseteq Nat \ {0}
    BY <1>0, <1>1 DEF TypeInv
  <2> QED
    BY <1>0, <1>2, <1>3, <2>1 DEF TypeInv
<1>5. ShownInv' /\ EntryInv'
  BY <1>0, <1>1 DEF ShownInv, EntryInv
<1>6. ApplyInv'
  BY <1>0 DEF ApplyInv
<1>7. UnloadInv'
  BY <1>0, <1>1, <1>2, <1>3 DEF UnloadInv
<1>8. PendingInv'
  BY <1>2 DEF PendingInv
<1>9. SurfaceInv'
  BY <1>1 DEF SurfaceInv
<1> QED
  BY <1>4, <1>5, <1>6, <1>7, <1>8, <1>9

LEMMA ControllersChangeInv == IInv /\ ControllersChange => IInv'
<1> SUFFICES ASSUME IInv, ControllersChange PROVE IInv'
  OBVIOUS
<1>0. PICK c \in {None, Root} : SetController(c)
  BY DEF ControllersChange
<1>1. /\ phase = "none" /\ unload = "no"
      /\ UNCHANGED <<going, told, m_retired, known, calling, phase, desired, removed, added>>
      /\ UNCHANGED <<flushing, m_surface, moved, declared, unloadingAtQuit>> /\ unload' = unload
  BY DEF ControllersChange, applying, surface, ending
<1>2. /\ phase # "start" /\ unload' # "done"
      /\ unload' \in {"last flush", "overlay gone"} => unload' = unload
      /\ unload' = unload \/ (unload # "no" /\ unload' = "uncontrolled")
  BY <1>1
<1> QED
  BY <1>0, <1>1, <1>2, SetControllerInv

\* Unsubscribe, at the first step of the unload that may change the controller.
LEMMA UnsubscribeControllersInv == IInv /\ UnsubscribeControllers => IInv'
<1> SUFFICES ASSUME IInv, UnsubscribeControllers PROVE IInv'
  OBVIOUS
<1>1. /\ phase = "none" /\ unload = "stopping" /\ unload' = "uncontrolled"
      /\ UNCHANGED <<going, told, m_retired, known, calling, phase, desired, removed, added>>
      /\ UNCHANGED <<flushing, m_surface, moved, declared, unloadingAtQuit>>
  BY DEF UnsubscribeControllers, applying, surface
<1>2. CASE m_controller # None
  <2>1. SetController(None)
    BY <1>2 DEF UnsubscribeControllers
  <2> QED
    BY <1>1, <2>1, SetControllerInv
<1>3. CASE m_controller = None
  <2> USE DEF IInv
  <2>1. UNCHANGED <<m_controller, shown, m_entries, m_detached, m_applyPending, callbacks>>
    BY <1>3 DEF UnsubscribeControllers
  <2>2. Listed' = Listed /\ NeedsApply' = NeedsApply
    BY <2>1, DesiredSame DEF Listed
  <2>3. TypeInv'
    <3>1. m_entries' \in [Listed' -> EntryType] /\ Listed' \subseteq Nat \ {0}
      BY <2>1, <2>2 DEF TypeInv
    <3> QED
      BY <1>1, <2>1, <3>1 DEF TypeInv
  <2>4. ShownInv' /\ EntryInv'
    BY <1>1, <2>1, <2>2 DEF ShownInv, EntryInv
  <2>5. ApplyInv' /\ UnloadInv'
    BY <1>1, <2>1, <2>2 DEF ApplyInv, UnloadInv
  <2>6. PendingInv' /\ SurfaceInv'
    BY <1>1, <2>1, <2>2 DEF PendingInv, SurfaceInv
  <2> QED
    BY <2>3, <2>4, <2>5, <2>6
<1> QED
  BY <1>2, <1>3

\* Nothing is freed that is listed; Apply decides on the displays as they are.
LEMMA OnDeferredApplyInv == IInv /\ OnDeferredApply => IInv'
<1> SUFFICES ASSUME IInv, OnDeferredApply PROVE IInv'
  OBVIOUS
<1> USE DEF IInv
<1>0. /\ Runs("apply") /\ callbacks' = callbacks \ {"apply"}
      /\ UNCHANGED <<shown, going, told, m_controller, m_entries, known, calling, m_detached>>
      /\ UNCHANGED <<m_surface, moved, declared, unload, unloadingAtQuit>>
  BY DEF OnDeferredApply, displays, control, surface, ending
<1>1. /\ ~told /\ phase = "none" /\ "apply" \in callbacks
      /\ \/ unload = "no" /\ flushing' = flushing
         \/ unload # "no" /\ flushing' = flushing \ {"apply"}
  BY <1>0 DEF Runs
<1>2. Listed' = Listed /\ Desired' = Desired /\ NeedsApply' = NeedsApply
  BY <1>0, DesiredSame DEF Listed
<1>3. callbacks' \subseteq Callbacks /\ flushing' \subseteq Callbacks
  BY <1>0, <1>1 DEF TypeInv
<1>4. unload \in {"last flush", "done"} =>
        (unload = "last flush" => callbacks' \subseteq flushing') /\ (unload = "done" => callbacks' = {})
  BY <1>0, <1>1 DEF UnloadInv
<1>5. m_entries' \in [Listed' -> EntryType] /\ Listed' \subseteq Nat \ {0}
  BY <1>0, <1>2 DEF TypeInv
<1>6. ShownInv' /\ EntryInv'
  BY <1>0, <1>2 DEF ShownInv, EntryInv
<1>7. CASE unload = "last flush" \/ ~m_applyPending \/ m_detached
  <2>0. UNCHANGED <<m_retired, phase, desired, removed, added, m_applyPending>>
    BY <1>7 DEF OnDeferredApply, applying
  <2>1. TypeInv'
    <3>1. /\ m_retired' \subseteq Nat /\ desired' \subseteq TargetType
          /\ removed' \in BOOLEAN /\ added' \in BOOLEAN /\ m_applyPending' \in BOOLEAN
          /\ phase' \in {"none", "start", "removed", "added", "withdrawn"}
      BY <2>0 DEF TypeInv
    <3> QED
      BY <1>0, <1>3, <1>5, <3>1 DEF TypeInv
  <2>2. ApplyInv' /\ UnloadInv'
    BY <1>0, <1>1, <1>2, <1>4, <2>0 DEF ApplyInv, UnloadInv
  <2>3. m_detached \/ ~m_applyPending
    BY <1>7 DEF UnloadInv
  <2>4. PendingInv' /\ SurfaceInv'
    BY <1>0, <1>1, <1>2, <2>0, <2>3 DEF PendingInv, SurfaceInv
  <2> QED
    BY <1>6, <2>1, <2>2, <2>4
<1>8. CASE ~(unload = "last flush" \/ ~m_applyPending \/ m_detached)
  <2>0. /\ ~m_detached /\ m_applyPending' = FALSE /\ m_retired' \subseteq m_retired
        /\ phase' = "start" /\ desired' = Desired /\ UNCHANGED <<removed, added>>
    BY <1>8 DEF OnDeferredApply
  <2>1. desired' \subseteq TargetType /\ m_retired' \subseteq Nat
    BY <2>0, DesiredIs DEF TypeInv
  <2>2. TypeInv'
    BY <1>0, <1>3, <1>5, <2>0, <2>1 DEF TypeInv
  <2>3. ApplyInv' /\ UnloadInv'
    BY <1>0, <1>1, <1>2, <2>0 DEF ApplyInv, UnloadInv
  <2>4. PendingInv' /\ SurfaceInv'
    BY <1>0, <1>2, <2>0 DEF PendingInv, SurfaceInv
  <2> QED
    BY <1>6, <2>2, <2>3, <2>4
<1> QED
  BY <1>7, <1>8

\* What is withdrawn is in no call, and consumers drop it in the broadcast.
LEMMA ApplyRemoveInv == IInv /\ ApplyRemove => IInv'
<1> SUFFICES ASSUME IInv, ApplyRemove PROVE IInv'
  OBVIOUS
<1> USE DEF IInv
<1>0. /\ phase = "start" /\ Free(Outdated) /\ m_entries' = [k \in Listed \ Outdated |-> m_entries[k]]
      /\ m_retired' = m_retired \cup Outdated /\ Broadcast /\ phase' = "removed" /\ removed' = TRUE
      /\ UNCHANGED <<shown, going, m_controller, calling, desired, added, m_detached>>
      /\ UNCHANGED <<m_applyPending, callbacks, flushing, m_surface, moved, declared, unload, unloadingAtQuit>>
  BY DEF ApplyRemove, control, queue, surface, ending
<1>1. ~m_detached
  BY <1>0 DEF ApplyInv
<1>2. Listed' = Listed \ Outdated /\ \A k \in Listed' : m_entries'[k] = m_entries[k]
  BY <1>0 DEF Listed
<1>3. known' = Listed' /\ told' = TRUE
  BY <1>0, <1>1 DEF Broadcast, Listed
<1>4. Outdated \subseteq Listed
  BY DEF Outdated
<1>5. \A c \in Consumers : calling[c] # 0 => calling[c] \in Listed'
  BY <1>0, <1>2 DEF EntryInv, Free
<1>6. TypeInv'
  <2>1. m_entries' \in [Listed' -> EntryType] /\ Listed' \subseteq Nat \ {0} /\ m_retired' \subseteq Nat
    BY <1>0, <1>2, <1>4 DEF TypeInv
  <2> QED
    BY <1>0, <1>3, <2>1 DEF TypeInv
<1>7. ShownInv'
  BY <1>0, <1>3 DEF ShownInv
<1>8. EntryInv'
  BY <1>0, <1>2, <1>3, <1>5 DEF EntryInv
<1>9. ApplyInv' /\ UnloadInv'
  BY <1>0, <1>1 DEF ApplyInv, UnloadInv
<1>10. PendingInv' /\ SurfaceInv'
  BY <1>0, <1>3 DEF PendingInv, SurfaceInv
<1> QED
  BY <1>6, <1>7, <1>8, <1>9, <1>10

\* What is added is not listed yet, and what nothing changed needs no Apply.
LEMMA ApplyAddInv == IInv /\ ApplyAdd => IInv'
<1> SUFFICES ASSUME IInv, ApplyAdd PROVE IInv'
  OBVIOUS
<1> USE DEF IInv
<1> DEFINE missing == ToAdd \ {m_entries[k].target : k \in Listed}
<1>0. /\ ~told /\ (phase = "removed" \/ (phase = "start" /\ Outdated = {})) /\ phase' = "added"
      /\ UNCHANGED <<shown, going, m_controller, m_retired, calling, desired, removed, m_detached>>
      /\ UNCHANGED <<m_applyPending, callbacks, flushing, m_surface, moved, declared, unload, unloadingAtQuit>>
  BY DEF ApplyAdd, control, queue, surface, ending
<1>1. PICK new \in NewNumbers(missing) :
        /\ m_entries' = [k \in Listed \cup DOMAIN new |->
                           IF k \in Listed THEN m_entries[k] ELSE [target |-> new[k], live |-> TRUE]]
        /\ added' = (missing # {})
        /\ IF missing # {} THEN Broadcast ELSE UNCHANGED <<known, told>>
  BY DEF ApplyAdd
<1>2. ~m_detached
  BY <1>0 DEF ApplyInv
<1>3. missing \subseteq Desired
  BY <1>0 DEF ToAdd, ApplyInv
<1>4. /\ \A t \in missing : t \in TargetType /\ t.source \in shown
      /\ \A k \in Listed : m_entries[k].target \notin missing
  BY <1>3, DesiredIs
<1> HIDE DEF missing
<1>5. /\ DOMAIN new \subseteq Nat \ {0} /\ DOMAIN new \cap Listed = {}
      /\ \A k \in DOMAIN new : new[k] \in missing
      /\ \A k, l \in DOMAIN new : new[k] = new[l] => k = l
  <2>1. missing \in SUBSET TargetType
    BY <1>4
  <2>2. new \in [DOMAIN new -> missing]
    BY <1>1, <2>1, NewNumbersIs
  <2>3. \A k \in DOMAIN new : new[k] \in missing
    BY <2>2
  <2> QED
    BY <1>1, <2>1, <2>3, NewNumbersIs
<1>6. /\ Listed' = Listed \cup DOMAIN new
      /\ \A k \in Listed : m_entries'[k] = m_entries[k]
      /\ \A k \in DOMAIN new : m_entries'[k] = [target |-> new[k], live |-> TRUE]
  BY <1>1, <1>5 DEF Listed
<1> DEFINE e(k) == m_entries'[k]
<1>a. \A k \in DOMAIN new : /\ e(k) \in EntryType /\ e(k).target = new[k]
                           /\ e(k).target \in missing /\ e(k).target.source \in shown
  <2> SUFFICES ASSUME NEW k \in DOMAIN new
               PROVE  /\ e(k) \in EntryType /\ e(k).target = new[k]
                      /\ e(k).target \in missing /\ e(k).target.source \in shown
    OBVIOUS
  <2>1. e(k) = [target |-> new[k], live |-> TRUE]
    BY <1>6
  <2>2. new[k] \in missing
    BY <1>5
  <2>3. new[k] \in TargetType /\ new[k].source \in shown
    BY <1>4, <2>2
  <2> HIDE DEF e
  <2> QED
    BY <2>1, <2>2, <2>3 DEF EntryType
<1>7. m_entries' \in [Listed' -> EntryType] /\ Listed' \subseteq Nat \ {0}
  <2>1. \A k \in DOMAIN new : m_entries'[k] \in EntryType
    BY <1>a
  <2>2. \A k \in Listed' : m_entries'[k] \in EntryType
    BY <1>6, <2>1 DEF TypeInv
  <2>3. m_entries' = [k \in Listed' |-> m_entries'[k]]
    BY <1>1, <1>6
  <2> QED
    BY <1>5, <1>6, <2>2, <2>3 DEF TypeInv
<1>8. \A k, l \in Listed' : m_entries'[k].target = m_entries'[l].target => k = l
  <2>1. \A k \in DOMAIN new : m_entries'[k].target = new[k] /\ new[k] \in missing
    BY <1>a
  <2> QED
    BY <1>4, <1>5, <1>6, <2>1 DEF EntryInv
<1>9. \A k \in Listed' : m_entries'[k].live => m_entries'[k].target.source \in shown \cup going
  <2>1. \A k \in DOMAIN new : m_entries'[k].target.source \in shown
    BY <1>a
  <2> QED
    BY <1>6, <2>1 DEF EntryInv
<1>10. \A c \in Consumers : calling[c] # 0 => calling[c] \in Listed' /\ m_entries'[calling[c]].live
  BY <1>6 DEF EntryInv
<1>11. CASE missing # {}
  <2>1. known' = Listed' /\ told' = TRUE /\ added' = TRUE
    BY <1>0, <1>1, <1>2, <1>11 DEF Broadcast, Listed
  <2>2. TypeInv'
    BY <1>0, <1>7, <2>1 DEF TypeInv
  <2>3. ShownInv' /\ EntryInv'
    BY <1>0, <1>8, <1>9, <1>10, <2>1 DEF ShownInv, EntryInv
  <2>4. ApplyInv' /\ UnloadInv'
    BY <1>0, <1>2 DEF ApplyInv, UnloadInv
  <2>5. PendingInv' /\ SurfaceInv'
    BY <1>0, <2>1 DEF PendingInv, SurfaceInv
  <2> QED
    BY <2>2, <2>3, <2>4, <2>5
<1>12. CASE missing = {}
  <2>0. DOMAIN new = {} /\ added' = FALSE /\ UNCHANGED <<known, told>>
    BY <1>1, <1>5, <1>12
  <2>1. m_entries' = m_entries /\ Listed' = Listed
    <3>1. Listed' = Listed /\ \A k \in Listed : m_entries'[k] = m_entries[k]
      BY <1>6, <2>0
    <3>2. m_entries = [k \in Listed |-> m_entries[k]] /\ m_entries' = [k \in Listed' |-> m_entries'[k]]
      BY <1>7 DEF TypeInv
    <3> QED
      BY <3>1, <3>2
  <2>2. NeedsApply' = NeedsApply
    BY <1>0, <2>1, DesiredSame
  <2>3. TypeInv'
    BY <1>0, <1>7, <2>0 DEF TypeInv
  <2>4. ShownInv' /\ EntryInv'
    BY <1>0, <2>0, <2>1 DEF ShownInv, EntryInv
  <2>5. ApplyInv' /\ UnloadInv'
    BY <1>0, <1>2 DEF ApplyInv, UnloadInv
  <2>6. phase = "start" => ~NeedsApply
    <3> SUFFICES ASSUME phase = "start" PROVE ~NeedsApply
      OBVIOUS
    <3>1. Outdated = {} /\ desired = Desired /\ ToAdd = Desired
      BY <1>0 DEF ApplyInv, ToAdd
    <3>2. \A k \in Listed : m_entries[k].live /\ m_entries[k].target \in Desired
      BY <3>1 DEF Outdated
    <3>3. Desired = {m_entries[k].target : k \in Listed}
      BY <1>12, <3>1, <3>2 DEF missing
    <3> QED
      BY <3>2, <3>3, NoNeed
  <2>7. NeedsApply' => m_applyPending
    BY <1>0, <1>2, <2>2, <2>6 DEF PendingInv
  <2>8. PendingInv'
    BY <1>0, <2>7 DEF PendingInv
  <2>9. SurfaceInv'
    BY <1>0, <2>0, <2>1 DEF SurfaceInv, ApplyInv
  <2> QED
    BY <2>3, <2>4, <2>5, <2>8, <2>9
<1> QED
  BY <1>11, <1>12

LEMMA ApplyEndInv == IInv /\ ApplyEnd => IInv'
<1> SUFFICES ASSUME IInv, ApplyEnd PROVE IInv'
  OBVIOUS
<1> USE DEF IInv
<1>0. /\ ~told /\ phase = "added" /\ UpdateSurface(Changed)
      /\ phase' = "none" /\ desired' = {} /\ removed' = FALSE /\ added' = FALSE
      /\ UNCHANGED <<shown, going, told, m_controller, m_entries, m_retired, known, calling, m_detached>>
      /\ UNCHANGED <<m_applyPending, callbacks, flushing, unload, unloadingAtQuit>>
  BY DEF ApplyEnd, displays, control, entries, ending, PendingKept
<1>1. Listed' = Listed /\ NeedsApply' = NeedsApply
  BY <1>0, DesiredSame DEF Listed
<1>2. ~m_detached
  BY <1>0 DEF ApplyInv
<1>3. /\ m_surface' \in BOOLEAN /\ moved' \in BOOLEAN /\ (moved => moved')
      /\ ~moved' => ~moved /\ ~removed /\ ~added /\ m_surface' = m_surface /\ declared' = declared
  BY <1>0 DEF UpdateSurface, Changed, TypeInv
<1>4. TypeInv'
  <2>1. m_entries' \in [Listed' -> EntryType] /\ Listed' \subseteq Nat \ {0}
    BY <1>0, <1>1 DEF TypeInv
  <2> QED
    BY <1>0, <1>3, <2>1 DEF TypeInv
<1>5. ShownInv' /\ EntryInv'
  BY <1>0, <1>1 DEF ShownInv, EntryInv
<1>6. ApplyInv' /\ UnloadInv'
  BY <1>0, <1>2, <1>3 DEF ApplyInv, UnloadInv
<1>7. PendingInv' /\ SurfaceInv'
  BY <1>0, <1>1, <1>3 DEF PendingInv, SurfaceInv
<1> QED
  BY <1>4, <1>5, <1>6, <1>7

\* A post declares the overrides as they are.
LEMMA Posted ==
  ASSUME IInv, UpdateDeclare, ~told, phase = "none", unload = "no",
         UNCHANGED <<shown, going, told, m_controller, m_entries, m_retired, known, calling, m_detached>>,
         UNCHANGED <<phase, desired, removed, added, m_applyPending, callbacks, flushing>>,
         UNCHANGED <<unload, unloadingAtQuit>>
  PROVE  IInv'
<1> USE DEF IInv
<1>0. /\ moved' = FALSE /\ m_surface' = m_surface
      /\ declared' = IF moved THEN [entries |-> Listed, surface |-> m_surface] ELSE declared
  BY DEF UpdateDeclare
<1>1. Listed' = Listed /\ NeedsApply' = NeedsApply /\ Desired' = Desired
  BY DesiredSame DEF Listed
<1>2. TypeInv'
  <2>1. m_entries' \in [Listed' -> EntryType] /\ Listed' \subseteq Nat \ {0}
    BY <1>1 DEF TypeInv
  <2> QED
    BY <1>0, <2>1 DEF TypeInv
<1>3. ShownInv' /\ EntryInv'
  BY <1>1 DEF ShownInv, EntryInv
<1>4. ApplyInv' /\ UnloadInv'
  BY <1>1 DEF ApplyInv, UnloadInv
<1>5. SurfaceInv'
  BY <1>0, <1>1 DEF SurfaceInv, ApplyInv
<1>6. PendingInv'
  BY <1>1 DEF PendingInv
<1> QED
  BY <1>2, <1>3, <1>4, <1>5, <1>6

LEMMA OnPrepareFrameInv == IInv /\ OnPrepareFrame => IInv'
<1> SUFFICES ASSUME IInv, OnPrepareFrame PROVE IInv'
  OBVIOUS
<1>1. /\ ~told /\ phase = "none" /\ unload = "no" /\ UpdateDeclare
      /\ UNCHANGED <<shown, going, told, m_controller, m_entries, m_retired, known, calling, m_detached>>
      /\ UNCHANGED <<phase, desired, removed, added, m_applyPending, callbacks, flushing>>
      /\ UNCHANGED <<unload, unloadingAtQuit>>
  BY DEF OnPrepareFrame, displays, control, entries, applying, queue, ending
<1> QED
  BY <1>1, Posted

\* Nothing that the invariant speaks of changes but the queue of callbacks and the render calls.
LEMMA Quiet ==
  ASSUME IInv,
         UNCHANGED <<shown, going, told, m_controller, m_entries, m_retired, known, m_detached>>,
         UNCHANGED <<phase, desired, removed, added, m_applyPending, m_surface, moved, declared>>,
         UNCHANGED unloadingAtQuit,
         calling' \in [Consumers -> Nat],
         \A c \in Consumers : calling'[c] # 0 => calling'[c] \in Listed /\ m_entries[calling'[c]].live,
         callbacks' \subseteq callbacks, "apply" \in callbacks => "apply" \in callbacks',
         flushing' \subseteq Callbacks,
         unload' \in {"no", "stopping", "uncontrolled", "overlay gone", "last flush", "done"},
         unload = "last flush" /\ unload' = unload => callbacks' \subseteq flushing',
         unload' = unload \/ (unload = "last flush" /\ unload' = "done" /\ callbacks' = {})
  PROVE  IInv'
<1> USE DEF IInv
<1>1. Listed' = Listed /\ NeedsApply' = NeedsApply /\ Desired' = Desired
  BY DesiredSame DEF Listed
<1>2. TypeInv'
  <2>1. m_entries' \in [Listed' -> EntryType] /\ Listed' \subseteq Nat \ {0}
    BY <1>1 DEF TypeInv
  <2>2. callbacks' \subseteq Callbacks
    BY DEF TypeInv
  <2> QED
    BY <2>1, <2>2 DEF TypeInv
<1>3. ShownInv' /\ EntryInv'
  BY <1>1 DEF ShownInv, EntryInv
<1>4. ApplyInv' /\ SurfaceInv'
  BY <1>1 DEF ApplyInv, SurfaceInv
<1>5. UnloadInv'
  BY <1>1 DEF UnloadInv
<1>6. PendingInv'
  BY <1>1 DEF PendingInv
<1> QED
  BY <1>2, <1>3, <1>4, <1>5, <1>6

\* A render call begins in a live override, and stays in one that is listed.
LEMMA CallInv == ASSUME NEW c \in Consumers PROVE IInv /\ (Call(c) \/ Return(c)) => IInv'
<1> SUFFICES ASSUME IInv, Call(c) \/ Return(c) PROVE IInv'
  OBVIOUS
<1>0. /\ UNCHANGED <<shown, going, told, m_controller, m_entries, m_retired, known, m_detached>>
      /\ UNCHANGED <<phase, desired, removed, added, m_applyPending, m_surface, moved, declared>>
      /\ UNCHANGED unloadingAtQuit /\ UNCHANGED <<callbacks, flushing, unload>>
  BY DEF Call, Return, displays, control, entries, applying, queue, surface, ending
<1>1. PICK k \in Listed \cup {0} :
        /\ calling' = [calling EXCEPT ![c] = k]
        /\ k # 0 => m_entries[k].live
  BY DEF Call, Return
<1>2. k \in Nat /\ calling \in [Consumers -> Nat]
  <2>1. Listed \subseteq Nat \ {0} /\ calling \in [Consumers -> Nat]
    BY DEF IInv, TypeInv
  <2> QED
    BY <1>1, <2>1
<1>3. calling' \in [Consumers -> Nat]
  BY <1>1, <1>2
<1>4. \A b \in Consumers : calling'[b] # 0 => calling'[b] \in Listed /\ m_entries[calling'[b]].live
  BY <1>1, <1>2 DEF IInv, EntryInv
<1>5. /\ unload' \in {"no", "stopping", "uncontrolled", "overlay gone", "last flush", "done"}
      /\ flushing' \subseteq Callbacks /\ (unload = "last flush" => callbacks' \subseteq flushing')
  BY <1>0 DEF IInv, TypeInv, UnloadInv
<1> QED
  BY <1>0, <1>3, <1>4, <1>5, Quiet

-----------------------------------------------------------------------------
(* ScorbitPluginUnload.                                                    *)

LEMMA DrainSocketLogInv == IInv /\ DrainSocketLog => IInv'
<1> SUFFICES ASSUME IInv, DrainSocketLog PROVE IInv'
  OBVIOUS
<1>0. /\ Runs("drain")
      /\ UNCHANGED <<shown, going, told, m_controller, m_entries, m_retired, known, calling, m_detached>>
      /\ UNCHANGED <<phase, desired, removed, added, m_applyPending, unload, unloadingAtQuit>>
  BY DEF DrainSocketLog, displays, control, entries, applying, ending
<1>1. CASE unload = "no"
  <2>1. /\ ~told /\ phase = "none" /\ UpdateDeclare /\ UNCHANGED <<callbacks, flushing>>
    BY <1>0, <1>1 DEF DrainSocketLog, Runs
  <2>2. /\ UNCHANGED <<phase, desired, removed, added, m_applyPending, callbacks, flushing>>
        /\ UNCHANGED <<unload, unloadingAtQuit>>
    BY <1>0, <2>1
  <2> QED
    BY <1>0, <1>1, <2>1, <2>2, Posted
<1>2. CASE unload # "no"
  <2>1. /\ callbacks' = callbacks \ {"drain"} /\ flushing' = flushing \ {"drain"}
        /\ UNCHANGED <<m_surface, moved, declared>>
    BY <1>0, <1>2 DEF DrainSocketLog, Runs, surface
  <2>2. /\ calling' \in [Consumers -> Nat] /\ flushing' \subseteq Callbacks
        /\ \A c \in Consumers : calling'[c] # 0 => calling'[c] \in Listed /\ m_entries[calling'[c]].live
        /\ unload' \in {"no", "stopping", "uncontrolled", "overlay gone", "last flush", "done"}
    BY <1>0, <2>1 DEF IInv, TypeInv, EntryInv
  <2>3. /\ callbacks' \subseteq callbacks /\ ("apply" \in callbacks => "apply" \in callbacks')
        /\ (unload = "last flush" => callbacks' \subseteq flushing')
    BY <2>1 DEF IInv, UnloadInv
  <2>4. /\ UNCHANGED <<shown, going, told, m_controller, m_entries, m_retired, known, m_detached>>
        /\ UNCHANGED <<phase, desired, removed, added, m_applyPending, m_surface, moved, declared>>
        /\ UNCHANGED unloadingAtQuit /\ unload' = unload
    BY <1>0, <2>1
  <2> QED
    BY <2>2, <2>3, <2>4, Quiet
<1> QED
  BY <1>1, <1>2

LEMMA UnloadEndsInv == IInv /\ UnloadEnds => IInv'
<1> SUFFICES ASSUME IInv, UnloadEnds PROVE IInv'
  OBVIOUS
<1>0. /\ unload = "last flush" /\ flushing = {} /\ unload' = "done"
      /\ UNCHANGED <<shown, going, told, m_controller, m_entries, m_retired, known, m_detached>>
      /\ UNCHANGED <<phase, desired, removed, added, m_applyPending, m_surface, moved, declared>>
      /\ UNCHANGED unloadingAtQuit /\ UNCHANGED <<calling, callbacks, flushing>>
  BY DEF UnloadEnds, displays, control, entries, applying, queue, surface
<1>1. callbacks' = {} /\ callbacks' \subseteq callbacks /\ ("apply" \in callbacks => "apply" \in callbacks')
  BY <1>0 DEF IInv, UnloadInv
<1>2. /\ calling' \in [Consumers -> Nat] /\ flushing' \subseteq Callbacks
      /\ \A c \in Consumers : calling'[c] # 0 => calling'[c] \in Listed /\ m_entries[calling'[c]].live
  BY <1>0 DEF IInv, TypeInv, EntryInv
<1> QED
  BY <1>0, <1>1, <1>2, Quiet

\* Quitting, the overlay goes dark and calls nobody any more.
LEMMA UnloadBegins == ASSUME NEW quit \in BOOLEAN PROVE IInv /\ Unload(quit) => IInv'
<1> SUFFICES ASSUME IInv, Unload(quit) PROVE IInv'
  OBVIOUS
<1> USE DEF IInv
<1>0. /\ ~told /\ phase = "none" /\ unload = "no" /\ unload' = "stopping" /\ unloadingAtQuit' = quit
      /\ flushing' = callbacks /\ moved' = TRUE
      /\ UNCHANGED <<shown, going, told, m_controller, m_retired, known, calling>>
      /\ UNCHANGED <<phase, desired, removed, added, m_applyPending, callbacks>>
  BY DEF Unload, displays, control, applying
<1>1. \/ /\ quit /\ Free(Listed) /\ m_entries' = Dark(Listed) /\ m_detached' = TRUE /\ m_surface' = FALSE
      \/ /\ ~quit /\ UNCHANGED <<m_entries, m_detached, m_surface>>
  BY DEF Unload, Detach
<1>2. CASE /\ quit /\ Free(Listed) /\ m_entries' = Dark(Listed) /\ m_detached' = TRUE /\ m_surface' = FALSE
  <2>1. /\ DOMAIN m_entries' = Listed /\ m_entries' \in [Listed -> EntryType]
        /\ \A k \in Listed : m_entries'[k].target = m_entries[k].target /\ ~m_entries'[k].live
    BY <1>2, DarkIs
  <2>2. Listed' = Listed
    BY <2>1 DEF Listed
  <2>3. \A c \in Consumers : calling[c] = 0
    BY <1>2 DEF EntryInv, Free
  <2>4. TypeInv'
    <3>1. m_entries' \in [Listed' -> EntryType] /\ Listed' \subseteq Nat \ {0}
      BY <2>1, <2>2 DEF TypeInv
    <3> QED
      BY <1>0, <1>2, <3>1 DEF TypeInv
  <2>5. ShownInv' /\ EntryInv'
    BY <1>0, <2>1, <2>2, <2>3 DEF ShownInv, EntryInv
  <2>6. ApplyInv' /\ UnloadInv'
    BY <1>0, <1>2, <2>1, <2>2 DEF ApplyInv, UnloadInv
  <2>7. PendingInv' /\ SurfaceInv'
    BY <1>0, <1>2 DEF PendingInv, SurfaceInv
  <2> QED
    BY <2>4, <2>5, <2>6, <2>7
<1>3. CASE /\ ~quit /\ UNCHANGED <<m_entries, m_detached, m_surface>>
  <2>1. Listed' = Listed /\ NeedsApply' = NeedsApply
    BY <1>0, <1>3, DesiredSame DEF Listed
  <2>2. TypeInv'
    <3>1. m_entries' \in [Listed' -> EntryType] /\ Listed' \subseteq Nat \ {0}
      BY <1>3, <2>1 DEF TypeInv
    <3> QED
      BY <1>0, <1>3, <3>1 DEF TypeInv
  <2>3. ShownInv' /\ EntryInv'
    BY <1>0, <1>3, <2>1 DEF ShownInv, EntryInv
  <2>4. ApplyInv' /\ UnloadInv'
    BY <1>0, <1>3, <2>1 DEF ApplyInv, UnloadInv
  <2>5. PendingInv' /\ SurfaceInv'
    BY <1>0, <1>3, <2>1 DEF PendingInv, SurfaceInv
  <2> QED
    BY <2>2, <2>3, <2>4, <2>5
<1> QED
  BY <1>1, <1>2, <1>3

\* The destructor withdraws with a broadcast all that is listed.
LEMMA DestroyOverlayInv == IInv /\ DestroyOverlay => IInv'
<1> SUFFICES ASSUME IInv, DestroyOverlay PROVE IInv'
  OBVIOUS
<1> USE DEF IInv
<1>0. /\ unload = "uncontrolled" /\ ~told /\ phase = "none" /\ Free(Listed)
      /\ m_entries' = <<>> /\ m_retired' = m_retired \cup Listed
      /\ m_detached' = TRUE /\ m_surface' = FALSE /\ unload' = "overlay gone"
      /\ UNCHANGED <<shown, going, m_controller, calling, desired, removed, added>>
      /\ UNCHANGED <<m_applyPending, callbacks, flushing, moved, declared, unloadingAtQuit>>
  BY DEF DestroyOverlay, control, queue
<1>1. \/ Listed # {} /\ Broadcast /\ phase' = "withdrawn"
      \/ Listed = {} /\ UNCHANGED <<known, told, phase>>
  BY DEF DestroyOverlay, Withdraw
<1>2. DOMAIN m_entries' = {} /\ Listed' = {} /\ m_entries' \in [Listed' -> EntryType]
  <2>1. DOMAIN <<>> = {} /\ <<>> \in [{} -> EntryType]
    OBVIOUS
  <2>2. Listed' = DOMAIN m_entries'
    BY DEF Listed
  <2> QED
    BY <1>0, <2>1, <2>2
<1>3. /\ known' = {} /\ told' = FALSE /\ phase' \in {"none", "withdrawn"}
  <2>1. CASE Listed # {} /\ Broadcast /\ phase' = "withdrawn"
    BY <1>0, <1>2, <2>1 DEF Broadcast
  <2>2. CASE Listed = {} /\ UNCHANGED <<known, told, phase>>
    <3>1. known = Listed /\ told \in BOOLEAN
      BY DEF EntryInv, TypeInv
    <3> QED
      BY <1>0, <2>2, <3>1
  <2> QED
    BY <1>1, <2>1, <2>2
<1>4. \A c \in Consumers : calling[c] = 0
  BY <1>0 DEF EntryInv, Free
<1>5. TypeInv'
  <2>1. m_retired' \subseteq Nat /\ Listed' \subseteq Nat \ {0}
    BY <1>0, <1>2 DEF TypeInv
  <2> QED
    BY <1>0, <1>2, <1>3, <2>1 DEF TypeInv
<1>6. ShownInv' /\ EntryInv'
  BY <1>0, <1>2, <1>3, <1>4 DEF ShownInv, EntryInv
<1>7. ApplyInv' /\ UnloadInv'
  BY <1>0, <1>2, <1>3 DEF ApplyInv, UnloadInv
<1>8. PendingInv' /\ SurfaceInv'
  BY <1>0, <1>3 DEF PendingInv, SurfaceInv, UnloadInv
<1> QED
  BY <1>5, <1>6, <1>7, <1>8

\* Nobody knows of an override any more when the retired ones are freed.
LEMMA LastFlushInv == IInv /\ LastFlush => IInv'
<1> SUFFICES ASSUME IInv, LastFlush PROVE IInv'
  OBVIOUS
<1> USE DEF IInv
<1>0. /\ ~told /\ (unload = "overlay gone" \/ (unload = "uncontrolled" /\ unloadingAtQuit))
      /\ m_retired' = IF unloadingAtQuit THEN m_retired ELSE {}
      /\ phase' = "none" /\ unload' = "last flush" /\ flushing' = callbacks
      /\ UNCHANGED <<shown, going, told, m_controller, m_entries, known, calling, m_detached>>
      /\ UNCHANGED <<desired, removed, added, m_applyPending, callbacks>>
      /\ UNCHANGED <<m_surface, moved, declared, unloadingAtQuit>>
  BY DEF LastFlush, displays, control, surface, LeftOver
<1>1. m_detached
  BY <1>0 DEF UnloadInv
<1>2. Listed' = Listed
  BY <1>0 DEF Listed
<1>3. TypeInv'
  <2>1. /\ m_entries' \in [Listed' -> EntryType] /\ Listed' \subseteq Nat \ {0}
        /\ m_retired' \subseteq Nat
    BY <1>0, <1>2 DEF TypeInv
  <2> QED
    BY <1>0, <2>1 DEF TypeInv
<1>4. ShownInv' /\ EntryInv'
  BY <1>0, <1>2 DEF ShownInv, EntryInv
<1>5. ApplyInv' /\ UnloadInv'
  BY <1>0, <1>1, <1>2 DEF ApplyInv, UnloadInv
<1>6. PendingInv' /\ SurfaceInv'
  BY <1>0, <1>1, <1>2 DEF PendingInv, SurfaceInv
<1> QED
  BY <1>3, <1>4, <1>5, <1>6

-----------------------------------------------------------------------------
(* The theorems.                                                           *)

LEMMA StepInv == IInv /\ [Next]_vars => IInv'
<1> SUFFICES ASSUME IInv, [Next]_vars PROVE IInv'
  OBVIOUS
<1>1. CASE UNCHANGED vars
  <2>1. /\ UNCHANGED <<shown, going, told, m_controller, m_entries, m_retired, known, m_detached>>
        /\ UNCHANGED <<phase, desired, removed, added, m_applyPending, m_surface, moved, declared>>
        /\ UNCHANGED unloadingAtQuit /\ UNCHANGED <<calling, callbacks, flushing, unload>>
    BY <1>1 DEF vars, displays, control, entries, applying, queue, surface, ending
  <2>2. /\ calling' \in [Consumers -> Nat] /\ flushing' \subseteq Callbacks
        /\ \A c \in Consumers : calling'[c] # 0 => calling'[c] \in Listed /\ m_entries[calling'[c]].live
        /\ unload' \in {"no", "stopping", "uncontrolled", "overlay gone", "last flush", "done"}
        /\ (unload = "last flush" => callbacks' \subseteq flushing')
        /\ callbacks' \subseteq callbacks /\ ("apply" \in callbacks => "apply" \in callbacks')
    BY <2>1 DEF IInv, TypeInv, EntryInv, UnloadInv
  <2> QED
    BY <2>1, <2>2, Quiet
<1>2. CASE OwnStep
  BY <1>2, OnSourcesChangedInv, OnDeferredApplyInv, ApplyRemoveInv, ApplyAddInv, ApplyEndInv,
     UnsubscribeControllersInv, DestroyOverlayInv, LastFlushInv, UnloadEndsInv
  DEF OwnStep
<1>3. CASE PublishDisplay \/ WithdrawDisplay \/ ControllersChange \/ OnPrepareFrame \/ DrainSocketLog
  BY <1>3, PublishDisplayInv, WithdrawDisplayInv, ControllersChangeInv, OnPrepareFrameInv, DrainSocketLogInv
<1>4. CASE \E c \in Consumers : Call(c) \/ Return(c)
  BY <1>4, CallInv
<1>5. CASE \E quit \in BOOLEAN : Unload(quit)
  BY <1>5, UnloadBegins
<1> QED
  BY <1>1, <1>2, <1>3, <1>4, <1>5 DEF Next

\* The invariant that the theorems below rest on, in every reachable state.
THEOREM OverridesInvariant == Spec => []IInv
<1>1. Init => IInv
  BY InitInv
<1>2. IInv /\ [Next]_vars => IInv'
  BY StepInv
<1> QED
  BY <1>1, <1>2, PTL DEF Spec

\* Nothing that is called has been freed: not a target in a render call, not an override that a consumer
\* holds, not the plugin while the host has a callback of it to run (DarkenStale, Apply, Flush).
THEOREM Allocated == Spec => []CallsAllocated
<1>1. IInv => CallsAllocated
  <2> SUFFICES ASSUME IInv PROVE CallsAllocated
    OBVIOUS
  <2>1. TargetAlive
    BY DEF IInv, EntryInv, TargetAlive
  <2>2. KnownAllocated
    BY DEF IInv, EntryInv, KnownAllocated
  <2>3. NothingPending
    BY DEF IInv, UnloadInv, NothingPending
  <2> QED
    BY <2>1, <2>2, <2>3 DEF CallsAllocated
<1> QED
  BY <1>1, OverridesInvariant, PTL

\* Once no Apply is queued, the overrides are those that the display list calls for, each once and live,
\* and what was declared describes them (RequestApply, Apply, UpdateSurface).
THEOREM OverridesSettle == Spec => []Settled
<1>1. IInv => Settled
  <2> SUFFICES ASSUME IInv, AtRest
               PROVE  /\ \A k \in Listed : m_entries[k].live
                      /\ {m_entries[k].target : k \in Listed} = Desired
                      /\ Cardinality(Listed) = Cardinality(Desired)
                      /\ ~moved => declared.entries = Listed /\ declared.surface = m_surface
    BY DEF Settled, AsDesired, DeclaredSurface
  <2>1. ~told /\ phase = "none" /\ "apply" \notin callbacks /\ ~m_detached
    BY DEF AtRest
  <2>2. ~NeedsApply
    BY <2>1 DEF IInv, PendingInv
  <2>3. /\ \A k \in Listed : m_entries[k].live
        /\ Desired = {m_entries[k].target : k \in Listed}
    BY <2>2, NoNeed DEF IInv
  <2>4. Cardinality(Listed) = Cardinality(Desired)
    BY <2>3, Counted DEF IInv
  <2>5. ~moved => declared.entries = Listed /\ declared.surface = m_surface
    BY <2>1 DEF IInv, SurfaceInv, ApplyInv
  <2> QED
    BY <2>3, <2>4, <2>5
<1> QED
  BY <1>1, OverridesInvariant, PTL

\* The second half of the chain rule: our override stands beside another plugin's of the same display
\* only while a third is chained onto ours (OverrideChain.h).
THEOREM NoSibling == Spec => []SiblingOnlyIfChained
<1>1. IInv => SiblingOnlyIfChained
  <2> SUFFICES ASSUME IInv, AtRest, NEW k \in Listed, NEW s \in shown, s.over = Base(k)
               PROVE  \E o \in shown : o.over = Ours + k
    BY DEF SiblingOnlyIfChained
  <2>1. ~told /\ phase = "none" /\ "apply" \notin callbacks /\ ~m_detached
    BY DEF AtRest
  <2>2. ~NeedsApply
    BY <2>1 DEF IInv, PendingInv
  <2>3. \A l \in Listed : m_entries[l].target \in Desired
    BY <2>2 DEF NeedsApply
  <2>4. \A l \in Listed : /\ m_entries[l].target.source \in shown
                          /\ IsTarget(Base(l))
                          /\ \A m \in Listed : m_entries[l].target.source = m_entries[m].target.source => l = m
    BY <2>3, DesiredIs DEF IInv, EntryInv, Base
  <2>5. /\ shown \subseteq DisplayType /\ Listed \subseteq Nat \ {0}
    BY DEF IInv, TypeInv
  <2>6. Base(k) \in Nat /\ Base(k) < Ours
    BY <2>4, <2>5, IdIs DEF Base
  <2>7. \A l \in Listed : Ours + l # s.over
    BY <2>5, <2>6 DEF Ours
  <2>8. Parent(s) = Base(k) /\ s.id # Base(k)
    BY <2>7 DEF Parent, IInv, ShownInv
  <2>9. Kept(Base(k))
    BY <2>4, <2>8 DEF IsTarget, Children
  <2>10. PICK o \in shown, l \in Listed : o.over = Ours + l /\ Base(l) = Base(k)
    BY <2>9 DEF Kept
  <2>11. l = k
    BY <2>4, <2>10 DEF Base, IInv, ShownInv
  <2> QED
    BY <2>10, <2>11
<1> QED
  BY <1>1, OverridesInvariant, PTL

\* While VPX quits, no override is withdrawn or listed any more: no Apply runs after Detach, and the
\* destructor is not run (ScorbitPluginUnload, Detach).
THEOREM QuitIsSilent == Spec => [][QuitSilent]_vars
<1>1. IInv /\ [Next]_vars => [QuitSilent]_vars
  <2> SUFFICES ASSUME IInv, Next, unloadingAtQuit PROVE known' = known
    BY DEF QuitSilent
  <2>1. m_detached /\ phase \in {"none", "withdrawn"} /\ unload # "no"
    BY DEF IInv, UnloadInv
  <2>2. ~ApplyRemove /\ ~ApplyAdd /\ ~DestroyOverlay /\ ~ApplyEnd
    BY <2>1 DEF ApplyRemove, ApplyAdd, DestroyOverlay, ApplyEnd
  <2>3. CASE OwnStep
    BY <2>2, <2>3 DEF OwnStep, OnSourcesChanged, OnDeferredApply, UnsubscribeControllers, LastFlush, UnloadEnds
  <2>4. CASE PublishDisplay \/ WithdrawDisplay \/ ControllersChange \/ OnPrepareFrame \/ DrainSocketLog
    BY <2>4 DEF PublishDisplay, WithdrawDisplay, ControllersChange, OnPrepareFrame, DrainSocketLog
  <2>5. CASE \E c \in Consumers : Call(c) \/ Return(c)
    BY <2>5 DEF Call, Return
  <2>6. CASE \E quit \in BOOLEAN : Unload(quit)
    BY <2>6 DEF Unload
  <2> QED
    BY <2>3, <2>4, <2>5, <2>6 DEF Next
<1> QED
  BY <1>1, OverridesInvariant, PTL DEF Spec

\* Wherever a consumer's walk from the controller's display ends, it ends at an override of ours, unless
\* the end cannot be composited on, and ours stands beside another's only while a third is chained onto
\* ours: the chain rule, whatever plugins publish over what (OverrideChain.h, Desired).
THEOREM ChainsEndInOurs == Spec => []ChainRule
<1>1. IInv => ChainEndsInOurs
  <2> SUFFICES ASSUME IInv, AtRest, m_controller # None, NEW r \in shown, r.id = Root, r.size > 0,
                      NEW s \in shown, s.size > 0, s.id \in Reached[2 * Cardinality(shown)],
                      ~ \E o \in shown : o.over = s.id
               PROVE  \E k \in Listed : Base(k) = s.id
    BY DEF ChainEndsInOurs
  <2>1. ~told /\ phase = "none" /\ "apply" \notin callbacks /\ ~m_detached
    BY DEF AtRest
  <2>2. ~NeedsApply
    BY <2>1 DEF IInv, PendingInv
  <2>3. /\ \A k \in Listed : m_entries[k].live
        /\ Desired = {m_entries[k].target : k \in Listed}
    BY <2>2, NoNeed DEF IInv
  <2>5. 2 * Cardinality(shown) \in Nat
    <3>1. Cardinality(shown) \in Nat
      BY FS_CardinalityType DEF IInv, TypeInv
    <3> QED
      BY <3>1
  <2>6. CASE Children(s.id) # {}
    <3>1. PICK t \in shown : Parent(t) = s.id
      BY <2>6 DEF Children
    <3>2. PICK k \in Listed : Ours + k = t.over
      BY <3>1 DEF Parent
    <3>3. t.over - Ours = k
      <4>1. k \in Nat /\ Ours \in Nat
        BY DEF IInv, TypeInv, Ours
      <4> QED
        BY <3>2, <4>1
    <3> QED
      BY <3>1, <3>2, <3>3 DEF Parent
  <2>7. CASE Children(s.id) = {}
    <3> DEFINE t == [source |-> s, identify |-> s.id = Root, base |-> r.size]
    <3>1. t \in Desired
      BY <2>1, <2>5, <2>7, ReachedIsDesired DEF IInv, IsTarget
    <3>2. PICK k \in Listed : m_entries[k].target = t
      BY <2>3, <3>1
    <3> QED
      BY <3>2 DEF Base
  <2> QED
    BY <2>6, <2>7
<1> QED
  BY <1>1, OverridesInvariant, NoSibling, PTL DEF ChainRule

-----------------------------------------------------------------------------
(* Apply withdraws no override that is read from.                          *)

\* What an entry overrides was desired once: a display that can be composited on, with the root's
\* size, to be identified if it is the root.
Wanted(t) == /\ t = [source |-> t.source, identify |-> t.source.id = Root, base |-> t.base]
             /\ t.source.size > 0 /\ t.base > 0

TargetInv == \A k \in Listed : Wanted(m_entries[k].target)

LEMMA DesiredIsWanted == \A t \in Desired : Wanted(t)
  BY DEF Desired, Wanted

LEMMA TargetStep == IInv /\ TargetInv /\ [Next]_vars => TargetInv'
<1> SUFFICES ASSUME IInv, TargetInv, [Next]_vars PROVE TargetInv'
  OBVIOUS
<1>1. ASSUME UNCHANGED m_entries PROVE TargetInv'
  BY <1>1 DEF TargetInv, Listed, Wanted
<1>2. ASSUME NEW ks, m_entries' = Dark(ks) PROVE TargetInv'
  <2>1. Listed' = Listed /\ \A k \in Listed : m_entries'[k].target = m_entries[k].target
    BY <1>2, DarkIs DEF IInv, Listed
  <2> QED
    BY <2>1 DEF TargetInv, Wanted
<1>3. CASE ApplyRemove
  <2>1. m_entries' = [k \in Listed \ Outdated |-> m_entries[k]]
    BY <1>3 DEF ApplyRemove
  <2>2. Listed' = Listed \ Outdated /\ \A k \in Listed' : m_entries'[k] = m_entries[k]
    BY <2>1 DEF Listed
  <2> QED
    BY <2>2 DEF TargetInv, Wanted
<1>4. CASE ApplyAdd
  <2> DEFINE missing == ToAdd \ {m_entries[k].target : k \in Listed}
  <2>1. ToAdd = Desired
    BY <1>4 DEF ApplyAdd, ToAdd, IInv, ApplyInv
  <2>2. missing \in SUBSET TargetType /\ \A t \in missing : Wanted(t)
    BY <2>1, DesiredIs, DesiredIsWanted DEF IInv
  <2>3. PICK new \in NewNumbers(missing) :
          m_entries' = [k \in Listed \cup DOMAIN new |->
                          IF k \in Listed THEN m_entries[k] ELSE [target |-> new[k], live |-> TRUE]]
    BY <1>4 DEF ApplyAdd
  <2> HIDE DEF missing
  <2>4. new \in [DOMAIN new -> missing]
    BY <2>2, NewNumbersIs DEF IInv
  <2>5. \A k \in Listed' : \/ k \in Listed /\ m_entries'[k] = m_entries[k]
                           \/ m_entries'[k].target \in missing
    BY <2>3, <2>4 DEF Listed
  <2>6. \A k \in Listed' : Wanted(m_entries'[k].target)
    BY <2>2, <2>5 DEF TargetInv
  <2> QED
    BY <2>6 DEF TargetInv, Wanted
<1>5. CASE DestroyOverlay
  <2>1. Listed' = {}
    <3>1. m_entries' = <<>>
      BY <1>5 DEF DestroyOverlay
    <3>2. DOMAIN <<>> = {}
      OBVIOUS
    <3> QED
      BY <3>1, <3>2 DEF Listed
  <2> QED
    BY <2>1 DEF TargetInv
<1>6. CASE OnSourcesChanged
  BY <1>2, <1>6 DEF OnSourcesChanged
<1>7. CASE \E quit \in BOOLEAN : Unload(quit)
  BY <1>1, <1>2, <1>7 DEF Unload, Detach
<1>8. CASE UNCHANGED vars \/ PublishDisplay \/ WithdrawDisplay \/ ControllersChange \/ OnPrepareFrame \/ DrainSocketLog
  BY <1>1, <1>8 DEF vars, entries, PublishDisplay, WithdrawDisplay, ControllersChange, OnPrepareFrame, DrainSocketLog, SetController
<1>9. CASE OnDeferredApply \/ ApplyEnd \/ UnsubscribeControllers \/ LastFlush \/ UnloadEnds
  BY <1>1, <1>9 DEF entries, OnDeferredApply, ApplyEnd, UnsubscribeControllers, LastFlush, UnloadEnds, SetController
<1>10. CASE \E c \in Consumers : Call(c) \/ Return(c)
  BY <1>1, <1>10 DEF entries, Call, Return
<1> QED
  BY <1>3, <1>4, <1>5, <1>6, <1>7, <1>8, <1>9, <1>10 DEF Next, OwnStep

\* An override is withdrawn only when nobody is hurt by it: not from under a colouriser that reads from
\* it, while its target and the controller's display stay as they were, and not while VPX quits (Apply,
\* Detach).
THEOREM Withdrawals == Spec => WithdrawnSafely
<1>1. Init => TargetInv
  BY DEF Init, TargetInv, Listed
<1>2. Spec => []TargetInv
  BY <1>1, TargetStep, OverridesInvariant, PTL DEF Spec
<1>3. IInv /\ TargetInv /\ [Next]_vars => [ReadFromStays]_vars
  <2> SUFFICES ASSUME IInv, TargetInv, Next,
                      NEW k \in Listed, phase = "start", m_entries[k].live, m_controller # None,
                      NEW s \in shown, s.over = Ours + k,
                      NEW r \in shown, r.id = Root, r.size = m_entries[k].target.base,
                      Base(k) \in Reached[2 * Cardinality(shown)],
                      k \notin Listed'
               PROVE  FALSE
    BY DEF ReadFromStays
  <2>1. ApplyRemove
    <3>1. Listed' # Listed
      OBVIOUS
    <3>2. m_entries' # m_entries
      BY <3>1 DEF Listed
    <3>3. CASE OwnStep
      <4>1. ~ApplyAdd
        <5> SUFFICES ASSUME ApplyAdd PROVE k \in Listed'
          OBVIOUS
        <5> QED
          BY DEF ApplyAdd, Listed
      <4>2. ~OnSourcesChanged
        BY DEF OnSourcesChanged, IInv, ApplyInv
      <4>3. ~OnDeferredApply /\ ~ApplyEnd /\ ~UnsubscribeControllers /\ ~DestroyOverlay
        BY <3>2 DEF OnDeferredApply, Runs, ApplyEnd, UnsubscribeControllers, DestroyOverlay
      <4>4. ~LastFlush /\ ~UnloadEnds
        BY <3>2 DEF LastFlush, UnloadEnds, entries
      <4> QED
        BY <3>3, <4>1, <4>2, <4>3, <4>4 DEF OwnStep
    <3>4. ~(PublishDisplay \/ WithdrawDisplay \/ ControllersChange \/ OnPrepareFrame \/ DrainSocketLog)
      BY <3>2 DEF PublishDisplay, WithdrawDisplay, ControllersChange, OnPrepareFrame, DrainSocketLog, HostRuns, entries,
           SetController
    <3>5. ~ \E c \in Consumers : Call(c) \/ Return(c)
      BY <3>2 DEF Call, Return, entries
    <3>6. ~ \E quit \in BOOLEAN : Unload(quit)
      BY DEF Unload
    <3> QED
      BY <3>3, <3>4, <3>5, <3>6 DEF Next
  <2>2. k \in Outdated
    BY <2>1 DEF ApplyRemove, Listed
  <2>3. m_entries[k].target \notin desired
    BY <2>2 DEF Outdated
  <2>4. ~told /\ ~m_detached /\ desired = Desired /\ going = {}
    BY DEF IInv, ApplyInv, ShownInv
  <2> DEFINE t == m_entries[k].target
  <2>5. /\ t = [source |-> t.source, identify |-> t.source.id = Root, base |-> r.size]
        /\ t.source.size > 0 /\ r.size > 0
    BY DEF TargetInv, Wanted
  <2>6. t.source \in shown
    BY <2>4 DEF IInv, EntryInv
  <2>7. IsTarget(t.source.id)
    BY DEF IsTarget, Kept, Base
  <2>8. 2 * Cardinality(shown) \in Nat
    <3>1. Cardinality(shown) \in Nat
      BY FS_CardinalityType DEF IInv, TypeInv
    <3> QED
      BY <3>1
  <2>9. t \in Desired
    <3>1. t.source.id \in Reached[2 * Cardinality(shown)]
      BY DEF Base
    <3> HIDE DEF t
    <3>2. [source |-> t.source, identify |-> t.source.id = Root, base |-> r.size] \in Desired
      BY <2>4, <2>5, <2>6, <2>7, <2>8, <3>1, ReachedIsDesired DEF IInv
    <3> QED
      BY <2>5, <3>2
  <2> QED
    BY <2>3, <2>4, <2>9
<1>4. Spec => [][ReadFromStays]_vars
  BY <1>2, <1>3, OverridesInvariant, PTL DEF Spec
<1> QED
  BY <1>4, QuitIsSilent, PTL DEF WithdrawnSafely
=============================================================================
