------------------------- MODULE GameDeliveryProofs -------------------------
(***************************************************************************)
(* Theorems about GameDelivery, for every set of machines and ROMs, every  *)
(* size of batch and queue, and every number of tables, calls, losses and  *)
(* restarts.                                                               *)
(***************************************************************************)
EXTENDS GameDelivery, SequenceTheorems, FiniteSetTheorems, FunctionTheorems, TLAPS

-----------------------------------------------------------------------------
(* The inductive invariant.                                                *)

\* A batch as PushPost makes it: not empty, and of a machine.
Post == {b \in Batch : b.ops # <<>> /\ b.machine # None}

ApiTypes ==
  /\ epoch \in Nat /\ identity \in Nat /\ display \in Nat
  /\ machine \in Machines \cup {None} /\ rom \in RomIds \cup {None}
  /\ paths \in BOOLEAN /\ unread \in BOOLEAN /\ refusing \in BOOLEAN
  /\ ops \in Seq(Kind) /\ pushing \in Seq(Kind) /\ posted \in Snapshot
  /\ batches \in Nat /\ game \in [epoch : Nat, n : Nat]
  /\ calls \in Nat /\ losses \in Nat /\ restarts \in Nat /\ cut \in BOOLEAN

WorkerTypes ==
  /\ pc \in {"down", "hello", "loop", "declare", "take", "send", "sent"}
  /\ caller \in {"serve", "declare"}
  /\ current \in Snapshot /\ declared \in Snapshot
  /\ haveDeclared \in BOOLEAN /\ peerAuthored \in BOOLEAN
  /\ gameOpenEpoch \in Nat /\ openGameIdentity \in Nat
  /\ replayPending \in BOOLEAN /\ replayQueued \in Nat /\ nextBatchId \in Nat \ {0}

LineTypes ==
  /\ queue \in Seq(Post) /\ games \in Seq(Post) /\ openGame \in Seq(Post)
  /\ dLog \in Seq(Post)

TypeInv == ApiTypes /\ WorkerTypes /\ LineTypes

\* What the worker holds, what it has sent to this life of the daemon or is
\* about to replay to it, and everything that is on its way.
Held == openGame \o games
Kept == Len(openGame) + replayQueued
Line == Held \o queue

\* The tables: the latch and the worker never run ahead of the API thread, and
\* within an epoch the machine is named once.
Declared(s) ==
  /\ s.epoch <= epoch
  /\ s.epoch = epoch => s.identity <= identity
  /\ s.epoch = epoch /\ s.machine # None => s.machine = machine

Agree(s, t) == s.epoch = t.epoch /\ s.identity = t.identity => s.machine = t.machine

\* The declarations in play.
Snapshots == {posted, current} \cup {s \in {declared} : haveDeclared}

TableInv ==
  /\ posted.epoch = epoch /\ posted.identity = identity
  /\ \A s \in Snapshots : Declared(s)
  /\ \A s, t \in Snapshots : Agree(s, t)
  /\ haveDeclared => declared.epoch <= current.epoch
  /\ pushing # <<>> => machine # None

OfTable(b) ==
  /\ b.epoch <= epoch /\ b.n <= batches
  /\ b.epoch = epoch => b.machine = machine
  /\ \A s \in Snapshots : b.epoch = s.epoch /\ s.machine # None => b.machine = s.machine

BatchInv == \A i \in 1 .. Len(Line) : OfTable(Line[i])

\* The line is in the order of its commits, and where a batch continues the
\* epoch of the one before it, nothing is missing in between.
Ordered(s) == \A i, j \in 1 .. Len(s) : i < j => s[i].n < s[j].n /\ s[i].epoch <= s[j].epoch
Joins(a, b) == ~Starts(b) /\ a.epoch = b.epoch => b.n = a.n + 1
Joined(s) == \A i \in 1 .. Len(s) - 1 : Joins(s[i], s[i + 1])
Open(s) == ~refusing /\ s # <<>> /\ s[Len(s)].epoch = epoch => s[Len(s)].n = batches

LineInv == Ordered(Line) /\ Joined(Line) /\ Open(Line)

QueueInv ==
  /\ SumOps(queue) <= MaxQueuedOps
  /\ \A i \in 1 .. Len(queue) - 1 : ~Starts(queue[i + 1]) => queue[i + 1].n = queue[i].n + 1
  /\ \A i \in 1 .. Len(queue) : Starts(queue[i]) => queue[i].game = queue[i].n
  /\ ~refusing /\ queue # <<>> => queue[Len(queue)].n = batches

\* What is kept is an unfinished game, but for its start.
Continues(s, k) ==
  \A i \in 1 .. k : /\ ~Ends(s[i]) /\ s[i].epoch = s[1].epoch
                    /\ s[i].n = s[1].n + i - 1
                    /\ i > 1 => ~Starts(s[i])

KeptInv ==
  /\ replayQueued <= Len(games)
  /\ Continues(Line, Kept)
  /\ Kept > 0 => gameOpenEpoch = Line[1].epoch
  /\ Kept > 0 /\ Line[1].epoch = epoch => openGameIdentity <= identity
  /\ Kept > 0 => \A s \in Snapshots :
       s.epoch = Line[1].epoch /\ s.identity = openGameIdentity => s.machine # None
  /\ OpenGameBounded /\ RetainedIsKnown

\* Where the worker is in a session, and what it has declared.
SessionInv ==
  /\ replayPending => replayQueued = 0
  /\ pc \in {"take", "send", "sent"} => haveDeclared
  /\ pc \in {"send", "sent"} => ~replayPending
  /\ InSession /\ ~replayPending /\ Kept > 0 =>
       haveDeclared /\ Line[1].epoch = declared.epoch /\ declared.machine # None
  /\ InSession /\ ~replayPending /\ openGame # <<>> => peerAuthored
  /\ pc = "sent" => games # <<>> /\ games[1].epoch = declared.epoch /\ Authored

\* A Declare of another epoch waits until the old one's batches are gone.
FlushInv ==
  /\ pc \in {"take", "send", "sent"} /\ caller = "declare" => current.epoch > declared.epoch
  /\ pc \in {"send", "sent"} /\ caller = "declare" =>
       \A i \in 1 .. Len(queue) : queue[i].epoch > declared.epoch
  /\ FlushedFirst

\* With daemons that serve authored tables what is kept has its start, too.
StartInv ==
  PeerAuthored \subseteq {TRUE} =>
    /\ InSession => peerAuthored
    /\ Kept > 0 => Starts(Line[1])

IInv == /\ TypeInv /\ TableInv /\ BatchInv /\ LineInv /\ QueueInv
        /\ KeptInv /\ SessionInv /\ FlushInv /\ StartInv /\ IdsInOrder

-----------------------------------------------------------------------------
(* Batches and sequences of batches.                                       *)

\* Alike but for the id, which the worker gives a batch when it takes it.
Same(a, b) == /\ a.epoch = b.epoch /\ a.machine = b.machine /\ a.ops = b.ops
              /\ a.n = b.n /\ a.game = b.game

\* t is s without the d batches behind its first a ones.
Shifted(t, s, a, d) ==
  /\ a \in Nat /\ d \in Nat /\ a <= Len(t) /\ Len(t) + d = Len(s)
  /\ \A i \in 1 .. Len(t) : Same(t[i], s[IF i <= a THEN i ELSE i + d])

\* The fields of a batch have their types, and it has a first and a last call.
LEMMA PostFields ==
  ASSUME NEW b \in Post
  PROVE  /\ b.epoch \in Nat /\ b.machine \in Machines /\ b.ops \in Seq(Kind)
         /\ b.n \in Nat /\ b.game \in Nat /\ b.id \in Nat
         /\ Len(b.ops) \in Nat \ {0}
<1>1. b \in Batch /\ b.ops # <<>> /\ b.machine # None
  BY DEF Post
<1>2. /\ b.epoch \in Nat /\ b.machine \in Machines \cup {None} /\ b.ops \in Seq(Kind)
      /\ b.n \in Nat /\ b.game \in Nat /\ b.id \in Nat
  BY <1>1 DEF Batch
<1>3. Len(b.ops) \in Nat \ {0}
  BY <1>1, <1>2, EmptySeq
<1> QED
  BY <1>1, <1>2, <1>3

\* The tail of a sequence from k.
LEMMA FromProperties ==
  ASSUME NEW S, NEW s \in Seq(S), NEW k \in 1 .. Len(s) + 1
  PROVE  /\ From(s, k) \in Seq(S)
         /\ Len(From(s, k)) = Len(s) - k + 1
         /\ \A i \in 1 .. Len(s) - k + 1 : From(s, k)[i] = s[k + i - 1]
<1>1. Len(s) \in Nat /\ \A i \in k .. Len(s) : s[i] \in S
  BY LenProperties, ElementOfSeq
<1>2. /\ SubSeq(s, k, Len(s)) \in Seq(S)
      /\ Len(SubSeq(s, k, Len(s))) = IF k <= Len(s) THEN Len(s) - k + 1 ELSE 0
      /\ \A i \in 1 .. Len(s) - k + 1 : SubSeq(s, k, Len(s))[i] = s[k + i - 1]
  <2>1. k \in Int /\ Len(s) \in Int /\ \A i \in k .. Len(s) : s[i] \in S
    BY <1>1
  <2> QED
    BY <2>1, SubSeqProperties
<1> QED
  BY <1>1, <1>2 DEF From

\* The first k of a sequence.
LEMMA FirstProperties ==
  ASSUME NEW S, NEW s \in Seq(S), NEW k \in 0 .. Len(s)
  PROVE  /\ SubSeq(s, 1, k) \in Seq(S)
         /\ Len(SubSeq(s, 1, k)) = k
         /\ \A i \in 1 .. k : SubSeq(s, 1, k)[i] = s[i]
<1>1. Len(s) \in Nat /\ \A i \in 1 .. k : s[i] \in S
  BY LenProperties, ElementOfSeq
<1>2. /\ SubSeq(s, 1, k) \in Seq(S)
      /\ Len(SubSeq(s, 1, k)) = IF 1 <= k THEN k - 1 + 1 ELSE 0
      /\ \A i \in 1 .. k - 1 + 1 : SubSeq(s, 1, k)[i] = s[1 + i - 1]
  <2>1. 1 \in Int /\ k \in Int /\ \A i \in 1 .. k : s[i] \in S
    BY <1>1
  <2> QED
    BY <2>1, SubSeqProperties
<1> QED
  BY <1>1, <1>2

-----------------------------------------------------------------------------
(* How many calls a sequence of batches holds.                             *)

\* The calls are finitely many.
LEMMA SumType ==
  ASSUME NEW s \in Seq(Post)
  PROVE  IsFiniteSet(CallsOf(s)) /\ SumOps(s) \in Nat
<1>1. Len(s) \in Nat /\ DOMAIN s = 1 .. Len(s) /\ \A i \in 1 .. Len(s) : s[i] \in Post
  BY LenProperties, ElementOfSeq
<1> DEFINE G(i) == {i} \X (1 .. Len(s[i].ops))
<1>2. \A i \in DOMAIN s : IsFiniteSet(G(i))
  <2> SUFFICES ASSUME NEW i \in DOMAIN s PROVE IsFiniteSet(G(i))
    OBVIOUS
  <2>1. Len(s[i].ops) \in Nat
    BY <1>1, PostFields
  <2>2. IsFiniteSet(1 .. Len(s[i].ops)) /\ IsFiniteSet({i})
    <3>1. 1 \in Int /\ Len(s[i].ops) \in Int
      BY <2>1
    <3> QED
      BY <3>1, FS_Interval, FS_Singleton
  <2> QED
    BY <2>2, FS_Product
<1>3. IsFiniteSet(DOMAIN s)
  BY <1>1, FS_Interval
<1>4. IsFiniteSet({G(i) : i \in DOMAIN s})
  <2> DEFINE f == [i \in DOMAIN s |-> G(i)]
  <2>1. f \in Surjection(DOMAIN s, {G(i) : i \in DOMAIN s})
    BY DEF Surjection
  <2> QED
    BY <2>1, <1>3, FS_Surjection
<1>5. \A T \in {G(i) : i \in DOMAIN s} : IsFiniteSet(T)
  BY <1>2
<1>6. IsFiniteSet(UNION {G(i) : i \in DOMAIN s})
  BY <1>4, <1>5, FS_UNION
<1>7. IsFiniteSet(CallsOf(s))
  BY <1>6 DEF CallsOf
<1> QED
  BY <1>7, FS_CardinalityType DEF SumOps

\* An empty sequence holds none.
LEMMA SumEmpty == SumOps(<<>>) = 0
<1>1. CallsOf(<<>>) = {}
  BY DEF CallsOf
<1> QED
  BY <1>1, FS_EmptySet DEF SumOps

\* A part of a sequence holds no more calls than the whole.
LEMMA SumWithin ==
  ASSUME NEW s \in Seq(Post), NEW t \in Seq(Post), NEW d \in Nat, Len(t) + d <= Len(s),
         \A i \in 1 .. Len(t) : t[i].ops = s[i + d].ops
  PROVE  SumOps(t) <= SumOps(s)
<1>1. Len(s) \in Nat /\ DOMAIN s = 1 .. Len(s) /\ Len(t) \in Nat /\ DOMAIN t = 1 .. Len(t)
  BY LenProperties
<1> DEFINE f == [c \in CallsOf(t) |-> <<c[1] + d, c[2]>>]
<1>2. \A c \in CallsOf(t) : /\ c[1] \in 1 .. Len(t) /\ c[2] \in 1 .. Len(t[c[1]].ops)
                              /\ c = <<c[1], c[2]>>
  BY <1>1 DEF CallsOf
<1>3. \A c \in CallsOf(t) : f[c] \in CallsOf(s)
  <2> SUFFICES ASSUME NEW c \in CallsOf(t) PROVE <<c[1] + d, c[2]>> \in CallsOf(s)
    OBVIOUS
  <2>1. c[1] + d \in DOMAIN s
    BY <1>1, <1>2
  <2>2. c[2] \in 1 .. Len(s[c[1] + d].ops)
    BY <1>2
  <2>3. <<c[1] + d, c[2]>> \in {c[1] + d} \X (1 .. Len(s[c[1] + d].ops))
    BY <2>2
  <2> QED
    BY <2>1, <2>3 DEF CallsOf
<1>4. f \in [CallsOf(t) -> CallsOf(s)]
  BY <1>3
<1>5. ASSUME NEW x \in CallsOf(t), NEW y \in CallsOf(t), f[x] = f[y]
      PROVE  x = y
  <2>1. x[1] + d = y[1] + d /\ x[2] = y[2]
    BY <1>5
  <2>2. x[1] \in Int /\ y[1] \in Int
    BY <1>1, <1>2
  <2>3. x[1] = y[1]
    BY <2>1, <2>2
  <2> QED
    BY <2>1, <2>3, <1>2
<1>6. f \in Injection(CallsOf(t), CallsOf(s))
  BY <1>4, <1>5, Fun_IsInj
<1>7. IsFiniteSet(CallsOf(s))
  BY SumType
<1>8. Cardinality(CallsOf(t)) <= Cardinality(CallsOf(s))
  <2> HIDE DEF f
  <2> QED
    BY <1>6, <1>7, FS_Injection
<1> QED
  BY <1>8 DEF SumOps

\* One batch more holds its calls more.
LEMMA SumAppend ==
  ASSUME NEW s \in Seq(Post), NEW b \in Post
  PROVE  SumOps(Append(s, b)) = SumOps(s) + Len(b.ops)
<1>1. Len(s) \in Nat /\ DOMAIN s = 1 .. Len(s)
  BY LenProperties
<1> DEFINE t == Append(s, b)
           new == {Len(s) + 1} \X (1 .. Len(b.ops))
<1>2. /\ t \in Seq(Post) /\ Len(t) = Len(s) + 1 /\ t[Len(s) + 1] = b
      /\ \A i \in 1 .. Len(s) : t[i] = s[i]
  BY AppendProperties
<1>3. DOMAIN t = 1 .. Len(s) + 1
  BY <1>2, LenProperties
<1> HIDE DEF t
<1>4. CallsOf(t) = CallsOf(s) \cup new
  <2>1. DOMAIN t = DOMAIN s \cup {Len(s) + 1}
    BY <1>1, <1>3
  <2>2. \A i \in DOMAIN s : t[i] = s[i]
    BY <1>1, <1>2
  <2>3. ASSUME NEW c \in CallsOf(t) PROVE c \in CallsOf(s) \cup new
    <3>1. PICK i \in DOMAIN t : c \in {i} \X (1 .. Len(t[i].ops))
      BY DEF CallsOf
    <3>2. CASE i \in DOMAIN s
      BY <3>1, <3>2, <2>2 DEF CallsOf
    <3>3. CASE i = Len(s) + 1
      BY <3>1, <3>3, <1>2
    <3> QED
      BY <2>1, <3>2, <3>3
  <2>4. ASSUME NEW c \in CallsOf(s) PROVE c \in CallsOf(t)
    <3>1. PICK i \in DOMAIN s : c \in {i} \X (1 .. Len(s[i].ops))
      BY DEF CallsOf
    <3>2. i \in DOMAIN t /\ c \in {i} \X (1 .. Len(t[i].ops))
      BY <3>1, <2>1, <2>2
    <3> QED
      BY <3>2 DEF CallsOf
  <2>5. new \subseteq CallsOf(t)
    BY <1>2, <2>1 DEF CallsOf
  <2> QED
    BY <2>3, <2>4, <2>5
<1>5. CallsOf(s) \cap new = {}
  <2>1. \A c \in CallsOf(s) : c[1] \in 1 .. Len(s)
    BY <1>1 DEF CallsOf
  <2>2. \A c \in new : c[1] = Len(s) + 1
    OBVIOUS
  <2>3. Len(s) + 1 \notin 1 .. Len(s)
    BY <1>1
  <2> QED
    BY <2>1, <2>2, <2>3
<1>6. Len(b.ops) \in Nat
  BY PostFields
<1>7. IsFiniteSet(new) /\ Cardinality(new) = Len(b.ops)
  <2>1. IsFiniteSet({Len(s) + 1}) /\ Cardinality({Len(s) + 1}) = 1
    BY FS_Singleton
  <2>2. IsFiniteSet(1 .. Len(b.ops)) /\ Cardinality(1 .. Len(b.ops)) = Len(b.ops)
    <3>1. 1 \in Int /\ Len(b.ops) \in Int
      BY <1>6
    <3>2. /\ IsFiniteSet(1 .. Len(b.ops))
          /\ Cardinality(1 .. Len(b.ops)) = IF 1 > Len(b.ops) THEN 0 ELSE Len(b.ops) - 1 + 1
      BY <3>1, FS_Interval
    <3> QED
      BY <1>6, <3>2
  <2>3. IsFiniteSet(new) /\ Cardinality(new) = 1 * Len(b.ops)
    BY <2>1, <2>2, FS_Product
  <2> QED
    BY <2>3, <1>6
<1>8. IsFiniteSet(CallsOf(s)) /\ SumOps(s) \in Nat
  BY SumType
<1>9. Cardinality(CallsOf(s) \cup new) = Cardinality(CallsOf(s)) + Cardinality(new) - Cardinality({})
  <2> HIDE DEF new
  <2> QED
    BY <1>5, <1>7, <1>8, FS_Union
<1>10. Cardinality({}) = 0
  BY FS_EmptySet
<1>11. SumOps(t) = SumOps(s) + Len(b.ops) - 0
  BY <1>4, <1>7, <1>9, <1>10 DEF SumOps
<1> QED
  BY <1>6, <1>8, <1>11 DEF t

-----------------------------------------------------------------------------
(* What is left of the line when batches go.                               *)

\* Where the batches of the shorter line come from.
LEMMA ShiftedPlaces ==
  ASSUME NEW s \in Seq(Post), NEW t \in Seq(Post), NEW a, NEW d, Shifted(t, s, a, d)
  PROVE  /\ Len(s) \in Nat /\ Len(t) \in Nat /\ a \in Nat /\ d \in Nat
         /\ a <= Len(t) /\ Len(t) + d = Len(s)
         /\ \A i \in 1 .. Len(t) : t[i] \in Post
         /\ \A i \in 1 .. Len(s) : s[i] \in Post
         /\ \A i \in 1 .. Len(t) : i <= a => i \in 1 .. Len(s) /\ Same(t[i], s[i])
         /\ \A i \in 1 .. Len(t) : i > a => i + d \in 1 .. Len(s) /\ Same(t[i], s[i + d])
<1>1. Len(s) \in Nat /\ Len(t) \in Nat
  BY LenProperties
<1>2. (\A i \in 1 .. Len(t) : t[i] \in Post) /\ (\A i \in 1 .. Len(s) : s[i] \in Post)
  BY ElementOfSeq
<1>3. a \in Nat /\ d \in Nat /\ a <= Len(t) /\ Len(t) + d = Len(s)
  BY DEF Shifted
<1>4. \A i \in 1 .. Len(t) : Same(t[i], s[IF i <= a THEN i ELSE i + d])
  BY DEF Shifted
<1>5. ASSUME NEW i \in 1 .. Len(t), i <= a
      PROVE  i \in 1 .. Len(s) /\ Same(t[i], s[i])
  BY <1>1, <1>3, <1>4, <1>5
<1>6. ASSUME NEW i \in 1 .. Len(t), i > a
      PROVE  i + d \in 1 .. Len(s) /\ Same(t[i], s[i + d])
  <2>1. ~(i <= a)
    BY <1>3, <1>6
  <2>2. Same(t[i], s[i + d])
    BY <1>4, <2>1
  <2> QED
    BY <1>1, <1>3, <2>2
<1> QED
  BY <1>1, <1>2, <1>3, <1>5, <1>6

\* It keeps its order.
LEMMA ShiftedOrdered ==
  ASSUME NEW s \in Seq(Post), NEW t \in Seq(Post), NEW a, NEW d, Shifted(t, s, a, d), Ordered(s)
  PROVE  Ordered(t)
<1> SUFFICES ASSUME NEW i \in 1 .. Len(t), NEW j \in 1 .. Len(t), i < j
             PROVE  t[i].n < t[j].n /\ t[i].epoch <= t[j].epoch
  BY DEF Ordered
<1>1. /\ Len(s) \in Nat /\ Len(t) \in Nat /\ a \in Nat /\ d \in Nat
      /\ \A k \in 1 .. Len(t) : k <= a => k \in 1 .. Len(s) /\ Same(t[k], s[k])
      /\ \A k \in 1 .. Len(t) : k > a => k + d \in 1 .. Len(s) /\ Same(t[k], s[k + d])
  BY ShiftedPlaces
<1>2. \A x, y \in 1 .. Len(s) : x < y => s[x].n < s[y].n /\ s[x].epoch <= s[y].epoch
  BY DEF Ordered
<1>3. PICK x \in 1 .. Len(s) : Same(t[i], s[x]) /\ x = IF i <= a THEN i ELSE i + d
  BY <1>1
<1>4. PICK y \in 1 .. Len(s) : Same(t[j], s[y]) /\ y = IF j <= a THEN j ELSE j + d
  BY <1>1
<1>5. x < y
  BY <1>1, <1>3, <1>4
<1> QED
  BY <1>2, <1>3, <1>4, <1>5 DEF Same

\* And misses nothing, if the batch behind the gap misses nothing.
LEMMA ShiftedJoined ==
  ASSUME NEW s \in Seq(Post), NEW t \in Seq(Post), NEW a, NEW d, Shifted(t, s, a, d), Joined(s),
         a = 0 \/ d = 0 \/ a = Len(t) \/ Joins(t[a], t[a + 1])
  PROVE  Joined(t)
<1> SUFFICES ASSUME NEW i \in 1 .. Len(t) - 1
             PROVE  Joins(t[i], t[i + 1])
  BY DEF Joined
<1>1. /\ Len(s) \in Nat /\ Len(t) \in Nat /\ a \in Nat /\ d \in Nat
      /\ a <= Len(t) /\ Len(t) + d = Len(s)
      /\ \A k \in 1 .. Len(t) : k <= a => k \in 1 .. Len(s) /\ Same(t[k], s[k])
      /\ \A k \in 1 .. Len(t) : k > a => k + d \in 1 .. Len(s) /\ Same(t[k], s[k + d])
  BY ShiftedPlaces
<1>2. \A k \in 1 .. Len(s) - 1 : Joins(s[k], s[k + 1])
  BY DEF Joined
<1>3. i \in 1 .. Len(t) /\ i + 1 \in 1 .. Len(t)
  BY <1>1
<1>4. CASE i + 1 <= a
  <2>1. i <= a /\ i \in 1 .. Len(s) - 1
    BY <1>1, <1>4
  <2>2. Same(t[i], s[i]) /\ Same(t[i + 1], s[i + 1])
    BY <1>1, <1>3, <1>4, <2>1
  <2> QED
    BY <1>2, <2>1, <2>2 DEF Joins, Same, Starts
<1>5. CASE i > a
  <2>1. i + 1 > a /\ i + d \in 1 .. Len(s) - 1 /\ (i + 1) + d = (i + d) + 1
    BY <1>1, <1>5
  <2>2. Same(t[i], s[i + d]) /\ Same(t[i + 1], s[(i + d) + 1])
    BY <1>1, <1>3, <1>5, <2>1
  <2> QED
    BY <1>2, <2>1, <2>2 DEF Joins, Same, Starts
<1>6. CASE i = a
  <2>1. a # 0 /\ a # Len(t)
    BY <1>1, <1>6
  <2>2. CASE d = 0
    <3>1. i <= a /\ i + 1 > a /\ i \in 1 .. Len(s) - 1 /\ (i + 1) + d = i + 1
      BY <1>1, <1>6, <2>2
    <3>2. Same(t[i], s[i]) /\ Same(t[i + 1], s[i + 1])
      BY <1>1, <1>3, <3>1
    <3> QED
      BY <1>2, <3>1, <3>2 DEF Joins, Same, Starts
  <2> QED
    BY <1>6, <2>1, <2>2
<1> QED
  BY <1>1, <1>4, <1>5, <1>6

\* What is left of the game that is kept: all of it, or its end.
LEMMA ShiftedContinues ==
  ASSUME NEW s \in Seq(Post), NEW t \in Seq(Post), NEW a, NEW d, Shifted(t, s, a, d),
         NEW k \in 0 .. Len(s), NEW m \in 0 .. Len(t), Continues(s, k),
         \/ m = 0
         \/ m = k /\ (k <= a \/ d = 0)
         \/ a = 0 /\ m + d = k
  PROVE  /\ Continues(t, m)
         /\ m > 0 => t[1].epoch = s[1].epoch
         /\ m > 0 /\ m = k => t[1].ops = s[1].ops
<1>1. /\ Len(s) \in Nat /\ Len(t) \in Nat /\ a \in Nat /\ d \in Nat
      /\ a <= Len(t) /\ Len(t) + d = Len(s)
      /\ \A i \in 1 .. Len(t) : t[i] \in Post
      /\ \A i \in 1 .. Len(s) : s[i] \in Post
      /\ \A i \in 1 .. Len(t) : i <= a => i \in 1 .. Len(s) /\ Same(t[i], s[i])
      /\ \A i \in 1 .. Len(t) : i > a => i + d \in 1 .. Len(s) /\ Same(t[i], s[i + d])
  BY ShiftedPlaces
<1>2. \A i \in 1 .. k : /\ ~Ends(s[i]) /\ s[i].epoch = s[1].epoch
                         /\ s[i].n = s[1].n + i - 1 /\ (i > 1 => ~Starts(s[i]))
  BY DEF Continues
<1>3. CASE m = 0
  BY <1>3 DEF Continues
<1>4. CASE m > 0 /\ m = k /\ (k <= a \/ d = 0)
  <2>1. \A i \in 1 .. m : i \in 1 .. Len(t) /\ i \in 1 .. k /\ Same(t[i], s[i])
    <3> SUFFICES ASSUME NEW i \in 1 .. m
                 PROVE  i \in 1 .. Len(t) /\ i \in 1 .. k /\ Same(t[i], s[i])
      OBVIOUS
    <3>1. i \in 1 .. Len(t) /\ i \in 1 .. k
      BY <1>1, <1>4
    <3>2. CASE i <= a
      BY <1>1, <3>1, <3>2
    <3>3. CASE i > a
      <4>1. i + d = i
        BY <1>1, <1>4, <3>3
      <4> QED
        BY <1>1, <3>1, <3>3, <4>1
    <3> QED
      BY <1>1, <3>1, <3>2, <3>3
  <2>2. 1 \in 1 .. m
    BY <1>4
  <2>3. Same(t[1], s[1])
    BY <2>1, <2>2
  <2>4. Continues(t, m)
    <3> SUFFICES ASSUME NEW i \in 1 .. m
                 PROVE  /\ ~Ends(t[i]) /\ t[i].epoch = t[1].epoch
                        /\ t[i].n = t[1].n + i - 1 /\ (i > 1 => ~Starts(t[i]))
      BY DEF Continues
    <3> QED
      BY <1>2, <2>1, <2>3 DEF Same, Starts, Ends
  <2> QED
    BY <2>3, <2>4 DEF Same
<1>5. CASE m > 0 /\ a = 0 /\ m + d = k
  <2>1. \A i \in 1 .. m : i \in 1 .. Len(t) /\ i + d \in 1 .. k /\ Same(t[i], s[i + d])
    BY <1>1, <1>5
  <2>2. 1 \in 1 .. m /\ 1 \in 1 .. k
    BY <1>1, <1>5
  <2>3. Same(t[1], s[1 + d]) /\ 1 + d \in 1 .. k
    BY <2>1, <2>2
  <2>4. s[1 + d].epoch = s[1].epoch /\ s[1 + d].n = s[1].n + (1 + d) - 1
    BY <1>2, <2>3
  <2>5. s[1].n \in Nat
    <3>1. s[1] \in Post
      BY <1>1, <2>2
    <3> QED
      BY <3>1, PostFields
  <2>6. Continues(t, m)
    <3> SUFFICES ASSUME NEW i \in 1 .. m
                 PROVE  /\ ~Ends(t[i]) /\ t[i].epoch = t[1].epoch
                        /\ t[i].n = t[1].n + i - 1 /\ (i > 1 => ~Starts(t[i]))
      BY DEF Continues
    <3>1. Same(t[i], s[i + d]) /\ i + d \in 1 .. k
      BY <2>1
    <3>2. /\ ~Ends(s[i + d]) /\ s[i + d].epoch = s[1].epoch
          /\ s[i + d].n = s[1].n + (i + d) - 1 /\ (i + d > 1 => ~Starts(s[i + d]))
      BY <1>2, <3>1
    <3>3. i > 1 => i + d > 1
      BY <1>1
    <3>4. t[i].n = t[1].n + i - 1
      <4>1. t[1].n = s[1].n + (1 + d) - 1
        BY <2>3, <2>4 DEF Same
      <4>2. t[i].n = s[1].n + (i + d) - 1
        BY <3>1, <3>2 DEF Same
      <4> QED
        BY <1>1, <2>5, <4>1, <4>2
    <3> QED
      BY <2>3, <2>4, <3>1, <3>2, <3>3, <3>4 DEF Same, Starts, Ends
  <2>7. t[1].epoch = s[1].epoch
    BY <2>3, <2>4 DEF Same
  <2>8. m = k => d = 0
    BY <1>1, <1>5
  <2>9. m = k => t[1].ops = s[1].ops
    BY <2>3, <2>8 DEF Same
  <2> QED
    BY <2>6, <2>7, <2>9
<1> QED
  BY <1>3, <1>4, <1>5

-----------------------------------------------------------------------------
(* Every variable keeps its type.                                          *)

\* The types of the constants' uses.
LEMMA Constants ==
  /\ None \notin Machines /\ None \notin RomIds
  /\ MaxGameOps \in Nat \ {0} /\ MaxQueuedOps \in Nat \ {0}
BY NoneAssumption, BoundAssumption

\* A snapshot's fields.
LEMMA SnapshotFields ==
  ASSUME NEW s \in Snapshot
  PROVE  /\ s.epoch \in Nat /\ s.identity \in Nat /\ s.display \in Nat
         /\ s.rom \in RomIds \cup {None} /\ s.machine \in Machines \cup {None}
BY DEF Snapshot

\* What the worker takes from the queue is the queue, with ids.
LEMMA TakenFacts ==
  ASSUME queue \in Seq(Post), nextBatchId \in Nat \ {0}
  PROVE  /\ Taken \in Seq(Post) /\ Len(queue) \in Nat /\ Len(Taken) = Len(queue)
         /\ \A i \in 1 .. Len(queue) :
              /\ Same(Taken[i], queue[i]) /\ Taken[i].id = nextBatchId + i - 1
<1>1. Len(queue) \in Nat /\ \A i \in 1 .. Len(queue) : queue[i] \in Post
  BY LenProperties, ElementOfSeq
<1>2. ASSUME NEW i \in 1 .. Len(queue)
      PROVE  /\ [queue[i] EXCEPT !.id = nextBatchId + i - 1] \in Post
             /\ Same([queue[i] EXCEPT !.id = nextBatchId + i - 1], queue[i])
             /\ [queue[i] EXCEPT !.id = nextBatchId + i - 1].id = nextBatchId + i - 1
  <2> DEFINE b == queue[i]
             c == [b EXCEPT !.id = nextBatchId + i - 1]
  <2>1. b \in Batch /\ b.ops # <<>> /\ b.machine # None
    BY <1>1 DEF Post
  <2>2. nextBatchId + i - 1 \in Nat
    BY <1>1
  <2> HIDE DEF b
  <2>3. c \in Batch
    BY <2>1, <2>2 DEF Batch
  <2>4. /\ c.epoch = b.epoch /\ c.machine = b.machine /\ c.ops = b.ops /\ c.n = b.n
        /\ c.game = b.game /\ c.id = nextBatchId + i - 1
    BY <2>1 DEF Batch
  <2>5. c \in Post /\ Same(c, b) /\ c.id = nextBatchId + i - 1
    BY <2>1, <2>3, <2>4 DEF Post, Same
  <2> QED
    BY <2>5 DEF b
<1>3. Taken \in [1 .. Len(queue) -> Post]
  BY <1>2 DEF Taken
<1>4. Taken \in Seq(Post)
  BY <1>1, <1>3, SeqDef
<1>5. DOMAIN Taken = 1 .. Len(queue)
  BY DEF Taken
<1>6. Len(Taken) = Len(queue)
  BY <1>1, <1>4, <1>5, LenProperties
<1>7. \A i \in 1 .. Len(queue) : Taken[i] = [queue[i] EXCEPT !.id = nextBatchId + i - 1]
  BY DEF Taken
<1> QED
  BY <1>1, <1>2, <1>4, <1>6, <1>7

\* A batch is made of a part of the commit.
LEMMA Cuts ==
  ASSUME NEW s \in Seq(Kind), NEW k \in CutAfter(s)
  PROVE  /\ k \in 1 .. Len(s) /\ s # <<>>
         /\ SubSeq(s, 1, k) \in Seq(Kind) /\ SubSeq(s, 1, k) # <<>>
         /\ Len(SubSeq(s, 1, k)) = k /\ SubSeq(s, 1, k)[1] = s[1]
         /\ From(s, k + 1) \in Seq(Kind)
<1>1. k \in 1 .. Len(s) /\ Len(s) \in Nat
  BY LenProperties DEF CutAfter
<1>2. k \in 0 .. Len(s) /\ k + 1 \in 1 .. Len(s) + 1 /\ 1 \in 1 .. k
  BY <1>1
<1>3. /\ SubSeq(s, 1, k) \in Seq(Kind) /\ Len(SubSeq(s, 1, k)) = k
      /\ SubSeq(s, 1, k)[1] = s[1]
  BY <1>2, FirstProperties
<1>4. Len(<<>>) = 0
  OBVIOUS
<1>5. SubSeq(s, 1, k) # <<>> /\ s # <<>>
  BY <1>1, <1>3, <1>4
<1>6. From(s, k + 1) \in Seq(Kind)
  BY <1>2, FromProperties
<1> QED
  BY <1>1, <1>3, <1>5, <1>6

\* Initially.
LEMMA InitTypes == Init => TypeInv
<1> SUFFICES ASSUME Init PROVE TypeInv
  OBVIOUS
<1>1. <<>> \in Seq(Post) /\ <<>> \in Seq(Kind)
  BY EmptySeq
<1>2. NoDeclare \in Snapshot
  BY DEF NoDeclare, Snapshot
<1>3. [epoch |-> 0, n |-> 0] \in [epoch : Nat, n : Nat]
  OBVIOUS
<1> QED
  <2>1. ApiTypes
    BY <1>1, <1>2, <1>3 DEF Init, ApiTypes
  <2>2. WorkerTypes
    <3>1. pc \in {"down", "hello", "loop", "declare", "take", "send", "sent"}
          /\ caller \in {"serve", "declare"}
      BY DEF Init
    <3>2. current \in Snapshot /\ declared \in Snapshot
      BY <1>2 DEF Init
    <3>3. haveDeclared \in BOOLEAN /\ peerAuthored \in BOOLEAN /\ replayPending \in BOOLEAN
      BY DEF Init
    <3>4. /\ gameOpenEpoch \in Nat /\ openGameIdentity \in Nat
          /\ replayQueued \in Nat /\ nextBatchId \in Nat \ {0}
      BY DEF Init
    <3> QED
      BY <3>1, <3>2, <3>3, <3>4 DEF WorkerTypes
  <2>3. LineTypes
    BY <1>1 DEF Init, LineTypes
  <2> QED
    BY <2>1, <2>2, <2>3 DEF TypeInv

\* The tail of every handler of the API thread.
LEMMA UpdateTypes ==
  ASSUME ApiTypes, UpdateDeclare, epoch' \in Nat, display' \in Nat,
         rom' \in RomIds \cup {None}, machine' \in Machines \cup {None}
  PROVE  identity' \in Nat /\ posted' \in Snapshot /\ unread' \in BOOLEAN
<1> DEFINE now == [epoch |-> epoch', identity |-> identity, rom |-> rom',
                   machine |-> IF AuthoredReady' THEN machine' ELSE None, display |-> display']
<1>1. /\ identity' = IF now.epoch = posted.epoch /\ NewIdentity(posted, now)
                    THEN identity + 1 ELSE identity
      /\ posted' = [now EXCEPT !.identity = identity']
      /\ unread' = (unread \/ posted' # posted)
  BY DEF UpdateDeclare
<1>2. identity \in Nat /\ unread \in BOOLEAN
  BY DEF ApiTypes
<1>3. now \in Snapshot
  BY <1>2 DEF Snapshot
<1> HIDE DEF now
<1>4. identity' \in Nat
  BY <1>1, <1>2
<1>5. posted' \in Snapshot
  BY <1>1, <1>3, <1>4 DEF Snapshot
<1> QED
  BY <1>1, <1>2, <1>4, <1>5

\* What the API thread leaves alone.
LEMMA WorkerQuietTypes ==
  ASSUME TypeInv, UNCHANGED <<worker, queue, dLog>>
  PROVE  WorkerTypes' /\ LineTypes'
<1>1. /\ UNCHANGED <<pc, caller, current, declared, haveDeclared, peerAuthored>>
      /\ UNCHANGED <<gameOpenEpoch, openGame, openGameIdentity, replayPending, replayQueued>>
      /\ UNCHANGED <<games, nextBatchId, queue, dLog>>
  BY DEF worker, link, retained, replay
<1>2. WorkerTypes'
  BY <1>1 DEF TypeInv, WorkerTypes
<1>3. LineTypes'
  BY <1>1 DEF TypeInv, LineTypes
<1> QED
  BY <1>2, <1>3

\* The variables of a handler that posts a declaration.
LEMMA DeclareTypes ==
  ASSUME TypeInv, UpdateDeclare, epoch' \in Nat, display' \in Nat, rom' \in RomIds \cup {None},
         machine' \in Machines \cup {None}, paths' \in BOOLEAN, ops' \in Seq(Kind),
         UNCHANGED <<handoff, worker, dLog, bounds>>
  PROVE  TypeInv'
<1>1. ApiTypes
  BY DEF TypeInv
<1>2. identity' \in Nat /\ posted' \in Snapshot /\ unread' \in BOOLEAN
  BY <1>1, UpdateTypes
<1>3. /\ UNCHANGED <<pushing, queue, refusing, batches, game>>
      /\ UNCHANGED <<calls, losses, restarts, cut, dLog, worker>>
  BY DEF handoff, bounds
<1>4. ApiTypes'
  BY <1>1, <1>2, <1>3 DEF ApiTypes
<1>5. UNCHANGED <<worker, queue, dLog>>
  BY <1>3
<1> QED
  BY <1>4, <1>5, WorkerQuietTypes DEF TypeInv

\* A Push of one batch: it is the epoch's, the machine's and the next one, and what it leaves
\* in the queue begins where a game does.
Pushes(post) ==
  /\ post \in Post /\ post.epoch = epoch /\ post.machine = machine /\ post.n = batches + 1
  /\ IF Starts(post) THEN post.game = post.n
                      ELSE post.game = IF game.epoch = epoch THEN game.n ELSE 0
  /\ game' = [epoch |-> epoch, n |-> IF Ends(post) THEN 0 ELSE post.game]
  /\ batches' = batches + 1
  /\ \/ UNCHANGED <<queue, refusing>> /\ refusing
     \/ /\ ~refusing \/ Starts(post)
        /\ \E i \in 1 .. Len(queue) + 1 :
             /\ i = 1 \/ (i <= Len(queue) /\ Starts(queue[i])) \/ (i = Len(queue) + 1 /\ Starts(post))
             /\ \/ /\ queue' = Append(From(queue, i), post) /\ refusing' = FALSE
                   /\ SumOps(From(queue, i)) + Len(post.ops) <= MaxQueuedOps
                \/ queue' = From(queue, i) /\ refusing' = TRUE

\* Every PushPost is such a Push.
LEMMA PushFacts ==
  ASSUME TypeInv, TableInv, PushPost
  PROVE  /\ \E post : Pushes(post)
         /\ pushing' \in Seq(Kind) /\ game' \in [epoch : Nat, n : Nat]
         /\ UNCHANGED <<session, ops, unread, worker, dLog, bounds>> /\ pushing # <<>>
<1>1. PICK k \in CutAfter(pushing) :
        LET first == IF pushing[1] = "start" THEN batches + 1
                     ELSE IF game.epoch = epoch THEN game.n ELSE 0
            post == [epoch |-> epoch, machine |-> machine, id |-> 0,
                     ops |-> SubSeq(pushing, 1, k), n |-> batches + 1, game |-> first]
            cuts == {1} \cup {i \in 2 .. Len(queue) : Starts(queue[i])}
                        \cup {i \in {Len(queue) + 1} : Starts(post)}
            Fits(i) == SumOps(From(queue, i)) + k <= MaxQueuedOps
        IN /\ \A j \in CutAfter(pushing) : k <= j
           /\ pushing' = From(pushing, k + 1)
           /\ batches' = batches + 1
           /\ game' = [epoch |-> epoch, n |-> IF Ends(post) THEN 0 ELSE first]
           /\ \/ /\ refusing /\ ~Starts(post)
                 /\ UNCHANGED <<queue, refusing>>
              \/ /\ ~refusing \/ Starts(post)
                 /\ \E i \in cuts :
                      /\ \A j \in cuts : j < i => ~Fits(j)
                      /\ Fits(i) \/ \A j \in cuts : j <= i
                      /\ queue' = IF Fits(i) THEN Append(From(queue, i), post)
                                             ELSE From(queue, i)
                      /\ RefusesRest(Fits(i))
           /\ UNCHANGED <<session, ops, unread, worker, dLog, bounds>>
  BY DEF PushPost
<1> DEFINE first == IF pushing[1] = "start" THEN batches + 1
                    ELSE IF game.epoch = epoch THEN game.n ELSE 0
           post == [epoch |-> epoch, machine |-> machine, id |-> 0,
                    ops |-> SubSeq(pushing, 1, k), n |-> batches + 1, game |-> first]
           cuts == {1} \cup {i \in 2 .. Len(queue) : Starts(queue[i])}
                       \cup {i \in {Len(queue) + 1} : Starts(post)}
           Fits(i) == SumOps(From(queue, i)) + k <= MaxQueuedOps
<1>2. /\ UNCHANGED <<epoch, identity, machine, paths, rom, display, posted, ops, unread>>
      /\ UNCHANGED <<calls, losses, restarts, cut, dLog, worker>>
      /\ pushing' = From(pushing, k + 1) /\ batches' = batches + 1
      /\ game' = [epoch |-> epoch, n |-> IF Ends(post) THEN 0 ELSE first]
  BY <1>1 DEF session, bounds
<1>3. /\ epoch \in Nat /\ machine \in Machines \cup {None} /\ batches \in Nat
      /\ game.epoch \in Nat /\ game.n \in Nat /\ pushing \in Seq(Kind) /\ queue \in Seq(Post)
  BY DEF TypeInv, ApiTypes, LineTypes
<1>4. /\ pushing # <<>> /\ SubSeq(pushing, 1, k) \in Seq(Kind)
      /\ SubSeq(pushing, 1, k) # <<>> /\ From(pushing, k + 1) \in Seq(Kind)
  BY <1>3, Cuts
<1>5. machine # None
  BY <1>4 DEF TableInv
<1>6. first \in Nat
  BY <1>3
<1>7. post \in Post
  <2> HIDE DEF first
  <2> QED
    BY <1>3, <1>4, <1>5, <1>6 DEF Post, Batch
<1>8. Len(queue) \in Nat
  BY <1>3, LenProperties
<1>9. /\ post.epoch = epoch /\ post.machine = machine /\ post.n = batches + 1
      /\ post.game = first /\ post.ops = SubSeq(pushing, 1, k)
  BY DEF first
<1>10. Len(post.ops) = k /\ (Starts(post) <=> pushing[1] = "start")
  <2>1. Len(SubSeq(pushing, 1, k)) = k /\ SubSeq(pushing, 1, k)[1] = pushing[1]
    BY <1>3, Cuts
  <2> HIDE DEF post
  <2> QED
    BY <2>1, <1>9 DEF Starts
<1>11. /\ IF Starts(post) THEN post.game = post.n
                           ELSE post.game = IF game.epoch = epoch THEN game.n ELSE 0
       /\ game' = [epoch |-> epoch, n |-> IF Ends(post) THEN 0 ELSE post.game]
  <2>1. first = IF pushing[1] = "start" THEN batches + 1
                ELSE IF game.epoch = epoch THEN game.n ELSE 0
    OBVIOUS
  <2> HIDE DEF post, first
  <2>2. CASE Starts(post)
    BY <1>2, <1>9, <1>10, <2>1, <2>2
  <2>3. CASE ~Starts(post)
    BY <1>2, <1>9, <1>10, <2>1, <2>3
  <2> QED
    BY <2>2, <2>3
<1>12. game' \in [epoch : Nat, n : Nat]
  <2> HIDE DEF first
  <2> QED
    BY <1>2, <1>3, <1>6
<1>13. \/ UNCHANGED <<queue, refusing>> /\ refusing
       \/ /\ ~refusing \/ Starts(post)
          /\ \E i \in cuts : /\ \/ /\ Fits(i) /\ queue' = Append(From(queue, i), post)
                                   /\ RefusesRest(TRUE)
                                \/ ~Fits(i) /\ queue' = From(queue, i) /\ RefusesRest(FALSE)
  <2>1. CASE \E i \in cuts : /\ queue' = IF Fits(i) THEN Append(From(queue, i), post)
                                                   ELSE From(queue, i)
                             /\ RefusesRest(Fits(i))
    <3>1. PICK i \in cuts : /\ queue' = IF Fits(i) THEN Append(From(queue, i), post)
                                                   ELSE From(queue, i)
                           /\ RefusesRest(Fits(i))
      BY <2>1
    <3>2. ~refusing \/ Starts(post) \/ (UNCHANGED <<queue, refusing>> /\ refusing)
      BY <1>1
    <3> HIDE DEF post, cuts, Fits
    <3>3. CASE Fits(i)
      BY <3>1, <3>2, <3>3 DEF RefusesRest
    <3>4. CASE ~Fits(i)
      BY <3>1, <3>2, <3>4 DEF RefusesRest
    <3> QED
      BY <3>3, <3>4
  <2> QED
    BY <1>1, <2>1
<1>14. ASSUME NEW i \in cuts
       PROVE  /\ i \in 1 .. Len(queue) + 1
              /\ i = 1 \/ (i <= Len(queue) /\ Starts(queue[i])) \/ (i = Len(queue) + 1 /\ Starts(post))
  <2> HIDE DEF post
  <2> QED
    BY <1>8
<1> HIDE DEF post, cuts
<1>15. Pushes(post)
  <2>1. CASE UNCHANGED <<queue, refusing>> /\ refusing
    BY <2>1, <1>2, <1>7, <1>9, <1>11 DEF Pushes
  <2>2. CASE /\ ~refusing \/ Starts(post)
             /\ \E i \in cuts : /\ \/ /\ Fits(i) /\ queue' = Append(From(queue, i), post)
                                      /\ RefusesRest(TRUE)
                                   \/ ~Fits(i) /\ queue' = From(queue, i) /\ RefusesRest(FALSE)
    <3>1. PICK i \in cuts : \/ /\ Fits(i) /\ queue' = Append(From(queue, i), post)
                               /\ RefusesRest(TRUE)
                            \/ ~Fits(i) /\ queue' = From(queue, i) /\ RefusesRest(FALSE)
      BY <2>2
    <3>2. /\ i \in 1 .. Len(queue) + 1
          /\ i = 1 \/ (i <= Len(queue) /\ Starts(queue[i])) \/ (i = Len(queue) + 1 /\ Starts(post))
      BY <1>14
    <3>3. \/ /\ queue' = Append(From(queue, i), post) /\ refusing' = FALSE
             /\ SumOps(From(queue, i)) + Len(post.ops) <= MaxQueuedOps
          \/ queue' = From(queue, i) /\ refusing' = TRUE
      BY <3>1, <1>10 DEF RefusesRest
    <3> QED
      BY <2>2, <3>2, <3>3, <1>2, <1>7, <1>9, <1>11 DEF Pushes
  <2> QED
    BY <1>13, <2>1, <2>2
<1> QED
  BY <1>1, <1>2, <1>4, <1>12, <1>15

\* The types after it.
LEMMA PushTypes ==
  ASSUME TypeInv, TableInv, PushPost
  PROVE  TypeInv'
<1>1. PICK post : Pushes(post)
  BY PushFacts
<1>2. /\ pushing' \in Seq(Kind) /\ game' \in [epoch : Nat, n : Nat]
      /\ UNCHANGED <<epoch, identity, machine, paths, rom, display, posted, ops, unread>>
      /\ UNCHANGED <<calls, losses, restarts, cut, dLog, worker>>
  BY PushFacts DEF session, bounds
<1>3. post \in Post /\ batches' = batches + 1
  BY <1>1 DEF Pushes
<1>4. queue \in Seq(Post) /\ Len(queue) \in Nat /\ batches \in Nat /\ refusing \in BOOLEAN
  BY LenProperties DEF TypeInv, ApiTypes, LineTypes
<1>5. queue' \in Seq(Post) /\ refusing' \in BOOLEAN
  <2>1. CASE UNCHANGED <<queue, refusing>>
    BY <2>1, <1>4
  <2>2. CASE \E i \in 1 .. Len(queue) + 1 :
               \/ queue' = Append(From(queue, i), post) /\ refusing' = FALSE
               \/ queue' = From(queue, i) /\ refusing' = TRUE
    <3>1. PICK i \in 1 .. Len(queue) + 1 :
               \/ queue' = Append(From(queue, i), post) /\ refusing' = FALSE
               \/ queue' = From(queue, i) /\ refusing' = TRUE
      BY <2>2
    <3>2. From(queue, i) \in Seq(Post)
      BY <1>4, FromProperties
    <3>3. Append(From(queue, i), post) \in Seq(Post)
      BY <1>3, <3>2, AppendProperties
    <3> QED
      BY <3>1, <3>2, <3>3
  <2> QED
    BY <1>1, <2>1, <2>2 DEF Pushes
<1>6. ApiTypes'
  BY <1>2, <1>3, <1>4, <1>5 DEF TypeInv, ApiTypes
<1>7. WorkerTypes'
  <2>1. /\ UNCHANGED <<pc, caller, current, declared, haveDeclared, peerAuthored>>
        /\ UNCHANGED <<gameOpenEpoch, openGameIdentity, replayPending, replayQueued, nextBatchId>>
    BY <1>2 DEF worker, link, retained, replay
  <2> QED
    BY <2>1 DEF TypeInv, WorkerTypes
<1>8. LineTypes'
  <2>1. UNCHANGED <<games, openGame, dLog>>
    BY <1>2 DEF worker, link, retained, replay
  <2> QED
    BY <2>1, <1>5 DEF TypeInv, LineTypes
<1> QED
  BY <1>6, <1>7, <1>8 DEF TypeInv

\* What the worker leaves alone.
LEMMA ApiQuietTypes ==
  ASSUME TypeInv, unread' \in BOOLEAN, cut' \in BOOLEAN, UNCHANGED <<session, ops>>,
         UNCHANGED <<pushing, refusing, batches, game>>, UNCHANGED <<calls, losses, restarts>>
  PROVE  ApiTypes'
<1>1. UNCHANGED <<epoch, identity, machine, paths, rom, display, posted, ops>>
  BY DEF session
<1> QED
  BY <1>1 DEF TypeInv, ApiTypes

\* What TakeDeclare takes.
LEMMA TakeDeclareTypes ==
  ASSUME TypeInv, TakeDeclare
  PROVE  current' \in {posted, current} /\ current' \in Snapshot /\ unread' \in BOOLEAN
BY DEF TypeInv, ApiTypes, WorkerTypes, TakeDeclare

\* One batch fewer to send.
LEMMA PopTypes ==
  ASSUME TypeInv, PopGame, games # <<>>
  PROVE  games' \in Seq(Post) /\ replayQueued' \in Nat
<1>1. games \in Seq(Post) /\ replayQueued \in Nat
  BY DEF TypeInv, WorkerTypes, LineTypes
<1>2. Tail(games) \in Seq(Post)
  BY <1>1, HeadTailProperties
<1> QED
  BY <1>1, <1>2 DEF PopGame

\* A step of the worker that leaves the line and the API thread alone.
LEMMA LinkTypes ==
  ASSUME TypeInv, unread' \in BOOLEAN, cut' \in BOOLEAN, UNCHANGED <<session, ops, handoff>>,
         UNCHANGED <<calls, losses, restarts>>, UNCHANGED <<games, openGame, dLog>>, WorkerTypes'
  PROVE  TypeInv'
<1>1. UNCHANGED <<pushing, queue, refusing, batches, game>>
  BY DEF handoff
<1>2. UNCHANGED <<session, ops>> /\ UNCHANGED <<pushing, refusing, batches, game>>
  BY <1>1
<1>3. ApiTypes'
  BY <1>2, ApiQuietTypes
<1>4. LineTypes'
  BY <1>1 DEF TypeInv, LineTypes
<1> QED
  BY <1>3, <1>4 DEF TypeInv

\* Connect: the types.
LEMMA ConnectTypes == TypeInv /\ Connect => TypeInv'
<1> SUFFICES ASSUME TypeInv, Connect PROVE TypeInv'
  OBVIOUS
<1>0. /\ pc' = "hello" /\ haveDeclared' = FALSE /\ declared' = NoDeclare /\ TakeDeclare
      /\ UNCHANGED <<session, ops, handoff>> /\ UNCHANGED <<calls, losses, restarts>>
      /\ UNCHANGED <<games, openGame, dLog>> /\ UNCHANGED cut
      /\ UNCHANGED <<caller, peerAuthored, gameOpenEpoch, openGameIdentity>>
      /\ UNCHANGED <<replayPending, replayQueued, nextBatchId>>
  BY DEF Connect, retained, replay, bounds
<1>1. current' \in Snapshot /\ unread' \in BOOLEAN
  BY <1>0, TakeDeclareTypes
<1>2. declared' \in Snapshot
  BY <1>0 DEF NoDeclare, Snapshot
<1>3. cut' \in BOOLEAN
  BY <1>0 DEF TypeInv, ApiTypes
<1>4. WorkerTypes'
  BY <1>0, <1>1, <1>2 DEF TypeInv, WorkerTypes
<1> QED
  BY <1>0, <1>1, <1>3, <1>4, LinkTypes

\* MaybeDeclare: the types.
LEMMA MaybeDeclareTypes == TypeInv /\ MaybeDeclare => TypeInv'
<1> SUFFICES ASSUME TypeInv, MaybeDeclare PROVE TypeInv'
  OBVIOUS
<1>0. /\ TakeDeclare
      /\ UNCHANGED <<session, ops, handoff>> /\ UNCHANGED <<calls, losses, restarts>>
      /\ UNCHANGED <<games, openGame, dLog>> /\ UNCHANGED cut
      /\ UNCHANGED <<declared, haveDeclared, peerAuthored, gameOpenEpoch, openGameIdentity>>
      /\ UNCHANGED <<replayPending, replayQueued, nextBatchId>>
  BY DEF MaybeDeclare, retained, replay, bounds
<1>1. current' \in Snapshot /\ unread' \in BOOLEAN
  BY <1>0, TakeDeclareTypes
<1>2. pc' \in {"take", "declare"} /\ (caller' \in {"declare", "serve"} \/ caller' = caller)
  BY DEF MaybeDeclare
<1>3. cut' \in BOOLEAN
  BY <1>0 DEF TypeInv, ApiTypes
<1>4. WorkerTypes'
  BY <1>0, <1>1, <1>2 DEF TypeInv, WorkerTypes
<1> QED
  BY <1>0, <1>1, <1>3, <1>4, LinkTypes

\* SendGames returns to one of its callers' waits.
LEMMA ReturnTypes ==
  ASSUME TypeInv, Return
  PROVE  pc' \in {"loop", "take", "declare"} /\ caller' = "serve"
BY DEF Return

\* SendReturns: the types.
LEMMA SendReturnsTypes == TypeInv /\ SendReturns => TypeInv'
<1> SUFFICES ASSUME TypeInv, SendReturns PROVE TypeInv'
  OBVIOUS
<1>0. /\ Return /\ UNCHANGED <<current, unread>>
      /\ UNCHANGED <<session, ops, handoff>> /\ UNCHANGED <<calls, losses, restarts>>
      /\ UNCHANGED <<games, openGame, dLog>> /\ UNCHANGED cut
      /\ UNCHANGED <<declared, haveDeclared, peerAuthored, gameOpenEpoch, openGameIdentity>>
      /\ UNCHANGED <<replayPending, replayQueued, nextBatchId>>
  BY DEF SendReturns, retained, replay, bounds
<1>1. pc' \in {"loop", "take", "declare"} /\ caller' = "serve"
  BY <1>0, ReturnTypes
<1>3. cut' \in BOOLEAN /\ unread' \in BOOLEAN
  BY <1>0 DEF TypeInv, ApiTypes
<1>4. WorkerTypes'
  BY <1>0, <1>1 DEF TypeInv, WorkerTypes
<1> QED
  BY <1>0, <1>3, <1>4, LinkTypes

\* SendBatch: the types.
LEMMA SendBatchTypes == TypeInv /\ SendBatch => TypeInv'
<1> SUFFICES ASSUME TypeInv, SendBatch PROVE TypeInv'
  OBVIOUS
<1>0. /\ pc' = "sent" /\ UNCHANGED <<current, unread>>
      /\ UNCHANGED <<session, ops, handoff>> /\ UNCHANGED <<calls, losses, restarts>>
      /\ UNCHANGED <<games, openGame, dLog>> /\ UNCHANGED cut
      /\ UNCHANGED <<caller, declared, haveDeclared, peerAuthored, gameOpenEpoch, openGameIdentity>>
      /\ UNCHANGED <<replayPending, replayQueued, nextBatchId>>
  BY DEF SendBatch, api, link, retained, replay, bounds
<1>3. cut' \in BOOLEAN /\ unread' \in BOOLEAN
  BY <1>0 DEF TypeInv, ApiTypes
<1>4. WorkerTypes'
  BY <1>0 DEF TypeInv, WorkerTypes
<1> QED
  BY <1>0, <1>3, <1>4, LinkTypes

-----------------------------------------------------------------------------
(* What the worker's steps do to the line.                                 *)

\* t is s without the d batches behind its first a ones, ids and all.
Without(t, s, a, d) ==
  /\ a \in Nat /\ d \in Nat /\ a <= Len(t) /\ Len(t) + d = Len(s)
  /\ \A i \in 1 .. Len(t) : t[i] = s[IF i <= a THEN i ELSE i + d]

\* What the worker holds once it has taken the queue.
Taking == Held \o Taken

\* Batches of which both lines are made.
LEMMA PairOf ==
  ASSUME NEW S, NEW x \in Seq(S), NEW y \in Seq(S)
  PROVE  /\ x \o y \in Seq(S) /\ Len(x) \in Nat /\ Len(y) \in Nat
         /\ Len(x \o y) = Len(x) + Len(y)
         /\ \A i \in 1 .. Len(x) : (x \o y)[i] = x[i]
         /\ \A i \in Len(x) + 1 .. Len(x) + Len(y) : (x \o y)[i] = y[i - Len(x)]
<1>1. Len(x) \in Nat /\ Len(y) \in Nat
  BY LenProperties
<1>2. /\ x \o y \in Seq(S) /\ Len(x \o y) = Len(x) + Len(y)
      /\ \A i \in 1 .. Len(x) + Len(y) : (x \o y)[i] = IF i <= Len(x) THEN x[i] ELSE y[i - Len(x)]
  BY ConcatProperties
<1>3. \A i \in 1 .. Len(x) : (x \o y)[i] = x[i]
  BY <1>1, <1>2
<1>4. \A i \in Len(x) + 1 .. Len(x) + Len(y) : (x \o y)[i] = y[i - Len(x)]
  BY <1>1, <1>2
<1> QED
  BY <1>1, <1>2, <1>3, <1>4

\* The queue stays behind what the worker lets go.
LEMMA LineLess ==
  ASSUME NEW x \in Seq(Post), NEW y \in Seq(Post), NEW q \in Seq(Post), NEW a, NEW d,
         Without(y, x, a, d)
  PROVE  Shifted(y \o q, x \o q, a, d)
<1>1. /\ Len(x) \in Nat /\ Len(q) \in Nat /\ Len(x \o q) = Len(x) + Len(q)
      /\ \A i \in 1 .. Len(x) : (x \o q)[i] = x[i]
      /\ \A i \in Len(x) + 1 .. Len(x) + Len(q) : (x \o q)[i] = q[i - Len(x)]
  BY PairOf
<1>2. /\ Len(y) \in Nat /\ Len(y \o q) = Len(y) + Len(q)
      /\ \A i \in 1 .. Len(y) : (y \o q)[i] = y[i]
      /\ \A i \in Len(y) + 1 .. Len(y) + Len(q) : (y \o q)[i] = q[i - Len(y)]
  BY PairOf
<1>3. /\ a \in Nat /\ d \in Nat /\ a <= Len(y) /\ Len(y) + d = Len(x)
      /\ \A i \in 1 .. Len(y) : y[i] = x[IF i <= a THEN i ELSE i + d]
  BY DEF Without
<1>0. /\ Len(x) \in Nat /\ Len(y) \in Nat /\ Len(q) \in Nat /\ a \in Nat /\ d \in Nat
      /\ a <= Len(y) /\ Len(y) + d = Len(x)
      /\ Len(x \o q) = Len(x) + Len(q) /\ Len(y \o q) = Len(y) + Len(q)
  BY <1>1, <1>2, <1>3
<1>4. ASSUME NEW i \in 1 .. Len(y \o q)
      PROVE  (y \o q)[i] = (x \o q)[IF i <= a THEN i ELSE i + d]
  <2>1. CASE i <= a
    <3>1. i \in 1 .. Len(x) /\ i \in 1 .. Len(y)
      BY <2>1, <1>0
    <3> QED
      BY <2>1, <3>1, <1>1, <1>2, <1>3
  <2>2. CASE i > a /\ i <= Len(y)
    <3>1. i + d \in 1 .. Len(x) /\ i \in 1 .. Len(y) /\ ~(i <= a)
      BY <2>2, <1>1, <1>2, <1>3
    <3> QED
      BY <3>1, <1>1, <1>2, <1>3
  <2>3. CASE i > Len(y)
    <3>1. /\ i \in Len(y) + 1 .. Len(y) + Len(q) /\ i + d \in Len(x) + 1 .. Len(x) + Len(q)
          /\ ~(i <= a) /\ (i + d) - Len(x) = i - Len(y)
      BY <2>3, <1>0
    <3> QED
      BY <3>1, <1>1, <1>2
  <2> QED
    BY <2>1, <2>2, <2>3, <1>2, <1>3
<1>5. \A i \in 1 .. Len(y \o q) : Same((y \o q)[i], (x \o q)[IF i <= a THEN i ELSE i + d])
  BY <1>4 DEF Same
<1> QED
  <2>1. a <= Len(y \o q) /\ Len(y \o q) + d = Len(x \o q)
    BY <1>0
  <2> QED
    BY <1>0, <1>5, <2>1, Zenon DEF Shifted

\* Or goes to the worker, whole.
LEMMA LineTaken ==
  ASSUME NEW x \in Seq(Post), NEW y \in Seq(Post), NEW q \in Seq(Post), NEW t \in Seq(Post),
         Len(t) = Len(q), \A i \in 1 .. Len(q) : Same(t[i], q[i]),
         NEW a, NEW d, Without(y, x \o t, a, d)
  PROVE  Shifted(y \o <<>>, x \o q, a, d)
<1>1. /\ Len(x) \in Nat /\ Len(q) \in Nat /\ Len(x \o q) = Len(x) + Len(q)
      /\ \A i \in 1 .. Len(x) : (x \o q)[i] = x[i]
      /\ \A i \in Len(x) + 1 .. Len(x) + Len(q) : (x \o q)[i] = q[i - Len(x)]
  BY PairOf
<1>2. /\ Len(x \o t) = Len(x) + Len(t)
      /\ \A i \in 1 .. Len(x) : (x \o t)[i] = x[i]
      /\ \A i \in Len(x) + 1 .. Len(x) + Len(t) : (x \o t)[i] = t[i - Len(x)]
  BY PairOf
<1>3. \A i \in 1 .. Len(x \o q) : Same((x \o t)[i], (x \o q)[i])
  <2> SUFFICES ASSUME NEW i \in 1 .. Len(x \o q) PROVE Same((x \o t)[i], (x \o q)[i])
    OBVIOUS
  <2>1. CASE i <= Len(x)
    BY <2>1, <1>1, <1>2 DEF Same
  <2>2. CASE i > Len(x)
    <3>1. i \in Len(x) + 1 .. Len(x) + Len(q) /\ i - Len(x) \in 1 .. Len(q)
      BY <2>2, <1>1
    <3> QED
      BY <3>1, <1>1, <1>2
  <2> QED
    BY <2>1, <2>2, <1>1
<1>4. y \o <<>> = y /\ Len(y) \in Nat
  BY ConcatEmptySeq, LenProperties
<1>5. /\ a \in Nat /\ d \in Nat /\ a <= Len(y) /\ Len(y) + d = Len(x \o q)
      /\ \A i \in 1 .. Len(y) : y[i] = (x \o t)[IF i <= a THEN i ELSE i + d]
  BY <1>1, <1>2 DEF Without
<1>6. \A i \in 1 .. Len(y) : (IF i <= a THEN i ELSE i + d) \in 1 .. Len(x \o q)
  BY <1>1, <1>4, <1>5
<1>7. \A i \in 1 .. Len(y) : Same(y[i], (x \o q)[IF i <= a THEN i ELSE i + d])
  BY <1>3, <1>5, <1>6
<1> QED
  BY <1>4, <1>5, <1>7 DEF Shifted

\* Ids that rise still rise when some batches go.
Rising(s, n) == /\ \A i, j \in 1 .. Len(s) : i < j => s[i].id < s[j].id
                /\ \A i \in 1 .. Len(s) : s[i].id < n

\* Taking batches out leaves the ids rising.
LEMMA RisingLess ==
  ASSUME NEW x \in Seq(Post), NEW y \in Seq(Post), NEW a, NEW d, NEW n,
         Without(y, x, a, d), Rising(x, n)
  PROVE  Rising(y, n)
<1>1. /\ a \in Nat /\ d \in Nat /\ a <= Len(y) /\ Len(y) + d = Len(x) /\ Len(x) \in Nat
      /\ Len(y) \in Nat
      /\ \A i \in 1 .. Len(y) : y[i] = x[IF i <= a THEN i ELSE i + d]
  BY LenProperties DEF Without
<1> DEFINE p(i) == IF i <= a THEN i ELSE i + d
<1>2. \A i \in 1 .. Len(y) : p(i) \in 1 .. Len(x) /\ y[i] = x[p(i)]
  BY <1>1
<1>3. \A i, j \in 1 .. Len(y) : i < j => p(i) < p(j)
  BY <1>1
<1> HIDE DEF p
<1> QED
  BY <1>2, <1>3 DEF Rising

\* And so does taking the queue, whose batches get the next ids.
LEMMA RisingTaken ==
  ASSUME NEW x \in Seq(Post), NEW t \in Seq(Post), NEW n \in Nat, Rising(x, n),
         \A i \in 1 .. Len(t) : t[i].id = n + i - 1
  PROVE  Rising(x \o t, n + Len(t))
<1>1. /\ Len(x) \in Nat /\ Len(t) \in Nat /\ Len(x \o t) = Len(x) + Len(t)
      /\ \A i \in 1 .. Len(x) : (x \o t)[i] = x[i]
      /\ \A i \in Len(x) + 1 .. Len(x) + Len(t) : (x \o t)[i] = t[i - Len(x)]
  BY PairOf
<1>2. \A i \in 1 .. Len(x) : x[i].id \in Nat /\ x[i].id < n
  BY ElementOfSeq, PostFields DEF Rising
<1>3. \A i, j \in 1 .. Len(x) : i < j => x[i].id < x[j].id
  BY DEF Rising
<1>4. \A i \in 1 .. Len(x \o t) :
        \/ i \in 1 .. Len(x) /\ (x \o t)[i].id = x[i].id
        \/ i > Len(x) /\ (x \o t)[i].id = n + (i - Len(x)) - 1
  <2> SUFFICES ASSUME NEW i \in 1 .. Len(x \o t)
               PROVE  \/ i \in 1 .. Len(x) /\ (x \o t)[i].id = x[i].id
                      \/ i > Len(x) /\ (x \o t)[i].id = n + (i - Len(x)) - 1
    OBVIOUS
  <2>1. CASE i <= Len(x)
    BY <2>1, <1>1
  <2>2. CASE i > Len(x)
    <3>1. i \in Len(x) + 1 .. Len(x) + Len(t) /\ i - Len(x) \in 1 .. Len(t)
      BY <2>2, <1>1
    <3> QED
      BY <3>1, <2>2, <1>1
  <2> QED
    BY <2>1, <2>2, <1>1
<1>5. Len(x) \in Nat /\ Len(t) \in Nat /\ Len(x \o t) = Len(x) + Len(t)
  BY <1>1
<1>6. ASSUME NEW i \in 1 .. Len(x \o t), NEW j \in 1 .. Len(x \o t), i < j
      PROVE  (x \o t)[i].id < (x \o t)[j].id
  BY <1>2, <1>3, <1>4, <1>5, <1>6
<1>7. ASSUME NEW i \in 1 .. Len(x \o t)
      PROVE  (x \o t)[i].id < n + Len(t)
  BY <1>2, <1>4, <1>5
<1> QED
  BY <1>6, <1>7 DEF Rising

\* What the worker holds, and the whole line, are sequences of batches.
LEMMA LineFacts ==
  ASSUME TypeInv
  PROVE  /\ Held \in Seq(Post) /\ Len(openGame) \in Nat /\ Len(games) \in Nat
         /\ Len(Held) = Len(openGame) + Len(games)
         /\ \A i \in 1 .. Len(openGame) : Held[i] = openGame[i]
         /\ \A i \in Len(openGame) + 1 .. Len(openGame) + Len(games) :
              Held[i] = games[i - Len(openGame)]
         /\ Line \in Seq(Post) /\ Len(queue) \in Nat /\ Len(Line) = Len(Held) + Len(queue)
         /\ \A i \in 1 .. Len(Held) : Line[i] = Held[i]
         /\ \A i \in Len(Held) + 1 .. Len(Held) + Len(queue) : Line[i] = queue[i - Len(Held)]
         /\ \A i \in 1 .. Len(Line) : Line[i] \in Post
<1>1. openGame \in Seq(Post) /\ games \in Seq(Post) /\ queue \in Seq(Post)
  BY DEF TypeInv, LineTypes
<1>2. /\ Held \in Seq(Post) /\ Len(openGame) \in Nat /\ Len(games) \in Nat
      /\ Len(Held) = Len(openGame) + Len(games)
      /\ \A i \in 1 .. Len(openGame) : Held[i] = openGame[i]
      /\ \A i \in Len(openGame) + 1 .. Len(openGame) + Len(games) :
           Held[i] = games[i - Len(openGame)]
  BY <1>1, PairOf DEF Held
<1>a. Held \in Seq(Post) /\ queue \in Seq(Post)
  BY <1>1, <1>2
<1>b. Line = Held \o queue
  BY DEF Line
<1>3. /\ Line \in Seq(Post) /\ Len(queue) \in Nat /\ Len(Line) = Len(Held) + Len(queue)
      /\ \A i \in 1 .. Len(Held) : Line[i] = Held[i]
      /\ \A i \in Len(Held) + 1 .. Len(Held) + Len(queue) : Line[i] = queue[i - Len(Held)]
  <2> HIDE DEF Held
  <2> QED
    BY <1>a, <1>b, PairOf
<1>4. \A i \in 1 .. Len(Line) : Line[i] \in Post
  BY <1>3, ElementOfSeq
<1> QED
  BY <1>2, <1>3, <1>4

\* The same in the next state.
LEMMA LineFactsAfter ==
  ASSUME TypeInv'
  PROVE  /\ Held' \in Seq(Post) /\ Len(openGame') \in Nat /\ Len(games') \in Nat
         /\ Len(Held') = Len(openGame') + Len(games')
         /\ \A i \in 1 .. Len(openGame') : Held'[i] = openGame'[i]
         /\ \A i \in Len(openGame') + 1 .. Len(openGame') + Len(games') :
              Held'[i] = games'[i - Len(openGame')]
         /\ Line' \in Seq(Post) /\ Len(queue') \in Nat /\ Len(Line') = Len(Held') + Len(queue')
         /\ \A i \in 1 .. Len(Held') : Line'[i] = Held'[i]
         /\ \A i \in Len(Held') + 1 .. Len(Held') + Len(queue') :
              Line'[i] = queue'[i - Len(Held')]
         /\ \A i \in 1 .. Len(Line') : Line'[i] \in Post
<1>1. openGame' \in Seq(Post) /\ games' \in Seq(Post) /\ queue' \in Seq(Post)
  BY DEF TypeInv, LineTypes
<1>2. /\ Held' \in Seq(Post) /\ Len(openGame') \in Nat /\ Len(games') \in Nat
      /\ Len(Held') = Len(openGame') + Len(games')
      /\ \A i \in 1 .. Len(openGame') : Held'[i] = openGame'[i]
      /\ \A i \in Len(openGame') + 1 .. Len(openGame') + Len(games') :
           Held'[i] = games'[i - Len(openGame')]
  BY <1>1, PairOf DEF Held
<1>a. Held' \in Seq(Post) /\ queue' \in Seq(Post)
  BY <1>1, <1>2
<1>b. Line' = Held' \o queue'
  BY DEF Line
<1>3. /\ Line' \in Seq(Post) /\ Len(queue') \in Nat /\ Len(Line') = Len(Held') + Len(queue')
      /\ \A i \in 1 .. Len(Held') : Line'[i] = Held'[i]
      /\ \A i \in Len(Held') + 1 .. Len(Held') + Len(queue') : Line'[i] = queue'[i - Len(Held')]
  <2> HIDE DEF Held
  <2> QED
    BY <1>a, <1>b, PairOf
<1>4. \A i \in 1 .. Len(Line') : Line'[i] \in Post
  BY <1>3, ElementOfSeq
<1> QED
  BY <1>2, <1>3, <1>4

\* A step that lets batches go, with the queue left alone or taken.
LEMMA LineLets ==
  ASSUME TypeInv, TypeInv', IdsInOrder, NEW a, NEW d,
         \/ Without(Held', Held, a, d) /\ UNCHANGED <<queue, nextBatchId>>
         \/ /\ Without(Held', Taking, a, d) /\ queue' = <<>>
            /\ nextBatchId' = nextBatchId + Len(queue)
  PROVE  Shifted(Line', Line, a, d) /\ IdsInOrder'
<1>1. Held \in Seq(Post) /\ Held' \in Seq(Post) /\ queue \in Seq(Post) /\ nextBatchId \in Nat \ {0}
  BY LineFacts, LineFactsAfter DEF TypeInv, LineTypes, WorkerTypes
<1>2. Rising(Held, nextBatchId)
  BY DEF IdsInOrder, Held, Rising
<1>3. CASE Without(Held', Held, a, d) /\ UNCHANGED <<queue, nextBatchId>>
  <2>1. Shifted(Held' \o queue, Held \o queue, a, d)
    BY <1>1, <1>3, LineLess
  <2>2. Line' = Held' \o queue /\ Line = Held \o queue
    BY <1>3 DEF Line
  <2>3. Rising(Held', nextBatchId')
    BY <1>1, <1>2, <1>3, RisingLess
  <2> QED
    BY <2>1, <2>2, <2>3 DEF IdsInOrder, Held, Rising
<1>4. CASE /\ Without(Held', Taking, a, d) /\ queue' = <<>>
           /\ nextBatchId' = nextBatchId + Len(queue)
  <2>1. /\ Taken \in Seq(Post) /\ Len(Taken) = Len(queue)
        /\ \A i \in 1 .. Len(queue) : Same(Taken[i], queue[i]) /\ Taken[i].id = nextBatchId + i - 1
    BY <1>1, TakenFacts
  <2>2. Without(Held', Held \o Taken, a, d)
    BY <1>4 DEF Taking
  <2>3. Shifted(Held' \o <<>>, Held \o queue, a, d)
    BY <1>1, <2>1, <2>2, LineTaken
  <2>4. Line' = Held' \o <<>> /\ Line = Held \o queue
    BY <1>4 DEF Line
  <2>5. Rising(Held \o Taken, nextBatchId + Len(Taken))
    BY <1>1, <1>2, <2>1, RisingTaken
  <2>6. Held \o Taken \in Seq(Post)
    BY <1>1, <2>1, ConcatProperties
  <2>7. Rising(Held', nextBatchId + Len(Taken))
    BY <1>1, <2>2, <2>5, <2>6, RisingLess
  <2>8. Rising(Held', nextBatchId')
    BY <1>4, <2>1, <2>7
  <2> QED
    BY <2>3, <2>4, <2>8 DEF IdsInOrder, Held, Rising
<1> QED
  BY <1>3, <1>4

\* Nothing goes.
LEMMA WithoutNone ==
  ASSUME NEW s \in Seq(Post)
  PROVE  Without(s, s, 0, 0)
<1>1. Len(s) \in Nat
  BY LenProperties
<1>2. \A i \in 1 .. Len(s) : s[i] = s[IF i <= 0 THEN i ELSE i + 0]
  <2> SUFFICES ASSUME NEW i \in 1 .. Len(s) PROVE s[i] = s[IF i <= 0 THEN i ELSE i + 0]
    OBVIOUS
  <2>1. (IF i <= 0 THEN i ELSE i + 0) = i
    OBVIOUS
  <2> QED
    BY <2>1
<1>3. 0 \in Nat /\ 0 <= Len(s) /\ Len(s) + 0 = Len(s)
  BY <1>1
<1> QED
  BY <1>2, <1>3 DEF Without

\* The first batches go: all of x, and k - 1 of y.
LEMMA WithoutFirst ==
  ASSUME NEW x \in Seq(Post), NEW y \in Seq(Post), NEW k \in 1 .. Len(y) + 1
  PROVE  Without(From(y, k), x \o y, 0, Len(x) + k - 1)
<1>1. /\ Len(x) \in Nat /\ Len(y) \in Nat /\ Len(x \o y) = Len(x) + Len(y)
      /\ \A i \in Len(x) + 1 .. Len(x) + Len(y) : (x \o y)[i] = y[i - Len(x)]
  BY PairOf
<1>2. /\ Len(From(y, k)) = Len(y) - k + 1
      /\ \A i \in 1 .. Len(y) - k + 1 : From(y, k)[i] = y[k + i - 1]
  BY FromProperties
<1>3. ASSUME NEW i \in 1 .. Len(From(y, k))
      PROVE  From(y, k)[i] = (x \o y)[IF i <= 0 THEN i ELSE i + (Len(x) + k - 1)]
  <2>1. (IF i <= 0 THEN i ELSE i + (Len(x) + k - 1)) = i + (Len(x) + k - 1)
    BY <1>1, <1>2
  <2>2. /\ i + (Len(x) + k - 1) \in Len(x) + 1 .. Len(x) + Len(y)
        /\ (i + (Len(x) + k - 1)) - Len(x) = k + i - 1
    BY <1>1, <1>2
  <2>3. (x \o y)[i + (Len(x) + k - 1)] = y[k + i - 1]
    BY <1>1, <2>2
  <2>4. From(y, k)[i] = y[k + i - 1]
    BY <1>2
  <2> QED
    BY <2>1, <2>3, <2>4
<1>4. /\ 0 \in Nat /\ Len(x) + k - 1 \in Nat /\ 0 <= Len(From(y, k))
      /\ Len(From(y, k)) + (Len(x) + k - 1) = Len(x \o y)
  BY <1>1, <1>2
<1> QED
  BY <1>3, <1>4 DEF Without

\* All of x goes.
LEMMA WithoutOpen ==
  ASSUME NEW x \in Seq(Post), NEW y \in Seq(Post)
  PROVE  Without(y, x \o y, 0, Len(x))
<1>1. Len(x) \in Nat /\ Len(y) \in Nat
  BY LenProperties
<1>2. 1 \in 1 .. Len(y) + 1
  BY <1>1
<1>3. Without(From(y, 1), x \o y, 0, Len(x) + 1 - 1)
  BY <1>2, WithoutFirst
<1>4. From(y, 1) = y
  BY SubSeqFull DEF From
<1>5. Len(x) + 1 - 1 = Len(x)
  BY <1>1
<1> QED
  BY <1>3, <1>4, <1>5

\* The first b of y go to the end of x, and k - 1 go for good.
LEMMA WithoutMiddle ==
  ASSUME NEW x \in Seq(Post), NEW y \in Seq(Post), NEW b \in 0 .. Len(y),
         NEW k \in 1 .. Len(y) - b + 1
  PROVE  /\ x \o SubSeq(y, 1, b) \in Seq(Post) /\ Len(x \o SubSeq(y, 1, b)) = Len(x) + b
         /\ From(From(y, b + 1), k) \in Seq(Post) /\ Len(From(y, b + 1)) = Len(y) - b
         /\ \A i \in 1 .. Len(y) - b : From(y, b + 1)[i] = y[b + i]
         /\ Without((x \o SubSeq(y, 1, b)) \o From(From(y, b + 1), k), x \o y, Len(x) + b, k - 1)
<1> DEFINE f == SubSeq(y, 1, b)
           r == From(y, b + 1)
           l == From(r, k)
           z == (x \o f) \o l
<1>1. Len(x) \in Nat /\ Len(y) \in Nat
  BY LenProperties
<1>2. b \in Nat /\ b + 1 \in 1 .. Len(y) + 1 /\ k \in Nat
  BY <1>1
<1>3. f \in Seq(Post) /\ Len(f) = b /\ \A i \in 1 .. b : f[i] = y[i]
  BY FirstProperties
<1>4. /\ r \in Seq(Post) /\ Len(r) = Len(y) - (b + 1) + 1
      /\ \A i \in 1 .. Len(y) - (b + 1) + 1 : r[i] = y[(b + 1) + i - 1]
  BY <1>2, FromProperties
<1>5. Len(r) = Len(y) - b /\ \A i \in 1 .. Len(y) - b : r[i] = y[b + i]
  <2>1. Len(r) = Len(y) - b
    BY <1>1, <1>2, <1>4
  <2>2. ASSUME NEW i \in 1 .. Len(y) - b PROVE r[i] = y[b + i]
    <3>1. i \in 1 .. Len(y) - (b + 1) + 1 /\ (b + 1) + i - 1 = b + i
      BY <1>1, <1>2
    <3> QED
      BY <3>1, <1>4
  <2> QED
    BY <2>1, <2>2
<1>6. k \in 1 .. Len(r) + 1
  BY <1>5
<1> HIDE DEF r, f
<1>7. /\ l \in Seq(Post) /\ Len(l) = Len(r) - k + 1
      /\ \A i \in 1 .. Len(r) - k + 1 : l[i] = r[k + i - 1]
  BY <1>4, <1>6, FromProperties
<1>8. /\ x \o f \in Seq(Post) /\ Len(x \o f) = Len(x) + b
      /\ \A i \in 1 .. Len(x) : (x \o f)[i] = x[i]
      /\ \A i \in Len(x) + 1 .. Len(x) + b : (x \o f)[i] = f[i - Len(x)]
  <2>1. f \in Seq(Post) /\ Len(f) = b
    BY <1>3
  <2>2. /\ x \o f \in Seq(Post) /\ Len(x \o f) = Len(x) + Len(f)
        /\ \A i \in 1 .. Len(x) : (x \o f)[i] = x[i]
        /\ \A i \in Len(x) + 1 .. Len(x) + Len(f) : (x \o f)[i] = f[i - Len(x)]
    BY <2>1, PairOf
  <2> QED
    BY <2>1, <2>2
<1> HIDE DEF l
<1>9. /\ Len(z) = (Len(x) + b) + Len(l)
      /\ \A i \in 1 .. Len(x) + b : z[i] = (x \o f)[i]
      /\ \A i \in (Len(x) + b) + 1 .. (Len(x) + b) + Len(l) : z[i] = l[i - (Len(x) + b)]
  <2>1. /\ Len(z) = Len(x \o f) + Len(l)
        /\ \A i \in 1 .. Len(x \o f) : z[i] = (x \o f)[i]
        /\ \A i \in Len(x \o f) + 1 .. Len(x \o f) + Len(l) : z[i] = l[i - Len(x \o f)]
    <3> DEFINE g == x \o f
    <3>1. g \in Seq(Post) /\ l \in Seq(Post) /\ z = g \o l
      BY <1>7, <1>8
    <3> HIDE DEF z, g
    <3>2. /\ Len(z) = Len(g) + Len(l)
          /\ \A i \in 1 .. Len(g) : z[i] = g[i]
          /\ \A i \in Len(g) + 1 .. Len(g) + Len(l) : z[i] = l[i - Len(g)]
      BY <3>1, PairOf
    <3> QED
      BY <3>2 DEF g
  <2>2. Len(x \o f) = Len(x) + b
    BY <1>8
  <2> QED
    BY <2>1, <2>2
<1>10. /\ Len(x \o y) = Len(x) + Len(y)
       /\ \A i \in 1 .. Len(x) : (x \o y)[i] = x[i]
       /\ \A i \in Len(x) + 1 .. Len(x) + Len(y) : (x \o y)[i] = y[i - Len(x)]
  BY PairOf
<1> HIDE DEF z
<1>11. /\ Len(l) = Len(y) - b - k + 1 /\ Len(z) = Len(x) + Len(y) - k + 1
       /\ k <= Len(y) - b + 1 /\ k >= 1 /\ b <= Len(y)
  BY <1>1, <1>2, <1>5, <1>7, <1>9
<1>12. ASSUME NEW i \in 1 .. Len(z)
       PROVE  z[i] = (x \o y)[IF i <= Len(x) + b THEN i ELSE i + (k - 1)]
  <2>1. CASE i <= Len(x)
    <3>1. i \in 1 .. Len(x) /\ i \in 1 .. Len(x) + b /\ i <= Len(x) + b
      BY <1>1, <1>2, <2>1
    <3> QED
      BY <3>1, <1>8, <1>9, <1>10
  <2>2. CASE i > Len(x) /\ i <= Len(x) + b
    <3>1. /\ i \in 1 .. Len(x) + b /\ i \in Len(x) + 1 .. Len(x) + b
          /\ i \in Len(x) + 1 .. Len(x) + Len(y) /\ i - Len(x) \in 1 .. b
      BY <1>1, <1>2, <1>11, <2>2
    <3>2. z[i] = f[i - Len(x)] /\ f[i - Len(x)] = y[i - Len(x)]
      BY <3>1, <1>3, <1>8, <1>9
    <3>3. (x \o y)[i] = y[i - Len(x)]
      BY <3>1, <1>10
    <3> QED
      BY <2>2, <3>2, <3>3
  <2>3. CASE i > Len(x) + b
    <3>1. /\ i \in (Len(x) + b) + 1 .. (Len(x) + b) + Len(l)
          /\ i - (Len(x) + b) \in 1 .. Len(r) - k + 1
          /\ k + (i - (Len(x) + b)) - 1 \in 1 .. Len(y) - b
          /\ i + (k - 1) \in Len(x) + 1 .. Len(x) + Len(y)
      BY <1>1, <1>2, <1>5, <1>11, <2>3
    <3>2. z[i] = l[i - (Len(x) + b)]
      BY <3>1, <1>9
    <3>3. l[i - (Len(x) + b)] = r[k + (i - (Len(x) + b)) - 1]
      BY <3>1, <1>7
    <3>4. r[k + (i - (Len(x) + b)) - 1] = y[b + (k + (i - (Len(x) + b)) - 1)]
      BY <3>1, <1>5
    <3>5. (x \o y)[i + (k - 1)] = y[(i + (k - 1)) - Len(x)]
      BY <3>1, <1>10
    <3>6. b + (k + (i - (Len(x) + b)) - 1) = (i + (k - 1)) - Len(x)
      BY <1>1, <1>2
    <3>7. ~(i <= Len(x) + b)
      BY <1>1, <1>2, <2>3
    <3> QED
      BY <3>2, <3>3, <3>4, <3>5, <3>6, <3>7
  <2>4. i <= Len(x) \/ (i > Len(x) /\ i <= Len(x) + b) \/ i > Len(x) + b
    BY <1>1, <1>2, <1>11
  <2> QED
    BY <2>1, <2>2, <2>3, <2>4
<1>13. /\ Len(x) + b \in Nat /\ k - 1 \in Nat /\ Len(x) + b <= Len(z)
       /\ Len(z) + (k - 1) = Len(x \o y)
  BY <1>1, <1>2, <1>10, <1>11
<1>14. Without(z, x \o y, Len(x) + b, k - 1)
  BY <1>12, <1>13 DEF Without
<1> QED
  BY <1>5, <1>7, <1>8, <1>14 DEF z, l, r, f

\* The game that is kept is the head of the line.
LEMMA OpenFacts ==
  ASSUME TypeInv, replayQueued <= Len(games)
  PROVE  /\ OpenGame \in Seq(Post) /\ Len(OpenGame) = Kept /\ Kept \in 0 .. Len(Line)
         /\ Kept = Len(openGame) + replayQueued /\ Kept <= Len(Held)
         /\ \A i \in 1 .. Kept : OpenGame[i] = Line[i]
<1> DEFINE o == openGame
           g == games
           r == replayQueued
           f == SubSeq(g, 1, r)
           x == o \o f
<1>1. o \in Seq(Post) /\ g \in Seq(Post) /\ r \in Nat
  BY DEF TypeInv, LineTypes, WorkerTypes
<1>2. Len(o) \in Nat /\ Len(g) \in Nat /\ r \in 0 .. Len(g)
  BY <1>1, LenProperties
<1>3. /\ Len(Held) = Len(o) + Len(g) /\ Len(Line) \in Nat /\ Len(Held) <= Len(Line)
      /\ \A i \in 1 .. Len(o) : Held[i] = o[i]
      /\ \A i \in Len(o) + 1 .. Len(o) + Len(g) : Held[i] = g[i - Len(o)]
      /\ \A i \in 1 .. Len(Held) : Line[i] = Held[i]
  BY LineFacts
<1>4. OpenGame = x /\ Kept = Len(o) + r
  BY DEF OpenGame, Kept
<1> HIDE DEF o, g, r
<1>5. f \in Seq(Post) /\ Len(f) = r /\ \A i \in 1 .. r : f[i] = g[i]
  BY <1>1, <1>2, FirstProperties
<1> HIDE DEF f
<1>6. /\ x \in Seq(Post) /\ Len(x) = Len(o) + Len(f)
      /\ \A i \in 1 .. Len(o) : x[i] = o[i]
      /\ \A i \in Len(o) + 1 .. Len(o) + Len(f) : x[i] = f[i - Len(o)]
  <2>1. f \in Seq(Post)
    BY <1>5
  <2> QED
    BY <1>1, <2>1, PairOf
<1> HIDE DEF x
<1>7. ASSUME NEW i \in 1 .. Len(o) + r
      PROVE  x[i] = Line[i]
  <2>1. i \in 1 .. Len(Held) /\ Line[i] = Held[i]
    BY <1>2, <1>3
  <2>2. CASE i <= Len(o)
    BY <2>1, <2>2, <1>2, <1>3, <1>6
  <2>3. CASE i > Len(o)
    <3>1. /\ i \in Len(o) + 1 .. Len(o) + r /\ i \in Len(o) + 1 .. Len(o) + Len(g)
          /\ i - Len(o) \in 1 .. r
      BY <1>2, <2>3
    <3>2. x[i] = f[i - Len(o)] /\ f[i - Len(o)] = g[i - Len(o)]
      BY <3>1, <1>5, <1>6
    <3> QED
      BY <3>1, <3>2, <2>1, <1>3
  <2> QED
    BY <1>2, <2>2, <2>3
<1>8. Len(o) + r \in 0 .. Len(Line) /\ Len(o) + r <= Len(Held) /\ Len(x) = Len(o) + r
  BY <1>2, <1>3, <1>5, <1>6
<1>9. /\ x \in Seq(Post) /\ Len(x) = Len(o) + r
      /\ \A i \in 1 .. Len(o) + r : x[i] = Line[i]
  BY <1>6, <1>7, <1>8
<1> QED
  BY <1>4, <1>8, <1>9 DEF o, r

\* The same in the next state.
LEMMA OpenFactsAfter ==
  ASSUME TypeInv', replayQueued' <= Len(games')
  PROVE  /\ OpenGame' \in Seq(Post) /\ Len(OpenGame') = Kept' /\ Kept' \in 0 .. Len(Line')
         /\ Kept' = Len(openGame') + replayQueued' /\ Kept' <= Len(Held')
         /\ \A i \in 1 .. Kept' : OpenGame'[i] = Line'[i]
<1> DEFINE o == openGame'
           g == games'
           r == replayQueued'
           f == SubSeq(g, 1, r)
           x == o \o f
<1>1. o \in Seq(Post) /\ g \in Seq(Post) /\ r \in Nat
  BY DEF TypeInv, LineTypes, WorkerTypes
<1>2. Len(o) \in Nat /\ Len(g) \in Nat /\ r \in 0 .. Len(g)
  BY <1>1, LenProperties
<1>3. /\ Len(Held') = Len(o) + Len(g) /\ Len(Line') \in Nat /\ Len(Held') <= Len(Line')
      /\ \A i \in 1 .. Len(o) : Held'[i] = o[i]
      /\ \A i \in Len(o) + 1 .. Len(o) + Len(g) : Held'[i] = g[i - Len(o)]
      /\ \A i \in 1 .. Len(Held') : Line'[i] = Held'[i]
  BY LineFactsAfter
<1>4. OpenGame' = x /\ Kept' = Len(o) + r
  BY DEF OpenGame, Kept
<1> HIDE DEF o, g, r
<1>5. f \in Seq(Post) /\ Len(f) = r /\ \A i \in 1 .. r : f[i] = g[i]
  BY <1>1, <1>2, FirstProperties
<1> HIDE DEF f
<1>6. /\ x \in Seq(Post) /\ Len(x) = Len(o) + Len(f)
      /\ \A i \in 1 .. Len(o) : x[i] = o[i]
      /\ \A i \in Len(o) + 1 .. Len(o) + Len(f) : x[i] = f[i - Len(o)]
  <2>1. f \in Seq(Post)
    BY <1>5
  <2> QED
    BY <1>1, <2>1, PairOf
<1> HIDE DEF x
<1>7. ASSUME NEW i \in 1 .. Len(o) + r
      PROVE  x[i] = Line'[i]
  <2>1. i \in 1 .. Len(Held') /\ Line'[i] = Held'[i]
    BY <1>2, <1>3
  <2>2. CASE i <= Len(o)
    BY <2>1, <2>2, <1>2, <1>3, <1>6
  <2>3. CASE i > Len(o)
    <3>1. /\ i \in Len(o) + 1 .. Len(o) + r /\ i \in Len(o) + 1 .. Len(o) + Len(g)
          /\ i - Len(o) \in 1 .. r
      BY <1>2, <2>3
    <3>2. x[i] = f[i - Len(o)] /\ f[i - Len(o)] = g[i - Len(o)]
      BY <3>1, <1>5, <1>6
    <3> QED
      BY <3>1, <3>2, <2>1, <1>3
  <2> QED
    BY <1>2, <2>2, <2>3
<1>8. Len(o) + r \in 0 .. Len(Line') /\ Len(o) + r <= Len(Held') /\ Len(x) = Len(o) + r
  BY <1>2, <1>3, <1>5, <1>6
<1>9. /\ x \in Seq(Post) /\ Len(x) = Len(o) + r
      /\ \A i \in 1 .. Len(o) + r : x[i] = Line'[i]
  BY <1>6, <1>7, <1>8
<1> QED
  BY <1>4, <1>8, <1>9 DEF o, r

\* The worker's steps keep the line in order, and every batch of its table.
LEMMA OrderStep ==
  ASSUME TypeInv, TypeInv', LineInv, BatchInv, UNCHANGED <<epoch, machine, batches, refusing>>,
         Snapshots' \subseteq Snapshots, NEW a, NEW d, Shifted(Line', Line, a, d),
         a = 0 \/ d = 0 \/ a = Len(Line') \/ Joins(Line'[a], Line'[a + 1]),
         a > 0 /\ d > 0 /\ a = Len(Line') => Open(Line)'
  PROVE  BatchInv' /\ LineInv'
<1>1. Line \in Seq(Post) /\ Line' \in Seq(Post)
  BY LineFacts, LineFactsAfter
<1>2. /\ Len(Line) \in Nat /\ Len(Line') \in Nat /\ a \in Nat /\ d \in Nat
      /\ a <= Len(Line') /\ Len(Line') + d = Len(Line)
      /\ \A i \in 1 .. Len(Line') : Line'[i] \in Post
      /\ \A i \in 1 .. Len(Line) : Line[i] \in Post
      /\ \A i \in 1 .. Len(Line') : i <= a => i \in 1 .. Len(Line) /\ Same(Line'[i], Line[i])
      /\ \A i \in 1 .. Len(Line') :
           i > a => i + d \in 1 .. Len(Line) /\ Same(Line'[i], Line[i + d])
  BY <1>1, ShiftedPlaces
<1>0. /\ Len(Line) \in Nat /\ Len(Line') \in Nat /\ a \in Nat /\ d \in Nat
      /\ a <= Len(Line') /\ Len(Line') + d = Len(Line)
  BY <1>2
<1>3. Ordered(Line')
  BY <1>1, ShiftedOrdered DEF LineInv
<1>4. Joined(Line')
  BY <1>1, ShiftedJoined DEF LineInv
<1>5. BatchInv'
  <2> SUFFICES ASSUME NEW i \in 1 .. Len(Line') PROVE OfTable(Line[i])'
    BY DEF BatchInv
  <2>1. PICK j \in 1 .. Len(Line) : Same(Line'[i], Line[j])
    BY <1>2
  <2>2. OfTable(Line[j])
    BY DEF BatchInv
  <2> QED
    BY <2>1, <2>2 DEF OfTable, Same
<1>6. Open(Line)'
  <2>1. CASE Line' = <<>>
    BY <2>1 DEF Open
  <2>2. CASE a > 0 /\ d > 0 /\ a = Len(Line')
    BY <2>2
  <2>3. CASE Line' # <<>> /\ ~(a > 0 /\ d > 0 /\ a = Len(Line'))
    <3>1. Len(Line') \in 1 .. Len(Line')
      BY <2>3, <1>1, <1>2, EmptySeq
    <3>2. Same(Line'[Len(Line')], Line[Len(Line)]) /\ Len(Line) # 0
      <4>1. CASE Len(Line') > a
        <5>1. Len(Line') + d \in 1 .. Len(Line) /\ Same(Line'[Len(Line')], Line[Len(Line') + d])
          BY <1>2, <3>1, <4>1
        <5> QED
          BY <1>0, <5>1
      <4>2. CASE Len(Line') = a
        <5>1. d = 0 /\ Len(Line) = Len(Line')
          BY <1>0, <2>3, <3>1, <4>2
        <5> QED
          BY <1>2, <3>1, <4>2, <5>1
      <4> QED
        BY <1>0, <4>1, <4>2
    <3>3. Line # <<>>
      <4>1. Len(<<>>) = 0
        OBVIOUS
      <4> QED
        BY <3>2, <4>1
    <3>4. ~refusing /\ Line[Len(Line)].epoch = epoch => Line[Len(Line)].n = batches
      BY <3>3 DEF LineInv, Open
    <3> QED
      BY <3>2, <3>4 DEF Open, Same
  <2> QED
    BY <2>1, <2>2, <2>3
<1> QED
  BY <1>3, <1>4, <1>5, <1>6 DEF LineInv

\* And what is left of the game that is kept is unfinished and bounded.
LEMMA KeptStep ==
  ASSUME TypeInv, TypeInv', replayQueued <= Len(games), replayQueued' <= Len(games'),
         Continues(Line, Kept), OpenGameBounded,
         NEW a, NEW d, Shifted(Line', Line, a, d),
         \/ Kept' = 0
         \/ Kept' = Kept /\ (Kept <= a \/ d = 0)
         \/ a = 0 /\ Kept' + d = Kept
  PROVE  /\ Continues(Line, Kept)' /\ OpenGameBounded'
         /\ Kept' > 0 => Line'[1].epoch = Line[1].epoch /\ Kept > 0
         /\ Kept' > 0 /\ Kept' = Kept => Line'[1].ops = Line[1].ops
<1>1. Line \in Seq(Post) /\ Line' \in Seq(Post)
  BY LineFacts, LineFactsAfter
<1>2. /\ OpenGame \in Seq(Post) /\ Len(OpenGame) = Kept /\ Kept \in 0 .. Len(Line)
      /\ \A i \in 1 .. Kept : OpenGame[i] = Line[i]
  BY OpenFacts
<1>3. /\ OpenGame' \in Seq(Post) /\ Len(OpenGame') = Kept' /\ Kept' \in 0 .. Len(Line')
      /\ \A i \in 1 .. Kept' : OpenGame'[i] = Line'[i]
  BY OpenFactsAfter
<1>4. /\ Len(Line) \in Nat /\ Len(Line') \in Nat /\ a \in Nat /\ d \in Nat
      /\ a <= Len(Line') /\ Len(Line') + d = Len(Line)
      /\ \A i \in 1 .. Len(Line') : i <= a => i \in 1 .. Len(Line) /\ Same(Line'[i], Line[i])
      /\ \A i \in 1 .. Len(Line') :
           i > a => i + d \in 1 .. Len(Line) /\ Same(Line'[i], Line[i + d])
  BY <1>1, ShiftedPlaces
<1>0. /\ Len(Line) \in Nat /\ Len(Line') \in Nat /\ a \in Nat /\ d \in Nat
      /\ a <= Len(Line') /\ Len(Line') + d = Len(Line)
      /\ Len(OpenGame) = Kept /\ Kept \in 0 .. Len(Line)
      /\ Len(OpenGame') = Kept' /\ Kept' \in 0 .. Len(Line')
  BY <1>2, <1>3, <1>4
<1>5. /\ Continues(Line', Kept')
      /\ Kept' > 0 => Line'[1].epoch = Line[1].epoch
      /\ Kept' > 0 /\ Kept' = Kept => Line'[1].ops = Line[1].ops
  BY <1>1, <1>2, <1>3, ShiftedContinues
<1>6. /\ Kept' > 0 => Kept > 0
      /\ a = 0 /\ Kept' + d = Kept => \A i \in 1 .. Kept' : i + d \in 1 .. Kept
  <2> DEFINE k == Kept
             m == Kept'
  <2>1. k \in Nat /\ m \in Nat /\ d \in Nat
    BY <1>0
  <2>2. m = 0 \/ m = k \/ m + d = k
    OBVIOUS
  <2> HIDE DEF k, m
  <2>3. /\ m > 0 => k > 0
        /\ m + d = k => \A i \in 1 .. m : i + d \in 1 .. k
    BY <2>1, <2>2
  <2> QED
    BY <2>3 DEF k, m
<1>7. Continues(Line, Kept)'
  BY <1>5 DEF Continues
<1>8. SumOps(OpenGame) <= MaxQueuedOps /\ SumOps(OpenGame) \in Nat /\ SumOps(OpenGame') \in Nat
  BY <1>2, <1>3, SumType DEF OpenGameBounded
<1>9. MaxQueuedOps \in Nat
  BY Constants
<1>10. SumOps(OpenGame') <= MaxQueuedOps
  <2>1. CASE Kept' = 0
    <3>1. OpenGame' = <<>>
      BY <1>3, <2>1, EmptySeq
    <3>2. SumOps(OpenGame') = 0
      BY <3>1, SumEmpty
    <3> QED
      BY <3>2, <1>9
  <2>2. CASE Kept' = Kept /\ (Kept <= a \/ d = 0)
    <3>1. ASSUME NEW i \in 1 .. Len(OpenGame')
          PROVE  OpenGame'[i].ops = OpenGame[i + 0].ops
      <4>1. i \in 1 .. Kept' /\ i \in 1 .. Kept /\ i \in 1 .. Len(Line') /\ i + 0 = i
        BY <1>2, <1>3, <2>2
      <4>2. Same(Line'[i], Line[i])
        <5>1. CASE i <= a
          BY <1>4, <4>1, <5>1
        <5>2. CASE i > a
          <6>1. i + d = i
            BY <1>2, <1>4, <2>2, <4>1, <5>2
          <6> QED
            BY <1>4, <4>1, <5>2, <6>1
        <5> QED
          BY <1>4, <4>1, <5>1, <5>2
      <4> QED
        BY <1>2, <1>3, <4>1, <4>2 DEF Same
    <3>2. 0 \in Nat /\ Len(OpenGame') + 0 <= Len(OpenGame)
      BY <1>2, <1>3, <2>2
    <3>3. SumOps(OpenGame') <= SumOps(OpenGame)
      BY <1>2, <1>3, <3>1, <3>2, SumWithin
    <3> QED
      BY <3>3, <1>8, <1>9
  <2>3. CASE a = 0 /\ Kept' + d = Kept
    <3>1. ASSUME NEW i \in 1 .. Len(OpenGame')
          PROVE  OpenGame'[i].ops = OpenGame[i + d].ops
      <4>1. i \in 1 .. Kept' /\ i \in 1 .. Len(Line') /\ i > a
        BY <1>0, <2>3
      <4>3. i + d \in 1 .. Kept
        BY <1>6, <2>3, <4>1
      <4>2. Same(Line'[i], Line[i + d])
        BY <1>4, <4>1
      <4> QED
        BY <1>2, <1>3, <4>1, <4>2, <4>3 DEF Same
    <3>2. Len(OpenGame') + d <= Len(OpenGame)
      <4>1. Len(OpenGame') = Kept' /\ Len(OpenGame) = Kept /\ Kept' + d = Kept
        BY <1>2, <1>3, <2>3
      <4>2. Kept \in Int
        BY <1>2
      <4>3. Len(OpenGame') + d = Kept
        BY <4>1, Zenon
      <4>4. Len(OpenGame') + d <= Kept
        BY <4>2, <4>3
      <4> QED
        BY <4>1, <4>4, Zenon
    <3>3. SumOps(OpenGame') <= SumOps(OpenGame)
      BY <1>2, <1>3, <1>4, <3>1, <3>2, SumWithin
    <3> QED
      BY <3>3, <1>8, <1>9
  <2> QED
    BY <2>1, <2>2, <2>3
<1> QED
  BY <1>5, <1>6, <1>7, <1>10 DEF OpenGameBounded

-----------------------------------------------------------------------------
(* What the steps of the worker have in common.                            *)

\* The tables, which the API thread moves: what the worker reads of them is older.
LEMMA TableStep ==
  ASSUME TableInv, UNCHANGED <<epoch, identity, machine, posted, pushing>>,
         Snapshots' \subseteq Snapshots, haveDeclared' => declared'.epoch <= current'.epoch
  PROVE  TableInv'
<1>1. \A s \in Snapshots' : Declared(s)'
  BY DEF TableInv, Declared
<1>2. \A s, t \in Snapshots' : Agree(s, t)
  BY DEF TableInv
<1>3. \A s, t \in Snapshots' : Agree(s, t)'
  BY <1>2 DEF Agree
<1> QED
  BY <1>1, <1>3 DEF TableInv

\* The queue, which the worker leaves or takes whole.
LEMMA QueueStep ==
  ASSUME QueueInv, UNCHANGED <<refusing, batches>>, queue' = queue \/ queue' = <<>>
  PROVE  QueueInv'
<1>1. CASE queue' = queue
  BY <1>1 DEF QueueInv, SumOps, CallsOf
<1>2. CASE queue' = <<>>
  <2>1. SumOps(queue') <= MaxQueuedOps
    BY <1>2, SumEmpty, Constants
  <2>2. Len(<<>>) = 0
    OBVIOUS
  <2>3. \A i \in 1 .. Len(queue') : FALSE
    BY <1>2, <2>2
  <2>4. \A i \in 1 .. Len(queue') - 1 : FALSE
    BY <1>2, <2>2
  <2> QED
    BY <1>2, <2>1, <2>3, <2>4 DEF QueueInv
<1> QED
  BY <1>1, <1>2

\* A step of the worker that lets go of d batches of the line, and no batch joins the wrong one.
Lets(a, d) ==
  /\ \/ Without(Held', Held, a, d) /\ UNCHANGED <<queue, nextBatchId>>
     \/ /\ Without(Held', Taking, a, d) /\ queue' = <<>>
        /\ nextBatchId' = nextBatchId + Len(queue)
  /\ a = 0 \/ d = 0 \/ a = Len(Line') \/ Joins(Line'[a], Line'[a + 1])
  /\ a > 0 /\ d > 0 /\ a = Len(Line') => Open(Line)'

\* The variables of the API thread that the worker reads.
ApiQuiet == UNCHANGED <<epoch, identity, machine, posted, pushing, refusing, batches>>

\* Such a step keeps the tables, the batches, the line, the queue and the ids.
LEMMA WorkerStep ==
  ASSUME IInv, TypeInv', ApiQuiet, Snapshots' \subseteq Snapshots,
         haveDeclared' => declared'.epoch <= current'.epoch, NEW a, NEW d, Lets(a, d)
  PROVE  /\ TableInv' /\ BatchInv' /\ LineInv' /\ QueueInv' /\ IdsInOrder'
         /\ Shifted(Line', Line, a, d)
<1> USE DEF IInv
<1>1. UNCHANGED <<epoch, identity, machine, posted, pushing>> /\ UNCHANGED <<refusing, batches>>
      /\ UNCHANGED <<epoch, machine, batches, refusing>>
  BY DEF ApiQuiet
<1>2. TableInv'
  BY <1>1, TableStep
<1>3. Shifted(Line', Line, a, d) /\ IdsInOrder'
  BY LineLets DEF Lets
<1>4. BatchInv' /\ LineInv'
  BY <1>1, <1>3, OrderStep DEF Lets
<1>5. queue' = queue \/ queue' = <<>>
  BY DEF Lets
<1>6. QueueInv'
  BY <1>1, <1>5, QueueStep
<1> QED
  BY <1>2, <1>3, <1>4, <1>6

\* The game that is kept stays, or loses its beginning, or goes.
Keeps(a, d) ==
  /\ replayQueued' <= Len(games')
  /\ \/ Kept' = 0
     \/ Kept' = Kept /\ (Kept <= a \/ d = 0)
     \/ a = 0 /\ Kept' + d = Kept

\* And such a step keeps what the invariant says of the kept game.
LEMMA KeptSame ==
  ASSUME IInv, TypeInv', UNCHANGED <<epoch, identity>>, Snapshots' \subseteq Snapshots,
         NEW a, NEW d, Shifted(Line', Line, a, d), Keeps(a, d),
         Kept' > 0 => UNCHANGED <<gameOpenEpoch, openGameIdentity>>, RetainedIsKnown'
  PROVE  /\ KeptInv'
         /\ Kept' > 0 => Line'[1].epoch = Line[1].epoch /\ Kept > 0
         /\ Kept' > 0 /\ Kept' = Kept => Line'[1].ops = Line[1].ops
<1> USE DEF IInv
<1>1. replayQueued <= Len(games) /\ Continues(Line, Kept) /\ OpenGameBounded
  BY DEF KeptInv
<1>2. replayQueued' <= Len(games')
  BY DEF Keeps
<1>3. /\ Continues(Line, Kept)' /\ OpenGameBounded'
      /\ Kept' > 0 => Line'[1].epoch = Line[1].epoch /\ Kept > 0
      /\ Kept' > 0 /\ Kept' = Kept => Line'[1].ops = Line[1].ops
  BY <1>1, <1>2, KeptStep DEF Keeps
<1>4. /\ Kept > 0 => gameOpenEpoch = Line[1].epoch
      /\ Kept > 0 /\ Line[1].epoch = epoch => openGameIdentity <= identity
      /\ Kept > 0 => \A s \in Snapshots :
           s.epoch = Line[1].epoch /\ s.identity = openGameIdentity => s.machine # None
  BY DEF KeptInv
<1>5. /\ Kept' > 0 => gameOpenEpoch' = Line'[1].epoch
      /\ Kept' > 0 /\ Line'[1].epoch = epoch' => openGameIdentity' <= identity'
      /\ Kept' > 0 => \A s \in Snapshots' :
           s.epoch = Line'[1].epoch /\ s.identity = openGameIdentity' => s.machine # None
  BY <1>3, <1>4
<1>6. KeptInv'
  <2>1. /\ (Kept > 0 => gameOpenEpoch = Line[1].epoch)'
        /\ (Kept > 0 /\ Line[1].epoch = epoch => openGameIdentity <= identity)'
        /\ (Kept > 0 => \A s \in Snapshots :
             s.epoch = Line[1].epoch /\ s.identity = openGameIdentity => s.machine # None)'
    BY <1>5
  <2> QED
    BY <1>2, <1>3, <2>1 DEF KeptInv
<1> QED
  BY <1>3, <1>6

\* A step of the worker that leaves what it holds alone.
LEMMA HeldSame ==
  ASSUME TypeInv, UNCHANGED <<openGame, games, queue, nextBatchId, replayQueued>>,
         replayQueued <= Len(games)
  PROVE  Lets(0, 0) /\ Keeps(0, 0)
<1>1. Held' = Held /\ Held \in Seq(Post)
  BY LineFacts DEF Held
<1>2. Without(Held', Held, 0, 0)
  BY <1>1, WithoutNone
<1>3. Kept' = Kept
  BY DEF Kept
<1>4. Lets(0, 0)
  BY <1>2 DEF Lets
<1> QED
  BY <1>3, <1>4 DEF Keeps

-----------------------------------------------------------------------------
(* The steps of the worker that leave the line alone.                      *)

\* The declarations in play come from the posted and the current one.
LEMMA SnapshotsStep ==
  ASSUME UNCHANGED posted, current' \in {posted, current},
         haveDeclared' => declared' \in {posted, current} \/ (haveDeclared /\ declared' = declared)
  PROVE  Snapshots' \subseteq Snapshots
BY DEF Snapshots

\* The variables named one by one.
LEMMA ApiQuietFrom ==
  ASSUME UNCHANGED session, UNCHANGED <<pushing, refusing, batches>>
  PROVE  ApiQuiet /\ UNCHANGED posted
BY DEF ApiQuiet, session

\* A step that moves only the connection or the declaration keeps them all.
LEMMA LinkStep ==
  ASSUME IInv, TypeInv', ApiQuiet, Snapshots' \subseteq Snapshots,
         haveDeclared' => declared'.epoch <= current'.epoch,
         UNCHANGED <<openGame, games, queue, nextBatchId, replayQueued>>,
         UNCHANGED <<gameOpenEpoch, openGameIdentity>>, RetainedIsKnown'
  PROVE  /\ TableInv' /\ BatchInv' /\ LineInv' /\ QueueInv' /\ IdsInOrder' /\ KeptInv'
         /\ Kept' = Kept /\ Line' = Line
<1> USE DEF IInv
<1>1. Lets(0, 0) /\ Keeps(0, 0)
  BY HeldSame DEF KeptInv
<1>2. /\ TableInv' /\ BatchInv' /\ LineInv' /\ QueueInv' /\ IdsInOrder'
      /\ Shifted(Line', Line, 0, 0)
  BY <1>1, WorkerStep
<1>3. UNCHANGED <<epoch, identity>>
  BY DEF ApiQuiet
<1>4. KeptInv'
  BY <1>1, <1>2, <1>3, KeptSame
<1> QED
  BY <1>2, <1>4 DEF Kept, Line, Held

\* Connect: a new connection has declared nothing and is not in session yet.
LEMMA ConnectStep == IInv /\ Connect => IInv'
<1> SUFFICES ASSUME IInv, Connect PROVE IInv'
  OBVIOUS
<1> USE DEF IInv
<1>0. /\ pc' = "hello" /\ haveDeclared' = FALSE /\ UNCHANGED session
      /\ UNCHANGED <<pushing, refusing, batches>>
      /\ UNCHANGED <<openGame, games, queue, nextBatchId, replayQueued>>
      /\ UNCHANGED <<gameOpenEpoch, openGameIdentity, replayPending>> /\ TakeDeclare
  BY DEF Connect, handoff, retained, replay
<1>1. TypeInv'
  BY ConnectTypes
<1>2. current' \in {posted, current}
  BY <1>0, TakeDeclareTypes
<1>3. ApiQuiet /\ UNCHANGED posted
  BY <1>0, ApiQuietFrom
<1>4. Snapshots' \subseteq Snapshots
  BY <1>0, <1>2, <1>3, SnapshotsStep
<1>5. ~InSession'
  BY <1>0 DEF InSession
<1>6. RetainedIsKnown'
  BY <1>5 DEF RetainedIsKnown
<1>7. /\ TableInv' /\ BatchInv' /\ LineInv' /\ QueueInv' /\ IdsInOrder' /\ KeptInv'
      /\ Kept' = Kept /\ Line' = Line
  BY <1>0, <1>1, <1>3, <1>4, <1>6, LinkStep
<1>8. SessionInv' /\ FlushInv'
  BY <1>0, <1>5 DEF SessionInv, FlushInv, FlushedFirst
<1>9. StartInv'
  BY <1>5, <1>7 DEF StartInv
<1> QED
  BY <1>1, <1>7, <1>8, <1>9

\* MaybeDeclare: another epoch is flushed first, and only to a later one.
LEMMA MaybeDeclareStep == IInv /\ MaybeDeclare => IInv'
<1> SUFFICES ASSUME IInv, MaybeDeclare PROVE IInv'
  OBVIOUS
<1> USE DEF IInv
<1>0. /\ pc = "loop" /\ TakeDeclare /\ UNCHANGED session
      /\ UNCHANGED <<pushing, refusing, batches>>
      /\ UNCHANGED <<openGame, games, queue, nextBatchId, replayQueued>>
      /\ UNCHANGED <<gameOpenEpoch, openGameIdentity, replayPending>>
      /\ UNCHANGED <<declared, haveDeclared, peerAuthored, dLog>>
  BY DEF MaybeDeclare, handoff, retained, replay
<1>a. \/ FlushesGames /\ pc' = "take" /\ caller' = "declare"
      \/ haveDeclared /\ pc' = "take" /\ caller' = "serve"
      \/ ~FlushesGames /\ pc' = "declare"
  BY DEF MaybeDeclare
<1>1. TypeInv'
  BY MaybeDeclareTypes
<1>2. current' \in {posted, current}
  BY <1>0, TakeDeclareTypes
<1>3. ApiQuiet /\ UNCHANGED posted
  BY <1>0, ApiQuietFrom
<1>4. Snapshots' \subseteq Snapshots
  BY <1>0, <1>2, <1>3, SnapshotsStep
<1>5. haveDeclared' => declared'.epoch <= current'.epoch
  <2>1. haveDeclared => declared.epoch <= current.epoch /\ declared.epoch <= posted.epoch
    BY DEF TableInv, Snapshots, Declared
  <2> QED
    BY <1>0, <1>2, <2>1
<1>6. InSession /\ InSession'
  BY <1>0, <1>a DEF InSession
<1>7. RetainedIsKnown'
  BY <1>0, <1>6 DEF KeptInv, RetainedIsKnown
<1>8. /\ TableInv' /\ BatchInv' /\ LineInv' /\ QueueInv' /\ IdsInOrder' /\ KeptInv'
      /\ Kept' = Kept /\ Line' = Line
  BY <1>0, <1>1, <1>3, <1>4, <1>5, <1>7, LinkStep
<1>9. SessionInv'
  BY <1>0, <1>6, <1>8, <1>a DEF SessionInv, FlushesGames
<1>10. FlushInv'
  <2>1. declared.epoch \in Nat /\ current'.epoch \in Nat
    BY <1>1, SnapshotFields DEF TypeInv, WorkerTypes
  <2>2. CASE FlushesGames /\ pc' = "take" /\ caller' = "declare"
    <3>1. current'.epoch > declared'.epoch
      BY <1>0, <1>5, <2>1, <2>2 DEF FlushesGames
    <3> QED
      BY <2>2, <3>1 DEF FlushInv, FlushedFirst
  <2>3. CASE pc' = "take" /\ caller' = "serve"
    BY <2>3 DEF FlushInv, FlushedFirst
  <2>4. CASE ~FlushesGames /\ pc' = "declare"
    BY <1>0, <2>4 DEF FlushInv, FlushedFirst, FlushesGames
  <2> QED
    BY <1>a, <2>2, <2>3, <2>4
<1>11. StartInv'
  BY <1>0, <1>6, <1>8 DEF StartInv
<1> QED
  BY <1>1, <1>8, <1>9, <1>10, <1>11

\* SendBatch: the first batch is of the declared epoch and its table is authored.
LEMMA SendBatchStep == IInv /\ SendBatch => IInv'
<1> SUFFICES ASSUME IInv, SendBatch PROVE IInv'
  OBVIOUS
<1> USE DEF IInv
<1>0. /\ pc = "send" /\ games # <<>> /\ Head(games).epoch = declared.epoch /\ Authored
      /\ pc' = "sent" /\ UNCHANGED session /\ UNCHANGED <<pushing, refusing, batches>>
      /\ UNCHANGED <<openGame, games, queue, nextBatchId, replayQueued>>
      /\ UNCHANGED <<gameOpenEpoch, openGameIdentity, replayPending>>
      /\ UNCHANGED <<caller, current, declared, haveDeclared, peerAuthored, dLog>>
  BY DEF SendBatch, api, handoff, link, retained, replay
<1>1. TypeInv'
  BY SendBatchTypes
<1>3. ApiQuiet /\ UNCHANGED posted
  BY <1>0, ApiQuietFrom
<1>4. Snapshots' \subseteq Snapshots
  BY <1>0, <1>3, SnapshotsStep
<1>5. haveDeclared' => declared'.epoch <= current'.epoch
  BY <1>0 DEF TableInv
<1>6. InSession /\ InSession'
  BY <1>0 DEF InSession
<1>7. RetainedIsKnown'
  BY <1>0, <1>6 DEF KeptInv, RetainedIsKnown
<1>8. /\ TableInv' /\ BatchInv' /\ LineInv' /\ QueueInv' /\ IdsInOrder' /\ KeptInv'
      /\ Kept' = Kept /\ Line' = Line
  BY <1>0, <1>1, <1>3, <1>4, <1>5, <1>7, LinkStep
<1>9. SessionInv'
  <2>1. Head(games) = games[1]
    BY <1>0 DEF TypeInv, LineTypes
  <2> QED
    BY <1>0, <1>6, <1>8, <2>1 DEF SessionInv, Authored
<1>10. FlushInv'
  BY <1>0 DEF FlushInv, FlushedFirst
<1>11. StartInv'
  BY <1>0, <1>6, <1>8 DEF StartInv
<1> QED
  BY <1>1, <1>8, <1>9, <1>10, <1>11

\* What the daemon takes.
LEMMA DaemonTypes ==
  ASSUME NEW post \in Post, dLog \in Seq(Post), DaemonTakes(post)
  PROVE  /\ dLog' \in Seq(Post) /\ Len(dLog) \in Nat
         /\ \A j \in 1 .. Len(dLog) : j \in 1 .. Len(dLog') /\ dLog'[j] = dLog[j]
         /\ \E j \in 1 .. Len(dLog') : dLog'[j].id = post.id
<1>1. Len(dLog) \in Nat /\ DOMAIN dLog = 1 .. Len(dLog)
  BY LenProperties
<1>2. CASE dLog' = dLog /\ \E i \in DOMAIN dLog : dLog[i].id = post.id
  BY <1>1, <1>2
<1>3. CASE dLog' = Append(dLog, post)
  <2>1. /\ dLog' \in Seq(Post) /\ Len(dLog') = Len(dLog) + 1
        /\ dLog'[Len(dLog) + 1] = post /\ \A j \in 1 .. Len(dLog) : dLog'[j] = dLog[j]
    BY <1>3, AppendProperties
  <2>2. Len(dLog) + 1 \in 1 .. Len(dLog') /\ \A j \in 1 .. Len(dLog) : j \in 1 .. Len(dLog')
    BY <1>1, <2>1
  <2> QED
    BY <1>1, <2>1, <2>2
<1> QED
  BY <1>2, <1>3 DEF DaemonTakes

\* Disconnect: the types.
LEMMA DisconnectTypes == IInv /\ Disconnect => TypeInv'
<1> SUFFICES ASSUME IInv, Disconnect PROVE TypeInv'
  OBVIOUS
<1> USE DEF IInv
<1>0. /\ pc' = "down" /\ losses' = losses + 1
      /\ UNCHANGED <<epoch, identity, machine, paths, rom, display, posted, ops, unread>>
      /\ UNCHANGED <<pushing, queue, refusing, batches, game>> /\ UNCHANGED <<calls, restarts, cut>>
      /\ UNCHANGED <<openGame, games, nextBatchId, replayQueued>>
      /\ UNCHANGED <<gameOpenEpoch, openGameIdentity, replayPending>>
      /\ UNCHANGED <<caller, current, declared, haveDeclared, peerAuthored>>
  BY DEF Disconnect, api, session, handoff, link, retained, replay
<1>1. dLog' \in Seq(Post)
  <2>1. CASE UNCHANGED dLog
    BY <2>1 DEF TypeInv, LineTypes
  <2>2. CASE pc = "sent" /\ DaemonTakes(Head(games))
    <3>1. games # <<>>
      BY <2>2 DEF SessionInv
    <3>2. Head(games) \in Post /\ dLog \in Seq(Post)
      BY <3>1, HeadTailProperties DEF TypeInv, LineTypes
    <3> QED
      BY <2>2, <3>2, DaemonTypes
  <2> QED
    BY <2>1, <2>2 DEF Disconnect
<1>2. ApiTypes'
  BY <1>0 DEF TypeInv, ApiTypes
<1>3. WorkerTypes'
  BY <1>0 DEF TypeInv, WorkerTypes
<1>4. LineTypes'
  BY <1>0, <1>1 DEF TypeInv, LineTypes
<1> QED
  BY <1>2, <1>3, <1>4 DEF TypeInv

\* Disconnect: the worker keeps what it holds, the daemon perhaps what was in flight.
LEMMA DisconnectStep == IInv /\ Disconnect => IInv'
<1> SUFFICES ASSUME IInv, Disconnect PROVE IInv'
  OBVIOUS
<1> USE DEF IInv
<1>0. /\ pc' = "down" /\ UNCHANGED session /\ UNCHANGED <<pushing, refusing, batches>>
      /\ UNCHANGED <<openGame, games, queue, nextBatchId, replayQueued>>
      /\ UNCHANGED <<gameOpenEpoch, openGameIdentity, replayPending>>
      /\ UNCHANGED <<current, declared, haveDeclared>>
  BY DEF Disconnect, api, handoff, link, retained, replay
<1>1. TypeInv'
  BY DisconnectTypes
<1>3. ApiQuiet /\ UNCHANGED posted
  BY <1>0, ApiQuietFrom
<1>4. Snapshots' \subseteq Snapshots
  BY <1>0, <1>3, SnapshotsStep
<1>5. haveDeclared' => declared'.epoch <= current'.epoch
  BY <1>0 DEF TableInv
<1>6. ~InSession'
  BY <1>0 DEF InSession
<1>7. RetainedIsKnown'
  BY <1>6 DEF RetainedIsKnown
<1>8. /\ TableInv' /\ BatchInv' /\ LineInv' /\ QueueInv' /\ IdsInOrder' /\ KeptInv'
      /\ Kept' = Kept /\ Line' = Line
  BY <1>0, <1>1, <1>3, <1>4, <1>5, <1>7, LinkStep
<1>9. SessionInv' /\ FlushInv'
  BY <1>0, <1>6 DEF SessionInv, FlushInv, FlushedFirst
<1>11. StartInv'
  BY <1>6, <1>8 DEF StartInv
<1> QED
  BY <1>1, <1>8, <1>9, <1>11

\* DaemonRestart: outside a session nothing is said of what the daemon knows.
LEMMA DaemonRestartStep == IInv /\ DaemonRestart => IInv'
<1> SUFFICES ASSUME IInv, DaemonRestart PROVE IInv'
  OBVIOUS
<1> USE DEF IInv
<1>0. /\ pc = "down" /\ restarts' = restarts + 1 /\ dLog' = <<>>
      /\ UNCHANGED session /\ UNCHANGED <<ops, unread>> /\ UNCHANGED <<calls, losses, cut>>
      /\ UNCHANGED <<pushing, queue, refusing, batches, game>> /\ UNCHANGED <<pc, caller>>
      /\ UNCHANGED <<openGame, games, nextBatchId, replayQueued>>
      /\ UNCHANGED <<gameOpenEpoch, openGameIdentity, replayPending>>
      /\ UNCHANGED <<current, declared, haveDeclared, peerAuthored>>
  BY DEF DaemonRestart, api, handoff, worker, link, retained, replay
<1>1. TypeInv'
  <2>1. UNCHANGED <<epoch, identity, machine, paths, rom, display, posted>>
    BY <1>0 DEF session
  <2>2. ApiTypes'
    BY <1>0, <2>1 DEF TypeInv, ApiTypes
  <2>3. WorkerTypes'
    BY <1>0 DEF TypeInv, WorkerTypes
  <2>4. LineTypes'
    BY <1>0, EmptySeq DEF TypeInv, LineTypes
  <2> QED
    BY <2>2, <2>3, <2>4 DEF TypeInv
<1>3. ApiQuiet /\ UNCHANGED posted
  BY <1>0, ApiQuietFrom
<1>4. Snapshots' \subseteq Snapshots
  BY <1>0, <1>3, SnapshotsStep
<1>5. haveDeclared' => declared'.epoch <= current'.epoch
  BY <1>0 DEF TableInv
<1>6. ~InSession'
  BY <1>0 DEF InSession
<1>7. RetainedIsKnown'
  BY <1>6 DEF RetainedIsKnown
<1>8. /\ TableInv' /\ BatchInv' /\ LineInv' /\ QueueInv' /\ IdsInOrder' /\ KeptInv'
      /\ Kept' = Kept /\ Line' = Line
  BY <1>0, <1>1, <1>3, <1>4, <1>5, <1>7, LinkStep
<1>9. SessionInv' /\ FlushInv'
  BY <1>0, <1>6 DEF SessionInv, FlushInv, FlushedFirst
<1>11. StartInv'
  BY <1>6, <1>8 DEF StartInv
<1> QED
  BY <1>1, <1>8, <1>9, <1>11

\* The queue is in the order of its epochs, and what waits behind it too.
LEMMA LaterWait ==
  ASSUME TypeInv, Ordered(Line), games # <<>>
  PROVE  /\ games[1] \in Post /\ Len(openGame) + 1 \in 1 .. Len(Line)
         /\ Line[Len(openGame) + 1] = games[1]
         /\ \A i \in 1 .. Len(games) : games[1].epoch <= games[i].epoch
         /\ \A i \in 1 .. Len(openGame) : openGame[i].epoch <= games[1].epoch
<1>1. /\ Len(openGame) \in Nat /\ Len(games) \in Nat /\ Len(queue) \in Nat
      /\ Len(Held) = Len(openGame) + Len(games) /\ Len(Line) = Len(Held) + Len(queue)
      /\ \A i \in 1 .. Len(openGame) : Held[i] = openGame[i]
      /\ \A i \in Len(openGame) + 1 .. Len(openGame) + Len(games) :
           Held[i] = games[i - Len(openGame)]
      /\ \A i \in 1 .. Len(Held) : Line[i] = Held[i]
      /\ \A i \in 1 .. Len(Line) : Line[i] \in Post
  BY LineFacts
<1>0. /\ Len(openGame) \in Nat /\ Len(games) \in Nat /\ Len(queue) \in Nat
      /\ Len(Held) = Len(openGame) + Len(games) /\ Len(Line) = Len(Held) + Len(queue)
  BY <1>1
<1>2. Len(games) # 0
  BY EmptySeq DEF TypeInv, LineTypes
<1> DEFINE o == Len(openGame)
<1>3. ASSUME NEW i \in 1 .. Len(games)
      PROVE  o + i \in 1 .. Len(Line) /\ Line[o + i] = games[i]
  <2>1. /\ o + i \in 1 .. Len(Line) /\ o + i \in o + 1 .. o + Len(games) /\ (o + i) - o = i
        /\ o + i \in 1 .. Len(Held)
    BY <1>0
  <2> QED
    BY <2>1, <1>1
<1>4. ASSUME NEW i \in 1 .. o
      PROVE  i \in 1 .. Len(Line) /\ Line[i] = openGame[i]
  <2>1. i \in 1 .. Len(Line) /\ i \in 1 .. Len(Held)
    BY <1>0
  <2> QED
    BY <2>1, <1>1
<1>5. 1 \in 1 .. Len(games)
  BY <1>0, <1>2
<1>6. o + 1 \in 1 .. Len(Line) /\ Line[o + 1] = games[1] /\ games[1] \in Post
  BY <1>1, <1>3, <1>5
<1>7. games[1].epoch \in Nat
  BY <1>6, PostFields
<1>8. ASSUME NEW i \in 1 .. Len(games)
      PROVE  games[1].epoch <= games[i].epoch
  <2>1. CASE i = 1
    BY <2>1, <1>7
  <2>2. CASE i # 1
    <3>1. o + 1 < o + i
      BY <1>0, <2>2
    <3> QED
      BY <3>1, <1>3, <1>5, <1>6 DEF Ordered
  <2> QED
    BY <2>1, <2>2
<1>9. ASSUME NEW i \in 1 .. o
      PROVE  openGame[i].epoch <= games[1].epoch
  <2>1. i < o + 1
    BY <1>0
  <2> QED
    BY <2>1, <1>4, <1>6 DEF Ordered
<1> QED
  BY <1>6, <1>8, <1>9

\* SendReturns: what waits is of a later epoch, so the old one is flushed.
LEMMA SendReturnsStep == IInv /\ SendReturns => IInv'
<1> SUFFICES ASSUME IInv, SendReturns PROVE IInv'
  OBVIOUS
<1> USE DEF IInv
<1>0. /\ pc = "send"
      /\ games # <<>> /\ haveDeclared => Head(games).epoch > declared.epoch
      /\ pc' = IF caller = "serve" THEN "loop" ELSE IF current = declared THEN "take" ELSE "declare"
      /\ caller' = "serve"
      /\ UNCHANGED session /\ UNCHANGED <<pushing, refusing, batches>>
      /\ UNCHANGED <<openGame, games, queue, nextBatchId, replayQueued>>
      /\ UNCHANGED <<gameOpenEpoch, openGameIdentity, replayPending>>
      /\ UNCHANGED <<current, declared, haveDeclared, peerAuthored, dLog>>
  BY DEF SendReturns, AwaitsDeclare, Return, handoff, retained, replay
<1>1. TypeInv'
  BY SendReturnsTypes
<1>3. ApiQuiet /\ UNCHANGED posted
  BY <1>0, ApiQuietFrom
<1>4. Snapshots' \subseteq Snapshots
  BY <1>0, <1>3, SnapshotsStep
<1>5. haveDeclared' => declared'.epoch <= current'.epoch
  BY <1>0 DEF TableInv
<1>6. InSession /\ InSession' /\ haveDeclared
  BY <1>0 DEF InSession, SessionInv
<1>7. RetainedIsKnown'
  BY <1>0, <1>6 DEF KeptInv, RetainedIsKnown
<1>8. /\ TableInv' /\ BatchInv' /\ LineInv' /\ QueueInv' /\ IdsInOrder' /\ KeptInv'
      /\ Kept' = Kept /\ Line' = Line
  BY <1>0, <1>1, <1>3, <1>4, <1>5, <1>7, LinkStep
<1>9. SessionInv'
  BY <1>0, <1>6, <1>8 DEF SessionInv
<1>10. FlushInv'
  <2>1. CASE pc' # "declare"
    BY <1>0, <2>1 DEF FlushInv, FlushedFirst
  <2>2. CASE pc' = "declare"
    <3>1. caller = "declare"
      BY <1>0, <2>2 DEF TypeInv, WorkerTypes
    <3>2. \A i \in 1 .. Len(queue) : queue[i].epoch > declared.epoch
      BY <1>0, <3>1 DEF FlushInv
    <3>3. ASSUME NEW i \in 1 .. Len(games)
          PROVE  games[i].epoch > declared.epoch
      <4>1. games # <<>>
        OBVIOUS
      <4>2. games[1].epoch > declared.epoch
        BY <1>0, <1>6, <4>1 DEF TypeInv, LineTypes
      <4>3. games[1].epoch <= games[i].epoch
        BY <4>1, LaterWait DEF LineInv
      <4>4. declared.epoch \in Nat /\ games[1].epoch \in Nat /\ games[i].epoch \in Nat
        <5>1. games[1] \in Post /\ games[i] \in Post /\ declared \in Snapshot
          BY <4>1, LaterWait, ElementOfSeq DEF LineInv, TypeInv, LineTypes, WorkerTypes
        <5> QED
          BY <5>1, PostFields, SnapshotFields
      <4> QED
        BY <4>2, <4>3, <4>4
    <3> QED
      BY <1>0, <2>2, <3>2, <3>3 DEF FlushInv, FlushedFirst
  <2> QED
    BY <2>1, <2>2
<1>11. StartInv'
  BY <1>0, <1>6, <1>8 DEF StartInv
<1> QED
  BY <1>1, <1>8, <1>9, <1>10, <1>11

-----------------------------------------------------------------------------
(* The handshake.                                                          *)

\* What the worker holds and what it takes.
LEMMA TakingFacts ==
  ASSUME TypeInv
  PROVE  /\ games \o Taken \in Seq(Post) /\ Len(games \o Taken) = Len(games) + Len(queue)
         /\ Taking = openGame \o (games \o Taken) /\ Taking \in Seq(Post)
<1>1. openGame \in Seq(Post) /\ games \in Seq(Post)
  BY DEF TypeInv, LineTypes
<1>2. Taken \in Seq(Post) /\ Len(Taken) = Len(queue)
  BY TakenFacts DEF TypeInv, LineTypes, WorkerTypes
<1>3. games \o Taken \in Seq(Post) /\ Len(games \o Taken) = Len(games) + Len(queue)
  BY <1>1, <1>2, PairOf
<1>4. (openGame \o games) \o Taken = openGame \o (games \o Taken)
  BY <1>1, <1>2, ConcatAssociative
<1>5. openGame \o (games \o Taken) \in Seq(Post)
  BY <1>1, <1>3, PairOf
<1> QED
  BY <1>3, <1>4, <1>5 DEF Taking, Held

\* What the worker does when it takes the queue.
LEMMA TakeQuiet ==
  ASSUME TakeSourceGames, UNCHANGED session
  PROVE  /\ ApiQuiet /\ queue' = <<>> /\ nextBatchId' = nextBatchId + Len(queue)
         /\ UNCHANGED <<posted, pushing, refusing, batches, game>>
BY DEF TakeSourceGames, session, ApiQuiet

\* The first rest that goes to the daemon, once what was replayed is back in the open game.
Rest == From(games \o Taken, replayQueued + 1)

\* What HelloAck puts back into the open game, and what it drops of the rest.
LEMMA HelloAckLine ==
  ASSUME IInv, HelloAck
  PROVE  /\ replayQueued \in 0 .. Len(games \o Taken)
         /\ openGame' = openGame \o SubSeq(games \o Taken, 1, replayQueued)
         /\ \E k \in 1 .. Len(Rest) + 1 :
              /\ games' = From(Rest, k)
              /\ \/ k = 1
                 \/ /\ ~(Rest # <<>> /\ Rest[1].epoch = gameOpenEpoch)
                    /\ k <= Len(Rest) => Starts(Rest[k])
                    /\ \A j \in 1 .. k - 1 : ~Starts(Rest[j])
<1> USE DEF IInv
<1>1. replayQueued \in Nat /\ Len(games) \in Nat /\ replayQueued <= Len(games) /\ Len(queue) \in Nat
  BY LenProperties DEF TypeInv, LineTypes, WorkerTypes, KeptInv
<1>2. Len(games \o Taken) = Len(games) + Len(queue)
  BY TakingFacts
<1>3. replayQueued \in 0 .. Len(games \o Taken)
  BY <1>1, <1>2
<1>4. (IF replayQueued < Len(games \o Taken) THEN replayQueued ELSE Len(games \o Taken)) = replayQueued
  BY <1>3
<1> DEFINE all == games \o Taken
           back == IF replayQueued < Len(all) THEN replayQueued ELSE Len(all)
           rest == From(all, back + 1)
           continues == rest # <<>> /\ rest[1].epoch = gameOpenEpoch
<1>5. /\ openGame' = openGame \o SubSeq(all, 1, back)
      /\ \E k \in 1 .. Len(rest) + 1 :
           /\ IF continues THEN k = 1
              ELSE /\ k <= Len(rest) => Starts(rest[k])
                   /\ \A j \in 1 .. k - 1 : ~Starts(rest[j])
           /\ games' = From(rest, k)
  BY DEF HelloAck
<1>6. back = replayQueued /\ rest = Rest
  BY <1>4 DEF Rest
<1> QED
  BY <1>3, <1>5, <1>6

\* HelloAck: the types.
LEMMA HelloAckTypes == IInv /\ HelloAck => TypeInv'
<1> SUFFICES ASSUME IInv, HelloAck PROVE TypeInv'
  OBVIOUS
<1> USE DEF IInv
<1>0. /\ UNCHANGED session /\ UNCHANGED <<ops, unread>> /\ UNCHANGED <<caller, current, declared, haveDeclared>>
      /\ UNCHANGED <<gameOpenEpoch, openGameIdentity, dLog>> /\ UNCHANGED <<calls, losses, restarts, cut>>
      /\ replayQueued' = 0 /\ pc' = "loop" /\ TakeSourceGames
      /\ peerAuthored' \in PeerAuthored /\ replayPending' = (openGame' # <<>>)
  BY DEF HelloAck, ReplaysOpenGame, bounds
<1>1. /\ UNCHANGED <<posted, pushing, refusing, batches, game>> /\ queue' = <<>>
      /\ nextBatchId' = nextBatchId + Len(queue)
  BY <1>0, TakeQuiet
<1>2. /\ games \o Taken \in Seq(Post) /\ openGame \in Seq(Post) /\ Len(games \o Taken) \in Nat
      /\ Len(queue) \in Nat
  BY TakingFacts, LenProperties DEF TypeInv, LineTypes
<1>3. /\ replayQueued \in 0 .. Len(games \o Taken)
      /\ openGame' = openGame \o SubSeq(games \o Taken, 1, replayQueued)
  BY HelloAckLine
<1>4. openGame' \in Seq(Post)
  <2>1. SubSeq(games \o Taken, 1, replayQueued) \in Seq(Post)
    BY <1>2, <1>3, FirstProperties
  <2> QED
    BY <1>2, <1>3, <2>1, ConcatProperties
<1>5. games' \in Seq(Post)
  <2>1. PICK k \in 1 .. Len(Rest) + 1 : games' = From(Rest, k)
    BY HelloAckLine
  <2>2. Rest \in Seq(Post)
    <3>1. replayQueued + 1 \in 1 .. Len(games \o Taken) + 1
      BY <1>2, <1>3
    <3> QED
      BY <1>2, <3>1, FromProperties DEF Rest
  <2> QED
    BY <2>1, <2>2, FromProperties
<1>6. ApiTypes'
  <2>1. unread' \in BOOLEAN /\ cut' \in BOOLEAN
    BY <1>0 DEF TypeInv, ApiTypes
  <2> QED
    BY <1>0, <1>1, <2>1, ApiQuietTypes
<1>7. WorkerTypes'
  <2>1. peerAuthored' \in BOOLEAN
    BY <1>0, BoundAssumption
  <2>2. replayPending' \in BOOLEAN
    BY <1>0
  <2>3. nextBatchId' \in Nat \ {0}
    BY <1>1, <1>2 DEF TypeInv, WorkerTypes
  <2> QED
    BY <1>0, <2>1, <2>2, <2>3 DEF TypeInv, WorkerTypes
<1>8. LineTypes'
  BY <1>0, <1>1, <1>4, <1>5, EmptySeq DEF TypeInv, LineTypes
<1> QED
  BY <1>6, <1>7, <1>8 DEF TypeInv

\* The rest is the line behind the game that is kept.
LEMMA RestSame ==
  ASSUME IInv
  PROVE  \A j \in 1 .. Len(Rest) : Kept + j \in 1 .. Len(Line) /\ Same(Rest[j], Line[Kept + j])
<1> DEFINE y == games \o Taken
           b == replayQueued
<1>1. TypeInv /\ b \in Nat /\ b <= Len(games)
  BY DEF IInv, KeptInv, TypeInv, WorkerTypes
<1>2. /\ Len(games) \in Nat /\ Len(queue) \in Nat /\ Len(Held) = Len(openGame) + Len(games)
      /\ Len(openGame) \in Nat /\ Len(Line) = Len(Held) + Len(queue)
      /\ \A i \in Len(openGame) + 1 .. Len(openGame) + Len(games) :
           Held[i] = games[i - Len(openGame)]
      /\ \A i \in 1 .. Len(Held) : Line[i] = Held[i]
      /\ \A i \in Len(Held) + 1 .. Len(Held) + Len(queue) : Line[i] = queue[i - Len(Held)]
  BY <1>1, LineFacts
<1>3. /\ Taken \in Seq(Post) /\ Len(Taken) = Len(queue) /\ games \in Seq(Post)
      /\ \A i \in 1 .. Len(queue) : Same(Taken[i], queue[i])
  BY <1>1, TakenFacts DEF TypeInv, LineTypes, WorkerTypes
<1>4. /\ y \in Seq(Post) /\ Len(y) = Len(games) + Len(Taken)
      /\ \A i \in 1 .. Len(games) : y[i] = games[i]
      /\ \A i \in Len(games) + 1 .. Len(games) + Len(Taken) : y[i] = Taken[i - Len(games)]
  BY <1>3, PairOf
<1>5. Rest = From(y, b + 1) /\ Kept = Len(openGame) + b
  BY DEF Rest, Kept
<1> HIDE DEF y, b
<1>6. b + 1 \in 1 .. Len(y) + 1
  BY <1>1, <1>2, <1>3, <1>4
<1>7. /\ Len(Rest) = Len(y) - (b + 1) + 1
      /\ \A j \in 1 .. Len(y) - (b + 1) + 1 : Rest[j] = y[(b + 1) + j - 1]
  BY <1>4, <1>5, <1>6, FromProperties
<1>8. /\ Len(games) \in Nat /\ Len(queue) \in Nat /\ Len(Held) = Len(openGame) + Len(games)
      /\ Len(openGame) \in Nat /\ Kept = Len(openGame) + b /\ b \in Nat /\ b <= Len(games)
      /\ Len(Taken) = Len(queue) /\ Len(y) = Len(games) + Len(Taken)
      /\ Len(Line) = Len(Held) + Len(queue) /\ Len(Rest) = Len(y) - (b + 1) + 1
  BY <1>1, <1>2, <1>3, <1>4, <1>5, <1>7
<1> SUFFICES ASSUME NEW j \in 1 .. Len(Rest)
             PROVE  Kept + j \in 1 .. Len(Line) /\ Same(Rest[j], Line[Kept + j])
  OBVIOUS
<1>9. Rest[j] = y[b + j] /\ b + j \in 1 .. Len(y) /\ Kept + j \in 1 .. Len(Line)
  <2>1. j \in 1 .. Len(y) - (b + 1) + 1 /\ (b + 1) + j - 1 = b + j
    BY <1>8
  <2>2. Rest[j] = y[(b + 1) + j - 1]
    BY <1>7, <2>1
  <2>3. Rest[j] = y[b + j]
    BY ONLY <2>1, <2>2
  <2>4. b + j \in 1 .. Len(y) /\ Kept + j \in 1 .. Len(Line)
    BY <1>8, <2>1
  <2> QED
    BY <2>3, <2>4
<1>10. CASE b + j <= Len(games)
  <2>1. /\ Kept + j \in Len(openGame) + 1 .. Len(openGame) + Len(games)
        /\ (Kept + j) - Len(openGame) = b + j /\ Kept + j \in 1 .. Len(Held)
        /\ b + j \in 1 .. Len(games)
    BY <1>8, <1>9, <1>10
  <2>2. Line[Kept + j] = games[b + j] /\ Rest[j] = games[b + j]
    BY <1>2, <1>4, <1>9, <2>1
  <2> QED
    BY <1>9, <2>2 DEF Same
<1>11. CASE b + j > Len(games)
  <2>1. /\ Kept + j \in Len(Held) + 1 .. Len(Held) + Len(queue)
        /\ (Kept + j) - Len(Held) = (b + j) - Len(games)
        /\ b + j \in Len(games) + 1 .. Len(games) + Len(Taken)
        /\ (b + j) - Len(games) \in 1 .. Len(queue)
    BY <1>8, <1>9, <1>11
  <2>2. Line[Kept + j] = queue[(b + j) - Len(games)] /\ Rest[j] = Taken[(b + j) - Len(games)]
    BY <1>2, <1>4, <1>9, <2>1
  <2> QED
    BY <1>3, <1>9, <2>1, <2>2
<1> QED
  BY <1>8, <1>9, <1>10, <1>11

\* Unless the queue goes on where the open game stopped, what it dropped is of a later epoch,
\* and no game starts in it.
LEMMA HelloAckLets ==
  ASSUME IInv, HelloAck
  PROVE  \E d \in Nat : /\ Lets(Kept, d) /\ Kept' = Kept /\ replayQueued' <= Len(games')
                        /\ \A j \in Kept + 1 .. Kept + d : ~Starts(Line[j])
<1> USE DEF IInv
<1> DEFINE y == games \o Taken
           b == replayQueued
           x == openGame
<1>1. TypeInv'
  BY HelloAckTypes
<1>2. y \in Seq(Post) /\ x \in Seq(Post) /\ Len(y) \in Nat /\ Len(x) \in Nat /\ Taking = x \o y
  BY TakingFacts, LenProperties DEF TypeInv, LineTypes
<1>3. b \in 0 .. Len(y) /\ openGame' = x \o SubSeq(y, 1, b) /\ replayQueued' = 0
  BY HelloAckLine DEF HelloAck
<1>4. PICK k \in 1 .. Len(Rest) + 1 :
        /\ games' = From(Rest, k)
        /\ k = 1 \/ (/\ ~(Rest # <<>> /\ Rest[1].epoch = gameOpenEpoch)
                     /\ k <= Len(Rest) => Starts(Rest[k])
                     /\ \A j \in 1 .. k - 1 : ~Starts(Rest[j]))
  BY HelloAckLine
<1>5. Rest = From(y, b + 1)
  BY DEF Rest
<1>6. /\ Rest \in Seq(Post) /\ Len(Rest) = Len(y) - b
      /\ \A i \in 1 .. Len(y) - b : Rest[i] = y[b + i]
  <2>1. b + 1 \in 1 .. Len(y) + 1
    BY <1>2, <1>3
  <2>2. /\ Rest \in Seq(Post) /\ Len(Rest) = Len(y) - (b + 1) + 1
        /\ \A i \in 1 .. Len(y) - (b + 1) + 1 : Rest[i] = y[(b + 1) + i - 1]
    BY <1>2, <1>5, <2>1, FromProperties
  <2>3. Len(Rest) = Len(y) - b
    BY <1>2, <1>3, <2>2
  <2>4. ASSUME NEW i \in 1 .. Len(y) - b
        PROVE  Rest[i] = y[b + i]
    <3>1. i \in 1 .. Len(y) - (b + 1) + 1 /\ (b + 1) + i - 1 = b + i
      BY <1>2, <1>3
    <3> QED
      BY <2>2, <3>1
  <2> QED
    BY <2>2, <2>3, <2>4
<1>7. k \in 1 .. Len(y) - b + 1
  BY <1>4, <1>6
<1>8. /\ Len(x \o SubSeq(y, 1, b)) = Len(x) + b
      /\ From(Rest, k) \in Seq(Post) /\ x \o SubSeq(y, 1, b) \in Seq(Post)
      /\ Without((x \o SubSeq(y, 1, b)) \o From(Rest, k), x \o y, Len(x) + b, k - 1)
  BY <1>2, <1>3, <1>5, <1>7, WithoutMiddle
<1>9. Kept = Len(x) + b /\ Len(openGame') = Len(x) + b
  BY <1>3, <1>8 DEF Kept
<1>10. Kept' = Kept
  <2>1. Kept' = Len(openGame') + 0
    BY <1>3 DEF Kept
  <2> QED
    BY <1>2, <1>3, <1>9, <2>1
<1>11. Held' = (x \o SubSeq(y, 1, b)) \o From(Rest, k)
  BY <1>3, <1>4 DEF Held
<1>12. Without(Held', Taking, Kept, k - 1)
  BY <1>2, <1>8, <1>9, <1>11
<1> HIDE DEF y, x, b
<1>13. queue' = <<>> /\ nextBatchId' = nextBatchId + Len(queue)
  BY DEF HelloAck, TakeSourceGames
<1>14. /\ Len(Line') = Len(openGame') + Len(games') /\ Len(games') \in Nat
       /\ \A i \in Len(openGame') + 1 .. Len(openGame') + Len(games') :
            Line'[i] = games'[i - Len(openGame')]
  <2>1. /\ Len(openGame') \in Nat /\ Len(games') \in Nat
        /\ Len(Held') = Len(openGame') + Len(games')
        /\ Len(queue') \in Nat /\ Len(Line') = Len(Held') + Len(queue')
        /\ \A i \in Len(openGame') + 1 .. Len(openGame') + Len(games') :
             Held'[i] = games'[i - Len(openGame')]
        /\ \A i \in 1 .. Len(Held') : Line'[i] = Held'[i]
    BY <1>1, LineFactsAfter
  <2>2. Len(queue') = 0
    BY <1>13
  <2> QED
    BY <2>1, <2>2
<1>15. /\ Kept \in Nat /\ k - 1 \in Nat /\ Len(games') = Len(Rest) - k + 1
       /\ Kept = Len(openGame') /\ Len(Line') = Len(openGame') + Len(games')
       /\ \A i \in 1 .. Len(Rest) - k + 1 : games'[i] = Rest[k + i - 1]
  <2>1. Kept \in Nat /\ Kept = Len(openGame')
    BY <1>2, <1>3, <1>9
  <2>2. /\ Len(games') = Len(Rest) - k + 1
        /\ \A i \in 1 .. Len(Rest) - k + 1 : games'[i] = Rest[k + i - 1]
    <3>1. Rest \in Seq(Post)
      BY <1>6
    <3>2. /\ Len(From(Rest, k)) = Len(Rest) - k + 1
          /\ \A i \in 1 .. Len(Rest) - k + 1 : From(Rest, k)[i] = Rest[k + i - 1]
      BY <3>1, FromProperties
    <3>3. games' = From(Rest, k)
      BY <1>4
    <3> QED
      BY <3>2, <3>3
  <2>3. Len(Rest) \in Nat
    BY <1>6, LenProperties
  <2>4. k - 1 \in Nat
    BY <1>4, <2>3
  <2> QED
    BY <1>14, <2>1, <2>2, <2>4
<1>20. /\ Kept \in Nat /\ k - 1 \in Nat /\ Len(games') = Len(Rest) - k + 1
       /\ Kept = Len(openGame') /\ Len(Line') = Len(openGame') + Len(games')
       /\ Len(Rest) \in Nat /\ k \in 1 .. Len(Rest) + 1
  BY <1>6, <1>15, LenProperties
<1>16. Kept = 0 \/ k - 1 = 0 \/ Kept = Len(Line') \/ Joins(Line'[Kept], Line'[Kept + 1])
  <2>1. CASE k = 1
    BY <2>1
  <2>2. CASE k = Len(Rest) + 1
    BY <2>2, <1>20
  <2>3. CASE k # 1 /\ k <= Len(Rest)
    <3>1. Starts(Rest[k])
      BY <1>4, <2>3
    <3>2. games'[1] = Rest[k]
      <4>1. 1 \in 1 .. Len(Rest) - k + 1 /\ k + 1 - 1 = k
        BY <2>3, <1>20
      <4> QED
        BY <1>15, <4>1
    <3>3. Line'[Kept + 1] = games'[1]
      <4>1. /\ Kept + 1 \in Len(openGame') + 1 .. Len(openGame') + Len(games')
            /\ (Kept + 1) - Len(openGame') = 1
        BY <2>3, <1>20
      <4> QED
        BY <1>14, <4>1
    <3> QED
      BY <3>1, <3>2, <3>3 DEF Joins
  <2>4. k = 1 \/ k = Len(Rest) + 1 \/ (k # 1 /\ k <= Len(Rest))
    BY <1>20
  <2> QED
    BY <2>1, <2>2, <2>3, <2>4
<1>17. ASSUME Kept > 0, k - 1 > 0, Kept = Len(Line')
       PROVE  Open(Line)'
  <2>1. /\ Line \in Seq(Post) /\ Len(Line) \in Nat /\ \A i \in 1 .. Len(Line) : Line[i] \in Post
        /\ Line' \in Seq(Post)
    BY <1>1, LineFacts, LineFactsAfter, LenProperties
  <2>2. Shifted(Line', Line, Kept, k - 1)
    BY <1>1, <1>12, <1>13, LineLets
  <2>3. Same(Line'[Kept], Line[Kept]) /\ Kept + 1 \in 1 .. Len(Line) /\ Kept \in 1 .. Len(Line)
    <3>1. /\ Len(Line') + (k - 1) = Len(Line)
          /\ \A i \in 1 .. Len(Line') : i <= Kept => i \in 1 .. Len(Line) /\ Same(Line'[i], Line[i])
      BY <2>1, <2>2, ShiftedPlaces
    <3>2. Kept \in 1 .. Len(Line') /\ Kept <= Kept
      BY <1>17, <1>20
    <3>3. Kept + (k - 1) = Len(Line)
      BY <1>17, <3>1
    <3>4. Kept + 1 \in 1 .. Len(Line)
      BY <1>17, <1>20, <2>1, <3>3
    <3> QED
      BY <3>1, <3>2, <3>4
  <2>4. Line[Kept].epoch = Line[1].epoch /\ gameOpenEpoch = Line[1].epoch
    <3>1. Kept \in 1 .. Kept
      BY <1>15, <1>17
    <3> QED
      BY <1>17, <3>1 DEF KeptInv, Continues
  <2>5. Rest # <<>> /\ Rest[1].epoch # gameOpenEpoch /\ 1 \in 1 .. Len(Rest)
    <3>1. Len(Rest) > 0 /\ Len(<<>>) = 0
      BY <1>4, <1>6, <1>17
    <3> QED
      BY <1>4, <1>6, <1>17, <3>1
  <2>6. Same(Rest[1], Line[Kept + 1])
    BY <2>5, RestSame
  <2>7. Line[Kept].epoch <= Line[Kept + 1].epoch /\ Line[Kept + 1].epoch <= epoch
    BY <1>15, <2>3 DEF LineInv, Ordered, BatchInv, OfTable
  <2>8. Line[Kept].epoch < epoch
    <3>1. Line[Kept].epoch \in Nat /\ Line[Kept + 1].epoch \in Nat /\ epoch \in Nat
      BY <2>1, <2>3, PostFields DEF TypeInv, ApiTypes
    <3>2. Line[Kept + 1].epoch # Line[Kept].epoch
      BY <2>4, <2>5, <2>6 DEF Same
    <3> QED
      BY <2>7, <3>1, <3>2
  <2>9. Line'[Len(Line')].epoch # epoch'
    <3>1. epoch' = epoch /\ epoch \in Nat /\ Line[Kept].epoch \in Nat
      BY <2>1, <2>3, PostFields DEF HelloAck, session, TypeInv, ApiTypes
    <3> QED
      BY <1>17, <2>3, <2>8, <3>1 DEF Same
  <2> QED
    BY <2>9 DEF Open
<1>18. Lets(Kept, k - 1)
  BY <1>12, <1>13, <1>16, <1>17 DEF Lets
<1>19. replayQueued' <= Len(games')
  BY <1>3, <1>14
<1>21. \A j \in Kept + 1 .. Kept + (k - 1) : ~Starts(Line[j])
  <2> SUFFICES ASSUME NEW j \in Kept + 1 .. Kept + (k - 1) PROVE ~Starts(Line[j])
    OBVIOUS
  <2> DEFINE i == j - Kept
  <2>1. i \in 1 .. k - 1 /\ i \in 1 .. Len(Rest) /\ j = Kept + i /\ k # 1
    BY <1>20
  <2> HIDE DEF i
  <2>2. ~Starts(Rest[i]) /\ Same(Rest[i], Line[Kept + i])
    BY <1>4, <2>1, RestSame
  <2> QED
    BY <2>1, <2>2 DEF Same, Starts
<1> QED
  BY <1>10, <1>15, <1>18, <1>19, <1>21

\* HelloAck: a replay is pending exactly when something is kept.
LEMMA HelloAckStep == IInv /\ HelloAck => IInv'
<1> SUFFICES ASSUME IInv, HelloAck PROVE IInv'
  OBVIOUS
<1> USE DEF IInv
<1>0. /\ pc' = "loop" /\ replayQueued' = 0 /\ UNCHANGED session /\ TakeSourceGames
      /\ UNCHANGED <<current, declared, haveDeclared, gameOpenEpoch, openGameIdentity>>
      /\ peerAuthored' \in PeerAuthored /\ replayPending' = (openGame' # <<>>)
  BY DEF HelloAck, ReplaysOpenGame
<1>1. TypeInv'
  BY HelloAckTypes
<1>2. ApiQuiet /\ UNCHANGED posted
  BY <1>0, TakeQuiet
<1>3. Snapshots' \subseteq Snapshots
  BY <1>0, <1>2, SnapshotsStep
<1>4. haveDeclared' => declared'.epoch <= current'.epoch
  BY <1>0 DEF TableInv
<1>5. PICK d \in Nat : Lets(Kept, d) /\ Kept' = Kept /\ replayQueued' <= Len(games')
  BY HelloAckLets
<1>6. TableInv' /\ BatchInv' /\ LineInv' /\ QueueInv' /\ IdsInOrder' /\ Shifted(Line', Line, Kept, d)
  BY <1>1, <1>2, <1>3, <1>4, <1>5, WorkerStep
<1>7. Len(<<>>) = 0
  OBVIOUS
<1>8. RetainedIsKnown'
  <2>1. ~replayPending' => openGame' = <<>>
    BY <1>0
  <2>2. ~replayPending' => Len(openGame') = 0
    BY <1>7, <2>1
  <2> QED
    BY <2>2 DEF RetainedIsKnown
<1>9. Kept \in Nat /\ UNCHANGED <<epoch, identity>>
  BY <1>2, OpenFacts DEF KeptInv, ApiQuiet
<1>10. Keeps(Kept, d)
  BY <1>5, <1>9 DEF Keeps
<1>11. KeptInv' /\ (Kept' > 0 => Line'[1].ops = Line[1].ops)
  BY <1>0, <1>1, <1>3, <1>5, <1>6, <1>8, <1>9, <1>10, KeptSame
<1>12. SessionInv'
  <2>1. openGame' = <<>> => Kept' = 0
    BY <1>0, <1>7 DEF Kept
  <2>2. ~replayPending' => openGame' = <<>>
    BY <1>0
  <2>3. ~replayPending' => ~(Kept' > 0) /\ ~(openGame' # <<>>)
    BY <2>1, <2>2
  <2>4. pc' \notin {"take", "send", "sent"}
    BY <1>0
  <2> QED
    BY <1>0, <2>3, <2>4 DEF SessionInv
<1>13. FlushInv'
  BY <1>0 DEF FlushInv, FlushedFirst
<1>14. StartInv'
  BY <1>0, <1>5, <1>11 DEF StartInv, Starts
<1> QED
  BY <1>1, <1>6, <1>11, <1>12, <1>13, <1>14

-----------------------------------------------------------------------------
(* A declaration is acknowledged, and the open game goes back in front.    *)

\* What is left when the open game and its replay go.
LEMMA DiscardAll ==
  ASSUME TypeInv, replayQueued <= Len(games), openGame' = <<>>,
         DiscardQueuedReplay(games, replayQueued)
  PROVE  /\ games' \in Seq(Post) /\ replayQueued' = 0 /\ Kept' = 0
         /\ Without(Held', Held, 0, Kept)
<1>1. /\ openGame \in Seq(Post) /\ games \in Seq(Post) /\ replayQueued \in Nat
      /\ Len(openGame) \in Nat /\ Len(games) \in Nat
  BY LenProperties DEF TypeInv, LineTypes, WorkerTypes
<1>2. 1 + (IF replayQueued < Len(games) THEN replayQueued ELSE Len(games)) = replayQueued + 1
  BY <1>1
<1>3. games' = From(games, replayQueued + 1) /\ replayQueued' = 0
  BY <1>2 DEF DiscardQueuedReplay
<1>4. replayQueued + 1 \in 1 .. Len(games) + 1
  BY <1>1
<1>5. From(games, replayQueued + 1) \in Seq(Post)
  BY <1>1, <1>4, FromProperties
<1>6. Held' = From(games, replayQueued + 1)
  <2>1. Held' = <<>> \o From(games, replayQueued + 1)
    BY <1>3 DEF Held
  <2> QED
    BY <1>5, <2>1, ConcatEmptySeq
<1>7. Without(From(games, replayQueued + 1), openGame \o games, 0, Len(openGame) + (replayQueued + 1) - 1)
  BY <1>1, <1>4, WithoutFirst
<1>8. Len(openGame) + (replayQueued + 1) - 1 = Kept
  BY <1>1 DEF Kept
<1>9. Len(<<>>) = 0
  OBVIOUS
<1>10. Kept' = 0
  BY <1>3, <1>9 DEF Kept
<1> QED
  BY <1>3, <1>5, <1>6, <1>7, <1>8, <1>10 DEF Held

\* Another table was declared.
NewTable ==
  haveDeclared /\ (current.epoch # declared.epoch \/ NewIdentity(declared, current))

\* DeclareAck, with its variables named one by one.
LEMMA DeclareAckCases ==
  ASSUME DeclareAck
  PROVE  /\ NewTable => openGame' = <<>> /\ DiscardQueuedReplay(games, replayQueued)
         /\ ~NewTable => UNCHANGED <<openGame, games, replayQueued>>
         /\ pc = "declare" /\ pc' = "take" /\ caller' = "serve" /\ declared' = current
         /\ haveDeclared' = TRUE
         /\ UNCHANGED <<session, ops, unread, handoff, current, peerAuthored, gameOpenEpoch>>
         /\ UNCHANGED <<openGameIdentity, replayPending, nextBatchId, dLog>>
         /\ UNCHANGED <<calls, losses, restarts, cut>>
BY DEF DeclareAck, NewTable, api, bounds

\* DeclareAck: the types.
LEMMA DeclareAckTypes == IInv /\ DeclareAck => TypeInv'
<1> SUFFICES ASSUME IInv, DeclareAck PROVE TypeInv'
  OBVIOUS
<1> USE DEF IInv
<1>0. /\ pc' = "take" /\ caller' = "serve" /\ declared' = current /\ haveDeclared' = TRUE
      /\ UNCHANGED <<session, ops, unread, handoff, current, peerAuthored, gameOpenEpoch>>
      /\ UNCHANGED <<openGameIdentity, replayPending, nextBatchId, dLog>>
      /\ UNCHANGED <<calls, losses, restarts, cut>>
  BY DeclareAckCases
<1>1. openGame' \in Seq(Post) /\ games' \in Seq(Post) /\ replayQueued' \in Nat
  <2>1. CASE NewTable
    <3>1. replayQueued <= Len(games) /\ openGame' = <<>> /\ DiscardQueuedReplay(games, replayQueued)
      BY <2>1, DeclareAckCases DEF KeptInv
    <3>2. games' \in Seq(Post) /\ replayQueued' = 0
      BY <3>1, DiscardAll
    <3> QED
      BY <3>1, <3>2, EmptySeq
  <2>2. CASE ~NewTable
    BY <2>2, DeclareAckCases DEF TypeInv, LineTypes, WorkerTypes
  <2> QED
    BY <2>1, <2>2
<1>2. UNCHANGED <<pushing, queue, refusing, batches, game>>
  BY <1>0 DEF handoff
<1>3. ApiTypes'
  <2>1. unread' \in BOOLEAN /\ cut' \in BOOLEAN
    BY <1>0 DEF TypeInv, ApiTypes
  <2> QED
    BY <1>0, <1>2, <2>1, ApiQuietTypes
<1>4. WorkerTypes'
  BY <1>0, <1>1 DEF TypeInv, WorkerTypes
<1>5. LineTypes'
  BY <1>0, <1>1, <1>2 DEF TypeInv, LineTypes
<1> QED
  BY <1>3, <1>4, <1>5 DEF TypeInv

\* DeclareAck: what is kept is of the table that is declared, or gone.
LEMMA DeclareAckStep == IInv /\ DeclareAck => IInv'
<1> SUFFICES ASSUME IInv, DeclareAck PROVE IInv'
  OBVIOUS
<1> USE DEF IInv
<1>0. /\ pc = "declare" /\ pc' = "take" /\ caller' = "serve" /\ declared' = current
      /\ haveDeclared' = TRUE /\ UNCHANGED session /\ UNCHANGED <<pushing, queue, refusing, batches>>
      /\ UNCHANGED <<current, peerAuthored, gameOpenEpoch>>
      /\ UNCHANGED <<openGameIdentity, replayPending, nextBatchId, dLog>>
  BY DeclareAckCases DEF handoff
<1>1. TypeInv'
  BY DeclareAckTypes
<1>2. ApiQuiet /\ UNCHANGED posted
  BY <1>0, ApiQuietFrom
<1>3. Snapshots' \subseteq Snapshots
  BY <1>0, <1>2, SnapshotsStep
<1>4. haveDeclared' => declared'.epoch <= current'.epoch
  <2>1. current.epoch \in Nat
    BY SnapshotFields DEF TypeInv, WorkerTypes
  <2> QED
    BY <1>0, <2>1
<1>5. InSession /\ InSession'
  BY <1>0 DEF InSession
<1>6. UNCHANGED <<epoch, identity>>
  BY <1>2 DEF ApiQuiet
<1>7. /\ replayQueued <= Len(games) /\ Len(<<>>) = 0
      /\ \A i \in 1 .. Len(openGame) : ~replayPending =>
           \E j \in 1 .. Len(dLog) : dLog[j].id = openGame[i].id
  BY <1>5 DEF KeptInv, RetainedIsKnown
<1>8. RetainedIsKnown'
  <2>1. CASE NewTable
    BY <1>7, <2>1, DeclareAckCases DEF RetainedIsKnown
  <2>2. CASE ~NewTable
    BY <1>0, <1>7, <2>2, DeclareAckCases DEF RetainedIsKnown
  <2> QED
    BY <2>1, <2>2
<1>9. CASE NewTable
  <2>1. /\ openGame' = <<>> /\ replayQueued' = 0 /\ Kept' = 0 /\ games' \in Seq(Post)
        /\ Without(Held', Held, 0, Kept)
    BY <1>7, <1>9, DeclareAckCases, DiscardAll
  <2>2. Lets(0, Kept)
    BY <1>0, <2>1 DEF Lets
  <2>3. /\ TableInv' /\ BatchInv' /\ LineInv' /\ QueueInv' /\ IdsInOrder'
        /\ Shifted(Line', Line, 0, Kept)
    BY <1>1, <1>2, <1>3, <1>4, <2>2, WorkerStep
  <2>4. Keeps(0, Kept)
    <3>1. replayQueued' <= Len(games')
      BY <2>1, LenProperties
    <3> QED
      BY <2>1, <3>1 DEF Keeps
  <2>5. KeptInv'
    BY <1>0, <1>1, <1>3, <1>6, <1>8, <2>3, <2>4, KeptSame
  <2>6. SessionInv'
    BY <1>0, <2>1 DEF SessionInv
  <2>7. FlushInv'
    BY <1>0 DEF FlushInv, FlushedFirst
  <2>8. StartInv'
    <3>1. ~(Kept' > 0)
      BY <2>1
    <3> QED
      BY <1>0, <1>5, <3>1 DEF StartInv
  <2> QED
    BY <1>1, <2>3, <2>5, <2>6, <2>7, <2>8
<1>10. CASE ~NewTable
  <2>1. UNCHANGED <<openGame, games, queue, nextBatchId, replayQueued>>
    BY <1>0, <1>10, DeclareAckCases
  <2>2. /\ TableInv' /\ BatchInv' /\ LineInv' /\ QueueInv' /\ IdsInOrder' /\ KeptInv'
        /\ Kept' = Kept /\ Line' = Line
    BY <1>0, <1>1, <1>2, <1>3, <1>4, <1>8, <2>1, LinkStep
  <2>3. SessionInv'
    BY <1>0, <1>5, <1>10, <2>1, <2>2 DEF SessionInv, NewTable, NewIdentity
  <2>4. FlushInv'
    BY <1>0 DEF FlushInv, FlushedFirst
  <2>5. StartInv'
    BY <1>0, <1>5, <2>2 DEF StartInv
  <2> QED
    BY <1>1, <2>2, <2>3, <2>4, <2>5
<1> QED
  BY <1>9, <1>10

\* The open game is of the table that is declared now.
OwnGame ==
  openGame # <<>> /\ openGame[1].epoch = declared.epoch /\ openGameIdentity = declared.identity

\* TakeGames, with its variables named one by one.
LEMMA TakeGamesCases ==
  ASSUME TakeGames, haveDeclared
  PROVE  /\ pc = "take" /\ pc' = "send" /\ TakeSourceGames /\ UNCHANGED session
         /\ UNCHANGED <<ops, unread, caller, current, declared, haveDeclared, peerAuthored>>
         /\ UNCHANGED <<gameOpenEpoch, openGameIdentity, dLog, calls, losses, restarts, cut>>
         /\ \/ /\ replayPending /\ OwnGame /\ games' = openGame \o (games \o Taken)
               /\ replayQueued' = Len(openGame) /\ replayPending' = FALSE /\ openGame' = <<>>
            \/ /\ replayPending /\ ~OwnGame /\ games' = <<>> \o (games \o Taken)
               /\ replayQueued' = replayQueued /\ replayPending' = FALSE /\ openGame' = <<>>
            \/ /\ ~replayPending /\ games' = games \o Taken
               /\ UNCHANGED <<replayQueued, replayPending, openGame>>
<1>1. /\ pc = "take" /\ pc' = "send" /\ TakeSourceGames /\ UNCHANGED session
      /\ UNCHANGED <<ops, unread, caller, current, declared, haveDeclared, peerAuthored>>
      /\ UNCHANGED <<gameOpenEpoch, openGameIdentity, dLog, calls, losses, restarts, cut>>
  BY DEF TakeGames, link, bounds
<1>2. \/ /\ replayPending
         /\ games' = ReplayFirst(IF OwnGame THEN openGame ELSE <<>>, games \o Taken)
         /\ replayQueued' = IF OwnGame THEN Len(openGame) ELSE replayQueued
         /\ replayPending' = FALSE /\ openGame' = <<>>
      \/ /\ ~replayPending /\ games' = games \o Taken
         /\ UNCHANGED <<replayQueued, replayPending, openGame>>
  BY DEF TakeGames, OwnGame
<1>3. CASE OwnGame
  BY <1>1, <1>2, <1>3 DEF ReplayFirst
<1>4. CASE ~OwnGame
  BY <1>1, <1>2, <1>4 DEF ReplayFirst
<1> QED
  BY <1>3, <1>4

\* The line stays, or loses the open game.
LEMMA TakeGamesLine ==
  ASSUME IInv, TakeGames
  PROVE  /\ openGame' \in Seq(Post) /\ games' \in Seq(Post) /\ replayQueued' \in Nat
         /\ replayQueued' <= Len(games')
         /\ \/ Without(Held', Taking, 0, 0) /\ Kept' = Kept
            \/ Without(Held', Taking, 0, Len(openGame)) /\ Kept' = 0
<1> USE DEF IInv
<1> DEFINE y == games \o Taken
<1>1. /\ y \in Seq(Post) /\ openGame \in Seq(Post) /\ Len(openGame) \in Nat
      /\ Taking = openGame \o y /\ Taking \in Seq(Post) /\ replayQueued \in Nat
      /\ replayQueued <= Len(games) /\ Len(y) = Len(games) + Len(queue)
      /\ Len(games) \in Nat /\ Len(queue) \in Nat
  BY TakingFacts, LenProperties DEF TypeInv, LineTypes, WorkerTypes, KeptInv
<1>2. haveDeclared /\ (replayPending => replayQueued = 0)
  BY DEF TakeGames, SessionInv
<1>3. Len(<<>>) = 0 /\ <<>> \in Seq(Post)
  BY EmptySeq
<1>4. Len(Taking) = Len(openGame) + Len(y)
  BY <1>1, PairOf
<1>5. /\ Len(openGame) \in Nat /\ replayQueued \in Nat /\ replayQueued <= Len(games)
      /\ Len(y) = Len(games) + Len(queue) /\ Len(games) \in Nat /\ Len(queue) \in Nat
      /\ Len(Taking) = Len(openGame) + Len(y)
  BY <1>1, <1>4
<1> HIDE DEF y
<1>6. CASE /\ replayPending /\ games' = openGame \o y
           /\ replayQueued' = Len(openGame) /\ openGame' = <<>>
  <2>1. games' = Taking /\ games' \in Seq(Post)
    BY <1>1, <1>6
  <2>2. Held' = Taking
    <3>1. Held' = <<>> \o Taking
      BY <1>6, <2>1 DEF Held
    <3> QED
      BY <1>1, <3>1, ConcatEmptySeq
  <2>3. Kept' = Kept
    BY <1>2, <1>3, <1>5, <1>6 DEF Kept
  <2>4. replayQueued' <= Len(games')
    BY <1>5, <1>6, <2>1
  <2> QED
    BY <1>1, <1>3, <1>6, <2>1, <2>2, <2>3, <2>4, WithoutNone
<1>7. CASE /\ replayPending /\ games' = <<>> \o y
           /\ replayQueued' = replayQueued /\ openGame' = <<>>
  <2>1. games' = y
    BY <1>1, <1>7, ConcatEmptySeq
  <2>2. Held' = y
    <3>1. Held' = <<>> \o y
      BY <1>7, <2>1 DEF Held
    <3> QED
      BY <1>1, <3>1, ConcatEmptySeq
  <2>3. Kept' = 0
    BY <1>2, <1>3, <1>7 DEF Kept
  <2>4. replayQueued' <= Len(games')
    BY <1>2, <1>5, <1>7, <2>1
  <2> QED
    BY <1>1, <1>3, <1>7, <2>1, <2>2, <2>3, <2>4, WithoutOpen
<1>8. CASE games' = y /\ UNCHANGED <<replayQueued, openGame>>
  <2>1. Held' = Taking
    BY <1>1, <1>8 DEF Held
  <2>2. Kept' = Kept
    BY <1>8 DEF Kept
  <2>3. replayQueued' <= Len(games')
    BY <1>5, <1>8
  <2> QED
    BY <1>1, <1>8, <2>1, <2>2, <2>3, WithoutNone
<1>9. \/ replayPending /\ games' = openGame \o y /\ replayQueued' = Len(openGame) /\ openGame' = <<>>
      \/ replayPending /\ games' = <<>> \o y /\ replayQueued' = replayQueued /\ openGame' = <<>>
      \/ games' = y /\ UNCHANGED <<replayQueued, openGame>>
  BY <1>2, TakeGamesCases DEF y
<1> QED
  BY <1>6, <1>7, <1>8, <1>9

\* TakeGames: the types.
LEMMA TakeGamesTypes == IInv /\ TakeGames => TypeInv'
<1> SUFFICES ASSUME IInv, TakeGames PROVE TypeInv'
  OBVIOUS
<1> USE DEF IInv
<1>1. haveDeclared
  BY DEF TakeGames, SessionInv
<1>0. /\ pc' = "send" /\ TakeSourceGames /\ UNCHANGED session
      /\ UNCHANGED <<ops, unread, caller, current, declared, haveDeclared, peerAuthored>>
      /\ UNCHANGED <<gameOpenEpoch, openGameIdentity, dLog, calls, losses, restarts, cut>>
      /\ replayPending' = FALSE \/ replayPending' = replayPending
  BY <1>1, TakeGamesCases
<1>2. /\ UNCHANGED <<posted, pushing, refusing, batches, game>> /\ queue' = <<>>
      /\ nextBatchId' = nextBatchId + Len(queue)
  BY <1>0, TakeQuiet
<1>3. openGame' \in Seq(Post) /\ games' \in Seq(Post) /\ replayQueued' \in Nat
  BY TakeGamesLine
<1>4. ApiTypes'
  <2>1. unread' \in BOOLEAN /\ cut' \in BOOLEAN
    BY <1>0 DEF TypeInv, ApiTypes
  <2> QED
    BY <1>0, <1>2, <2>1, ApiQuietTypes
<1>5. WorkerTypes'
  <2>1. replayPending' \in BOOLEAN
    BY <1>0 DEF TypeInv, WorkerTypes
  <2>2. nextBatchId' \in Nat \ {0}
    BY <1>2, LenProperties DEF TypeInv, WorkerTypes, LineTypes
  <2> QED
    BY <1>0, <1>3, <2>1, <2>2 DEF TypeInv, WorkerTypes
<1>6. LineTypes'
  BY <1>0, <1>2, <1>3, EmptySeq DEF TypeInv, LineTypes
<1> QED
  BY <1>4, <1>5, <1>6 DEF TypeInv

\* TakeGames: the open game goes in front for its own table, and nowhere else.
LEMMA TakeGamesStep == IInv /\ TakeGames => IInv'
<1> SUFFICES ASSUME IInv, TakeGames PROVE IInv'
  OBVIOUS
<1> USE DEF IInv
<1>1. haveDeclared
  BY DEF TakeGames, SessionInv
<1>0. /\ pc = "take" /\ pc' = "send" /\ TakeSourceGames /\ UNCHANGED session
      /\ UNCHANGED <<caller, current, declared, haveDeclared, peerAuthored>>
      /\ UNCHANGED <<gameOpenEpoch, openGameIdentity, dLog>>
  BY <1>1, TakeGamesCases
<1>a. /\ ~replayPending'
      /\ \/ replayPending /\ OwnGame /\ openGame' = <<>>
         \/ replayPending /\ ~OwnGame /\ replayQueued' = replayQueued /\ openGame' = <<>>
         \/ ~replayPending /\ UNCHANGED <<replayQueued, openGame>>
  <2>1. \/ /\ replayPending /\ OwnGame /\ replayPending' = FALSE /\ openGame' = <<>>
        \/ /\ replayPending /\ ~OwnGame /\ replayQueued' = replayQueued
           /\ replayPending' = FALSE /\ openGame' = <<>>
        \/ /\ ~replayPending /\ UNCHANGED <<replayQueued, openGame>>
           /\ replayPending' = replayPending
    BY <1>1, TakeGamesCases
  <2>2. CASE replayPending /\ OwnGame /\ replayPending' = FALSE /\ openGame' = <<>>
    BY <2>2
  <2>3. CASE /\ replayPending /\ ~OwnGame /\ replayQueued' = replayQueued
             /\ replayPending' = FALSE /\ openGame' = <<>>
    BY <2>3
  <2>4. CASE /\ ~replayPending /\ UNCHANGED <<replayQueued, openGame>>
             /\ replayPending' = replayPending
    <3>1. ~replayPending'
      BY <2>4 DEF TypeInv, WorkerTypes
    <3> QED
      BY <2>4, <3>1
  <2> QED
    BY <2>1, <2>2, <2>3, <2>4
<1>2. TypeInv'
  BY TakeGamesTypes
<1>3. ApiQuiet /\ UNCHANGED posted /\ queue' = <<>> /\ nextBatchId' = nextBatchId + Len(queue)
  BY <1>0, TakeQuiet
<1>4. Snapshots' \subseteq Snapshots
  BY <1>0, <1>3, SnapshotsStep
<1>5. haveDeclared' => declared'.epoch <= current'.epoch
  BY <1>0 DEF TableInv
<1>6. /\ replayQueued' <= Len(games')
      /\ \/ Without(Held', Taking, 0, 0) /\ Kept' = Kept
         \/ Without(Held', Taking, 0, Len(openGame)) /\ Kept' = 0
  BY TakeGamesLine
<1>7. PICK d : Lets(0, d) /\ Keeps(0, d) /\ (Kept' > 0 => Kept' = Kept)
  <2>1. CASE Without(Held', Taking, 0, 0) /\ Kept' = Kept
    <3>1. Lets(0, 0)
      BY <1>3, <2>1 DEF Lets
    <3>2. Keeps(0, 0)
      BY <1>6, <2>1 DEF Keeps
    <3> QED
      BY <2>1, <3>1, <3>2
  <2>2. CASE Without(Held', Taking, 0, Len(openGame)) /\ Kept' = 0
    <3>1. Lets(0, Len(openGame))
      BY <1>3, <2>2 DEF Lets
    <3>2. Keeps(0, Len(openGame))
      BY <1>6, <2>2 DEF Keeps
    <3> QED
      BY <2>2, <3>1, <3>2
  <2> QED
    BY <1>6, <2>1, <2>2
<1>8. TableInv' /\ BatchInv' /\ LineInv' /\ QueueInv' /\ IdsInOrder' /\ Shifted(Line', Line, 0, d)
  BY <1>2, <1>3, <1>4, <1>5, <1>7, WorkerStep
<1>9. InSession /\ InSession' /\ Len(<<>>) = 0
  BY <1>0 DEF InSession
<1>10. RetainedIsKnown'
  <2>1. CASE openGame' = <<>>
    BY <1>9, <2>1 DEF RetainedIsKnown
  <2>2. CASE ~replayPending /\ openGame' = openGame
    BY <1>0, <1>9, <2>2 DEF RetainedIsKnown, KeptInv
  <2> QED
    BY <1>a, <2>1, <2>2
<1>11. UNCHANGED <<epoch, identity>>
  BY <1>3 DEF ApiQuiet
<1>12. /\ KeptInv' /\ (Kept' > 0 => Line'[1].epoch = Line[1].epoch /\ Kept > 0)
       /\ Kept' > 0 => Line'[1].ops = Line[1].ops
  BY <1>0, <1>2, <1>4, <1>7, <1>8, <1>10, <1>11, KeptSame
<1>13. Kept' > 0 => /\ haveDeclared /\ Line'[1].epoch = declared.epoch /\ declared.machine # None
  <2> SUFFICES ASSUME Kept' > 0 PROVE Line'[1].epoch = declared.epoch /\ declared.machine # None
    BY <1>1
  <2>0. Line'[1].epoch = Line[1].epoch /\ Kept > 0 /\ Kept \in Nat
    BY <1>12, OpenFacts DEF KeptInv
  <2>1. CASE replayPending /\ OwnGame
    <3>1. openGame # <<>> /\ openGame[1].epoch = declared.epoch /\ openGameIdentity = declared.identity
      BY <2>1 DEF OwnGame
    <3>2. Line[1] = openGame[1]
      <4>1. Len(openGame) # 0 /\ Len(openGame) \in Nat
        BY <3>1, EmptySeq, LenProperties DEF TypeInv, LineTypes
      <4>2. /\ Len(Held) = Len(openGame) + Len(games) /\ Len(games) \in Nat
            /\ \A i \in 1 .. Len(openGame) : Held[i] = openGame[i]
            /\ \A i \in 1 .. Len(Held) : Line[i] = Held[i]
        BY LineFacts
      <4>3. 1 \in 1 .. Len(openGame) /\ 1 \in 1 .. Len(Held)
        BY <4>1, <4>2
      <4> QED
        BY <4>2, <4>3
    <3>3. declared \in Snapshots
      BY <1>1 DEF Snapshots
    <3>4. declared.machine # None
      BY <2>0, <3>1, <3>2, <3>3 DEF KeptInv
    <3> QED
      BY <2>0, <3>1, <3>2, <3>4
  <2>2. CASE replayPending /\ ~OwnGame
    <3>1. openGame' = <<>> /\ replayQueued' = 0
      BY <1>a, <2>2 DEF SessionInv
    <3>2. Kept' = 0
      BY <1>9, <3>1 DEF Kept
    <3> QED
      BY <3>2
  <2>3. CASE ~replayPending
    BY <1>9, <2>0, <2>3 DEF SessionInv
  <2> QED
    BY <2>1, <2>2, <2>3
<1>14. openGame' # <<>> => peerAuthored
  BY <1>a, <1>9 DEF SessionInv
<1>15. SessionInv'
  BY <1>0, <1>1, <1>a, <1>13, <1>14 DEF SessionInv
<1>16. FlushInv'
  <2>1. caller' = "declare" => current'.epoch > declared'.epoch
    BY <1>0 DEF FlushInv
  <2>2. \A i \in 1 .. Len(queue') : FALSE
    BY <1>3, <1>9
  <2> QED
    BY <1>0, <2>1, <2>2 DEF FlushInv, FlushedFirst
<1>17. StartInv'
  BY <1>0, <1>9, <1>12 DEF StartInv, Starts
<1> QED
  BY <1>2, <1>8, <1>12, <1>15, <1>16, <1>17

-----------------------------------------------------------------------------
(* A batch is dropped, or refused.                                         *)

\* Two cuts are one.
LEMMA FromFrom ==
  ASSUME NEW s \in Seq(Post), NEW j \in 1 .. Len(s) + 1, NEW k \in 1 .. Len(s) - j + 2
  PROVE  From(From(s, j), k) = From(s, j + k - 1)
<1> DEFINE t == From(s, j)
<1>1. Len(s) \in Nat
  BY LenProperties
<1>2. /\ t \in Seq(Post) /\ Len(t) = Len(s) - j + 1
      /\ \A i \in 1 .. Len(s) - j + 1 : t[i] = s[j + i - 1]
  BY FromProperties
<1>3. k \in 1 .. Len(t) + 1 /\ j + k - 1 \in 1 .. Len(s) + 1 /\ j \in Int /\ k \in Int
  <2>1. Len(t) = Len(s) - j + 1
    BY <1>2
  <2> HIDE DEF t
  <2> QED
    BY <1>1, <2>1
<1> HIDE DEF t
<1>4. /\ From(t, k) \in Seq(Post) /\ Len(From(t, k)) = Len(t) - k + 1
      /\ \A i \in 1 .. Len(t) - k + 1 : From(t, k)[i] = t[k + i - 1]
  BY <1>2, <1>3, FromProperties
<1>5. /\ From(s, j + k - 1) \in Seq(Post) /\ Len(From(s, j + k - 1)) = Len(s) - (j + k - 1) + 1
      /\ \A i \in 1 .. Len(s) - (j + k - 1) + 1 : From(s, j + k - 1)[i] = s[(j + k - 1) + i - 1]
  BY <1>3, FromProperties
<1>0. /\ Len(s) \in Nat /\ j \in Int /\ k \in Int /\ k >= 1 /\ j >= 1
      /\ Len(t) = Len(s) - j + 1 /\ Len(From(t, k)) = Len(t) - k + 1
      /\ Len(From(s, j + k - 1)) = Len(s) - (j + k - 1) + 1
  <2>1. j >= 1 /\ k >= 1
    OBVIOUS
  <2> QED
    BY <1>1, <1>2, <1>3, <1>4, <1>5, <2>1
<1>6. Len(From(t, k)) = Len(From(s, j + k - 1))
  BY <1>0
<1>7. ASSUME NEW i \in 1 .. Len(From(t, k))
      PROVE  From(t, k)[i] = From(s, j + k - 1)[i]
  <2>1. /\ i \in 1 .. Len(t) - k + 1 /\ i \in 1 .. Len(s) - (j + k - 1) + 1
        /\ k + i - 1 \in 1 .. Len(s) - j + 1
        /\ j + (k + i - 1) - 1 = (j + k - 1) + i - 1
    BY <1>0
  <2>2. From(t, k)[i] = t[k + i - 1]
    BY <1>4, <2>1
  <2>3. t[k + i - 1] = s[j + (k + i - 1) - 1]
    BY <1>2, <2>1
  <2>4. From(s, j + k - 1)[i] = s[(j + k - 1) + i - 1]
    BY <1>5, <2>1
  <2> QED
    BY <2>1, <2>2, <2>3, <2>4
<1>8. From(t, k) = From(s, j + k - 1)
  BY <1>4, <1>5, <1>6, <1>7, SeqEqual
<1> QED
  BY <1>8 DEF t

\* The first batch goes, and the open game with it, if there is one.
LEMMA PopGone ==
  ASSUME TypeInv, games # <<>>, openGame' = <<>>, PopGame, replayQueued <= Len(games)
  PROVE  /\ games' \in Seq(Post) /\ replayQueued' <= Len(games')
         /\ Kept' = replayQueued' /\ replayQueued' = IF replayQueued > 0 THEN replayQueued - 1 ELSE 0
         /\ Without(Held', Held, 0, Len(openGame) + 1)
<1>1. /\ openGame \in Seq(Post) /\ games \in Seq(Post) /\ replayQueued \in Nat
      /\ Len(openGame) \in Nat /\ Len(games) \in Nat \ {0}
  BY LenProperties, EmptySeq DEF TypeInv, LineTypes, WorkerTypes
<1>2. /\ games' = Tail(games)
      /\ replayQueued' = IF replayQueued > 0 THEN replayQueued - 1 ELSE 0
  BY DEF PopGame
<1>3. Tail(games) = From(games, 2) /\ Tail(games) \in Seq(Post) /\ Len(Tail(games)) = Len(games) - 1
  BY <1>1, TailIsSubSeq, HeadTailProperties DEF From
<1>4. 2 \in 1 .. Len(games) + 1
  BY <1>1
<1>5. Without(From(games, 2), openGame \o games, 0, Len(openGame) + 2 - 1)
  BY <1>1, <1>4, WithoutFirst
<1>6. Len(openGame) + 2 - 1 = Len(openGame) + 1
  BY <1>1
<1>7. Held' = From(games, 2)
  <2>1. Held' = <<>> \o From(games, 2)
    BY <1>2, <1>3 DEF Held
  <2> QED
    BY <1>3, <2>1, ConcatEmptySeq
<1>8. Without(Held', Held, 0, Len(openGame) + 1)
  BY <1>5, <1>6, <1>7 DEF Held
<1>9. replayQueued' <= Len(games')
  BY <1>1, <1>2, <1>3
<1>10. Kept' = replayQueued'
  <2> DEFINE l == Len(openGame')
  <2>1. Kept' = l + replayQueued'
    BY DEF Kept
  <2>2. replayQueued' \in Nat
    BY <1>1, <1>2
  <2>3. l = 0
    BY EmptySeq
  <2> HIDE DEF l
  <2>4. Kept' = 0 + replayQueued'
    BY <2>1, <2>3, Zenon
  <2>5. \A r \in Nat : 0 + r = r
    OBVIOUS
  <2> QED
    BY <2>2, <2>4, <2>5, Zenon
<1> QED
  BY <1>2, <1>3, <1>8, <1>9, <1>10

\* A batch of an epoch that is over: nothing is kept then.
LEMMA DropsOldTypes == IInv /\ SendDropsOld => TypeInv'
<1> SUFFICES ASSUME IInv, SendDropsOld PROVE TypeInv'
  OBVIOUS
<1> USE DEF IInv
<1>0. /\ games # <<>> /\ PopGame
      /\ UNCHANGED <<session, ops, unread, pushing, queue, refusing, batches, game>>
      /\ UNCHANGED <<pc, caller, current, declared, haveDeclared, peerAuthored>>
      /\ UNCHANGED <<gameOpenEpoch, openGame, openGameIdentity, replayPending, nextBatchId>>
      /\ UNCHANGED <<dLog, calls, losses, restarts, cut>>
  BY DEF SendDropsOld, api, handoff, link, retained, bounds
<1>1. games' \in Seq(Post) /\ replayQueued' \in Nat
  BY <1>0, PopTypes
<1>2. ApiTypes'
  <2>1. unread' \in BOOLEAN /\ cut' \in BOOLEAN
    BY <1>0 DEF TypeInv, ApiTypes
  <2> QED
    BY <1>0, <2>1, ApiQuietTypes
<1>3. WorkerTypes'
  BY <1>0, <1>1 DEF TypeInv, WorkerTypes
<1>4. LineTypes'
  BY <1>0, <1>1 DEF TypeInv, LineTypes
<1> QED
  BY <1>2, <1>3, <1>4 DEF TypeInv

\* The first batch to send is in the epoch of the game that is kept, when there is one.
LEMMA FirstInEpoch ==
  ASSUME IInv, pc \in {"send", "sent"}, games # <<>>, Kept > 0
  PROVE  /\ Line[1].epoch = declared.epoch /\ declared.machine # None
         /\ openGame = <<>> => Line[1] = games[1]
         /\ openGame # <<>> => openGame[1] = Line[1] /\ peerAuthored
         /\ declared.epoch <= games[1].epoch
<1> USE DEF IInv
<1>1. InSession /\ ~replayPending
  BY DEF InSession, SessionInv
<1>2. Line[1].epoch = declared.epoch /\ declared.machine # None /\ (openGame # <<>> => peerAuthored)
  BY <1>1 DEF SessionInv
<1>3. /\ Len(openGame) \in Nat /\ Len(games) \in Nat /\ Len(Held) = Len(openGame) + Len(games)
      /\ \A i \in 1 .. Len(openGame) : Held[i] = openGame[i]
      /\ \A i \in 1 .. Len(Held) : Line[i] = Held[i]
  BY LineFacts
<1>4. /\ games[1] \in Post /\ Line[Len(openGame) + 1] = games[1]
      /\ \A i \in 1 .. Len(openGame) : openGame[i].epoch <= games[1].epoch
  BY LaterWait DEF LineInv
<1>5. CASE openGame = <<>>
  <2>1. Len(openGame) + 1 = 1
    <3>1. Len(<<>>) = 0
      OBVIOUS
    <3> QED
      BY <1>5, <3>1
  <2>2. Line[1] = games[1]
    BY <1>4, <2>1
  <2>3. games[1].epoch \in Nat
    BY <1>4, PostFields
  <2> QED
    BY <1>2, <1>5, <2>2, <2>3
<1>6. CASE openGame # <<>>
  <2>1. Len(openGame) # 0
    BY <1>6, EmptySeq DEF TypeInv, LineTypes
  <2>2. 1 \in 1 .. Len(openGame) /\ 1 \in 1 .. Len(Held)
    BY <1>3, <2>1
  <2>3. openGame[1] = Line[1]
    BY <1>3, <2>2
  <2>4. openGame[1].epoch <= games[1].epoch
    BY <1>4, <2>2
  <2> QED
    BY <1>2, <1>6, <2>3, <2>4
<1> QED
  BY <1>5, <1>6

\* The first batch goes when no game is open: only a replayed fragment can lose one.
LEMMA PopStep ==
  ASSUME IInv, TypeInv', ApiQuiet, Snapshots' \subseteq Snapshots, InSession,
         haveDeclared' => declared'.epoch <= current'.epoch,
         openGame = <<>>, openGame' = <<>>, games # <<>>, PopGame, UNCHANGED <<queue, nextBatchId>>,
         replayQueued > 0 => UNCHANGED <<gameOpenEpoch, openGameIdentity>>,
         PeerAuthored \subseteq {TRUE} => Kept = 0
  PROVE  /\ TableInv' /\ BatchInv' /\ LineInv' /\ QueueInv' /\ IdsInOrder' /\ KeptInv'
         /\ Kept' > 0 => Line'[1].epoch = Line[1].epoch /\ Kept > 0
         /\ replayQueued = 0 => replayQueued' = 0
         /\ PeerAuthored \subseteq {TRUE} => ~(Kept' > 0)
<1> USE DEF IInv
<1>1. replayQueued <= Len(games) /\ replayQueued \in Nat /\ Len(<<>>) = 0
  BY DEF KeptInv, TypeInv, WorkerTypes
<1>2. /\ replayQueued' <= Len(games') /\ Kept' = replayQueued'
      /\ replayQueued' = IF replayQueued > 0 THEN replayQueued - 1 ELSE 0
      /\ Without(Held', Held, 0, Len(openGame) + 1)
  BY <1>1, PopGone
<1>3. Len(openGame) + 1 = 1 /\ Kept = replayQueued
  BY <1>1 DEF Kept
<1>4. Lets(0, 1)
  BY <1>2, <1>3 DEF Lets
<1>5. Keeps(0, 1)
  <2>1. Kept' = 0 \/ Kept' + 1 = Kept
    BY <1>1, <1>2, <1>3
  <2> QED
    BY <1>2, <2>1 DEF Keeps
<1>6. TableInv' /\ BatchInv' /\ LineInv' /\ QueueInv' /\ IdsInOrder' /\ Shifted(Line', Line, 0, 1)
  BY <1>4, WorkerStep
<1>7. RetainedIsKnown'
  BY <1>1 DEF RetainedIsKnown
<1>8. UNCHANGED <<epoch, identity>>
  BY DEF ApiQuiet
<1>9. KeptInv' /\ (Kept' > 0 => Line'[1].epoch = Line[1].epoch /\ Kept > 0)
  <2>1. Kept' > 0 => replayQueued > 0
    BY <1>1, <1>2
  <2> QED
    BY <2>1, <1>5, <1>6, <1>7, <1>8, KeptSame
<1>10. (Kept = 0 => ~(Kept' > 0)) /\ (replayQueued = 0 => replayQueued' = 0)
  BY <1>1, <1>2, <1>3
<1> QED
  BY <1>6, <1>9, <1>10

\* SendDropsOld: a batch of an epoch that is over is of no game that is kept.
LEMMA SendDropsOldStep == IInv /\ SendDropsOld => IInv'
<1> SUFFICES ASSUME IInv, SendDropsOld PROVE IInv'
  OBVIOUS
<1> USE DEF IInv
<1>0. /\ pc = "send" /\ games # <<>> /\ haveDeclared /\ Head(games).epoch < declared.epoch /\ PopGame
      /\ UNCHANGED <<session, pushing, queue, refusing, batches>>
      /\ UNCHANGED <<pc, caller, current, declared, haveDeclared, peerAuthored>>
      /\ UNCHANGED <<gameOpenEpoch, openGame, openGameIdentity, replayPending, nextBatchId>>
  BY DEF SendDropsOld, api, handoff, link, retained
<1>1. TypeInv'
  BY DropsOldTypes
<1>2. ApiQuiet /\ UNCHANGED posted
  BY <1>0, ApiQuietFrom
<1>3. Snapshots' \subseteq Snapshots
  BY <1>0, <1>2, SnapshotsStep
<1>4. haveDeclared' => declared'.epoch <= current'.epoch
  BY <1>0 DEF TableInv
<1>5. InSession /\ InSession' /\ ~replayPending
  BY <1>0 DEF InSession, SessionInv
<1>6. ~(Kept > 0)
  <2> SUFFICES ASSUME Kept > 0 PROVE FALSE
    OBVIOUS
  <2>1. declared.epoch <= games[1].epoch
    BY <1>0, FirstInEpoch
  <2>2. games[1].epoch < declared.epoch
    BY <1>0 DEF TypeInv, LineTypes
  <2>3. games[1] \in Post /\ declared \in Snapshot
    BY <1>0, LaterWait DEF LineInv, TypeInv, WorkerTypes
  <2>4. games[1].epoch \in Nat /\ declared.epoch \in Nat
    BY <2>3, PostFields, SnapshotFields
  <2> QED
    BY <2>1, <2>2, <2>4
<1>7. Kept = 0 /\ openGame = <<>>
  <2>1. Len(openGame) \in Nat /\ replayQueued \in Nat /\ openGame \in Seq(Post)
    BY LenProperties DEF TypeInv, LineTypes, WorkerTypes
  <2>2. Len(openGame) = 0 /\ Kept = 0
    BY <1>6, <2>1 DEF Kept
  <2> QED
    BY <2>1, <2>2, EmptySeq
<1>8. /\ TableInv' /\ BatchInv' /\ LineInv' /\ QueueInv' /\ IdsInOrder' /\ KeptInv'
      /\ Kept' > 0 => Kept > 0
      /\ replayQueued = 0 => replayQueued' = 0
  BY <1>0, <1>1, <1>2, <1>3, <1>4, <1>5, <1>7, PopStep
<1>9. ~(Kept' > 0)
  BY <1>6, <1>8
<1>10. SessionInv'
  BY <1>0, <1>5, <1>7, <1>9 DEF SessionInv
<1>11. FlushInv'
  BY <1>0 DEF FlushInv, FlushedFirst
<1>12. StartInv'
  BY <1>0, <1>5, <1>9 DEF StartInv
<1> QED
  BY <1>1, <1>8, <1>10, <1>11, <1>12

\* A batch of a table that is not declared as authored waits for its Declare, or is dropped.
LEMMA NotAuthoredCases ==
  ASSUME SendNotAuthored
  PROVE  /\ pc = "send" /\ games # <<>> /\ haveDeclared /\ ~Authored /\ TakeDeclare
         /\ UNCHANGED <<session, ops, handoff, declared, haveDeclared, peerAuthored>>
         /\ UNCHANGED <<gameOpenEpoch, openGame, openGameIdentity, replayPending, nextBatchId>>
         /\ UNCHANGED <<dLog, calls, losses, restarts, cut>>
         /\ \/ current' # declared /\ Return /\ UNCHANGED <<games, replayQueued>>
            \/ current' = declared /\ PopGame /\ UNCHANGED <<pc, caller>>
<1>1. /\ pc = "send" /\ games # <<>> /\ haveDeclared /\ ~Authored /\ TakeDeclare
      /\ UNCHANGED <<session, ops, handoff, declared, haveDeclared, peerAuthored>>
      /\ UNCHANGED <<gameOpenEpoch, openGame, openGameIdentity, replayPending, nextBatchId>>
      /\ UNCHANGED <<dLog, calls, losses, restarts, cut>>
  BY DEF SendNotAuthored, retained, bounds
<1>2. \/ current' # declared /\ Return /\ UNCHANGED <<games, replayQueued>>
      \/ current' = declared /\ PopGame /\ UNCHANGED <<pc, caller>>
  BY DEF SendNotAuthored
<1> QED
  BY <1>1, <1>2

\* SendNotAuthored: the types.
LEMMA NotAuthoredTypes == IInv /\ SendNotAuthored => TypeInv'
<1> SUFFICES ASSUME IInv, SendNotAuthored PROVE TypeInv'
  OBVIOUS
<1> USE DEF IInv
<1>0. /\ games # <<>> /\ TakeDeclare
      /\ UNCHANGED <<session, ops, handoff, declared, haveDeclared, peerAuthored>>
      /\ UNCHANGED <<gameOpenEpoch, openGame, openGameIdentity, replayPending, nextBatchId>>
      /\ UNCHANGED <<dLog, calls, losses, restarts, cut>>
  BY NotAuthoredCases
<1>1. UNCHANGED <<pushing, queue, refusing, batches, game>>
  BY <1>0 DEF handoff
<1>2. current' \in Snapshot /\ unread' \in BOOLEAN
  BY <1>0, TakeDeclareTypes
<1>3. /\ games' \in Seq(Post) /\ replayQueued' \in Nat
      /\ \/ pc' \in {"loop", "take", "declare"} /\ caller' = "serve"
         \/ UNCHANGED <<pc, caller>>
  <2>1. CASE Return /\ UNCHANGED <<games, replayQueued>>
    <3>1. pc' \in {"loop", "take", "declare"} /\ caller' = "serve"
      BY <2>1, ReturnTypes
    <3> QED
      BY <2>1, <3>1 DEF TypeInv, LineTypes, WorkerTypes
  <2>2. CASE PopGame /\ UNCHANGED <<pc, caller>>
    BY <1>0, <2>2, PopTypes
  <2> QED
    BY <2>1, <2>2, NotAuthoredCases
<1>4. ApiTypes'
  <2>1. cut' \in BOOLEAN
    BY <1>0 DEF TypeInv, ApiTypes
  <2> QED
    BY <1>0, <1>1, <1>2, <2>1, ApiQuietTypes
<1>5. WorkerTypes'
  <2>1. /\ pc' \in {"down", "hello", "loop", "declare", "take", "send", "sent"}
        /\ caller' \in {"serve", "declare"}
    BY <1>3 DEF TypeInv, WorkerTypes
  <2> QED
    BY <1>0, <1>2, <1>3, <2>1 DEF TypeInv, WorkerTypes
<1>6. LineTypes'
  BY <1>0, <1>1, <1>3 DEF TypeInv, LineTypes
<1> QED
  BY <1>4, <1>5, <1>6 DEF TypeInv

\* SendNotAuthored: what is dropped may be a replayed fragment, nothing else that is kept.
LEMMA NotAuthoredStep == IInv /\ SendNotAuthored => IInv'
<1> SUFFICES ASSUME IInv, SendNotAuthored PROVE IInv'
  OBVIOUS
<1> USE DEF IInv
<1>0. /\ pc = "send" /\ games # <<>> /\ haveDeclared /\ ~Authored /\ TakeDeclare
      /\ UNCHANGED session /\ UNCHANGED <<pushing, queue, refusing, batches>>
      /\ UNCHANGED <<declared, haveDeclared, peerAuthored>>
      /\ UNCHANGED <<gameOpenEpoch, openGame, openGameIdentity, replayPending, nextBatchId>>
      /\ UNCHANGED dLog
  BY NotAuthoredCases DEF handoff
<1>1. TypeInv'
  BY NotAuthoredTypes
<1>2. ApiQuiet /\ UNCHANGED posted
  BY <1>0, ApiQuietFrom
<1>3. current' \in {posted, current}
  BY <1>0, TakeDeclareTypes
<1>4. Snapshots' \subseteq Snapshots
  BY <1>0, <1>2, <1>3, SnapshotsStep
<1>5. /\ haveDeclared => declared.epoch <= current.epoch
      /\ haveDeclared => declared.epoch <= posted.epoch
      /\ current.epoch <= posted.epoch
  BY DEF TableInv, Snapshots, Declared
<1>6. haveDeclared' => declared'.epoch <= current'.epoch
  BY <1>0, <1>3, <1>5
<1>7. InSession /\ ~replayPending
  BY <1>0 DEF InSession, SessionInv
<1>8. CASE current' # declared /\ Return /\ UNCHANGED <<games, replayQueued>>
  <2>1. /\ pc' \in {"loop", "take", "declare"} /\ caller' = "serve" /\ InSession'
    BY <1>8, ReturnTypes DEF InSession
  <2>2. RetainedIsKnown'
    BY <1>0, <1>7, <2>1 DEF KeptInv, RetainedIsKnown
  <2>3. /\ TableInv' /\ BatchInv' /\ LineInv' /\ QueueInv' /\ IdsInOrder' /\ KeptInv'
        /\ Kept' = Kept /\ Line' = Line
    BY <1>0, <1>1, <1>2, <1>4, <1>6, <1>8, <2>2, LinkStep
  <2>4. SessionInv'
    BY <1>0, <1>7, <1>8, <2>1, <2>3 DEF SessionInv
  <2>5. FlushInv'
    BY <1>0, <2>1 DEF FlushInv, FlushedFirst, Authored
  <2>6. StartInv'
    BY <1>0, <1>7, <2>1, <2>3 DEF StartInv
  <2> QED
    BY <1>1, <2>3, <2>4, <2>5, <2>6
<1>9. CASE current' = declared /\ PopGame /\ UNCHANGED <<pc, caller>>
  <2>1. InSession'
    BY <1>7, <1>9 DEF InSession
  <2>2. Kept > 0 => declared.machine # None /\ ~peerAuthored /\ openGame = <<>>
    BY <1>0, FirstInEpoch DEF Authored
  <2>3. openGame = <<>>
    <3>1. CASE Kept > 0
      BY <2>2, <3>1
    <3>2. CASE ~(Kept > 0)
      <4>1. Len(openGame) \in Nat /\ replayQueued \in Nat /\ openGame \in Seq(Post)
        BY LenProperties DEF TypeInv, LineTypes, WorkerTypes
      <4>2. Len(openGame) = 0
        BY <3>2, <4>1 DEF Kept
      <4> QED
        BY <4>1, <4>2, EmptySeq
    <3> QED
      BY <3>1, <3>2
  <2>4. PeerAuthored \subseteq {TRUE} => Kept = 0
    <3>1. PeerAuthored \subseteq {TRUE} => ~(Kept > 0)
      BY <1>7, <2>2 DEF StartInv
    <3>2. Kept \in Nat
      BY OpenFacts DEF KeptInv
    <3>3. ~(Kept > 0) => Kept = 0
      BY <3>2
    <3> QED
      BY <3>1, <3>3, Zenon
  <2>5. /\ TableInv' /\ BatchInv' /\ LineInv' /\ QueueInv' /\ IdsInOrder' /\ KeptInv'
        /\ Kept' > 0 => Line'[1].epoch = Line[1].epoch /\ Kept > 0
        /\ replayQueued = 0 => replayQueued' = 0
        /\ PeerAuthored \subseteq {TRUE} => ~(Kept' > 0)
    BY <1>0, <1>1, <1>2, <1>4, <1>6, <1>7, <1>9, <2>3, <2>4, PopStep
  <2>6. SessionInv'
    <3>1. Kept' > 0 => haveDeclared /\ Line'[1].epoch = declared.epoch /\ declared.machine # None
      BY <1>7, <2>5 DEF SessionInv
    <3> QED
      BY <1>0, <1>7, <1>9, <2>3, <3>1 DEF SessionInv
  <2>7. FlushInv'
    <3>1. caller = "serve"
      <4> SUFFICES ASSUME caller = "declare" PROVE FALSE
        BY DEF TypeInv, WorkerTypes
      <4>1. current.epoch > declared.epoch
        BY <1>0 DEF FlushInv
      <4>2. declared = current \/ declared = posted
        BY <1>3, <1>9
      <4>3. current.epoch \in Nat /\ declared.epoch \in Nat /\ posted.epoch \in Nat
        BY SnapshotFields DEF TypeInv, WorkerTypes, ApiTypes
      <4> QED
        BY <1>5, <4>1, <4>2, <4>3
    <3> QED
      BY <1>0, <1>9, <3>1 DEF FlushInv, FlushedFirst
  <2>8. StartInv'
    BY <1>0, <1>7, <2>1, <2>5 DEF StartInv
  <2> QED
    BY <1>1, <2>5, <2>6, <2>7, <2>8
<1> QED
  BY <1>8, <1>9, NotAuthoredCases

\* A refused batch takes the open game and what is left of its replay with it.
LEMMA RefusedLine ==
  ASSUME IInv, GameRefused
  PROVE  /\ openGame' = <<>> /\ games' \in Seq(Post) /\ replayQueued' = 0 /\ Kept' = 0
         /\ \E d \in Nat : Without(Held', Held, 0, d)
<1> USE DEF IInv
<1>0. /\ pc = "sent" /\ games # <<>> /\ Head(games) = games[1] /\ games[1].epoch = declared.epoch
  BY DEF GameRefused, SessionInv, TypeInv, LineTypes
<1>1. /\ openGame \in Seq(Post) /\ games \in Seq(Post) /\ replayQueued \in Nat
      /\ Len(openGame) \in Nat /\ Len(games) \in Nat \ {0} /\ replayQueued <= Len(games)
  BY <1>0, LenProperties, EmptySeq DEF TypeInv, LineTypes, WorkerTypes, KeptInv
<1>2. openGame' = <<>>
  <2>1. CASE openGame = <<>>
    BY <2>1 DEF GameRefused
  <2>2. CASE openGame # <<>>
    <3>1. Len(openGame) # 0
      BY <1>1, <2>2, EmptySeq
    <3>2. Kept > 0
      BY <1>1, <3>1 DEF Kept
    <3>3. openGame[1].epoch = declared.epoch
      BY <1>0, <2>2, <3>2, FirstInEpoch
    <3> QED
      BY <1>0, <2>2, <3>3 DEF GameRefused
  <2> QED
    BY <2>1, <2>2
<1> DEFINE r == IF replayQueued > 0 THEN replayQueued - 1 ELSE 0
           t == Tail(games)
<1>3. t = From(games, 2) /\ t \in Seq(Post) /\ Len(t) = Len(games) - 1
  BY <1>0, <1>1, TailIsSubSeq, HeadTailProperties DEF From
<1>4. r \in Nat /\ r <= Len(t)
  BY <1>1, <1>3
<1>5. games' = From(t, 1 + IF r < Len(t) THEN r ELSE Len(t)) /\ replayQueued' = 0
  BY DEF GameRefused, DiscardQueuedReplay
<1> HIDE DEF r, t
<1>6. (1 + IF r < Len(t) THEN r ELSE Len(t)) = r + 1
  BY <1>1, <1>3, <1>4
<1>7. games' = From(t, r + 1)
  BY <1>5, <1>6
<1>8. 2 \in 1 .. Len(games) + 1 /\ r + 1 \in 1 .. Len(games) - 2 + 2 /\ 2 + (r + 1) - 1 = r + 2
  BY <1>1, <1>3, <1>4
<1>9. From(From(games, 2), r + 1) = From(games, 2 + (r + 1) - 1)
  BY <1>1, <1>8, FromFrom
<1>10. games' = From(games, r + 2)
  BY <1>3, <1>7, <1>8, <1>9
<1>11. r + 2 \in 1 .. Len(games) + 1
  BY <1>1, <1>3, <1>4
<1>12. games' \in Seq(Post)
  BY <1>1, <1>10, <1>11, FromProperties
<1>13. Held' = From(games, r + 2)
  <2>1. Held' = <<>> \o From(games, r + 2)
    BY <1>2, <1>10 DEF Held
  <2> QED
    BY <1>10, <1>12, <2>1, ConcatEmptySeq
<1>14. Without(From(games, r + 2), openGame \o games, 0, Len(openGame) + (r + 2) - 1)
  BY <1>1, <1>11, WithoutFirst
<1>15. Len(openGame) + (r + 2) - 1 \in Nat
  BY <1>1, <1>4
<1>16. Kept' = 0
  <2>1. Len(<<>>) = 0
    OBVIOUS
  <2> QED
    BY <1>2, <1>5, <2>1 DEF Kept
<1> QED
  BY <1>2, <1>5, <1>12, <1>13, <1>14, <1>15, <1>16 DEF Held

\* GameRefused: the types.
LEMMA RefusedTypes == IInv /\ GameRefused => TypeInv'
<1> SUFFICES ASSUME IInv, GameRefused PROVE TypeInv'
  OBVIOUS
<1> USE DEF IInv
<1>0. /\ pc' = "send" /\ cut' = TRUE
      /\ UNCHANGED <<session, ops, unread, pushing, queue, refusing, batches, game>>
      /\ UNCHANGED <<caller, current, declared, haveDeclared, peerAuthored>>
      /\ UNCHANGED <<gameOpenEpoch, openGameIdentity, replayPending, nextBatchId>>
      /\ UNCHANGED <<dLog, calls, losses, restarts>>
  BY DEF GameRefused, api, handoff, link
<1>1. openGame' = <<>> /\ games' \in Seq(Post) /\ replayQueued' = 0
  BY RefusedLine
<1>2. ApiTypes'
  <2>1. unread' \in BOOLEAN /\ cut' \in BOOLEAN
    BY <1>0 DEF TypeInv, ApiTypes
  <2> QED
    BY <1>0, <2>1, ApiQuietTypes
<1>3. WorkerTypes'
  BY <1>0, <1>1 DEF TypeInv, WorkerTypes
<1>4. LineTypes'
  BY <1>0, <1>1, EmptySeq DEF TypeInv, LineTypes
<1> QED
  BY <1>2, <1>3, <1>4 DEF TypeInv

\* GameRefused: nothing is kept of a game that is no longer whole.
LEMMA GameRefusedStep == IInv /\ GameRefused => IInv'
<1> SUFFICES ASSUME IInv, GameRefused PROVE IInv'
  OBVIOUS
<1> USE DEF IInv
<1>0. /\ pc = "sent" /\ pc' = "send" /\ UNCHANGED session
      /\ UNCHANGED <<pushing, queue, refusing, batches>>
      /\ UNCHANGED <<caller, current, declared, haveDeclared, peerAuthored>>
      /\ UNCHANGED <<gameOpenEpoch, openGameIdentity, replayPending, nextBatchId>>
  BY DEF GameRefused, api, handoff, link
<1>1. TypeInv'
  BY RefusedTypes
<1>2. ApiQuiet /\ UNCHANGED posted
  BY <1>0, ApiQuietFrom
<1>3. Snapshots' \subseteq Snapshots
  BY <1>0, <1>2, SnapshotsStep
<1>4. haveDeclared' => declared'.epoch <= current'.epoch
  BY <1>0 DEF TableInv
<1>5. InSession /\ InSession' /\ ~replayPending /\ haveDeclared
  BY <1>0 DEF InSession, SessionInv
<1>6. openGame' = <<>> /\ games' \in Seq(Post) /\ replayQueued' = 0 /\ Kept' = 0
  BY RefusedLine
<1>7. PICK d \in Nat : Without(Held', Held, 0, d)
  BY RefusedLine
<1>8. Lets(0, d)
  BY <1>0, <1>7 DEF Lets
<1>9. TableInv' /\ BatchInv' /\ LineInv' /\ QueueInv' /\ IdsInOrder' /\ Shifted(Line', Line, 0, d)
  BY <1>1, <1>2, <1>3, <1>4, <1>8, WorkerStep
<1>10. Keeps(0, d)
  <2>1. replayQueued' <= Len(games')
    BY <1>6, LenProperties
  <2> QED
    BY <1>6, <2>1 DEF Keeps
<1>11. RetainedIsKnown'
  <2>1. Len(<<>>) = 0
    OBVIOUS
  <2> QED
    BY <1>6, <2>1 DEF RetainedIsKnown
<1>12. UNCHANGED <<epoch, identity>>
  BY <1>2 DEF ApiQuiet
<1>13. KeptInv'
  BY <1>0, <1>1, <1>3, <1>9, <1>10, <1>11, <1>12, KeptSame
<1>14. ~(Kept' > 0)
  BY <1>6
<1>15. SessionInv'
  BY <1>0, <1>5, <1>6, <1>14 DEF SessionInv
<1>16. FlushInv'
  BY <1>0 DEF FlushInv, FlushedFirst
<1>17. StartInv'
  BY <1>0, <1>5, <1>14 DEF StartInv
<1> QED
  BY <1>1, <1>9, <1>13, <1>15, <1>16, <1>17

-----------------------------------------------------------------------------
(* A batch is acknowledged.                                                *)

\* What it does to the open game: a fragment goes on, a game ends or is too long, or is kept.
AckKeepsNone == openGame = <<>> /\ openGame' = <<>> /\ ~Starts(games[1])
AckGoes      == openGame' = <<>> /\ (Ends(games[1]) \/ ~Retainable(openGame, games[1]))
                                 /\ ~Starts(games[1])
AckDrops     == openGame' = <<>> /\ (Ends(games[1]) \/ ~Retainable(<<>>, games[1]))
                                 /\ Starts(games[1])
AckStarts    == /\ Starts(games[1]) /\ ~Ends(games[1]) /\ Retainable(<<>>, games[1])
                /\ openGame' = Append(<<>>, games[1])
AckAppends   == /\ ~Starts(games[1]) /\ ~Ends(games[1]) /\ Retainable(openGame, games[1])
                /\ openGame # <<>> /\ openGame' = Append(openGame, games[1])

\* GameAck, with its variables named one by one: one of these five, always.
LEMMA AckCases ==
  ASSUME IInv, GameAck
  PROVE  /\ pc = "sent" /\ pc' = "send" /\ games # <<>> /\ games[1] \in Post
         /\ games[1].epoch = declared.epoch /\ Authored /\ haveDeclared
         /\ DaemonTakes(games[1]) /\ PopGame
         /\ gameOpenEpoch' = IF Ends(games[1]) THEN 0
                             ELSE IF Starts(games[1]) THEN games[1].epoch ELSE gameOpenEpoch
         /\ openGameIdentity' = IF Starts(games[1]) THEN declared.identity ELSE openGameIdentity
         /\ AckKeepsNone \/ AckGoes \/ AckDrops \/ AckStarts \/ AckAppends
         /\ cut' \in BOOLEAN
         /\ UNCHANGED <<session, ops, unread, pushing, queue, refusing, batches, game>>
         /\ UNCHANGED <<caller, current, declared, haveDeclared, peerAuthored>>
         /\ UNCHANGED <<replayPending, nextBatchId, calls, losses, restarts>>
<1> USE DEF IInv
<1>1. /\ pc = "sent" /\ games # <<>> /\ games[1].epoch = declared.epoch /\ Authored /\ haveDeclared
      /\ Head(games) = games[1]
  BY DEF GameAck, SessionInv, TypeInv, LineTypes
<1>2. games[1] \in Post
  BY <1>1, LaterWait DEF LineInv
<1>3. /\ pc' = "send" /\ DaemonTakes(games[1]) /\ PopGame
      /\ gameOpenEpoch' = IF Ends(games[1]) THEN 0
                          ELSE IF Starts(games[1]) THEN games[1].epoch ELSE gameOpenEpoch
      /\ RetainAcknowledged(games[1])
      /\ cut' = (cut \/ ((Starts(games[1]) \/ openGame # <<>>) /\ ~Ends(games[1]) /\ openGame' = <<>>))
  BY <1>1 DEF GameAck
<1>4. /\ UNCHANGED <<session, ops, unread, pushing, queue, refusing, batches, game>>
      /\ UNCHANGED <<caller, current, declared, haveDeclared, peerAuthored>>
      /\ UNCHANGED <<replayPending, nextBatchId, calls, losses, restarts>>
  BY DEF GameAck, api, handoff, link
<1>5. cut' \in BOOLEAN
  BY <1>3 DEF TypeInv, ApiTypes
<1>6. openGame # <<>> => openGame[1].epoch = games[1].epoch
  <2> SUFFICES ASSUME openGame # <<>> PROVE openGame[1].epoch = games[1].epoch
    OBVIOUS
  <2>1. Len(openGame) \in Nat \ {0} /\ replayQueued \in Nat
    BY EmptySeq DEF TypeInv, LineTypes, WorkerTypes
  <2>2. Kept > 0
    BY <2>1 DEF Kept
  <2> QED
    BY <1>1, <2>2, FirstInEpoch
<1>7. /\ openGameIdentity' = IF Starts(games[1]) THEN declared.identity ELSE openGameIdentity
      /\ openGame' = IF ~Starts(games[1]) /\ openGame = <<>> THEN openGame
                     ELSE IF Ends(games[1]) \/ ~Retainable(IF Starts(games[1]) THEN <<>> ELSE openGame, games[1])
                     THEN <<>>
                     ELSE Append(IF Starts(games[1]) THEN <<>> ELSE openGame, games[1])
  BY <1>3, <1>6 DEF RetainAcknowledged
<1>8. AckKeepsNone \/ AckGoes \/ AckDrops \/ AckStarts \/ AckAppends
  <2>1. CASE Starts(games[1])
    <3>1. openGame' = IF Ends(games[1]) \/ ~Retainable(<<>>, games[1])
                      THEN <<>> ELSE Append(<<>>, games[1])
      BY <1>7, <2>1
    <3> QED
      BY <2>1, <3>1 DEF AckDrops, AckStarts
  <2>2. CASE ~Starts(games[1])
    <3>1. openGame' = IF openGame = <<>> THEN openGame
                      ELSE IF Ends(games[1]) \/ ~Retainable(openGame, games[1])
                      THEN <<>> ELSE Append(openGame, games[1])
      BY <1>7, <2>2
    <3> QED
      BY <2>2, <3>1 DEF AckKeepsNone, AckGoes, AckAppends
  <2> QED
    BY <2>1, <2>2
<1> QED
  BY <1>1, <1>2, <1>3, <1>4, <1>5, <1>7, <1>8

\* While a replay is under way the acknowledged batch is of the open game and fits.
LEMMA AckRetains ==
  ASSUME IInv, games # <<>>, replayQueued > 0
  PROVE  /\ ~Ends(games[1]) /\ Retainable(openGame, games[1])
         /\ Starts(games[1]) => openGame = <<>>
         /\ openGame = <<>> => Line[1] = games[1]
<1> USE DEF IInv
<1> DEFINE o == Len(openGame)
<1>1. /\ openGame \in Seq(Post) /\ o \in Nat /\ replayQueued \in Nat \ {0}
      /\ replayQueued <= Len(games) /\ Continues(Line, Kept) /\ OpenGameBounded
  BY LenProperties DEF TypeInv, LineTypes, WorkerTypes, KeptInv
<1>2. games[1] \in Post /\ Line[o + 1] = games[1]
  BY LaterWait DEF LineInv
<1>3. /\ OpenGame \in Seq(Post) /\ Len(OpenGame) = Kept /\ Kept = o + replayQueued
      /\ Kept <= Len(Held) /\ \A i \in 1 .. Kept : OpenGame[i] = Line[i]
  BY <1>1, OpenFacts
<1>4. /\ \A i \in 1 .. o : Held[i] = openGame[i]
      /\ \A i \in 1 .. Len(Held) : Line[i] = Held[i]
      /\ Len(Held) = o + Len(games) /\ Len(games) \in Nat
  BY LineFacts
<1> HIDE DEF o
<1>0. o \in Nat /\ replayQueued \in Nat \ {0} /\ Kept = o + replayQueued
  BY <1>1, <1>3
<1>5. o + 1 \in 1 .. Kept /\ Kept \in Nat
  BY <1>0
<1>6. ~Ends(games[1]) /\ (o + 1 > 1 => ~Starts(games[1]))
  BY <1>1, <1>2, <1>5 DEF Continues
<1>7. o = 0 => openGame = <<>>
  BY <1>1, EmptySeq DEF o
<1>8. Starts(games[1]) => openGame = <<>>
  <2>1. Starts(games[1]) => ~(o + 1 > 1)
    BY <1>6
  <2>2. ~(o + 1 > 1) => o = 0
    BY <1>0
  <2> QED
    BY <1>7, <2>1, <2>2
<1>9. Retainable(openGame, games[1])
  <2> DEFINE t == Append(openGame, games[1])
  <2>1. /\ t \in Seq(Post) /\ Len(t) = o + 1 /\ t[o + 1] = games[1]
        /\ \A i \in 1 .. o : t[i] = openGame[i]
    BY <1>1, <1>2, AppendProperties DEF o
  <2>2. SumOps(t) = SumOps(openGame) + Len(games[1].ops)
    BY <1>1, <1>2, SumAppend
  <2> HIDE DEF t
  <2>3. ASSUME NEW i \in 1 .. Len(t)
        PROVE  t[i].ops = OpenGame[i + 0].ops
    <3>1. i \in 1 .. o + 1
      BY <2>1
    <3>2. i + 0 = i /\ i \in 1 .. Kept /\ i \in 1 .. Len(Held)
      BY <3>1, <1>0, <1>1, <1>4
    <3>3. CASE i = o + 1
      BY <3>2, <3>3, <2>1, <1>2, <1>3
    <3>4. CASE i # o + 1
      <4>1. i \in 1 .. o
        BY <3>1, <3>4, <1>0
      <4> QED
        BY <3>2, <4>1, <2>1, <1>3, <1>4
    <3> QED
      BY <3>3, <3>4
  <2>4. 0 \in Nat /\ Len(t) + 0 <= Len(OpenGame)
    BY <1>0, <1>3, <2>1
  <2>5. SumOps(t) <= SumOps(OpenGame)
    BY <1>3, <2>1, <2>3, <2>4, SumWithin
  <2>6. SumOps(t) \in Nat /\ SumOps(OpenGame) \in Nat /\ SumOps(OpenGame) <= MaxQueuedOps
    BY <1>1, <1>3, <2>1, SumType DEF OpenGameBounded
  <2>7. SumOps(t) <= MaxQueuedOps
    BY <2>5, <2>6, Constants
  <2> QED
    BY <2>2, <2>7 DEF Retainable
<1>10. openGame = <<>> => Line[1] = games[1]
  <2>1. openGame = <<>> => o = 0
    BY EmptySeq DEF o
  <2>2. o = 0 => o + 1 = 1
    OBVIOUS
  <2> QED
    BY <2>1, <2>2, <1>2
<1> QED
  BY <1>6, <1>8, <1>9, <1>10

\* The first of what is behind goes to the end of what is in front.
LEMMA MoveFront ==
  ASSUME NEW x \in Seq(Post), NEW y \in Seq(Post), y # <<>>
  PROVE  Append(x, y[1]) \o Tail(y) = x \o y
<1>1. /\ Len(x) \in Nat /\ Len(y) \in Nat \ {0} /\ y[1] \in Post
      /\ Tail(y) \in Seq(Post) /\ Len(Tail(y)) = Len(y) - 1
      /\ \A i \in 1 .. Len(Tail(y)) : Tail(y)[i] = y[i + 1]
  <2>1. Len(y) \in Nat \ {0}
    BY EmptySeq
  <2>2. 1 \in 1 .. Len(y)
    BY <2>1
  <2> QED
    BY <2>1, <2>2, LenProperties, ElementOfSeq, HeadTailProperties
<1> DEFINE a == Append(x, y[1])
           t == Tail(y)
<1>2. /\ a \in Seq(Post) /\ Len(a) = Len(x) + 1 /\ a[Len(x) + 1] = y[1]
      /\ \A i \in 1 .. Len(x) : a[i] = x[i]
  BY <1>1, AppendProperties
<1>3. /\ t \in Seq(Post) /\ Len(t) = Len(y) - 1 /\ \A i \in 1 .. Len(t) : t[i] = y[i + 1]
  BY <1>1
<1> HIDE DEF a, t
<1>4. /\ a \o t \in Seq(Post) /\ Len(a \o t) = Len(a) + Len(t)
      /\ \A i \in 1 .. Len(a) : (a \o t)[i] = a[i]
      /\ \A i \in Len(a) + 1 .. Len(a) + Len(t) : (a \o t)[i] = t[i - Len(a)]
  <2>1. a \in Seq(Post) /\ t \in Seq(Post)
    BY <1>2, <1>3
  <2> QED
    BY <2>1, PairOf
<1>5. /\ x \o y \in Seq(Post) /\ Len(x \o y) = Len(x) + Len(y)
      /\ \A i \in 1 .. Len(x) : (x \o y)[i] = x[i]
      /\ \A i \in Len(x) + 1 .. Len(x) + Len(y) : (x \o y)[i] = y[i - Len(x)]
  BY PairOf
<1>0. /\ Len(x) \in Nat /\ Len(y) \in Nat \ {0} /\ Len(a) = Len(x) + 1 /\ Len(t) = Len(y) - 1
      /\ Len(a \o t) = Len(a) + Len(t) /\ Len(x \o y) = Len(x) + Len(y)
  BY <1>1, <1>2, <1>3, <1>4, <1>5
<1>6. Len(a \o t) = Len(x \o y)
  BY <1>0
<1>7. ASSUME NEW i \in 1 .. Len(a \o t)
      PROVE  (a \o t)[i] = (x \o y)[i]
  <2>1. CASE i <= Len(x)
    <3>1. i \in 1 .. Len(x) /\ i \in 1 .. Len(a)
      BY <2>1, <1>0
    <3> QED
      BY <3>1, <1>2, <1>4, <1>5
  <2>2. CASE i = Len(x) + 1
    <3>1. /\ i \in 1 .. Len(a) /\ i \in Len(x) + 1 .. Len(x) + Len(y) /\ i - Len(x) = 1
      BY <2>2, <1>0
    <3> QED
      BY <3>1, <2>2, <1>2, <1>4, <1>5
  <2>3. CASE i > Len(x) + 1
    <3>1. /\ i \in Len(a) + 1 .. Len(a) + Len(t) /\ i \in Len(x) + 1 .. Len(x) + Len(y)
          /\ i - Len(a) \in 1 .. Len(t) /\ (i - Len(a)) + 1 = i - Len(x)
      BY <2>3, <1>0
    <3> QED
      BY <3>1, <1>3, <1>4, <1>5
  <2> QED
    BY <1>0, <2>1, <2>2, <2>3
<1>8. a \o t = x \o y
  BY <1>4, <1>5, <1>6, <1>7, SeqEqual
<1> QED
  BY <1>8 DEF a, t

\* How much is kept after an acknowledgement, and what has left the line.
LEMMA AckLine ==
  ASSUME IInv, GameAck
  PROVE  /\ openGame' \in Seq(Post) /\ games' \in Seq(Post) /\ replayQueued' \in Nat
         /\ replayQueued' <= Len(games')
         /\ replayQueued' = IF replayQueued > 0 THEN replayQueued - 1 ELSE 0
         /\ openGame' = <<>> =>
              Kept' = replayQueued' /\ Without(Held', Held, 0, Len(openGame) + 1)
         /\ AckStarts => Kept' = 1 + replayQueued' /\ Without(Held', Held, 0, Len(openGame))
         /\ AckAppends => /\ Kept' = Len(openGame) + 1 + replayQueued'
                          /\ Without(Held', Held, 0, 0)
<1> USE DEF IInv
<1>1. /\ games # <<>> /\ games[1] \in Post /\ PopGame
      /\ AckKeepsNone \/ AckGoes \/ AckDrops \/ AckStarts \/ AckAppends
  BY AckCases
<1>2. /\ openGame \in Seq(Post) /\ games \in Seq(Post) /\ replayQueued \in Nat
      /\ Len(openGame) \in Nat /\ Len(games) \in Nat \ {0} /\ replayQueued <= Len(games)
  BY <1>1, LenProperties, EmptySeq DEF TypeInv, LineTypes, WorkerTypes, KeptInv
<1>3. /\ games' = Tail(games)
      /\ replayQueued' = IF replayQueued > 0 THEN replayQueued - 1 ELSE 0
  BY <1>1 DEF PopGame
<1>4. games' \in Seq(Post) /\ Len(games') = Len(games) - 1
  BY <1>1, <1>2, <1>3, HeadTailProperties
<1>5. replayQueued' \in Nat /\ replayQueued' <= Len(games')
  BY <1>2, <1>3, <1>4
<1>6. CASE openGame' = <<>>
  <2>1. /\ Kept' = replayQueued' /\ Without(Held', Held, 0, Len(openGame) + 1)
    BY <1>1, <1>2, <1>6, PopGone
  <2>2. ~AckStarts /\ ~AckAppends
    BY <1>1, <1>2, <1>6, AppendProperties, EmptySeq DEF AckStarts, AckAppends
  <2> QED
    BY <1>3, <1>4, <1>5, <1>6, <2>1, <2>2, EmptySeq
<1>7. CASE AckStarts
  <2> DEFINE e == <<>>
  <2>1. openGame' = Append(e, games[1]) /\ e \in Seq(Post) /\ Len(e) = 0
    BY <1>7, EmptySeq DEF AckStarts
  <2>2. e \o games = games
    BY <1>2, ConcatEmptySeq
  <2> HIDE DEF e
  <2>3. /\ openGame' \in Seq(Post) /\ openGame' # <<>> /\ Len(openGame') = Len(e) + 1
    <3>1. e \in Seq(Post) /\ games[1] \in Post
      BY <1>1, <2>1
    <3>2. /\ Append(e, games[1]) \in Seq(Post) /\ Append(e, games[1]) # <<>>
          /\ Len(Append(e, games[1])) = Len(e) + 1
      BY <3>1, AppendProperties
    <3> QED
      BY <2>1, <3>2, Zenon
  <2>4. Held' = games
    <3>1. Held' = Append(e, games[1]) \o Tail(games)
      BY <1>3, <2>1 DEF Held
    <3>2. Append(e, games[1]) \o Tail(games) = e \o games
      BY <1>1, <1>2, <2>1, MoveFront
    <3> QED
      BY <2>2, <3>1, <3>2
  <2>5. Without(games, openGame \o games, 0, Len(openGame))
    BY <1>2, WithoutOpen
  <2>6. Kept' = 1 + replayQueued'
    <3>1. Kept' = Len(openGame') + replayQueued' /\ Len(openGame') = 1
      BY <2>1, <2>3 DEF Kept
    <3> QED
      BY <3>1, Zenon
  <2>7. ~AckAppends
    BY <1>7 DEF AckStarts, AckAppends
  <2> QED
    BY <1>3, <1>4, <1>5, <2>3, <2>4, <2>5, <2>6, <2>7 DEF Held
<1>8. CASE AckAppends
  <2>1. openGame' = Append(openGame, games[1])
    BY <1>8 DEF AckAppends
  <2>2. openGame' \in Seq(Post) /\ openGame' # <<>> /\ Len(openGame') = Len(openGame) + 1
    BY <1>1, <1>2, <2>1, AppendProperties
  <2>3. Held' = Held /\ Held \in Seq(Post)
    <3>1. Held' = Append(openGame, games[1]) \o Tail(games)
      BY <1>3, <2>1 DEF Held
    <3>2. Append(openGame, games[1]) \o Tail(games) = openGame \o games
      BY <1>1, <1>2, MoveFront
    <3> QED
      BY <3>1, <3>2, LineFacts DEF Held
  <2>4. Without(Held', Held, 0, 0)
    BY <2>3, WithoutNone
  <2>5. Kept' = Len(openGame) + 1 + replayQueued'
    <3>1. Kept' = Len(openGame') + replayQueued'
      BY DEF Kept
    <3> QED
      BY <2>2, <3>1, Zenon
  <2>6. ~AckStarts
    BY <1>8 DEF AckStarts, AckAppends
  <2> QED
    BY <1>3, <1>4, <1>5, <2>2, <2>4, <2>5, <2>6
<1>9. openGame' = <<>> \/ AckStarts \/ AckAppends
  BY <1>1 DEF AckKeepsNone, AckGoes, AckDrops
<1> QED
  BY <1>6, <1>7, <1>8, <1>9

\* GameAck: the types.
LEMMA GameAckTypes == IInv /\ GameAck => TypeInv'
<1> SUFFICES ASSUME IInv, GameAck PROVE TypeInv'
  OBVIOUS
<1> USE DEF IInv
<1>0. /\ pc' = "send" /\ games[1] \in Post /\ DaemonTakes(games[1]) /\ cut' \in BOOLEAN
      /\ UNCHANGED <<session, ops, unread, pushing, queue, refusing, batches, game>>
      /\ UNCHANGED <<caller, current, declared, haveDeclared, peerAuthored>>
      /\ UNCHANGED <<replayPending, nextBatchId, calls, losses, restarts>>
  BY AckCases
<1>1. openGame' \in Seq(Post) /\ games' \in Seq(Post) /\ replayQueued' \in Nat
  BY AckLine
<1>2. gameOpenEpoch' \in Nat /\ openGameIdentity' \in Nat
  <2>1. gameOpenEpoch \in Nat /\ openGameIdentity \in Nat /\ declared \in Snapshot
    BY DEF TypeInv, WorkerTypes
  <2>2. declared.identity \in Nat /\ games[1].epoch \in Nat
    BY <1>0, <2>1, SnapshotFields, PostFields
  <2> QED
    BY <2>1, <2>2, AckCases
<1>3. dLog' \in Seq(Post)
  BY <1>0, DaemonTypes DEF TypeInv, LineTypes
<1>4. ApiTypes'
  <2>1. unread' \in BOOLEAN
    BY <1>0 DEF TypeInv, ApiTypes
  <2> QED
    BY <1>0, <2>1, ApiQuietTypes
<1>5. WorkerTypes'
  BY <1>0, <1>1, <1>2 DEF TypeInv, WorkerTypes
<1>6. LineTypes'
  BY <1>0, <1>1, <1>3 DEF TypeInv, LineTypes
<1> QED
  BY <1>4, <1>5, <1>6 DEF TypeInv

\* What is acknowledged and kept is known to the daemon.
LEMMA AckKnown ==
  ASSUME IInv, GameAck
  PROVE  RetainedIsKnown'
<1> USE DEF IInv
<1>1. /\ games[1] \in Post /\ DaemonTakes(games[1])
      /\ AckKeepsNone \/ AckGoes \/ AckDrops \/ AckStarts \/ AckAppends
      /\ pc = "sent"
  BY AckCases
<1>2. /\ dLog' \in Seq(Post) /\ Len(dLog) \in Nat
      /\ \A j \in 1 .. Len(dLog) : j \in 1 .. Len(dLog') /\ dLog'[j] = dLog[j]
      /\ \E j \in 1 .. Len(dLog') : dLog'[j].id = games[1].id
  BY <1>1, DaemonTypes DEF TypeInv, LineTypes
<1>3. \A i \in 1 .. Len(openGame) : \E j \in 1 .. Len(dLog) : dLog[j].id = openGame[i].id
  BY <1>1 DEF KeptInv, RetainedIsKnown, SessionInv, InSession
<1>4. SUFFICES ASSUME NEW i \in 1 .. Len(openGame')
               PROVE  \E j \in 1 .. Len(dLog') : dLog'[j].id = openGame'[i].id
  BY DEF RetainedIsKnown
<1>5. CASE openGame' = <<>>
  <2>1. Len(openGame') = 0
    BY <1>5, EmptySeq
  <2> QED
    BY <2>1
<1>6. CASE AckStarts
  <2> DEFINE e == <<>>
  <2>1. openGame' = Append(e, games[1]) /\ e \in Seq(Post) /\ Len(e) = 0
    BY <1>6, EmptySeq DEF AckStarts
  <2> HIDE DEF e
  <2>2. Len(openGame') = Len(e) + 1 /\ openGame'[Len(e) + 1] = games[1]
    BY <1>1, <2>1, AppendProperties
  <2>3. i = Len(e) + 1
    BY <2>1, <2>2
  <2> QED
    BY <1>2, <2>2, <2>3
<1>7. CASE AckAppends
  <2>1. openGame' = Append(openGame, games[1]) /\ openGame \in Seq(Post) /\ Len(openGame) \in Nat
    BY <1>7, LenProperties DEF AckAppends, TypeInv, LineTypes
  <2>2. /\ Len(openGame') = Len(openGame) + 1 /\ openGame'[Len(openGame) + 1] = games[1]
        /\ \A j \in 1 .. Len(openGame) : openGame'[j] = openGame[j]
    BY <1>1, <2>1, AppendProperties
  <2>3. CASE i = Len(openGame) + 1
    BY <1>2, <2>2, <2>3
  <2>4. CASE i # Len(openGame) + 1
    <3>1. i \in 1 .. Len(openGame)
      BY <2>1, <2>2, <2>4
    <3>2. PICK j \in 1 .. Len(dLog) : dLog[j].id = openGame[i].id
      BY <1>3, <3>1
    <3>3. j \in 1 .. Len(dLog') /\ dLog'[j] = dLog[j] /\ openGame'[i] = openGame[i]
      BY <1>2, <2>2, <3>1
    <3> QED
      BY <3>2, <3>3
  <2> QED
    BY <2>3, <2>4
<1>8. openGame' = <<>> \/ AckStarts \/ AckAppends
  BY <1>1 DEF AckKeepsNone, AckGoes, AckDrops
<1> QED
  BY <1>5, <1>6, <1>7, <1>8

\* A game that was not being replayed: what is kept of it after the acknowledgement is the
\* open game and the batch, within the bound.
LEMMA AckBounded ==
  ASSUME TypeInv', replayQueued' = 0, NEW e \in Seq(Post), NEW b \in Post,
         openGame' = Append(e, b), Retainable(e, b)
  PROVE  OpenGameBounded'
<1>1. Len(games') \in Nat /\ openGame' \in Seq(Post)
  BY LenProperties DEF TypeInv, LineTypes
<1>2. 0 <= Len(games')
  BY <1>1
<1>3. /\ OpenGame' \in Seq(Post) /\ Len(OpenGame') = Kept'
      /\ Kept' = Len(openGame') + replayQueued' /\ Kept' <= Len(Held')
      /\ \A i \in 1 .. Kept' : OpenGame'[i] = Line'[i]
  BY <1>2, OpenFactsAfter
<1>4. /\ \A i \in 1 .. Len(openGame') : Held'[i] = openGame'[i]
      /\ \A i \in 1 .. Len(Held') : Line'[i] = Held'[i]
      /\ Len(openGame') \in Nat /\ Len(Held') \in Nat /\ Len(Held') = Len(openGame') + Len(games')
  BY LineFactsAfter
<1>5. Len(OpenGame') = Len(openGame')
  <2>1. Kept' = Len(openGame') + 0
    BY <1>3, Zenon
  <2>2. Len(openGame') + 0 = Len(openGame')
    BY <1>4
  <2> QED
    BY <1>3, <2>1, <2>2, Zenon
<1>6. SumOps(openGame') = SumOps(e) + Len(b.ops)
  BY SumAppend
<1>7. ASSUME NEW i \in 1 .. Len(OpenGame')
      PROVE  OpenGame'[i].ops = openGame'[i + 0].ops
  <2>1. i \in 1 .. Len(openGame') /\ i + 0 = i
    BY <1>5
  <2>2. i \in 1 .. Len(Held')
    BY <1>1, <1>4, <2>1
  <2>3. i \in 1 .. Kept'
    BY <1>3, Zenon
  <2> QED
    BY <1>3, <1>4, <2>1, <2>2, <2>3
<1>8. 0 \in Nat /\ Len(OpenGame') + 0 <= Len(openGame')
  BY <1>4, <1>5
<1>9. SumOps(OpenGame') <= SumOps(openGame')
  BY <1>1, <1>3, <1>7, <1>8, SumWithin
<1>10. SumOps(OpenGame') \in Nat /\ SumOps(openGame') \in Nat
  BY <1>1, <1>3, SumType
<1> QED
  BY <1>6, <1>9, <1>10, Constants DEF Retainable, OpenGameBounded

\* And it is one game: the batch starts it, or continues it where it was.
LEMMA AckContinues ==
  ASSUME IInv, GameAck, TypeInv', replayQueued = 0, AckAppends,
         Shifted(Line', Line, 0, 0)
  PROVE  Continues(Line', Len(openGame) + 1)
<1> USE DEF IInv
<1> DEFINE o == Len(openGame)
<1>1. /\ pc = "sent" /\ games # <<>> /\ games[1].epoch = declared.epoch
  BY AckCases
<1>2. openGame \in Seq(Post) /\ o \in Nat \ {0} /\ Kept = o + 0
  BY EmptySeq DEF TypeInv, LineTypes, AckAppends, Kept
<1>3. /\ games[1] \in Post /\ o + 1 \in 1 .. Len(Line) /\ Line[o + 1] = games[1]
  BY <1>1, LaterWait DEF LineInv
<1>4. Kept > 0 /\ Kept = o
  BY <1>2
<1>5. Line[1].epoch = declared.epoch
  BY <1>1, <1>4, FirstInEpoch
<1>6. Line \in Seq(Post) /\ Line' \in Seq(Post) /\ Len(Line) \in Nat
  BY LineFacts, LineFactsAfter, LenProperties
<1> HIDE DEF o
<1>7. Continues(Line, o) /\ Joined(Line)
  BY <1>4 DEF KeptInv, LineInv
<1>8. o \in 1 .. o /\ o \in 1 .. Len(Line) - 1
  BY <1>2, <1>3, <1>6
<1>9. Joins(Line[o], Line[o + 1])
  BY <1>7, <1>8 DEF Joined
<1>10. ~Starts(games[1]) /\ ~Ends(games[1])
  BY DEF AckAppends
<1>11. Line[o].epoch = Line[1].epoch /\ Line[o].n = Line[1].n + o - 1
  BY <1>7, <1>8 DEF Continues
<1>12. Line[o + 1].n = Line[o].n + 1
  BY <1>1, <1>3, <1>5, <1>9, <1>10, <1>11 DEF Joins
<1>13. Line[1] \in Post
  <2>1. 1 \in 1 .. Len(Line)
    BY <1>3, <1>2, <1>6
  <2> QED
    BY <1>6, <2>1, ElementOfSeq
<1>14. Line[1].n \in Nat
  BY <1>13, PostFields
<1>15. Line[o + 1].n = Line[1].n + (o + 1) - 1
  BY <1>2, <1>11, <1>12, <1>14
<1>16. Continues(Line, o + 1)
  <2> SUFFICES ASSUME NEW i \in 1 .. o + 1
               PROVE  /\ ~Ends(Line[i]) /\ Line[i].epoch = Line[1].epoch
                      /\ Line[i].n = Line[1].n + i - 1
                      /\ i > 1 => ~Starts(Line[i])
    BY DEF Continues
  <2>1. CASE i = o + 1
    BY <2>1, <1>1, <1>3, <1>5, <1>10, <1>15
  <2>2. CASE i # o + 1
    <3>1. i \in 1 .. o
      BY <1>2, <2>2
    <3> QED
      BY <3>1, <1>7 DEF Continues
  <2> QED
    BY <2>1, <2>2
<1>17. Len(Line') = Len(Line)
  <2>1. Len(Line') \in Nat /\ Len(Line') + 0 = Len(Line)
    BY <1>6, LenProperties DEF Shifted
  <2> QED
    BY <2>1
<1>18. o + 1 \in 0 .. Len(Line) /\ o + 1 \in 0 .. Len(Line')
  BY <1>2, <1>3, <1>17
<1>19. Continues(Line', o + 1)
  BY <1>6, <1>16, <1>18, ShiftedContinues
<1> QED
  BY <1>19 DEF o

\* What an acknowledgement has in common with the worker's other steps.
LEMMA AckQuiet ==
  ASSUME IInv, GameAck
  PROVE  /\ TypeInv' /\ ApiQuiet /\ Snapshots' \subseteq Snapshots
         /\ haveDeclared' => declared'.epoch <= current'.epoch
         /\ InSession /\ InSession' /\ ~replayPending /\ UNCHANGED <<epoch, identity>>
<1> USE DEF IInv
<1>0. /\ pc = "sent" /\ pc' = "send" /\ UNCHANGED session
      /\ UNCHANGED <<pushing, queue, refusing, batches>>
      /\ UNCHANGED <<current, declared, haveDeclared>>
  BY AckCases
<1>1. ApiQuiet /\ UNCHANGED posted
  BY <1>0, ApiQuietFrom
<1>2. Snapshots' \subseteq Snapshots
  BY <1>0, <1>1, SnapshotsStep
<1>3. haveDeclared' => declared'.epoch <= current'.epoch
  BY <1>0 DEF TableInv
<1>4. InSession /\ InSession' /\ ~replayPending
  BY <1>0 DEF InSession, SessionInv
<1> QED
  BY <1>1, <1>2, <1>3, <1>4, GameAckTypes DEF ApiQuiet

\* The acknowledged batch is not kept.
LEMMA AckGoneStep ==
  ASSUME IInv, GameAck, openGame' = <<>>
  PROVE  /\ TableInv' /\ BatchInv' /\ LineInv' /\ QueueInv' /\ IdsInOrder' /\ KeptInv'
         /\ Kept' > 0 => Line'[1].epoch = Line[1].epoch /\ Kept > 0
         /\ PeerAuthored \subseteq {TRUE} => ~(Kept' > 0)
<1> USE DEF IInv
<1>1. /\ games # <<>> /\ games[1] \in Post /\ PopGame /\ UNCHANGED <<queue, nextBatchId>>
      /\ gameOpenEpoch' = IF Ends(games[1]) THEN 0
                          ELSE IF Starts(games[1]) THEN games[1].epoch ELSE gameOpenEpoch
      /\ openGameIdentity' = IF Starts(games[1]) THEN declared.identity ELSE openGameIdentity
      /\ AckKeepsNone \/ AckGoes \/ AckDrops \/ AckStarts \/ AckAppends
  BY AckCases
<1>2. /\ TypeInv' /\ ApiQuiet /\ Snapshots' \subseteq Snapshots
      /\ haveDeclared' => declared'.epoch <= current'.epoch
      /\ InSession /\ UNCHANGED <<epoch, identity>>
  BY AckQuiet
<1>3. /\ replayQueued' <= Len(games') /\ Kept' = replayQueued'
      /\ replayQueued' = IF replayQueued > 0 THEN replayQueued - 1 ELSE 0
      /\ Without(Held', Held, 0, Len(openGame) + 1)
  BY AckLine
<1>4. RetainedIsKnown'
  BY AckKnown
<1>5. ~AckStarts /\ ~AckAppends
  <2>1. openGame \in Seq(Post) /\ <<>> \in Seq(Post)
    BY EmptySeq DEF TypeInv, LineTypes
  <2>2. Append(<<>>, games[1]) # <<>> /\ Append(openGame, games[1]) # <<>>
    BY <1>1, <2>1, AppendProperties
  <2> QED
    BY <2>2 DEF AckStarts, AckAppends
<1>6. replayQueued \in Nat
  BY DEF TypeInv, WorkerTypes
<1>7. CASE replayQueued = 0
  <2>1. Kept' = 0 /\ ~(Kept' > 0)
    BY <1>3, <1>7
  <2>2. Lets(0, Len(openGame) + 1)
    BY <1>1, <1>3 DEF Lets
  <2>3. /\ TableInv' /\ BatchInv' /\ LineInv' /\ QueueInv' /\ IdsInOrder'
        /\ Shifted(Line', Line, 0, Len(openGame) + 1)
    BY <1>2, <2>2, WorkerStep
  <2>4. Keeps(0, Len(openGame) + 1)
    BY <1>3, <2>1 DEF Keeps
  <2>5. KeptInv'
    BY <1>2, <1>4, <2>1, <2>3, <2>4, KeptSame
  <2> QED
    BY <2>1, <2>3, <2>5
<1>8. CASE replayQueued > 0
  <2>1. /\ ~Ends(games[1]) /\ Retainable(openGame, games[1])
        /\ Starts(games[1]) => openGame = <<>>
        /\ openGame = <<>> => Line[1] = games[1]
    BY <1>1, <1>8, AckRetains
  <2>2. openGame = <<>> /\ ~Starts(games[1])
    BY <1>1, <1>5, <2>1 DEF AckKeepsNone, AckGoes, AckDrops
  <2>3. UNCHANGED <<gameOpenEpoch, openGameIdentity>>
    BY <1>1, <2>1, <2>2
  <2>4. PeerAuthored \subseteq {TRUE} => Kept = 0
    <3>1. PeerAuthored \subseteq {TRUE} => ~(Kept > 0)
      BY <2>1, <2>2 DEF StartInv
    <3>2. Kept \in Nat
      BY LineFacts, <1>6 DEF Kept
    <3>3. Kept > 0 \/ Kept = 0
      BY <3>2
    <3> QED
      BY <3>1, <3>3, Zenon
  <2>5. replayQueued > 0 => UNCHANGED <<gameOpenEpoch, openGameIdentity>>
    BY <2>3
  <2> QED
    BY <1>1, <1>2, <2>2, <2>4, <2>5, PopStep
<1>9. replayQueued = 0 \/ replayQueued > 0
  BY <1>6
<1> QED
  BY <1>7, <1>8, <1>9, Zenon

\* The acknowledged batch starts the game that is kept.
LEMMA AckStartsStep ==
  ASSUME IInv, GameAck, AckStarts
  PROVE  /\ TableInv' /\ BatchInv' /\ LineInv' /\ QueueInv' /\ IdsInOrder' /\ KeptInv'
         /\ Line'[1] = games[1]
<1> USE DEF IInv
<1>1. /\ games # <<>> /\ games[1] \in Post /\ PopGame /\ UNCHANGED <<queue, nextBatchId>>
      /\ Authored /\ haveDeclared /\ games[1].epoch = declared.epoch
      /\ gameOpenEpoch' = games[1].epoch /\ openGameIdentity' = declared.identity
      /\ ~Ends(games[1]) /\ Starts(games[1]) /\ Retainable(<<>>, games[1])
      /\ openGame' = Append(<<>>, games[1])
  BY AckCases DEF AckStarts
<1>2. /\ TypeInv' /\ ApiQuiet /\ Snapshots' \subseteq Snapshots
      /\ haveDeclared' => declared'.epoch <= current'.epoch
      /\ UNCHANGED <<epoch, identity>>
  BY AckQuiet
<1>3. /\ replayQueued' <= Len(games') /\ Kept' = 1 + replayQueued'
      /\ replayQueued' = IF replayQueued > 0 THEN replayQueued - 1 ELSE 0
      /\ Without(Held', Held, 0, Len(openGame))
  BY AckLine
<1>4. RetainedIsKnown'
  BY AckKnown
<1>5. Lets(0, Len(openGame))
  BY <1>1, <1>3 DEF Lets
<1>6. /\ TableInv' /\ BatchInv' /\ LineInv' /\ QueueInv' /\ IdsInOrder'
      /\ Shifted(Line', Line, 0, Len(openGame))
  BY <1>2, <1>5, WorkerStep
<1>7. replayQueued \in Nat /\ replayQueued <= Len(games) /\ Continues(Line, Kept) /\ OpenGameBounded
  BY DEF TypeInv, WorkerTypes, KeptInv
<1>8. Line'[1] = games[1]
  <2> DEFINE e == <<>>
  <2>1. e \in Seq(Post) /\ Len(e) = 0 /\ openGame' = Append(e, games[1])
    BY <1>1, EmptySeq
  <2> HIDE DEF e
  <2>2. Len(openGame') = Len(e) + 1 /\ openGame'[Len(e) + 1] = games[1]
    BY <1>1, <2>1, AppendProperties
  <2>3. Len(e) + 1 = 1
    BY <2>1
  <2>4. Len(openGame') = 1 /\ openGame'[1] = games[1]
    BY <2>2, <2>3, Zenon
  <2>5. /\ \A i \in 1 .. Len(openGame') : Held'[i] = openGame'[i]
        /\ \A i \in 1 .. Len(Held') : Line'[i] = Held'[i]
        /\ Len(games') \in Nat /\ Len(Held') = Len(openGame') + Len(games')
    BY <1>2, LineFactsAfter
  <2>6. 1 \in 1 .. Len(openGame') /\ 1 \in 1 .. Len(Held')
    BY <2>4, <2>5
  <2> QED
    BY <2>4, <2>5, <2>6
<1>9. Continues(Line', Kept') /\ OpenGameBounded'
  <2>1. CASE replayQueued > 0
    <3>1. openGame = <<>>
      BY <1>1, <2>1, AckRetains
    <3>2. Len(openGame) = 0 /\ Kept = 0 + replayQueued
      BY <3>1, EmptySeq DEF Kept
    <3>3. Kept' = Kept
      <4>1. \A r \in Nat : r > 0 => 1 + (r - 1) = 0 + r
        OBVIOUS
      <4>2. replayQueued' = replayQueued - 1
        BY <1>3, <2>1
      <4>3. Kept' = 1 + (replayQueued - 1)
        BY <1>3, <4>2, Zenon
      <4> QED
        BY <1>7, <2>1, <3>2, <4>1, <4>3, Zenon
    <3>4. Continues(Line, Kept)' /\ OpenGameBounded'
      BY <1>2, <1>3, <1>6, <1>7, <3>2, <3>3, KeptStep
    <3> QED
      BY <3>4 DEF Continues
  <2>2. CASE replayQueued = 0
    <3>1. replayQueued' = 0
      BY <1>3, <2>2
    <3>2. Kept' = 1
      <4>1. Kept' = 1 + 0
        BY <1>3, <3>1, Zenon
      <4> QED
        BY <4>1
    <3>3. <<>> \in Seq(Post)
      BY EmptySeq
    <3>4. OpenGameBounded'
      BY <1>1, <1>2, <3>1, <3>3, AckBounded
    <3>5. games[1].n \in Nat
      BY <1>1, PostFields
    <3>6. Continues(Line', 1)
      <4> SUFFICES ASSUME NEW i \in 1 .. 1
                   PROVE  /\ ~Ends(Line'[i]) /\ Line'[i].epoch = Line'[1].epoch
                          /\ Line'[i].n = Line'[1].n + i - 1
                          /\ i > 1 => ~Starts(Line'[i])
        BY DEF Continues
      <4>1. i = 1
        OBVIOUS
      <4> QED
        BY <1>1, <1>8, <3>5, <4>1
    <3> QED
      BY <3>2, <3>4, <3>6
  <2> QED
    BY <1>7, <2>1, <2>2
<1>10. declared \in Snapshots /\ declared.machine # None
  BY <1>1 DEF Snapshots, Authored
<1>11. Declared(declared) /\ \A s \in Snapshots : Agree(s, declared)
  BY <1>10 DEF TableInv
<1>12. Line'[1].epoch = epoch' => openGameIdentity' <= identity'
  BY <1>1, <1>2, <1>8, <1>11 DEF Declared
<1>13. \A s \in Snapshots' :
         s.epoch = Line'[1].epoch /\ s.identity = openGameIdentity' => s.machine # None
  BY <1>1, <1>2, <1>8, <1>10, <1>11 DEF Agree
<1>14. KeptInv'
  <2>1. /\ (Kept > 0 => gameOpenEpoch = Line[1].epoch)'
        /\ (Kept > 0 /\ Line[1].epoch = epoch => openGameIdentity <= identity)'
        /\ (Kept > 0 => \A s \in Snapshots :
             s.epoch = Line[1].epoch /\ s.identity = openGameIdentity => s.machine # None)'
    BY <1>1, <1>8, <1>12, <1>13
  <2>2. Continues(Line, Kept)'
    BY <1>9 DEF Continues
  <2> QED
    BY <1>3, <1>4, <1>9, <2>1, <2>2 DEF KeptInv
<1> QED
  BY <1>6, <1>8, <1>14

\* The acknowledged batch continues the game that is kept.
LEMMA AckAppendsStep ==
  ASSUME IInv, GameAck, AckAppends
  PROVE  /\ TableInv' /\ BatchInv' /\ LineInv' /\ QueueInv' /\ IdsInOrder' /\ KeptInv'
         /\ Kept > 0 /\ Line'[1].epoch = Line[1].epoch /\ Line'[1].ops = Line[1].ops
<1> USE DEF IInv
<1>1. /\ games # <<>> /\ games[1] \in Post /\ PopGame /\ UNCHANGED <<queue, nextBatchId>>
      /\ ~Ends(games[1]) /\ ~Starts(games[1]) /\ Retainable(openGame, games[1])
      /\ openGame # <<>> /\ openGame' = Append(openGame, games[1])
      /\ gameOpenEpoch' = IF Ends(games[1]) THEN 0
                          ELSE IF Starts(games[1]) THEN games[1].epoch ELSE gameOpenEpoch
      /\ openGameIdentity' = IF Starts(games[1]) THEN declared.identity ELSE openGameIdentity
  BY AckCases DEF AckAppends
<1>2. /\ TypeInv' /\ ApiQuiet /\ Snapshots' \subseteq Snapshots
      /\ haveDeclared' => declared'.epoch <= current'.epoch
      /\ UNCHANGED <<epoch, identity>>
  BY AckQuiet
<1>3. /\ replayQueued' <= Len(games') /\ Kept' = Len(openGame) + 1 + replayQueued'
      /\ replayQueued' = IF replayQueued > 0 THEN replayQueued - 1 ELSE 0
      /\ Without(Held', Held, 0, 0)
  BY AckLine
<1>4. RetainedIsKnown'
  BY AckKnown
<1>5. Lets(0, 0)
  BY <1>1, <1>3 DEF Lets
<1>6. /\ TableInv' /\ BatchInv' /\ LineInv' /\ QueueInv' /\ IdsInOrder'
      /\ Shifted(Line', Line, 0, 0)
  BY <1>2, <1>5, WorkerStep
<1>7. /\ replayQueued \in Nat /\ replayQueued <= Len(games) /\ Continues(Line, Kept)
      /\ OpenGameBounded /\ openGame \in Seq(Post) /\ Len(openGame) \in Nat \ {0}
  BY <1>1, EmptySeq DEF TypeInv, WorkerTypes, LineTypes, KeptInv
<1>8. Kept = Len(openGame) + replayQueued /\ Kept > 0
  BY <1>7 DEF Kept
<1>9. gameOpenEpoch' = gameOpenEpoch /\ openGameIdentity' = openGameIdentity
  BY <1>1
<1>10. Line'[1].epoch = Line[1].epoch /\ Line'[1].ops = Line[1].ops
  <2>1. /\ Len(Line) \in Nat /\ Len(Line') \in Nat /\ Len(Line') + 0 = Len(Line)
        /\ \A i \in 1 .. Len(Line') : i > 0 => Same(Line'[i], Line[i + 0])
    <3>1. Line \in Seq(Post) /\ Line' \in Seq(Post)
      BY <1>2, LineFacts, LineFactsAfter
    <3> QED
      BY <3>1, <1>6, ShiftedPlaces
  <2>2. Len(openGame) + 1 \in 1 .. Len(Line)
    BY <1>1, LaterWait DEF LineInv
  <2>3. 1 \in 1 .. Len(Line') /\ 1 + 0 = 1
    BY <1>7, <2>1, <2>2
  <2>4. Same(Line'[1], Line[1])
    BY <2>1, <2>3
  <2> QED
    BY <2>4 DEF Same
<1>11. Continues(Line', Kept') /\ OpenGameBounded'
  <2>1. CASE replayQueued > 0
    <3>1. replayQueued' = replayQueued - 1
      BY <1>3, <2>1
    <3>2. Kept' = Kept
      <4>1. \A o, r \in Nat : r > 0 => o + 1 + (r - 1) = o + r
        OBVIOUS
      <4>2. Kept' = Len(openGame) + 1 + (replayQueued - 1)
        BY <1>3, <3>1, Zenon
      <4>3. Len(openGame) \in Nat
        BY <1>7
      <4> QED
        BY <1>7, <1>8, <2>1, <4>1, <4>2, <4>3, Zenon
    <3>3. Continues(Line, Kept)' /\ OpenGameBounded'
      BY <1>2, <1>3, <1>6, <1>7, <3>2, KeptStep
    <3> QED
      BY <3>3 DEF Continues
  <2>2. CASE replayQueued = 0
    <3>1. replayQueued' = 0
      BY <1>3, <2>2
    <3>2. Kept' = Len(openGame) + 1
      <4>1. Kept' = Len(openGame) + 1 + 0
        BY <1>3, <3>1, Zenon
      <4>2. Len(openGame) + 1 + 0 = Len(openGame) + 1
        BY <1>7
      <4> QED
        BY <4>1, <4>2, Zenon
    <3>3. OpenGameBounded'
      BY <1>1, <1>2, <1>7, <3>1, AckBounded
    <3>4. Continues(Line', Len(openGame) + 1)
      BY <1>2, <1>6, <2>2, AckContinues
    <3> QED
      BY <3>2, <3>3, <3>4
  <2>3. replayQueued = 0 \/ replayQueued > 0
    BY <1>7
  <2> QED
    BY <2>1, <2>2, <2>3, Zenon
<1>12. KeptInv'
  <2>0. /\ gameOpenEpoch = Line[1].epoch
        /\ Line[1].epoch = epoch => openGameIdentity <= identity
        /\ \A s \in Snapshots :
             s.epoch = Line[1].epoch /\ s.identity = openGameIdentity => s.machine # None
    BY <1>8 DEF KeptInv
  <2>1. /\ (Kept > 0 => gameOpenEpoch = Line[1].epoch)'
        /\ (Kept > 0 /\ Line[1].epoch = epoch => openGameIdentity <= identity)'
        /\ (Kept > 0 => \A s \in Snapshots :
             s.epoch = Line[1].epoch /\ s.identity = openGameIdentity => s.machine # None)'
    BY <2>0, <1>2, <1>9, <1>10
  <2>2. Continues(Line, Kept)'
    BY <1>11 DEF Continues
  <2> QED
    BY <1>3, <1>4, <1>11, <2>1, <2>2 DEF KeptInv
<1> QED
  BY <1>6, <1>8, <1>10, <1>12

\* GameAck: whatever is kept is of the declared table and of a daemon that serves it.
LEMMA GameAckStep == IInv /\ GameAck => IInv'
<1> SUFFICES ASSUME IInv, GameAck PROVE IInv'
  OBVIOUS
<1> USE DEF IInv
<1>0. /\ pc = "sent" /\ pc' = "send" /\ games # <<>>
      /\ games[1].epoch = declared.epoch /\ Authored /\ haveDeclared
      /\ AckKeepsNone \/ AckGoes \/ AckDrops \/ AckStarts \/ AckAppends
      /\ UNCHANGED queue
      /\ UNCHANGED <<caller, current, declared, haveDeclared, peerAuthored>>
      /\ UNCHANGED <<replayPending>>
  BY AckCases
<1>1. TypeInv' /\ InSession /\ InSession' /\ ~replayPending
  BY AckQuiet
<1>2. openGame' = <<>> \/ AckStarts \/ AckAppends
  BY <1>0 DEF AckKeepsNone, AckGoes, AckDrops
<1>3. declared.machine # None /\ peerAuthored
  BY <1>0 DEF Authored
<1>4. Kept > 0 => Line[1].epoch = declared.epoch
  BY <1>0, FirstInEpoch
<1>5. /\ TableInv' /\ BatchInv' /\ LineInv' /\ QueueInv' /\ IdsInOrder' /\ KeptInv'
      /\ Kept' > 0 => Line'[1].epoch = declared.epoch
      /\ PeerAuthored \subseteq {TRUE} /\ Kept' > 0 => Starts(Line'[1])
  <2>1. CASE openGame' = <<>>
    BY <2>1, <1>4, AckGoneStep
  <2>2. CASE AckStarts
    <3>1. Starts(games[1])
      BY <2>2 DEF AckStarts
    <3> QED
      BY <2>2, <3>1, <1>0, AckStartsStep
  <2>3. CASE AckAppends
    <3>1. Kept > 0 /\ Line'[1].epoch = Line[1].epoch /\ Line'[1].ops = Line[1].ops
      BY <2>3, AckAppendsStep
    <3>2. PeerAuthored \subseteq {TRUE} => Starts(Line'[1])
      BY <3>1 DEF StartInv, Starts
    <3> QED
      BY <2>3, <3>1, <3>2, <1>4, AckAppendsStep
  <2> QED
    BY <1>2, <2>1, <2>2, <2>3
<1>6. SessionInv'
  BY <1>0, <1>1, <1>3, <1>5 DEF SessionInv
<1>7. FlushInv'
  BY <1>0 DEF FlushInv, FlushedFirst
<1>8. StartInv'
  BY <1>1, <1>3, <1>5, <1>0 DEF StartInv
<1> QED
  BY <1>1, <1>5, <1>6, <1>7, <1>8

-----------------------------------------------------------------------------
(* The steps of the API thread.                                            *)

\* The declaration that is posted: the epoch's, and with a new identity where the machine is
\* another one.
LEMMA UpdateFacts ==
  ASSUME TypeInv, TableInv, UpdateDeclare
  PROVE  /\ posted'.epoch = epoch' /\ posted'.identity = identity'
         /\ posted'.machine # None => posted'.machine = machine'
         /\ identity <= identity'
         /\ epoch' = epoch /\ identity' = identity => posted'.machine = posted.machine
<1> DEFINE m == IF AuthoredReady' THEN machine' ELSE None
           now == [epoch |-> epoch', identity |-> identity, rom |-> rom',
                   machine |-> m, display |-> display']
<1>1. /\ identity' = IF now.epoch = posted.epoch /\ NewIdentity(posted, now)
                    THEN identity + 1 ELSE identity
      /\ posted' = [now EXCEPT !.identity = identity']
  BY DEF UpdateDeclare
<1>2. identity \in Nat /\ posted.epoch = epoch
  BY DEF TypeInv, ApiTypes, TableInv
<1>3. m # None => m = machine'
  OBVIOUS
<1> HIDE DEF m
<1>4. /\ posted'.epoch = epoch' /\ posted'.identity = identity' /\ posted'.machine = m
      /\ now.epoch = epoch' /\ now.machine = m
  BY <1>1
<1> HIDE DEF now
<1>5. identity <= identity' /\ (identity' = identity => ~(epoch' = epoch /\ NewIdentity(posted, now)))
  BY <1>1, <1>2, <1>4
<1> QED
  BY <1>3, <1>4, <1>5 DEF NewIdentity

\* What a handler that posts a declaration leaves alone.
LEMMA DeclareQuiet ==
  ASSUME TypeInv, UNCHANGED <<handoff, worker, dLog, bounds>>
  PROVE  /\ UNCHANGED <<pushing, queue, refusing, batches, pc, caller, current, declared>>
         /\ UNCHANGED <<haveDeclared, peerAuthored, games, gameOpenEpoch, openGame>>
         /\ UNCHANGED <<openGameIdentity, replayPending, replayQueued, nextBatchId, dLog>>
BY DEF handoff, worker, link, retained, replay

\* The tables after such a handler: whatever is still on its way is of an older epoch or identity,
\* or of the machine that is named now.
LEMMA DeclareTable ==
  ASSUME TypeInv, TypeInv', TableInv, UpdateDeclare, Idle, epoch <= epoch',
         epoch' = epoch => machine' = machine \/ machine = None,
         UNCHANGED <<handoff, worker, dLog, bounds>>
  PROVE  TableInv' /\ \A s \in Snapshots' : s = posted' \/ s \in Snapshots
<1>0. /\ UNCHANGED <<pushing, current, declared, haveDeclared>>
      /\ epoch \in Nat /\ epoch' \in Nat /\ identity \in Nat /\ identity' \in Nat
  BY DeclareQuiet DEF TypeInv, ApiTypes
<1>1. /\ posted'.epoch = epoch' /\ posted'.identity = identity'
      /\ posted'.machine # None => posted'.machine = machine'
      /\ identity <= identity'
      /\ epoch' = epoch /\ identity' = identity => posted'.machine = posted.machine
  BY UpdateFacts
<1>2. \A s \in Snapshots' : s = posted' \/ s \in Snapshots
  BY <1>0 DEF Snapshots
<1>3. /\ posted.epoch = epoch /\ posted.identity = identity /\ posted \in Snapshots
      /\ \A s \in Snapshots : Declared(s)
      /\ \A s, t \in Snapshots : Agree(s, t)
  BY DEF TableInv, Snapshots
<1>4. \A s \in Snapshots : s.epoch \in Nat /\ s.identity \in Nat
  BY SnapshotFields DEF TypeInv, ApiTypes, WorkerTypes, Snapshots
<1>5. \A s \in Snapshots : s.epoch = epoch' => epoch' = epoch
  BY <1>0, <1>3, <1>4 DEF Declared
<1>6. ASSUME NEW s \in Snapshots
      PROVE  Declared(s)'
  <2>1. s.epoch <= epoch'
    BY <1>0, <1>3, <1>4 DEF Declared
  <2>2. s.epoch = epoch' => s.identity <= identity'
    BY <1>0, <1>1, <1>3, <1>4, <1>5 DEF Declared
  <2>3. s.epoch = epoch' /\ s.machine # None => s.machine = machine'
    BY <1>3, <1>5 DEF Declared
  <2> QED
    BY <2>1, <2>2, <2>3 DEF Declared
<1>7. Declared(posted)'
  BY <1>0, <1>1 DEF Declared
<1>8. \A s \in Snapshots' : Declared(s)'
  BY <1>2, <1>6, <1>7
<1>9. ASSUME NEW s \in Snapshots, s.epoch = epoch', s.identity = identity'
      PROVE  s.machine = posted'.machine
  <2>1. epoch' = epoch /\ s.epoch = epoch
    BY <1>5, <1>9
  <2>2. s.identity <= identity
    BY <1>3, <2>1 DEF Declared
  <2>3. identity' = identity
    BY <1>0, <1>1, <1>4, <1>9, <2>2
  <2>4. s.machine = posted.machine
    BY <1>3, <1>9, <2>1, <2>3 DEF Agree
  <2> QED
    BY <1>1, <2>1, <2>3, <2>4
<1>10. \A s, t \in Snapshots' : Agree(s, t)
  BY <1>1, <1>2, <1>3, <1>9 DEF Agree
<1>11. \A s, t \in Snapshots' : Agree(s, t)'
  BY <1>10 DEF Agree
<1>12. pushing' = <<>>
  BY <1>0 DEF Idle
<1>13. (haveDeclared => declared.epoch <= current.epoch)'
  BY <1>0 DEF TableInv
<1> QED
  BY <1>1, <1>2, <1>8, <1>11, <1>12, <1>13 DEF TableInv

\* The batches on their way after such a handler.
LEMMA DeclareBatches ==
  ASSUME TypeInv, TypeInv', TableInv, BatchInv, LineInv, UpdateDeclare, Idle, epoch <= epoch',
         epoch' = epoch => machine' = machine \/ machine = None,
         UNCHANGED <<handoff, worker, dLog, bounds>>
  PROVE  /\ BatchInv' /\ LineInv' /\ Line' = Line
         /\ \A i \in 1 .. Len(Line) : Line[i].epoch = epoch' => epoch' = epoch
<1>0. /\ UNCHANGED <<queue, games, openGame, batches, refusing>>
      /\ epoch \in Nat /\ epoch' \in Nat
  BY DeclareQuiet DEF TypeInv, ApiTypes
<1>1. Line' = Line
  BY <1>0 DEF Line, Held
<1>2. \A s \in Snapshots' : s = posted' \/ s \in Snapshots
  BY DeclareTable
<1>3. /\ posted'.epoch = epoch' /\ (posted'.machine # None => posted'.machine = machine')
  BY UpdateFacts
<1>4. Line \in Seq(Post) /\ \A i \in 1 .. Len(Line) : Line[i] \in Post
  BY LineFacts
<1>5. \A i \in 1 .. Len(Line) : Line[i].epoch \in Nat /\ Line[i].machine # None
  BY <1>4, PostFields, Constants
<1>6. \A i \in 1 .. Len(Line) : OfTable(Line[i])
  BY DEF BatchInv
<1>7. \A i \in 1 .. Len(Line) : Line[i].epoch = epoch' => epoch' = epoch
  BY <1>0, <1>5, <1>6 DEF OfTable
<1>8. ASSUME NEW i \in 1 .. Len(Line)
      PROVE  OfTable(Line[i])'
  <2>1. Line[i].epoch <= epoch' /\ Line[i].n <= batches'
    BY <1>0, <1>5, <1>6 DEF OfTable
  <2>2. Line[i].epoch = epoch' => Line[i].machine = machine'
    BY <1>5, <1>6, <1>7 DEF OfTable
  <2>3. \A s \in Snapshots' :
          Line[i].epoch = s.epoch /\ s.machine # None => Line[i].machine = s.machine
    BY <1>2, <1>3, <1>6, <2>2 DEF OfTable
  <2> QED
    BY <1>1, <2>1, <2>2, <2>3 DEF OfTable
<1>9. BatchInv'
  <2> SUFFICES ASSUME NEW i \in 1 .. Len(Line') PROVE OfTable(Line[i])'
    BY DEF BatchInv
  <2> QED
    BY <1>1, <1>8
<1>10. Open(Line)'
  <2>1. Line # <<>> => Len(Line) \in 1 .. Len(Line)
    BY <1>4, EmptySeq
  <2>2. Line # <<>> /\ Line[Len(Line)].epoch = epoch' => epoch' = epoch
    BY <1>7, <2>1
  <2> QED
    BY <1>0, <1>1, <2>2 DEF LineInv, Open
<1>11. Ordered(Line') /\ Joined(Line')
  BY <1>1 DEF LineInv
<1>12. LineInv'
  BY <1>10, <1>11 DEF LineInv
<1> QED
  BY <1>1, <1>7, <1>9, <1>12

\* A handler that posts a declaration.
LEMMA DeclareStep ==
  ASSUME IInv, TypeInv', UpdateDeclare, Idle, epoch <= epoch',
         epoch' = epoch => machine' = machine \/ machine = None,
         UNCHANGED <<handoff, worker, dLog, bounds>>
  PROVE  IInv'
<1> USE DEF IInv
<1>0. /\ UNCHANGED <<pushing, queue, refusing, batches, pc, caller, current, declared>>
      /\ UNCHANGED <<haveDeclared, peerAuthored, games, gameOpenEpoch, openGame>>
      /\ UNCHANGED <<openGameIdentity, replayPending, replayQueued, nextBatchId, dLog>>
  BY DeclareQuiet
<1>1. TableInv' /\ \A s \in Snapshots' : s = posted' \/ s \in Snapshots
  BY DeclareTable
<1>2. /\ BatchInv' /\ LineInv' /\ Line' = Line
      /\ \A i \in 1 .. Len(Line) : Line[i].epoch = epoch' => epoch' = epoch
  BY DeclareBatches
<1>3. QueueInv'
  BY <1>0, QueueStep
<1>4. IdsInOrder'
  BY <1>0 DEF IdsInOrder
<1>5. Kept' = Kept /\ OpenGame' = OpenGame
  BY <1>0 DEF Kept, OpenGame
<1>6. KeptInv'
  <2>1. /\ posted'.epoch = epoch' /\ posted'.identity = identity' /\ identity <= identity'
        /\ epoch' = epoch /\ identity' = identity => posted'.machine = posted.machine
    BY UpdateFacts
  <2>2. /\ identity \in Nat /\ identity' \in Nat /\ openGameIdentity \in Nat
        /\ posted.epoch = epoch /\ posted.identity = identity /\ posted \in Snapshots
    BY DEF TypeInv, ApiTypes, WorkerTypes, TableInv, Snapshots
  <2>3. Kept > 0 => /\ gameOpenEpoch = Line[1].epoch
                    /\ Line[1].epoch = epoch => openGameIdentity <= identity
                    /\ \A s \in Snapshots :
                         s.epoch = Line[1].epoch /\ s.identity = openGameIdentity => s.machine # None
    BY DEF KeptInv
  <2>4. Kept > 0 /\ Line[1].epoch = epoch' => epoch' = epoch
    <3>1. replayQueued <= Len(games)
      BY DEF KeptInv
    <3>2. Kept \in 0 .. Len(Line) /\ Len(Line) \in Nat
      BY <3>1, OpenFacts, LineFacts
    <3>3. Kept > 0 => 1 \in 1 .. Len(Line)
      BY <3>2
    <3> QED
      BY <1>2, <3>3
  <2>5. Kept > 0 /\ Line[1].epoch = epoch' => openGameIdentity <= identity'
    BY <2>1, <2>2, <2>3, <2>4
  <2>6. ASSUME Kept > 0, posted'.epoch = Line[1].epoch, posted'.identity = openGameIdentity
        PROVE  posted'.machine # None
    <3>1. epoch' = epoch /\ Line[1].epoch = epoch
      BY <2>1, <2>4, <2>6
    <3>2. identity' = openGameIdentity /\ openGameIdentity <= identity
      BY <2>1, <2>3, <2>6, <3>1
    <3>3. identity' = identity
      BY <2>1, <2>2, <3>2
    <3> QED
      BY <2>1, <2>2, <2>3, <2>6, <3>1, <3>2, <3>3
  <2>7. Kept > 0 => \A s \in Snapshots' :
          s.epoch = Line[1].epoch /\ s.identity = openGameIdentity => s.machine # None
    BY <1>1, <2>3, <2>6
  <2>8. /\ (Kept > 0 => gameOpenEpoch = Line[1].epoch)'
        /\ (Kept > 0 /\ Line[1].epoch = epoch => openGameIdentity <= identity)'
        /\ (Kept > 0 => \A s \in Snapshots :
             s.epoch = Line[1].epoch /\ s.identity = openGameIdentity => s.machine # None)'
    BY <1>0, <1>2, <1>5, <2>3, <2>5, <2>7
  <2>9. Continues(Line, Kept)'
    BY <1>2, <1>5 DEF KeptInv, Continues
  <2>10. OpenGameBounded'
    BY <1>5 DEF KeptInv, OpenGameBounded, SumOps, CallsOf
  <2>11. RetainedIsKnown'
    BY <1>0 DEF KeptInv, RetainedIsKnown, InSession
  <2> QED
    BY <1>0, <2>8, <2>9, <2>10, <2>11 DEF KeptInv
<1>7. SessionInv'
  BY <1>0, <1>2, <1>5 DEF SessionInv, InSession, Authored
<1>8. FlushInv'
  BY <1>0 DEF FlushInv, FlushedFirst, Authored
<1>9. StartInv'
  BY <1>0, <1>2, <1>5 DEF StartInv, InSession
<1> QED
  BY <1>1, <1>2, <1>3, <1>4, <1>6, <1>7, <1>8, <1>9

\* The handlers: an epoch ends with the table or the machine it names.
LEMMA OnGameStartStep == IInv /\ OnGameStart => IInv'
<1> SUFFICES ASSUME IInv, OnGameStart PROVE IInv'
  OBVIOUS
<1>0. /\ Idle /\ paths' = TRUE /\ epoch' = epoch + 1 /\ UNCHANGED <<machine, rom, display, ops>>
      /\ UpdateDeclare /\ UNCHANGED <<handoff, worker, dLog, bounds>>
  BY DEF OnGameStart
<1>1. TypeInv /\ epoch \in Nat
  BY DEF IInv, TypeInv, ApiTypes
<1>2. epoch' \in Nat /\ epoch <= epoch' /\ epoch' # epoch
  BY <1>0, <1>1
<1>3. TypeInv'
  BY <1>0, <1>1, <1>2, DeclareTypes DEF TypeInv, ApiTypes
<1> QED
  BY <1>0, <1>2, <1>3, DeclareStep

\* The table ends, and with it its epoch and its machine.
LEMMA OnGameEndStep == IInv /\ OnGameEnd => IInv'
<1> SUFFICES ASSUME IInv, OnGameEnd PROVE IInv'
  OBVIOUS
<1>0. /\ Idle /\ paths' = FALSE /\ epoch' = epoch + 1 /\ machine' = None /\ ops' = <<>>
      /\ UNCHANGED <<rom, display>>
      /\ UpdateDeclare /\ UNCHANGED <<handoff, worker, dLog, bounds>>
  BY DEF OnGameEnd
<1>1. TypeInv /\ epoch \in Nat
  BY DEF IInv, TypeInv, ApiTypes
<1>2. epoch' \in Nat /\ epoch <= epoch' /\ epoch' # epoch
  BY <1>0, <1>1
<1>3. ops' \in Seq(Kind)
  BY <1>0
<1>4. TypeInv'
  BY <1>0, <1>1, <1>2, <1>3, DeclareTypes DEF TypeInv, ApiTypes
<1> QED
  BY <1>0, <1>2, <1>4, DeclareStep

\* The script names a machine: the first one of the epoch, or one that opens an epoch.
LEMMA DeclareMachineStep ==
  ASSUME NEW m \in Machines, IInv, DeclareMachine(m)
  PROVE  IInv'
<1>0. /\ Idle /\ machine' = m
      /\ \/ machine = None /\ UNCHANGED <<epoch, ops>>
         \/ epoch' = epoch + 1 /\ ops' = <<>>
      /\ UNCHANGED <<paths, rom, display>>
      /\ UpdateDeclare /\ UNCHANGED <<handoff, worker, dLog, bounds>>
  BY DEF DeclareMachine, ReplacesMachine
<1>1. TypeInv /\ epoch \in Nat
  BY DEF IInv, TypeInv, ApiTypes
<1>2. epoch' \in Nat /\ epoch <= epoch' /\ (epoch' = epoch => machine = None)
  BY <1>0, <1>1
<1>3. ops' \in Seq(Kind)
  <2>1. ops \in Seq(Kind) /\ <<>> \in Seq(Kind)
    BY DEF IInv, TypeInv, ApiTypes
  <2>2. ops' = ops \/ ops' = <<>>
    BY <1>0
  <2> QED
    BY <2>1, <2>2, Zenon
<1>4. TypeInv'
  BY <1>0, <1>1, <1>2, <1>3, DeclareTypes DEF TypeInv, ApiTypes
<1> QED
  BY <1>0, <1>2, <1>4, DeclareStep

\* A ROM comes or goes: the epoch and the machine stay.
LEMMA SetRomIdStep ==
  ASSUME NEW r \in RomIds \cup {None}, IInv, SetRomId(r)
  PROVE  IInv'
<1>0. /\ Idle /\ rom' = r /\ UNCHANGED <<epoch, machine, paths, display, ops>>
      /\ UpdateDeclare /\ UNCHANGED <<handoff, worker, dLog, bounds>>
  BY DEF SetRomId
<1>1. TypeInv /\ epoch \in Nat
  BY DEF IInv, TypeInv, ApiTypes
<1>2. epoch' \in Nat /\ epoch <= epoch'
  BY <1>0, <1>1
<1>3. TypeInv'
  BY <1>0, <1>1, <1>2, DeclareTypes DEF TypeInv, ApiTypes
<1> QED
  BY <1>0, <1>2, <1>3, DeclareStep

\* A display changes: the epoch and the machine stay.
LEMMA DisplayChangedStep == IInv /\ DisplayChanged => IInv'
<1> SUFFICES ASSUME IInv, DisplayChanged PROVE IInv'
  OBVIOUS
<1>0. /\ Idle /\ display' = display + 1 /\ UNCHANGED <<epoch, machine, paths, rom, ops>>
      /\ UpdateDeclare /\ UNCHANGED <<handoff, worker, dLog, bounds>>
  BY DEF DisplayChanged
<1>1. TypeInv /\ epoch \in Nat /\ display \in Nat
  BY DEF IInv, TypeInv, ApiTypes
<1>2. epoch' \in Nat /\ epoch <= epoch' /\ display' \in Nat
  BY <1>0, <1>1
<1>3. TypeInv'
  BY <1>0, <1>1, <1>2, DeclareTypes DEF TypeInv, ApiTypes
<1> QED
  BY <1>0, <1>2, <1>3, DeclareStep

\* A step that touches nothing the invariant speaks of, but for what is being committed.
LEMMA QuietStep ==
  ASSUME IInv, TypeInv', pushing' # <<>> => machine # None,
         UNCHANGED <<epoch, identity, machine, posted, queue, refusing, batches>>,
         UNCHANGED <<worker, dLog>>
  PROVE  IInv'
<1> USE DEF IInv
<1>0. /\ UNCHANGED <<epoch, identity, machine, posted, queue, refusing, batches>>
      /\ UNCHANGED <<pc, caller, current, declared, haveDeclared, peerAuthored>>
      /\ UNCHANGED <<games, gameOpenEpoch, openGame, openGameIdentity>>
      /\ UNCHANGED <<replayPending, replayQueued, nextBatchId, dLog>>
  BY DEF worker, link, retained, replay
<1>1. Line' = Line /\ Kept' = Kept /\ OpenGame' = OpenGame /\ Snapshots' = Snapshots
  BY <1>0 DEF Line, Held, Kept, OpenGame, Snapshots
<1>2. TableInv'
  <2>1. (\A s \in Snapshots : Declared(s))' /\ (\A s, t \in Snapshots : Agree(s, t))'
    BY <1>0, <1>1 DEF TableInv, Declared, Agree
  <2> QED
    BY <1>0, <2>1 DEF TableInv
<1>3. BatchInv'
  BY <1>0, <1>1 DEF BatchInv, OfTable
<1>4. LineInv'
  BY <1>0, <1>1 DEF LineInv, Ordered, Joined, Open
<1>5. QueueInv'
  BY <1>0, QueueStep
<1>6. KeptInv'
  <2>1. Continues(Line, Kept)' /\ OpenGameBounded' /\ RetainedIsKnown'
    BY <1>0, <1>1
       DEF KeptInv, Continues, OpenGameBounded, SumOps, CallsOf, RetainedIsKnown, InSession
  <2> QED
    BY <1>0, <1>1, <2>1 DEF KeptInv
<1>7. SessionInv'
  BY <1>0, <1>1 DEF SessionInv, InSession, Authored
<1>8. FlushInv'
  BY <1>0 DEF FlushInv, FlushedFirst, Authored
<1>9. StartInv'
  BY <1>0, <1>1 DEF StartInv, InSession
<1>10. IdsInOrder'
  BY <1>0 DEF IdsInOrder
<1> QED
  BY <1>2, <1>3, <1>4, <1>5, <1>6, <1>7, <1>8, <1>9, <1>10

\* A call of the script, and its commit, which is of a table that names its machine.
LEMMA ScriptGameOpStep ==
  ASSUME NEW kind \in Kind, IInv, ScriptGameOp(kind)
  PROVE  IInv'
<1>0. /\ ops' = Append(ops, kind) /\ calls' = calls + 1
      /\ UNCHANGED <<epoch, identity, machine, paths, rom, display, posted, unread>>
      /\ UNCHANGED <<pushing, queue, refusing, batches, game, losses, restarts, cut>>
      /\ UNCHANGED <<worker, dLog>>
  BY DEF ScriptGameOp, session, handoff
<1>1. TypeInv /\ ops \in Seq(Kind) /\ calls \in Nat
  BY DEF IInv, TypeInv, ApiTypes
<1>2. ops' \in Seq(Kind) /\ calls' \in Nat
  BY <1>0, <1>1
<1>3. ApiTypes'
  BY <1>0, <1>1, <1>2 DEF TypeInv, ApiTypes
<1>4. TypeInv'
  BY <1>0, <1>1, <1>3, WorkerQuietTypes DEF TypeInv
<1>5. pushing' # <<>> => machine # None
  BY <1>0 DEF IInv, TableInv
<1> QED
  BY <1>0, <1>4, <1>5, QuietStep

\* A commit of a table that is not ready is dropped, so what is pushed has a machine.
LEMMA ScriptCommitStep == IInv /\ ScriptCommit => IInv'
<1> SUFFICES ASSUME IInv, ScriptCommit PROVE IInv'
  OBVIOUS
<1>0. /\ ops' = <<>> /\ pushing' = IF AuthoredReady THEN ops ELSE <<>>
      /\ UNCHANGED <<epoch, identity, machine, paths, rom, display, posted, unread>>
      /\ UNCHANGED <<queue, refusing, batches, game, calls, losses, restarts, cut>>
      /\ UNCHANGED <<worker, dLog>>
  BY DEF ScriptCommit, session, bounds
<1>1. TypeInv /\ ops \in Seq(Kind) /\ <<>> \in Seq(Kind)
  BY DEF IInv, TypeInv, ApiTypes
<1>2. ops' \in Seq(Kind) /\ pushing' \in Seq(Kind)
  BY <1>0, <1>1
<1>3. ApiTypes'
  BY <1>0, <1>1, <1>2 DEF TypeInv, ApiTypes
<1>4. TypeInv'
  BY <1>0, <1>1, <1>3, WorkerQuietTypes DEF TypeInv
<1>5. pushing' # <<>> => machine # None
  BY <1>0 DEF AuthoredReady
<1> QED
  BY <1>0, <1>4, <1>5, QuietStep

\* And a step that touches nothing at all.
LEMMA StutterStep == IInv /\ UNCHANGED vars => IInv'
<1> SUFFICES ASSUME IInv, UNCHANGED vars PROVE IInv'
  OBVIOUS
<1>0. /\ UNCHANGED <<epoch, identity, machine, paths, rom, display, posted, unread, ops>>
      /\ UNCHANGED <<pushing, queue, refusing, batches, game, calls, losses, restarts, cut>>
      /\ UNCHANGED <<worker, dLog>>
  BY DEF vars, session, handoff, bounds
<1>1. ApiTypes'
  BY <1>0 DEF IInv, TypeInv, ApiTypes
<1>2. TypeInv'
  BY <1>0, <1>1, WorkerQuietTypes DEF IInv, TypeInv
<1>3. pushing' # <<>> => machine # None
  BY <1>0 DEF IInv, TableInv
<1> QED
  BY <1>0, <1>2, <1>3, QuietStep

\* What Push takes out of the queue leaves the line in order: behind the gap a game starts,
\* or nothing follows.
LEMMA LineCut ==
  ASSUME NEW x \in Seq(Post), NEW q \in Seq(Post), NEW i \in 1 .. Len(q) + 1,
         i <= Len(q) => i = 1 \/ Starts(q[i]), Ordered(x \o q), Joined(x \o q)
  PROVE  /\ x \o From(q, i) \in Seq(Post)
         /\ Shifted(x \o From(q, i), x \o q, Len(x), i - 1)
         /\ Ordered(x \o From(q, i)) /\ Joined(x \o From(q, i))
<1> DEFINE t == From(q, i)
           s == x \o q
           l == x \o t
<1>1. /\ t \in Seq(Post) /\ Len(t) = Len(q) - i + 1
      /\ \A j \in 1 .. Len(q) - i + 1 : t[j] = q[i + j - 1]
  BY FromProperties
<1>2. Len(x) \in Nat /\ Len(q) \in Nat
  BY LenProperties
<1> HIDE DEF t
<1>3. /\ s \in Seq(Post) /\ Len(s) = Len(x) + Len(q)
      /\ \A j \in 1 .. Len(x) : s[j] = x[j]
      /\ \A j \in Len(x) + 1 .. Len(x) + Len(q) : s[j] = q[j - Len(x)]
  BY PairOf
<1>4. /\ l \in Seq(Post) /\ Len(l) = Len(x) + Len(t)
      /\ \A j \in 1 .. Len(x) : l[j] = x[j]
      /\ \A j \in Len(x) + 1 .. Len(x) + Len(t) : l[j] = t[j - Len(x)]
  BY <1>1, PairOf
<1> HIDE DEF s, l
<1>0. /\ Len(x) \in Nat /\ Len(q) \in Nat /\ i \in 1 .. Len(q) + 1
      /\ Len(t) = Len(q) - i + 1 /\ Len(s) = Len(x) + Len(q) /\ Len(l) = Len(x) + Len(t)
  BY <1>1, <1>2, <1>3, <1>4
<1>5. ASSUME NEW j \in 1 .. Len(l)
      PROVE  l[j] = s[IF j <= Len(x) THEN j ELSE j + (i - 1)]
  <2>1. CASE j <= Len(x)
    <3>1. j \in 1 .. Len(x)
      BY <1>0, <2>1
    <3> QED
      BY <3>1, <2>1, <1>3, <1>4
  <2>2. CASE ~(j <= Len(x))
    <3>1. /\ j \in Len(x) + 1 .. Len(x) + Len(t)
          /\ j - Len(x) \in 1 .. Len(q) - i + 1
          /\ j + (i - 1) \in Len(x) + 1 .. Len(x) + Len(q)
          /\ i + (j - Len(x)) - 1 = (j + (i - 1)) - Len(x)
      BY <1>0, <2>2
    <3>2. l[j] = t[j - Len(x)] /\ t[j - Len(x)] = q[i + (j - Len(x)) - 1]
      BY <1>1, <1>4, <3>1
    <3>3. s[j + (i - 1)] = q[(j + (i - 1)) - Len(x)]
      BY <1>3, <3>1
    <3> QED
      BY <2>2, <3>1, <3>2, <3>3
  <2> QED
    BY <2>1, <2>2
<1>6. Shifted(l, s, Len(x), i - 1)
  <2>1. /\ Len(x) \in Nat /\ i - 1 \in Nat /\ Len(x) <= Len(l) /\ Len(l) + (i - 1) = Len(s)
    BY <1>0
  <2>2. \A j \in 1 .. Len(l) : Same(l[j], s[IF j <= Len(x) THEN j ELSE j + (i - 1)])
    BY <1>5 DEF Same
  <2> QED
    BY <2>1, <2>2 DEF Shifted
<1>7. Ordered(l)
  BY <1>3, <1>4, <1>6, ShiftedOrdered DEF s
<1>8. Len(x) = 0 \/ i - 1 = 0 \/ Len(x) = Len(l) \/ Joins(l[Len(x)], l[Len(x) + 1])
  <2>1. CASE i <= Len(q) /\ Starts(q[i])
    <3>1. /\ Len(x) + 1 \in Len(x) + 1 .. Len(x) + Len(t) /\ (Len(x) + 1) - Len(x) = 1
          /\ 1 \in 1 .. Len(q) - i + 1 /\ i + 1 - 1 = i
      BY <1>0, <2>1
    <3>2. l[Len(x) + 1] = q[i]
      BY <1>1, <1>4, <3>1
    <3> QED
      BY <2>1, <3>2 DEF Joins
  <2>2. CASE ~(i <= Len(q) /\ Starts(q[i]))
    <3>1. i = 1 \/ i = Len(q) + 1
      BY <1>0, <2>2
    <3>2. i = Len(q) + 1 => Len(x) = Len(l)
      BY <1>0
    <3> QED
      BY <3>1, <3>2
  <2> QED
    BY <2>1, <2>2
<1>9. Joined(l)
  BY <1>3, <1>4, <1>6, <1>8, ShiftedJoined DEF s
<1> QED
  BY <1>4, <1>6, <1>7, <1>9 DEF l, s, t

\* A batch later than all of a line, and that joins its last one, goes to its end.
LEMMA LineGrows ==
  ASSUME NEW l \in Seq(Post), NEW b \in Post, Ordered(l), Joined(l),
         \A j \in 1 .. Len(l) : l[j].n < b.n /\ l[j].epoch <= b.epoch,
         Len(l) > 0 => Joins(l[Len(l)], b)
  PROVE  Ordered(Append(l, b)) /\ Joined(Append(l, b))
<1> DEFINE g == Append(l, b)
<1>1. /\ Len(l) \in Nat /\ Len(g) = Len(l) + 1 /\ g[Len(l) + 1] = b
      /\ \A j \in 1 .. Len(l) : g[j] = l[j]
  BY LenProperties, AppendProperties
<1> HIDE DEF g
<1>0. Len(l) \in Nat /\ Len(g) = Len(l) + 1
  BY <1>1
<1>2. ASSUME NEW i \in 1 .. Len(g), NEW j \in 1 .. Len(g), i < j
      PROVE  g[i].n < g[j].n /\ g[i].epoch <= g[j].epoch
  <2>1. i \in 1 .. Len(l)
    BY <1>0, <1>2
  <2>2. CASE j = Len(l) + 1
    BY <1>1, <2>1, <2>2
  <2>3. CASE j # Len(l) + 1
    <3>1. j \in 1 .. Len(l)
      BY <1>0, <2>3
    <3> QED
      BY <1>1, <1>2, <2>1, <3>1 DEF Ordered
  <2> QED
    BY <2>2, <2>3
<1>3. ASSUME NEW i \in 1 .. Len(g) - 1
      PROVE  Joins(g[i], g[i + 1])
  <2>1. i \in 1 .. Len(l)
    BY <1>0
  <2>2. CASE i = Len(l)
    <3>1. Len(l) > 0
      BY <2>1, <2>2
    <3> QED
      BY <1>1, <2>1, <2>2, <3>1
  <2>3. CASE i # Len(l)
    <3>1. i + 1 \in 1 .. Len(l) /\ i \in 1 .. Len(l) - 1
      BY <1>0, <2>1, <2>3
    <3> QED
      BY <1>1, <2>1, <3>1 DEF Joined
  <2> QED
    BY <2>2, <2>3
<1> QED
  BY <1>2, <1>3 DEF Ordered, Joined, g

\* What a Push leaves alone.
LEMMA PushQuiet ==
  ASSUME TypeInv, TableInv, PushPost
  PROVE  /\ UNCHANGED <<epoch, identity, machine, posted, ops, unread, dLog>>
         /\ UNCHANGED <<pc, caller, current, declared, haveDeclared, peerAuthored, games>>
         /\ UNCHANGED <<gameOpenEpoch, openGame, openGameIdentity>>
         /\ UNCHANGED <<replayPending, replayQueued, nextBatchId>>
         /\ Held' = Held /\ Kept' = Kept /\ OpenGame' = OpenGame /\ Snapshots' = Snapshots
         /\ machine # None /\ batches \in Nat /\ epoch \in Nat
<1>1. /\ UNCHANGED <<epoch, identity, machine, posted, ops, unread, dLog>>
      /\ UNCHANGED <<pc, caller, current, declared, haveDeclared, peerAuthored, games>>
      /\ UNCHANGED <<gameOpenEpoch, openGame, openGameIdentity>>
      /\ UNCHANGED <<replayPending, replayQueued, nextBatchId>>
  BY PushFacts DEF session, worker, link, retained, replay
<1>2. machine # None /\ batches \in Nat /\ epoch \in Nat
  BY PushFacts DEF TableInv, TypeInv, ApiTypes
<1> QED
  BY <1>1, <1>2 DEF Held, Kept, OpenGame, Snapshots

\* A batch is of its table in the next state.
OfTableAfter(b) ==
  /\ b.epoch <= epoch' /\ b.n <= batches'
  /\ b.epoch = epoch' => b.machine = machine'
  /\ \A s \in Snapshots' : b.epoch = s.epoch /\ s.machine # None => b.machine = s.machine

\* A batch is of its table after a Push if it was before, and so is the one that is pushed.
LEMMA PushOfTable ==
  ASSUME TypeInv, TableInv, PushPost, NEW post, Pushes(post)
  PROVE  /\ OfTableAfter(post)
         /\ \A b \in Post : OfTable(b) => OfTableAfter(b) /\ b.n < post.n /\ b.epoch <= post.epoch
<1>1. /\ UNCHANGED <<epoch, machine>> /\ Snapshots' = Snapshots
      /\ batches \in Nat /\ epoch \in Nat
  BY PushQuiet
<1>2. /\ post \in Post /\ post.epoch = epoch /\ post.machine = machine /\ post.n = batches + 1
      /\ batches' = batches + 1
  BY DEF Pushes
<1>3. \A s \in Snapshots : s.epoch = epoch /\ s.machine # None => s.machine = machine
  BY DEF TableInv, Declared
<1>4. OfTableAfter(post)
  <2>1. post.epoch <= epoch' /\ post.n <= batches' /\ post.machine = machine'
    BY <1>1, <1>2
  <2>2. \A s \in Snapshots' : post.epoch = s.epoch /\ s.machine # None => post.machine = s.machine
    BY <1>1, <1>2, <1>3
  <2> QED
    BY <2>1, <2>2 DEF OfTableAfter
<1>5. ASSUME NEW b \in Post, OfTable(b)
      PROVE  OfTableAfter(b) /\ b.n < post.n /\ b.epoch <= post.epoch
  <2>1. b.n \in Nat /\ b.epoch \in Nat /\ b.n <= batches /\ b.epoch <= epoch
    BY <1>5, PostFields DEF OfTable
  <2>2. b.n <= batches' /\ b.epoch <= epoch' /\ b.n < post.n /\ b.epoch <= post.epoch
    BY <1>1, <1>2, <2>1
  <2> QED
    BY <1>1, <1>5, <2>2 DEF OfTable, OfTableAfter
<1> QED
  BY <1>4, <1>5

\* What is left of the line after a Push took i - 1 batches out of the queue.
LEMMA PushLeaves ==
  ASSUME IInv, PushPost, NEW post, Pushes(post), NEW i \in 1 .. Len(queue) + 1,
         i <= Len(queue) => i = 1 \/ Starts(queue[i])
  PROVE  LET l == Held \o From(queue, i)
         IN /\ l \in Seq(Post) /\ Ordered(l) /\ Joined(l)
            /\ \A j \in 1 .. Len(l) :
                 l[j] \in Post /\ OfTableAfter(l[j]) /\ l[j].n < post.n /\ l[j].epoch <= post.epoch
            /\ (i = 1 \/ i <= Len(queue)) /\ Len(l) > 0 /\ ~refusing => Joins(l[Len(l)], post)
<1> USE DEF IInv
<1> DEFINE t == From(queue, i)
           l == Held \o t
           a == Len(Held)
           d == i - 1
<1>1. /\ Held \in Seq(Post) /\ queue \in Seq(Post) /\ Len(queue) \in Nat /\ a \in Nat
      /\ Line \in Seq(Post) /\ Len(Line) = a + Len(queue)
      /\ \A j \in 1 .. Len(Line) : Line[j] \in Post
  BY LineFacts, LenProperties DEF TypeInv, LineTypes
<1>2. /\ l \in Seq(Post) /\ Shifted(l, Line, a, d) /\ Ordered(l) /\ Joined(l)
  BY <1>1, LineCut DEF LineInv, Line
<1>3. t \in Seq(Post) /\ Len(t) = Len(queue) - i + 1 /\ Len(l) = a + Len(t)
  <2>1. t \in Seq(Post) /\ Len(t) = Len(queue) - i + 1
    BY <1>1, FromProperties
  <2> QED
    BY <1>1, <2>1, PairOf
<1> HIDE DEF t, l, a
<1>4. /\ \A j \in 1 .. Len(l) : l[j] \in Post
      /\ \A j \in 1 .. Len(l) : j <= a => j \in 1 .. Len(Line) /\ Same(l[j], Line[j])
      /\ \A j \in 1 .. Len(l) : j > a => j + d \in 1 .. Len(Line) /\ Same(l[j], Line[j + d])
  BY <1>1, <1>2, ShiftedPlaces
<1>5. ASSUME NEW j \in 1 .. Len(l)
      PROVE  /\ l[j] \in Post /\ OfTableAfter(l[j]) /\ l[j].n < post.n /\ l[j].epoch <= post.epoch
  <2>1. PICK k \in 1 .. Len(Line) : Same(l[j], Line[k])
    <3>1. j <= a \/ j > a
      BY <1>1, <1>3
    <3> QED
      BY <1>4, <3>1
  <2>2. OfTable(Line[k])
    BY DEF BatchInv
  <2>3. OfTable(l[j])
    BY <2>1, <2>2 DEF OfTable, Same
  <2> QED
    BY <1>4, <2>3, PushOfTable
<1>6. ASSUME i = 1 \/ i <= Len(queue), Len(l) > 0, ~refusing
      PROVE  Joins(l[Len(l)], post)
  <2>0. /\ a \in Nat /\ Len(queue) \in Nat /\ Len(Line) = a + Len(queue)
        /\ Len(t) = Len(queue) - i + 1 /\ Len(l) = a + Len(t)
    BY <1>1, <1>3
  <2>1. Len(l) \in 1 .. Len(l) /\ Len(Line) \in 1 .. Len(Line)
    BY <1>6, <2>0
  <2>2. Same(l[Len(l)], Line[Len(Line)])
    <3>1. CASE Len(l) <= a
      <4>1. Len(l) = Len(Line)
        BY <1>6, <2>0, <3>1
      <4> QED
        BY <1>4, <2>1, <3>1, <4>1
    <3>2. CASE Len(l) > a
      <4>1. Len(l) + d = Len(Line)
        BY <2>0
      <4> QED
        BY <1>4, <2>1, <3>2, <4>1
    <3> QED
      BY <2>0, <3>1, <3>2
  <2>3. Line # <<>>
    BY <1>1, <2>1, EmptySeq
  <2>4. Line[Len(Line)].epoch = epoch => Line[Len(Line)].n = batches
    BY <1>6, <2>3 DEF LineInv, Open
  <2> QED
    BY <2>2, <2>4 DEF Joins, Same, Pushes
<1> QED
  BY <1>2, <1>5, <1>6 DEF l, t

\* The line after a Push.
LEMMA PushLine ==
  ASSUME IInv, PushPost
  PROVE  BatchInv' /\ LineInv'
<1> USE DEF IInv
<1>1. PICK post : Pushes(post)
  BY PushFacts
<1>2. Held' = Held /\ UNCHANGED epoch /\ Held \in Seq(Post) /\ queue \in Seq(Post)
  BY PushQuiet, LineFacts DEF TypeInv, LineTypes
<1>3. post \in Post /\ post.epoch = epoch /\ post.n = batches' /\ OfTableAfter(post)
  BY <1>1, PushOfTable DEF Pushes
<1>4. CASE UNCHANGED <<queue, refusing>> /\ refusing
  <2>1. Line' = Line
    BY <1>2, <1>4 DEF Line
  <2>2. \A j \in 1 .. Len(Line) : OfTableAfter(Line[j])
    BY <1>1, LineFacts, PushOfTable DEF BatchInv
  <2>3. BatchInv'
    <3> SUFFICES ASSUME NEW j \in 1 .. Len(Line') PROVE OfTableAfter(Line'[j])
      BY DEF BatchInv, OfTable, OfTableAfter
    <3> QED
      BY <2>1, <2>2
  <2>4. Ordered(Line') /\ Joined(Line')
    BY <2>1 DEF LineInv
  <2>5. Open(Line)'
    BY <1>4 DEF Open
  <2> QED
    BY <2>3, <2>4, <2>5 DEF LineInv
<1>5. ASSUME NEW i \in 1 .. Len(queue) + 1, ~refusing \/ Starts(post),
             i = 1 \/ (i <= Len(queue) /\ Starts(queue[i])) \/ (i = Len(queue) + 1 /\ Starts(post)),
             \/ queue' = Append(From(queue, i), post) /\ refusing' = FALSE
             \/ queue' = From(queue, i) /\ refusing' = TRUE
      PROVE  BatchInv' /\ LineInv'
  <2> DEFINE t == From(queue, i)
             l == Held \o t
  <2>1. /\ i <= Len(queue) => i = 1 \/ Starts(queue[i])
        /\ ~Starts(post) => (i = 1 \/ i <= Len(queue)) /\ ~refusing
    <3>1. Len(queue) \in Nat
      BY <1>2, LenProperties
    <3>2. i = Len(queue) + 1 => ~(i <= Len(queue))
      BY <3>1
    <3> QED
      BY <1>5, <3>2
  <2>2. /\ l \in Seq(Post) /\ Ordered(l) /\ Joined(l)
        /\ \A j \in 1 .. Len(l) :
             l[j] \in Post /\ OfTableAfter(l[j]) /\ l[j].n < post.n /\ l[j].epoch <= post.epoch
        /\ (i = 1 \/ i <= Len(queue)) /\ Len(l) > 0 /\ ~refusing => Joins(l[Len(l)], post)
    BY <1>1, <2>1, PushLeaves
  <2>3. t \in Seq(Post)
    BY <1>2, FromProperties
  <2> HIDE DEF t, l
  <2>4. Len(l) > 0 => Joins(l[Len(l)], post)
    BY <2>1, <2>2 DEF Joins
  <2>5. CASE queue' = From(queue, i) /\ refusing' = TRUE
    <3>1. Line' = l
      BY <1>2, <2>5 DEF Line, l, t
    <3>2. BatchInv'
      <4> SUFFICES ASSUME NEW j \in 1 .. Len(Line') PROVE OfTableAfter(Line'[j])
        BY DEF BatchInv, OfTable, OfTableAfter
      <4>1. OfTableAfter(l[j])
        BY <2>2, <3>1
      <4> QED
        BY <3>1, <4>1
    <3>3. Open(Line)'
      BY <2>5 DEF Open
    <3> QED
      BY <2>2, <3>1, <3>2, <3>3 DEF LineInv
  <2>6. CASE queue' = Append(From(queue, i), post) /\ refusing' = FALSE
    <3> DEFINE g == Append(l, post)
    <3>1. /\ g \in Seq(Post) /\ Len(g) = Len(l) + 1 /\ g[Len(l) + 1] = post /\ Len(l) \in Nat
          /\ \A j \in 1 .. Len(l) : g[j] = l[j]
      BY <1>3, <2>2, LenProperties, AppendProperties
    <3>2. Line' = g
      <4>1. <<post>> \in Seq(Post) /\ Append(t, post) = t \o <<post>> /\ g = l \o <<post>>
        BY <1>3, <2>2, <2>3, AppendIsConcat
      <4>2. Held \o (t \o <<post>>) = (Held \o t) \o <<post>>
        BY <1>2, <2>3, <4>1, ConcatAssociative
      <4>3. Line' = Held \o Append(t, post)
        BY <1>2, <2>6 DEF Line, t
      <4> QED
        BY <4>1, <4>2, <4>3 DEF l
    <3>3. Ordered(g) /\ Joined(g)
      BY <1>3, <2>2, <2>4, LineGrows
    <3> HIDE DEF g
    <3>4. BatchInv'
      <4> SUFFICES ASSUME NEW j \in 1 .. Len(Line') PROVE OfTableAfter(Line'[j])
        BY DEF BatchInv, OfTable, OfTableAfter
      <4>1. j \in 1 .. Len(l) + 1
        BY <3>1, <3>2
      <4>2. CASE j = Len(l) + 1
        BY <1>3, <3>1, <3>2, <4>2
      <4>3. CASE j # Len(l) + 1
        <5>1. j \in 1 .. Len(l)
          BY <3>1, <4>1, <4>3
        <5>2. OfTableAfter(l[j])
          BY <2>2, <5>1
        <5> QED
          BY <3>1, <3>2, <5>1, <5>2
      <4> QED
        BY <4>2, <4>3
    <3>5. Open(Line)'
      <4>1. Line'[Len(Line')] = post
        BY <3>1, <3>2
      <4> QED
        BY <1>3, <4>1 DEF Open
    <3> QED
      BY <3>2, <3>3, <3>4, <3>5 DEF LineInv
  <2> QED
    BY <1>5, <2>5, <2>6
<1> QED
  BY <1>1, <1>4, <1>5 DEF Pushes

\* The queue after a Push: what is left is a tail of it, with the batch behind it if it fits.
LEMMA PushQueue ==
  ASSUME IInv, PushPost
  PROVE  /\ QueueInv'
         /\ \A j \in 1 .. Len(queue') :
              queue'[j].epoch = epoch \/ \E k \in 1 .. Len(queue) : queue'[j] = queue[k]
<1> USE DEF IInv
<1>1. PICK post : Pushes(post)
  BY PushFacts
<1>2. /\ post \in Post /\ post.epoch = epoch /\ post.n = batches' /\ post.n = batches + 1
      /\ Starts(post) => post.game = post.n
  BY <1>1 DEF Pushes
<1>3. queue \in Seq(Post) /\ Len(queue) \in Nat
  BY LenProperties DEF TypeInv, LineTypes
<1>4. /\ SumOps(queue) <= MaxQueuedOps
      /\ \A j \in 1 .. Len(queue) - 1 : ~Starts(queue[j + 1]) => queue[j + 1].n = queue[j].n + 1
      /\ \A j \in 1 .. Len(queue) : Starts(queue[j]) => queue[j].game = queue[j].n
      /\ ~refusing /\ queue # <<>> => queue[Len(queue)].n = batches
  BY DEF QueueInv
<1>5. CASE UNCHANGED <<queue, refusing>> /\ refusing
  <2>1. SumOps(queue') <= MaxQueuedOps
    BY <1>4, <1>5
  <2>2. QueueInv'
    BY <1>4, <1>5, <2>1 DEF QueueInv
  <2> QED
    BY <1>5, <2>2
<1>6. ASSUME NEW i \in 1 .. Len(queue) + 1, ~refusing \/ Starts(post),
             i = 1 \/ (i <= Len(queue) /\ Starts(queue[i])) \/ (i = Len(queue) + 1 /\ Starts(post)),
             \/ /\ queue' = Append(From(queue, i), post) /\ refusing' = FALSE
                /\ SumOps(From(queue, i)) + Len(post.ops) <= MaxQueuedOps
             \/ queue' = From(queue, i) /\ refusing' = TRUE
      PROVE  /\ QueueInv'
             /\ \A j \in 1 .. Len(queue') :
                  queue'[j].epoch = epoch \/ \E k \in 1 .. Len(queue) : queue'[j] = queue[k]
  <2> DEFINE t == From(queue, i)
  <2>1. /\ t \in Seq(Post) /\ Len(t) = Len(queue) - i + 1
        /\ \A j \in 1 .. Len(queue) - i + 1 : t[j] = queue[i + j - 1]
    BY <1>3, FromProperties
  <2> HIDE DEF t
  <2>0. /\ i \in 1 .. Len(queue) + 1 /\ Len(queue) \in Nat /\ Len(t) = Len(queue) - i + 1
        /\ Len(t) \in Nat
    BY <1>3, <2>1
  <2>2. \A j \in 1 .. Len(t) : i + j - 1 \in 1 .. Len(queue) /\ t[j] = queue[i + j - 1]
    <3> SUFFICES ASSUME NEW j \in 1 .. Len(t)
                 PROVE  i + j - 1 \in 1 .. Len(queue) /\ t[j] = queue[i + j - 1]
      OBVIOUS
    <3>1. i + j - 1 \in 1 .. Len(queue) /\ j \in 1 .. Len(queue) - i + 1
      BY <2>0
    <3> QED
      BY <2>1, <3>1
  <2>3. SumOps(t) <= MaxQueuedOps
    <3>1. i - 1 \in Nat /\ Len(t) + (i - 1) <= Len(queue)
      BY <2>0
    <3>2. ASSUME NEW j \in 1 .. Len(t)
          PROVE  t[j].ops = queue[j + (i - 1)].ops
      <4>1. i + j - 1 = j + (i - 1)
        BY <2>0
      <4> QED
        BY <2>2, <4>1
    <3>3. SumOps(t) <= SumOps(queue)
      BY <1>3, <2>1, <3>1, <3>2, SumWithin
    <3>4. SumOps(t) \in Nat /\ SumOps(queue) \in Nat
      BY <1>3, <2>1, SumType
    <3> QED
      BY <1>4, <3>3, <3>4, Constants
  <2>4. ASSUME NEW j \in 1 .. Len(t) - 1, ~Starts(t[j + 1])
        PROVE  t[j + 1].n = t[j].n + 1
    <3>1. /\ j \in 1 .. Len(t) /\ j + 1 \in 1 .. Len(t)
          /\ i + (j + 1) - 1 = (i + j - 1) + 1 /\ i + j - 1 \in 1 .. Len(queue) - 1
      BY <2>0
    <3>2. t[j] = queue[i + j - 1] /\ t[j + 1] = queue[i + (j + 1) - 1]
      BY <2>2, <3>1
    <3> QED
      BY <1>4, <2>4, <3>1, <3>2
  <2>5. \A j \in 1 .. Len(t) : Starts(t[j]) => t[j].game = t[j].n
    BY <1>4, <2>2
  <2>6. CASE queue' = From(queue, i) /\ refusing' = TRUE
    <3>1. queue' = t
      BY <2>6 DEF t
    <3>2. QueueInv'
      BY <2>3, <2>4, <2>5, <2>6, <3>1 DEF QueueInv
    <3> QED
      BY <2>2, <3>1, <3>2
  <2>7. CASE /\ queue' = Append(From(queue, i), post) /\ refusing' = FALSE
             /\ SumOps(From(queue, i)) + Len(post.ops) <= MaxQueuedOps
    <3> DEFINE g == Append(t, post)
    <3>1. /\ g \in Seq(Post) /\ Len(g) = Len(t) + 1 /\ g[Len(t) + 1] = post
          /\ \A j \in 1 .. Len(t) : g[j] = t[j]
      BY <1>2, <2>1, AppendProperties
    <3>2. SumOps(g) <= MaxQueuedOps
      <4>1. SumOps(g) = SumOps(t) + Len(post.ops)
        BY <1>2, <2>1, SumAppend
      <4> QED
        BY <2>7, <4>1 DEF t
    <3>3. queue' = g
      BY <2>7 DEF t
    <3> HIDE DEF g
    <3>0. Len(g) = Len(t) + 1 /\ Len(t) \in Nat
      BY <2>0, <3>1
    <3>4. ASSUME Len(t) > 0, ~Starts(post)
          PROVE  t[Len(t)].n = batches
      <4>1. ~refusing
        BY <1>6, <3>4
      <4>2. Len(t) \in 1 .. Len(t) /\ i + Len(t) - 1 = Len(queue) /\ Len(queue) # 0
        BY <2>0, <3>4
      <4>3. t[Len(t)] = queue[Len(queue)] /\ queue # <<>>
        BY <1>3, <2>2, <4>2, EmptySeq
      <4> QED
        BY <1>4, <4>1, <4>3
    <3>5. ASSUME NEW j \in 1 .. Len(g) - 1, ~Starts(g[j + 1])
          PROVE  g[j + 1].n = g[j].n + 1
      <4>1. j \in 1 .. Len(t)
        BY <3>0
      <4>2. CASE j = Len(t)
        <5>1. g[j + 1] = post /\ g[j] = t[Len(t)] /\ Len(t) > 0
          BY <3>1, <4>1, <4>2
        <5> QED
          BY <1>2, <3>4, <3>5, <5>1
      <4>3. CASE j # Len(t)
        <5>1. j + 1 \in 1 .. Len(t) /\ j \in 1 .. Len(t) - 1
          BY <3>0, <4>1, <4>3
        <5> QED
          BY <2>4, <3>1, <3>5, <4>1, <5>1
      <4> QED
        BY <4>2, <4>3
    <3>6. ASSUME NEW j \in 1 .. Len(g)
          PROVE  /\ Starts(g[j]) => g[j].game = g[j].n
                 /\ g[j].epoch = epoch \/ \E k \in 1 .. Len(queue) : g[j] = queue[k]
      <4>1. CASE j = Len(t) + 1
        BY <1>2, <3>1, <4>1
      <4>2. CASE j # Len(t) + 1
        <5>1. j \in 1 .. Len(t)
          BY <3>0, <4>2
        <5> QED
          BY <2>2, <2>5, <3>1, <5>1
      <4> QED
        BY <4>1, <4>2
    <3>7. g[Len(g)].n = batches'
      BY <1>2, <3>1
    <3>8. QueueInv'
      BY <3>2, <3>3, <3>5, <3>6, <3>7 DEF QueueInv
    <3> QED
      BY <3>3, <3>6, <3>8
  <2> QED
    BY <1>6, <2>6, <2>7
<1> QED
  BY <1>1, <1>5, <1>6 DEF Pushes

\* The Push of one batch.
LEMMA PushStep == IInv /\ PushPost => IInv'
<1> SUFFICES ASSUME IInv, PushPost PROVE IInv'
  OBVIOUS
<1> USE DEF IInv
<1>0. /\ UNCHANGED <<epoch, identity, machine, posted, dLog>>
      /\ UNCHANGED <<pc, caller, current, declared, haveDeclared, peerAuthored, games>>
      /\ UNCHANGED <<gameOpenEpoch, openGame, openGameIdentity>>
      /\ UNCHANGED <<replayPending, replayQueued, nextBatchId>>
      /\ Held' = Held /\ Kept' = Kept /\ OpenGame' = OpenGame /\ Snapshots' = Snapshots
      /\ machine # None /\ epoch \in Nat
  BY PushQuiet
<1>1. TypeInv'
  BY PushTypes
<1>2. TableInv'
  <2>1. (\A s \in Snapshots : Declared(s))' /\ (\A s, t \in Snapshots : Agree(s, t))'
    BY <1>0 DEF TableInv, Declared, Agree
  <2> QED
    BY <1>0, <2>1 DEF TableInv
<1>3. BatchInv' /\ LineInv'
  BY PushLine
<1>4. /\ QueueInv'
      /\ \A j \in 1 .. Len(queue') :
           queue'[j].epoch = epoch \/ \E k \in 1 .. Len(queue) : queue'[j] = queue[k]
  BY PushQueue
<1>5. \A i \in 1 .. Kept : Line'[i] = Line[i]
  <2>1. replayQueued <= Len(games)
    BY DEF KeptInv
  <2>2. Kept <= Len(Held) /\ Kept \in 0 .. Len(Line) /\ Len(Held) \in Nat
    BY <2>1, OpenFacts, LineFacts, LenProperties
  <2>3. \A i \in 1 .. Kept : i \in 1 .. Len(Held)
    BY <2>2
  <2>4. /\ \A i \in 1 .. Len(Held) : Line[i] = Held[i]
        /\ \A i \in 1 .. Len(Held') : Line'[i] = Held'[i]
    BY <1>1, LineFacts, LineFactsAfter
  <2> QED
    BY <1>0, <2>3, <2>4
<1>6. Kept > 0 => Line'[1] = Line[1]
  <2>1. replayQueued <= Len(games)
    BY DEF KeptInv
  <2>2. Kept \in 0 .. Len(Line) /\ Len(Line) \in Nat
    BY <2>1, OpenFacts, LineFacts
  <2>3. Kept > 0 => 1 \in 1 .. Kept
    BY <2>2
  <2> QED
    BY <1>5, <2>3
<1>7. KeptInv'
  <2>1. Continues(Line', Kept)
    <3>1. Kept > 0 => Continues(Line', Kept)
      BY <1>5, <1>6 DEF KeptInv, Continues
    <3>2. ~(Kept > 0) => Continues(Line', Kept)
      <4>1. replayQueued <= Len(games)
        BY DEF KeptInv
      <4>2. Kept \in 0 .. Len(Line) /\ Len(Line) \in Nat
        BY <4>1, OpenFacts, LineFacts
      <4>3. ~(Kept > 0) => \A i \in 1 .. Kept : FALSE
        BY <4>2
      <4> QED
        BY <4>3 DEF Continues
    <3> QED
      BY <3>1, <3>2
  <2>2. Continues(Line, Kept)'
    BY <1>0, <2>1 DEF Continues
  <2>3. OpenGameBounded' /\ RetainedIsKnown'
    BY <1>0 DEF KeptInv, OpenGameBounded, SumOps, CallsOf, RetainedIsKnown, InSession
  <2>4. /\ (Kept > 0 => gameOpenEpoch = Line[1].epoch)'
        /\ (Kept > 0 /\ Line[1].epoch = epoch => openGameIdentity <= identity)'
        /\ (Kept > 0 => \A s \in Snapshots :
             s.epoch = Line[1].epoch /\ s.identity = openGameIdentity => s.machine # None)'
    BY <1>0, <1>6 DEF KeptInv
  <2> QED
    BY <1>0, <2>2, <2>3, <2>4 DEF KeptInv
<1>8. SessionInv'
  BY <1>0, <1>6 DEF SessionInv, InSession, Authored
<1>9. FlushInv'
  <2>1. /\ current.epoch <= epoch /\ (haveDeclared => declared.epoch <= current.epoch)
        /\ current.epoch \in Nat /\ declared.epoch \in Nat
    BY SnapshotFields DEF TableInv, Snapshots, Declared, TypeInv, WorkerTypes
  <2>2. ASSUME pc \in {"send", "sent"}, caller = "declare", NEW j \in 1 .. Len(queue')
        PROVE  queue'[j].epoch > declared.epoch
    <3>1. current.epoch > declared.epoch
      BY <2>2 DEF FlushInv
    <3>2. epoch > declared.epoch
      BY <1>0, <2>1, <3>1
    <3> QED
      BY <1>4, <2>2, <3>2 DEF FlushInv
  <2>3. ASSUME pc = "declare", haveDeclared, Authored, current.epoch # declared.epoch,
               NEW j \in 1 .. Len(queue')
        PROVE  queue'[j].epoch > declared.epoch
    <3>1. epoch > declared.epoch
      BY <1>0, <2>1, <2>3
    <3>2. \A k \in 1 .. Len(queue) : queue[k].epoch > declared.epoch
      BY <2>3 DEF FlushInv, FlushedFirst
    <3> QED
      BY <1>4, <3>1, <3>2
  <2>4. FlushedFirst'
    BY <1>0, <2>3 DEF FlushInv, FlushedFirst, Authored
  <2> QED
    BY <1>0, <2>2, <2>4 DEF FlushInv
<1>10. StartInv'
  BY <1>0, <1>6 DEF StartInv, InSession
<1>11. IdsInOrder'
  BY <1>0 DEF IdsInOrder
<1> QED
  BY <1>1, <1>2, <1>3, <1>4, <1>7, <1>8, <1>9, <1>10, <1>11

-----------------------------------------------------------------------------
(* The theorems.                                                           *)

\* Nothing is on its way at first.
LEMMA InitStep == Init => IInv
<1> SUFFICES ASSUME Init PROVE IInv
  OBVIOUS
<1>1. TypeInv
  BY InitTypes
<1>2. /\ queue = <<>> /\ games = <<>> /\ openGame = <<>> /\ replayQueued = 0 /\ pc = "down"
      /\ pushing = <<>> /\ epoch = 0 /\ identity = 0 /\ machine = None /\ ~haveDeclared
      /\ posted = NoDeclare /\ current = NoDeclare /\ ~replayPending
  BY DEF Init
<1>3. Len(<<>>) = 0
  OBVIOUS
<1>4. replayQueued <= Len(games)
  BY <1>2, <1>3
<1>5. /\ Len(Held) = Len(openGame) + Len(games) /\ Len(Line) = Len(Held) + Len(queue)
      /\ Line \in Seq(Post) /\ Held \in Seq(Post)
  BY <1>1, LineFacts
<1>6. Len(Held) = 0 /\ Len(Line) = 0 /\ Kept = 0
  BY <1>2, <1>3, <1>5 DEF Kept
<1>7. Line = <<>> /\ ~(Kept > 0)
  BY <1>5, <1>6, EmptySeq
<1>8. TableInv
  <2>1. Snapshots = {NoDeclare}
    BY <1>2 DEF Snapshots
  <2>2. NoDeclare.epoch = 0 /\ NoDeclare.identity = 0 /\ NoDeclare.machine = None
    BY DEF NoDeclare
  <2>3. Declared(NoDeclare) /\ Agree(NoDeclare, NoDeclare)
    BY <1>2, <2>2 DEF Declared, Agree
  <2>4. \A s \in Snapshots : Declared(s)
    BY <2>1, <2>3
  <2>5. \A s, t \in Snapshots : Agree(s, t)
    BY <2>1, <2>3
  <2> QED
    BY <1>2, <2>2, <2>4, <2>5 DEF TableInv
<1>9. BatchInv
  BY <1>6 DEF BatchInv
<1>10. LineInv
  BY <1>6, <1>7 DEF LineInv, Ordered, Joined, Open
<1>11. QueueInv
  BY <1>2, <1>3, SumEmpty, Constants DEF QueueInv
<1>12. KeptInv
  <2>1. OpenGame = <<>>
    <3>1. OpenGame \in Seq(Post) /\ Len(OpenGame) = Kept
      BY <1>1, <1>4, OpenFacts
    <3> QED
      BY <1>6, <3>1, EmptySeq
  <2>2. OpenGameBounded
    BY <2>1, SumEmpty, Constants DEF OpenGameBounded
  <2>3. Continues(Line, Kept)
    BY <1>6 DEF Continues
  <2>4. RetainedIsKnown
    BY <1>2 DEF RetainedIsKnown, InSession
  <2> QED
    BY <1>4, <1>7, <2>2, <2>3, <2>4 DEF KeptInv
<1>13. SessionInv
  BY <1>2 DEF SessionInv, InSession
<1>14. FlushInv
  BY <1>2 DEF FlushInv, FlushedFirst
<1>15. StartInv
  BY <1>2, <1>7 DEF StartInv, InSession
<1>16. IdsInOrder
  <2>1. \A i \in 1 .. Len(Held) : FALSE
    BY <1>6
  <2> QED
    BY <2>1 DEF IdsInOrder, Held
<1> QED
  BY <1>1, <1>8, <1>9, <1>10, <1>11, <1>12, <1>13, <1>14, <1>15, <1>16 DEF IInv

\* Every step keeps the invariant.
LEMMA NextStep == IInv /\ [Next]_vars => IInv'
<1> SUFFICES ASSUME IInv, [Next]_vars PROVE IInv'
  OBVIOUS
<1>1. CASE UNCHANGED vars
  BY <1>1, StutterStep
<1>2. CASE Api
  BY <1>2, OnGameStartStep, OnGameEndStep, DisplayChangedStep, ScriptCommitStep, PushStep,
     DeclareMachineStep, SetRomIdStep, ScriptGameOpStep DEF Api
<1>3. CASE Worker
  BY <1>3, ConnectStep, HelloAckStep, MaybeDeclareStep, DeclareAckStep, TakeGamesStep,
     SendReturnsStep, NotAuthoredStep, SendDropsOldStep, SendBatchStep, GameAckStep DEF Worker
<1>4. CASE GameRefused
  BY <1>4, GameRefusedStep
<1>5. CASE Disconnect
  BY <1>5, DisconnectStep
<1>6. CASE DaemonRestart
  BY <1>6, DaemonRestartStep
<1> QED
  BY <1>1, <1>2, <1>3, <1>4, <1>5, <1>6 DEF Next

\* The invariant: what the script commits and what the worker holds stay one line in commit
\* order, every batch of the table it was committed for, and what is kept of it is the unfinished
\* game of the declared table, through every loss, replay, eviction and restart.
THEOREM DeliveryInvariant == Spec => []IInv
<1>1. Init => IInv
  BY InitStep
<1>2. IInv /\ [Next]_vars => IInv'
  BY NextStep
<1> QED
  BY <1>1, <1>2, PTL DEF Spec

\* Every variable has its type.
THEOREM TypeCorrect == Spec => []TypeOK
<1>1. IInv => TypeOK
  <2> SUFFICES ASSUME IInv PROVE TypeOK
    OBVIOUS
  <2>1. TypeInv
    BY DEF IInv
  <2>2. Post \subseteq Batch
    BY DEF Post
  <2>3. Seq(Post) \subseteq Seq(Batch)
    <3> SUFFICES ASSUME NEW s \in Seq(Post) PROVE s \in Seq(Batch)
      OBVIOUS
    <3>1. Len(s) \in Nat /\ s \in [1 .. Len(s) -> Post]
      BY SeqDef
    <3>2. s \in [1 .. Len(s) -> Batch]
      BY <2>2, <3>1
    <3> QED
      BY <3>1, <3>2, SeqDef
  <2>4. /\ queue \in Seq(Batch) /\ games \in Seq(Batch) /\ openGame \in Seq(Batch)
        /\ dLog \in Seq(Batch)
    BY <2>1, <2>3 DEF TypeInv, LineTypes
  <2> QED
    BY <2>1, <2>4 DEF TypeInv, ApiTypes, WorkerTypes, TypeOK
<1> QED
  BY <1>1, DeliveryInvariant, PTL

\* SendGames sends a batch only while the table it was committed for is declared, epoch and
\* machine, although the Declare went through a latch that may have dropped it; and MaybeDeclare
\* declares the next table only when everything the last one had committed is gone.
THEOREM TablesInOrder == Spec => []TableOrder
<1>1. IInv => TableOrder
  <2> SUFFICES ASSUME IInv PROVE TableOrder
    OBVIOUS
  <2> USE DEF IInv
  <2>1. FlushedFirst
    BY DEF FlushInv
  <2>2. ASSUME pc = "sent"
        PROVE  /\ games # <<>> /\ haveDeclared
               /\ Head(games).epoch = declared.epoch
               /\ Head(games).machine = declared.machine
               /\ declared.machine # None
    <3>1. games # <<>> /\ games[1].epoch = declared.epoch /\ Authored /\ haveDeclared
      BY <2>2 DEF SessionInv
    <3>2. Head(games) = games[1] /\ declared.machine # None /\ declared \in Snapshots
      BY <3>1 DEF TypeInv, LineTypes, Authored, Snapshots
    <3>3. Len(openGame) + 1 \in 1 .. Len(Line) /\ Line[Len(openGame) + 1] = games[1]
      BY <3>1, LaterWait DEF LineInv
    <3>4. OfTable(games[1])
      BY <3>3 DEF BatchInv
    <3>5. games[1].machine = declared.machine
      BY <3>1, <3>2, <3>4 DEF OfTable
    <3> QED
      BY <3>1, <3>2, <3>5
  <2> QED
    BY <2>1, <2>2 DEF TableOrder, RightTable
<1> QED
  BY <1>1, DeliveryInvariant, PTL

\* GameQueue: an overflow leaves no hole.  What stays is within MAX_QUEUED_GAME_OPS, and a batch
\* that continues a game directly follows the one before it.
THEOREM QueueKeptWhole == Spec => []QueueWhole
<1>1. IInv => QueueWhole
  <2> SUFFICES ASSUME IInv PROVE QueueWhole
    OBVIOUS
  <2> USE DEF IInv
  <2>1. /\ SumOps(queue) <= MaxQueuedOps
        /\ \A i \in 1 .. Len(queue) - 1 : ~Starts(queue[i + 1]) => queue[i + 1].n = queue[i].n + 1
        /\ \A i \in 1 .. Len(queue) : Starts(queue[i]) => queue[i].game = queue[i].n
    BY DEF QueueInv
  <2>2. Len(queue) \in Nat /\ \A i \in 1 .. Len(queue) : queue[i].n \in Nat
    BY LenProperties, ElementOfSeq, PostFields DEF TypeInv, LineTypes
  <2>3. ASSUME NEW i \in 2 .. Len(queue), queue[i].game \notin {0, queue[i].n}
        PROVE  queue[i - 1].n = queue[i].n - 1
    <3>1. /\ i \in 1 .. Len(queue) /\ i - 1 \in 1 .. Len(queue) - 1 /\ i - 1 \in 1 .. Len(queue)
          /\ (i - 1) + 1 = i
      BY <2>2
    <3>2. ~Starts(queue[i])
      BY <2>1, <2>3, <3>1
    <3>3. queue[i].n = queue[i - 1].n + 1
      BY <2>1, <3>1, <3>2
    <3>4. queue[i - 1].n \in Nat
      BY <2>2, <3>1
    <3> QED
      BY <3>3, <3>4
  <2> QED
    BY <2>1, <2>3 DEF QueueWhole
<1> QED
  BY <1>1, DeliveryInvariant, PTL

\* Whatever the daemons serve, what is kept for a restarted one is one unfinished game without a
\* hole, bounded, in the order of its ids, and known to the daemon of the session; a daemon that
\* serves no authored tables can cost it its start.
KeptGame ==
  /\ replayQueued <= Len(games)
  /\ \A i \in 1 .. Len(OpenGame) :
       /\ OpenGame[i].n = OpenGame[1].n + i - 1
       /\ OpenGame[i].epoch = OpenGame[1].epoch
       /\ ~Ends(OpenGame[i])
       /\ i > 1 => ~Starts(OpenGame[i])
  /\ IdsInOrder /\ OpenGameBounded /\ RetainedIsKnown

\* RetainAcknowledged, the replay, its refusal and its taking back, with any daemon.
THEOREM KeptOneGame == Spec => []KeptGame
<1>1. IInv => KeptGame
  <2> SUFFICES ASSUME IInv PROVE KeptGame
    OBVIOUS
  <2> USE DEF IInv
  <2>1. /\ replayQueued <= Len(games) /\ Continues(Line, Kept)
        /\ OpenGameBounded /\ RetainedIsKnown
    BY DEF KeptInv
  <2>2. /\ OpenGame \in Seq(Post) /\ Len(OpenGame) = Kept /\ Kept \in 0 .. Len(Line)
        /\ \A i \in 1 .. Kept : OpenGame[i] = Line[i]
    BY <2>1, OpenFacts
  <2>3. Len(Line) \in Nat /\ Kept \in Nat
    BY <2>2, LineFacts
  <2>4. ASSUME NEW i \in 1 .. Len(OpenGame)
        PROVE  /\ OpenGame[i].n = OpenGame[1].n + i - 1
               /\ OpenGame[i].epoch = OpenGame[1].epoch
               /\ ~Ends(OpenGame[i])
               /\ i > 1 => ~Starts(OpenGame[i])
    <3>1. i \in 1 .. Kept /\ 1 \in 1 .. Kept
      BY <2>2, <2>3
    <3> QED
      BY <2>1, <2>2, <3>1 DEF Continues
  <2> QED
    BY <2>1, <2>4 DEF KeptGame
<1> QED
  BY <1>1, DeliveryInvariant, PTL

\* RetainAcknowledged, the replay, its refusal and its taking back: with daemons that serve
\* authored tables, what is kept for a restarted one is always one unfinished game from its start,
\* without a hole, bounded, in the order of its ids, and known to the daemon of the session.
THEOREM KeptWhole ==
  ASSUME PeerAuthored \subseteq {TRUE}
  PROVE  Spec => []Retained
<1>1. IInv /\ KeptGame => Retained
  <2> SUFFICES ASSUME IInv, KeptGame PROVE Retained
    OBVIOUS
  <2> USE DEF IInv
  <2>1. replayQueued <= Len(games)
    BY DEF KeptGame
  <2>2. /\ OpenGame \in Seq(Post) /\ Len(OpenGame) = Kept /\ Kept \in 0 .. Len(Line)
        /\ \A i \in 1 .. Kept : OpenGame[i] = Line[i]
    BY <2>1, OpenFacts
  <2>3. Len(Line) \in Nat
    BY LineFacts
  <2>4. OpenGame # <<>> => Starts(OpenGame[1])
    <3>1. OpenGame # <<>> => Kept # 0
      BY <2>2, EmptySeq
    <3>2. Kept # 0 => Kept > 0 /\ 1 \in 1 .. Kept
      BY <2>2, <2>3
    <3>3. Kept > 0 => Starts(Line[1])
      BY DEF StartInv
    <3> QED
      BY <2>2, <3>1, <3>2, <3>3
  <2>5. RetainedWhole
    BY <2>1, <2>4 DEF RetainedWhole, KeptGame
  <2> QED
    BY <2>5 DEF Retained, KeptGame
<1> QED
  BY <1>1, DeliveryInvariant, KeptOneGame, PTL

-----------------------------------------------------------------------------
(* What one life of the daemon sees of a game: what the proof rests on.    *)

\* A batch that continues the game of an earlier one.
GoesOn(b) == b.game # 0 /\ ~Starts(b)

\* Of the first k batches of l, the last start is that of game g, in epoch e, and it has not ended.
Begun(l, k, g, e) ==
  /\ \E s \in 1 .. k : Starts(l[s]) /\ l[s].n = g /\ l[s].epoch = e
  /\ \A j \in 1 .. k : (Starts(l[j]) => l[j].n <= g) /\ (Ends(l[j]) => l[j].n < g)

\* Every batch of an epoch not over that continues a game has that game's start before it.
Rooted(l, from) ==
  \A i \in 1 .. Len(l) : GoesOn(l[i]) /\ l[i].epoch >= from =>
                           Begun(l, i - 1, l[i].game, l[i].epoch)

\* The d batches of s behind its first a ones may go: whatever game one of them starts is over.
MayGo(s, a, d, from) ==
  \A j \in a + 1 .. a + d : Starts(s[j]) =>
    \/ s[j].epoch < from
    \/ \E m \in j .. a + d : Ends(s[m])
    \/ a + d < Len(s) /\ Starts(s[a + d + 1])

\* What a batch of a line without the gone ones was.
LEMMA ShiftedFields ==
  ASSUME NEW t \in Seq(Post), NEW s \in Seq(Post), NEW a, NEW d, Shifted(t, s, a, d)
  PROVE  /\ a \in Nat /\ d \in Nat /\ Len(t) \in Nat /\ Len(s) \in Nat
         /\ a <= Len(t) /\ Len(t) + d = Len(s)
         /\ \A i \in 1 .. Len(t) :
              LET j == IF i <= a THEN i ELSE i + d
              IN /\ j \in 1 .. Len(s)
                 /\ t[i].n = s[j].n /\ t[i].epoch = s[j].epoch /\ t[i].game = s[j].game
                 /\ (Starts(t[i]) <=> Starts(s[j])) /\ (Ends(t[i]) <=> Ends(s[j]))
<1>1. /\ a \in Nat /\ d \in Nat /\ Len(t) \in Nat /\ Len(s) \in Nat
      /\ a <= Len(t) /\ Len(t) + d = Len(s)
  BY LenProperties DEF Shifted
<1>2. \A i \in 1 .. Len(t) : Same(t[i], s[IF i <= a THEN i ELSE i + d])
  BY DEF Shifted
<1>3. ASSUME NEW i \in 1 .. Len(t)
      PROVE  (IF i <= a THEN i ELSE i + d) \in 1 .. Len(s)
  BY <1>1
<1> QED
  BY <1>1, <1>2, <1>3 DEF Same, Starts, Ends

\* Then the start of the open game stays.
LEMMA BegunShort ==
  ASSUME NEW t \in Seq(Post), NEW s \in Seq(Post), NEW a, NEW d, Shifted(t, s, a, d),
         Ordered(s), NEW from \in Nat, NEW e \in Nat, e >= from, NEW g \in Nat,
         NEW k \in 0 .. Len(t), NEW m,
         \/ m = k /\ k <= a
         \/ /\ m = k + d /\ k >= a /\ MayGo(s, a, d, from)
            /\ a + d < Len(s) /\ Starts(s[a + d + 1]) => k > a,
         Begun(s, m, g, e)
  PROVE  Begun(t, k, g, e)
<1>0. /\ a \in Nat /\ d \in Nat /\ Len(t) \in Nat /\ Len(s) \in Nat
      /\ a <= Len(t) /\ Len(t) + d = Len(s) /\ k \in Nat /\ m \in Nat /\ m <= Len(s) /\ k <= Len(t)
  BY ShiftedFields
<1>1. \A i \in 1 .. Len(t) :
        LET j == IF i <= a THEN i ELSE i + d
        IN /\ j \in 1 .. Len(s)
           /\ t[i].n = s[j].n /\ t[i].epoch = s[j].epoch
           /\ (Starts(t[i]) <=> Starts(s[j])) /\ (Ends(t[i]) <=> Ends(s[j]))
  BY ShiftedFields
<1>2. PICK r \in 1 .. m : Starts(s[r]) /\ s[r].n = g /\ s[r].epoch = e
  BY DEF Begun
<1>3. \A j \in 1 .. m : (Starts(s[j]) => s[j].n <= g) /\ (Ends(s[j]) => s[j].n < g)
  BY DEF Begun
<1>4. \A j \in 1 .. Len(s) : s[j].n \in Nat
  BY ElementOfSeq, PostFields
<1>5. ASSUME NEW i \in 1 .. k
      PROVE  (Starts(t[i]) => t[i].n <= g) /\ (Ends(t[i]) => t[i].n < g)
  <2>1. i \in 1 .. Len(t) /\ (IF i <= a THEN i ELSE i + d) \in 1 .. m
    BY <1>0
  <2> QED
    BY <1>1, <1>3, <2>1
<1>6. r \notin a + 1 .. a + d \/ (m = k /\ k <= a)
  <2> SUFFICES ASSUME r \in a + 1 .. a + d, ~(m = k /\ k <= a) PROVE FALSE
    OBVIOUS
  <2>1. /\ m = k + d /\ k >= a /\ MayGo(s, a, d, from)
        /\ a + d < Len(s) /\ Starts(s[a + d + 1]) => k > a
    OBVIOUS
  <2>2. \/ s[r].epoch < from
        \/ \E x \in r .. a + d : Ends(s[x])
        \/ a + d < Len(s) /\ Starts(s[a + d + 1])
    BY <1>2, <2>1 DEF MayGo
  <2>3. CASE s[r].epoch < from
    BY <1>2, <2>3
  <2>4. CASE \E x \in r .. a + d : Ends(s[x])
    <3>1. PICK x \in r .. a + d : Ends(s[x])
      BY <2>4
    <3>2. x \in 1 .. m /\ x \in 1 .. Len(s) /\ r \in 1 .. Len(s) /\ (r < x \/ r = x)
      BY <1>0, <2>1
    <3>3. s[x].n < g
      BY <1>3, <3>1, <3>2
    <3>4. r < x => s[r].n < s[x].n
      BY <3>2 DEF Ordered
    <3> QED
      BY <1>2, <1>4, <3>2, <3>3, <3>4
  <2>5. CASE a + d < Len(s) /\ Starts(s[a + d + 1])
    <3>1. k > a
      BY <2>1, <2>5
    <3>2. a + d + 1 \in 1 .. m /\ a + d + 1 \in 1 .. Len(s) /\ r \in 1 .. Len(s) /\ r < a + d + 1
      BY <1>0, <2>1, <3>1
    <3>3. s[a + d + 1].n <= g
      BY <1>3, <2>5, <3>2
    <3>4. s[r].n < s[a + d + 1].n
      BY <3>2 DEF Ordered
    <3> QED
      BY <1>2, <1>4, <3>2, <3>3, <3>4
  <2> QED
    BY <2>2, <2>3, <2>4, <2>5
<1>7. \E i \in 1 .. k : Starts(t[i]) /\ t[i].n = g /\ t[i].epoch = e
  <2>1. CASE r <= a
    <3>1. r \in 1 .. k /\ r \in 1 .. Len(t) /\ (IF r <= a THEN r ELSE r + d) = r
      BY <1>0, <2>1
    <3> QED
      BY <1>1, <1>2, <3>1
  <2>2. CASE ~(r <= a)
    <3>1. /\ r - d \in 1 .. k /\ r - d \in 1 .. Len(t)
          /\ (IF r - d <= a THEN r - d ELSE (r - d) + d) = r
      BY <1>0, <1>6, <2>2
    <3> QED
      BY <1>1, <1>2, <3>1
  <2> QED
    BY <2>1, <2>2
<1> QED
  BY <1>5, <1>7 DEF Begun

\* And every game that goes on has its start still.
LEMMA RootedShort ==
  ASSUME NEW t \in Seq(Post), NEW s \in Seq(Post), NEW a, NEW d, Shifted(t, s, a, d),
         Ordered(s), NEW from \in Nat, NEW after \in Nat, after >= from,
         Rooted(s, from), a < Len(t) => MayGo(s, a, d, after)
  PROVE  Rooted(t, after)
<1> SUFFICES ASSUME NEW i \in 1 .. Len(t), GoesOn(t[i]), t[i].epoch >= after
             PROVE  Begun(t, i - 1, t[i].game, t[i].epoch)
  BY DEF Rooted
<1> DEFINE j == IF i <= a THEN i ELSE i + d
<1>0. /\ a \in Nat /\ d \in Nat /\ Len(t) \in Nat /\ Len(s) \in Nat
      /\ a <= Len(t) /\ Len(t) + d = Len(s) /\ j \in 1 .. Len(s)
      /\ t[i].n = s[j].n /\ t[i].epoch = s[j].epoch /\ t[i].game = s[j].game
      /\ (Starts(t[i]) <=> Starts(s[j]))
  BY ShiftedFields
<1>1. t[i] \in Post /\ t[i].epoch \in Nat /\ t[i].game \in Nat
  BY ElementOfSeq, PostFields
<1>2. Begun(s, j - 1, t[i].game, t[i].epoch)
  <2> HIDE DEF j
  <2>1. GoesOn(s[j]) /\ s[j].epoch >= from
    BY <1>0, <1>1 DEF GoesOn
  <2> QED
    BY <1>0, <2>1 DEF Rooted
<1>3. i - 1 \in 0 .. Len(t) /\ t[i].epoch >= after
  BY <1>0
<1>4. \/ j - 1 = i - 1 /\ i - 1 <= a
      \/ /\ j - 1 = (i - 1) + d /\ i - 1 >= a /\ MayGo(s, a, d, after)
         /\ a + d < Len(s) /\ Starts(s[a + d + 1]) => i - 1 > a
  <2>1. CASE i <= a
    BY <1>0, <2>1
  <2>2. CASE ~(i <= a)
    <3>1. j = i + d /\ j - 1 = (i - 1) + d /\ i - 1 >= a /\ MayGo(s, a, d, after)
      BY <1>0, <2>2
    <3>2. ASSUME a + d < Len(s), Starts(s[a + d + 1]) PROVE i - 1 > a
      <4>1. ~Starts(s[j])
        BY <1>0 DEF GoesOn
      <4>2. j # a + d + 1
        BY <3>2, <4>1
      <4> QED
        BY <1>0, <3>1, <4>2
    <3> QED
      BY <3>1, <3>2
  <2> QED
    BY <2>1, <2>2
<1> HIDE DEF j
<1> QED
  BY <1>1, <1>2, <1>3, <1>4, BegunShort

\* The first epoch whose batches may still be sent.
Since == IF haveDeclared THEN declared.epoch ELSE current.epoch

\* Without ROMs a table is ready, and its declaration names the machine and keeps its identity,
\* from its first batch to the end of its epoch.
ReadyInv ==
  /\ rom = None /\ \A s \in Snapshots : s.rom = None
  /\ posted.machine = IF AuthoredReady THEN machine ELSE None
  /\ pushing # <<>> => AuthoredReady
  /\ unread \/ current = posted
  /\ \A i \in 1 .. Len(Line) : Line[i].epoch = epoch => AuthoredReady
  /\ \A s \in Snapshots : s.epoch = epoch /\ s.machine # None => AuthoredReady
  /\ \A s, t \in Snapshots :
       s.epoch = t.epoch /\ s.machine # None /\ t.machine # None => s.identity = t.identity
  /\ haveDeclared /\ declared.epoch = current.epoch /\ declared.machine # None
       => current.machine # None

\* The game that is kept is of the table it was kept for, as long as that table's epoch lasts.
OwnInv ==
  Kept > 0 => /\ gameOpenEpoch <= Since
              /\ \A s \in Snapshots : s.epoch = gameOpenEpoch =>
                   s.machine # None /\ s.identity = openGameIdentity

\* The start of every game that goes on, or that the script has open, is on the line.
RootInv ==
  /\ \A i \in 1 .. Len(Line) : Starts(Line[i]) => Line[i].game = Line[i].n
  /\ game.epoch <= epoch
  /\ ~cut => /\ Rooted(Line, Since)
             /\ ~refusing /\ game.epoch = epoch /\ game.n # 0 =>
                  Begun(Line, Len(Line), game.n, epoch)

\* A life of the daemon has taken batches in their order, and of those the worker still holds, h,
\* it has all before any that it has not.
Logged(log, h, q, next, last) ==
  /\ \A i, j \in 1 .. Len(log) : i < j => log[i].n < log[j].n
  /\ \A i \in 1 .. Len(log) : /\ log[i].n <= last /\ log[i].id < next
                              /\ \A j \in 1 .. Len(q) : log[i].n < q[j].n
                              /\ \A j \in 1 .. Len(h) : log[i].id = h[j].id => log[i].n = h[j].n
  /\ \A j \in 1 .. Len(h) : (\A i \in 1 .. Len(log) : log[i].id # h[j].id) =>
                              \A i \in 1 .. Len(log) : log[i].n < h[j].n

LogInv == Logged(dLog, Held, queue, nextBatchId, batches)

WholeInv == ReadyInv /\ OwnInv /\ RootInv /\ LogInv /\ WholeGames

\* Letting go of batches the worker holds.
LEMMA LoggedShort ==
  ASSUME NEW log, NEW h, NEW t, NEW q, NEW next, NEW last, NEW a, NEW d,
         h \in Seq(Post), t \in Seq(Post), Without(t, h, a, d), Logged(log, h, q, next, last)
  PROVE  Logged(log, t, q, next, last)
<1>1. /\ a \in Nat /\ d \in Nat /\ Len(t) \in Nat /\ Len(h) \in Nat
      /\ a <= Len(t) /\ Len(t) + d = Len(h)
      /\ \A i \in 1 .. Len(t) : t[i] = h[IF i <= a THEN i ELSE i + d]
  BY LenProperties DEF Without
<1>2. ASSUME NEW i \in 1 .. Len(t) PROVE \E j \in 1 .. Len(h) : t[i] = h[j]
  <2>1. (IF i <= a THEN i ELSE i + d) \in 1 .. Len(h)
    BY <1>1
  <2> QED
    BY <1>1, <2>1
<1>3. /\ \A i, j \in 1 .. Len(log) : i < j => log[i].n < log[j].n
      /\ \A i \in 1 .. Len(log) : log[i].n <= last /\ log[i].id < next
      /\ \A i \in 1 .. Len(log) : \A j \in 1 .. Len(q) : log[i].n < q[j].n
  BY DEF Logged
<1>4. ASSUME NEW j \in 1 .. Len(t)
      PROVE  /\ \A i \in 1 .. Len(log) : log[i].id = t[j].id => log[i].n = t[j].n
             /\ (\A i \in 1 .. Len(log) : log[i].id # t[j].id) =>
                  \A i \in 1 .. Len(log) : log[i].n < t[j].n
  <2>1. PICK m \in 1 .. Len(h) : t[j] = h[m]
    BY <1>2
  <2> QED
    BY <2>1 DEF Logged
<1> QED
  BY <1>3, <1>4 DEF Logged

\* Taking the queue: its batches get ids that nothing in the log has.
LEMMA LoggedTaken ==
  ASSUME TypeInv, NEW log \in Seq(Post), Logged(log, Held, queue, nextBatchId, batches)
  PROVE  Logged(log, Taking, <<>>, nextBatchId + Len(queue), batches)
<1>1. /\ Held \in Seq(Post) /\ queue \in Seq(Post) /\ nextBatchId \in Nat \ {0} /\ Len(<<>>) = 0
      /\ Len(Held) \in Nat /\ Len(log) \in Nat
  BY LineFacts, LenProperties DEF TypeInv, LineTypes, WorkerTypes
<1>2. /\ Taken \in Seq(Post) /\ Len(queue) \in Nat /\ Len(Taken) = Len(queue)
      /\ \A i \in 1 .. Len(queue) : Same(Taken[i], queue[i]) /\ Taken[i].id = nextBatchId + i - 1
  BY <1>1, TakenFacts
<1>3. /\ Len(Taking) = Len(Held) + Len(Taken)
      /\ \A i \in 1 .. Len(Held) : Taking[i] = Held[i]
      /\ \A i \in Len(Held) + 1 .. Len(Held) + Len(Taken) : Taking[i] = Taken[i - Len(Held)]
  <2>1. /\ Len(Held \o Taken) = Len(Held) + Len(Taken)
        /\ \A i \in 1 .. Len(Held) : (Held \o Taken)[i] = Held[i]
        /\ \A i \in Len(Held) + 1 .. Len(Held) + Len(Taken) :
             (Held \o Taken)[i] = Taken[i - Len(Held)]
    <3>1. Held \in Seq(Post)
      BY <1>1
    <3>2. Taken \in Seq(Post)
      BY <1>2
    <3> HIDE DEF Taken, Held
    <3> QED
      BY ONLY <3>1, <3>2, PairOf
  <2> QED
    BY <2>1 DEF Taking
<1>4. \A i \in 1 .. Len(log) : log[i].id \in Nat /\ log[i].n \in Nat
  BY ElementOfSeq, PostFields
<1>5. \A i \in 1 .. Len(log) : log[i].id < nextBatchId /\ log[i].n <= batches
  BY DEF Logged
<1>6. ASSUME NEW j \in 1 .. Len(Taking)
      PROVE  /\ \A i \in 1 .. Len(log) : log[i].id = Taking[j].id => log[i].n = Taking[j].n
             /\ (\A i \in 1 .. Len(log) : log[i].id # Taking[j].id) =>
                  \A i \in 1 .. Len(log) : log[i].n < Taking[j].n
  <2>1. CASE j <= Len(Held)
    <3>1. j \in 1 .. Len(Held) /\ Taking[j] = Held[j]
      BY <1>1, <1>3, <2>1
    <3> QED
      BY <3>1 DEF Logged
  <2>2. CASE ~(j <= Len(Held))
    <3> DEFINE k == j - Len(Held)
    <3>1. k \in 1 .. Len(queue) /\ j \in Len(Held) + 1 .. Len(Held) + Len(Taken)
      BY <1>1, <1>2, <1>3, <2>2
    <3>2. Taking[j].n = queue[k].n /\ Taking[j].id = nextBatchId + k - 1
      BY <1>2, <1>3, <3>1 DEF Same
    <3>3. \A i \in 1 .. Len(log) : log[i].n < queue[k].n
      BY <3>1 DEF Logged
    <3>4. \A i \in 1 .. Len(log) : log[i].id # Taking[j].id
      <4>1. k \in Nat \ {0}
        BY <3>1, <1>2
      <4> HIDE DEF k
      <4> QED
        BY <1>1, <1>4, <1>5, <3>2, <4>1
    <3> HIDE DEF k
    <3> QED
      BY <3>2, <3>3, <3>4
  <2> QED
    BY <2>1, <2>2
<1>7. \A i \in 1 .. Len(log) : log[i].id < nextBatchId + Len(queue)
  BY <1>1, <1>2, <1>4, <1>5
<1>8. \A i, j \in 1 .. Len(log) : i < j => log[i].n < log[j].n
  BY DEF Logged
<1>9. \A j \in 1 .. Len(<<>>) : FALSE
  BY <1>1
<1> QED
  BY <1>5, <1>6, <1>7, <1>8, <1>9 DEF Logged

\* A step of the worker keeps all this if it lets go only of what may go.
LEMMA WholeStep ==
  ASSUME IInv, IInv', WholeInv, ApiQuiet, UNCHANGED <<paths, rom, game>>,
         Snapshots' \subseteq Snapshots, unread' \/ current' = posted,
         haveDeclared' /\ declared'.epoch = current'.epoch /\ declared'.machine # None
           => current'.machine # None,
         Since <= Since', OwnInv', ~cut' => ~cut, NEW a, NEW d, Lets(a, d),
         ~cut' => MayGo(Line, a, d, Since'),
         Logged(dLog', Held, queue, nextBatchId, batches), WholeGames'
  PROVE  WholeInv'
<1> USE DEF WholeInv
<1>1. TypeInv /\ TypeInv' /\ haveDeclared' => declared'.epoch <= current'.epoch
  BY DEF IInv, TableInv
<1>0. TypeInv /\ TypeInv' /\ Ordered(Line) /\ IdsInOrder
  BY DEF IInv, LineInv
<1>2. UNCHANGED <<epoch, identity, machine, posted, pushing, refusing, batches>>
  BY DEF ApiQuiet
<1>3. Shifted(Line', Line, a, d)
  BY <1>0, LineLets DEF Lets
<1>4. Line \in Seq(Post) /\ Line' \in Seq(Post)
  BY <1>0, LineFacts, LineFactsAfter
<1>5. /\ a \in Nat /\ d \in Nat /\ Len(Line') \in Nat /\ Len(Line) \in Nat
      /\ a <= Len(Line') /\ Len(Line') + d = Len(Line)
      /\ \A i \in 1 .. Len(Line') : \E j \in 1 .. Len(Line) :
            /\ Line'[i].n = Line[j].n /\ Line'[i].epoch = Line[j].epoch /\ Line'[i].game = Line[j].game
            /\ (Starts(Line'[i]) <=> Starts(Line[j]))
  <2>1. /\ a \in Nat /\ d \in Nat /\ Len(Line') \in Nat /\ Len(Line) \in Nat
        /\ a <= Len(Line') /\ Len(Line') + d = Len(Line)
        /\ \A i \in 1 .. Len(Line') :
             LET j == IF i <= a THEN i ELSE i + d
             IN /\ j \in 1 .. Len(Line)
                /\ Line'[i].n = Line[j].n /\ Line'[i].epoch = Line[j].epoch
                /\ Line'[i].game = Line[j].game
                /\ (Starts(Line'[i]) <=> Starts(Line[j]))
    BY ONLY <1>3, <1>4, ShiftedFields
  <2> QED
    BY <2>1
<1>6. ReadyInv'
  <2>1. AuthoredReady' = AuthoredReady
    BY <1>2 DEF AuthoredReady
  <2>2. \A i \in 1 .. Len(Line') : Line'[i].epoch = epoch => AuthoredReady
    BY <1>5 DEF ReadyInv
  <2> QED
    BY <1>2, <2>1, <2>2 DEF ReadyInv
<1>7. Since \in Nat /\ Since' \in Nat /\ epoch \in Nat /\ Since' <= epoch
  <2>1. current \in Snapshot /\ declared \in Snapshot /\ current' \in Snapshot /\ declared' \in Snapshot
    BY <1>0 DEF TypeInv, WorkerTypes
  <2>2. epoch \in Nat
    BY <1>0 DEF TypeInv, ApiTypes
  <2>3. current' \in Snapshots' /\ (haveDeclared' => declared' \in Snapshots')
    BY DEF Snapshots
  <2>4. \A s \in Snapshots' : s.epoch <= epoch'
    BY DEF IInv, TableInv, Declared
  <2> QED
    BY <1>2, <2>1, <2>2, <2>3, <2>4, SnapshotFields DEF Since
<1>8. RootInv'
  <2>1. \A i \in 1 .. Len(Line') : Starts(Line'[i]) => Line'[i].game = Line'[i].n
    BY <1>5 DEF RootInv
  <2>2. game'.epoch <= epoch'
    BY <1>2 DEF RootInv
  <2>3. ASSUME ~cut' PROVE Rooted(Line', Since')
    <3>1. Rooted(Line, Since) /\ MayGo(Line, a, d, Since')
      BY <2>3 DEF RootInv
    <3> QED
      BY <1>0, <1>3, <1>4, <1>7, <3>1, RootedShort
  <2>4. ASSUME ~cut', ~refusing, game.epoch = epoch, game.n # 0
        PROVE  Begun(Line', Len(Line'), game.n, epoch)
    <3>1. Begun(Line, Len(Line), game.n, epoch) /\ MayGo(Line, a, d, Since') /\ game.n \in Nat
      BY <1>0, <2>4 DEF RootInv, TypeInv, ApiTypes
    <3>2. /\ Len(Line') \in 0 .. Len(Line') /\ Len(Line) = Len(Line') + d /\ Len(Line') >= a
          /\ a + d < Len(Line) => Len(Line') > a
      BY <1>5
    <3> QED
      BY <1>0, <1>3, <1>4, <1>7, <3>1, <3>2, BegunShort
  <2> QED
    BY <1>2, <2>1, <2>2, <2>3, <2>4 DEF RootInv
<1>9. LogInv'
  <2>0. Held \in Seq(Post) /\ Held' \in Seq(Post) /\ Taking \in Seq(Post) /\ dLog' \in Seq(Post)
    BY <1>0, LineFacts, LineFactsAfter, TakingFacts DEF TypeInv, LineTypes
  <2>1. CASE Without(Held', Held, a, d) /\ UNCHANGED <<queue, nextBatchId>>
    <3>1. Logged(dLog', Held', queue, nextBatchId, batches)
      BY <2>0, <2>1, LoggedShort
    <3> QED
      BY <1>2, <2>1, <3>1 DEF LogInv
  <2>2. CASE /\ Without(Held', Taking, a, d) /\ queue' = <<>>
             /\ nextBatchId' = nextBatchId + Len(queue)
    <3>1. Logged(dLog', Taking, <<>>, nextBatchId + Len(queue), batches)
      BY <1>0, <2>0, LoggedTaken
    <3>2. Logged(dLog', Held', <<>>, nextBatchId + Len(queue), batches)
      BY <2>0, <2>2, <3>1, LoggedShort
    <3> QED
      BY <1>2, <2>2, <3>2 DEF LogInv
  <2> QED
    BY <2>1, <2>2 DEF Lets
<1> QED
  BY <1>6, <1>8, <1>9

-----------------------------------------------------------------------------
(* The steps of the API thread.                                            *)

\* The game that is kept is the first of the line, and of an epoch that batch names.
LEMMA KeptFirst ==
  ASSUME IInv, Kept > 0
  PROVE  1 \in 1 .. Len(Line) /\ gameOpenEpoch = Line[1].epoch
<1>1. TypeInv /\ replayQueued <= Len(games) /\ (Kept > 0 => gameOpenEpoch = Line[1].epoch)
  BY DEF IInv, KeptInv
<1>2. Kept \in 0 .. Len(Line) /\ Len(Line) \in Nat
  BY <1>1, OpenFacts, LineFacts
<1> QED
  BY <1>1, <1>2

\* The declaration that is posted, while there are no ROMs.
LEMMA UpdateReady ==
  ASSUME TypeInv, TableInv, ReadyInv, UpdateDeclare, rom' = None,
         epoch' = epoch => paths' = paths /\ (machine' = machine \/ machine = None)
  PROVE  /\ posted'.rom = None /\ posted'.machine = IF AuthoredReady' THEN machine' ELSE None
         /\ unread' \/ (unread' = unread /\ posted' = posted)
         /\ epoch' = epoch /\ AuthoredReady =>
              AuthoredReady' /\ posted'.identity = posted.identity /\ posted.machine # None
<1> DEFINE m == IF AuthoredReady' THEN machine' ELSE None
           now == [epoch |-> epoch', identity |-> identity, rom |-> rom',
                   machine |-> m, display |-> display']
<1>1. /\ identity' = IF now.epoch = posted.epoch /\ NewIdentity(posted, now)
                    THEN identity + 1 ELSE identity
      /\ posted' = [now EXCEPT !.identity = identity']
      /\ unread' = (unread \/ posted' # posted)
  BY DEF UpdateDeclare
<1>2. /\ posted.epoch = epoch /\ posted.identity = identity /\ rom = None /\ posted \in Snapshots
      /\ unread \in BOOLEAN /\ posted.machine = IF AuthoredReady THEN machine ELSE None
      /\ posted.rom = None
  BY DEF TypeInv, ApiTypes, TableInv, ReadyInv, Snapshots
<1>3. epoch' = epoch /\ AuthoredReady => AuthoredReady' /\ machine' = machine /\ machine # None
  BY <1>2 DEF AuthoredReady
<1>5. unread' \/ (unread' = unread /\ posted' = posted)
  BY <1>1, <1>2, Zenon
<1>6. epoch' = epoch /\ AuthoredReady => m = posted.machine
  BY <1>2, <1>3
<1>8. m = IF AuthoredReady' THEN machine' ELSE None
  OBVIOUS
<1> HIDE DEF m
<1>4. /\ posted'.rom = rom' /\ posted'.identity = identity' /\ posted'.machine = m
      /\ now.epoch = epoch' /\ now.machine = m /\ now.rom = rom'
  BY <1>1
<1> HIDE DEF now
<1>7. epoch' = epoch /\ AuthoredReady => identity' = identity
  BY <1>1, <1>2, <1>4, <1>6 DEF NewIdentity
<1> QED
  BY <1>2, <1>3, <1>4, <1>5, <1>7, <1>8

\* A handler that posts a declaration.
LEMMA DeclareWhole ==
  ASSUME IInv, IInv', WholeInv, UpdateDeclare, Idle, rom' = None, epoch <= epoch',
         epoch' = epoch => paths' = paths /\ (machine' = machine \/ machine = None),
         UNCHANGED <<handoff, worker, dLog, bounds>>
  PROVE  WholeInv'
<1> USE DEF WholeInv
<1>0. TypeInv /\ TypeInv' /\ TableInv
  BY DEF IInv
<1>1. /\ UNCHANGED <<pushing, queue, refusing, batches, pc, caller, current, declared>>
      /\ UNCHANGED <<haveDeclared, games, gameOpenEpoch, openGame>>
      /\ UNCHANGED <<openGameIdentity, replayPending, replayQueued, nextBatchId, dLog>>
      /\ UNCHANGED <<game, cut>>
  BY <1>0, DeclareQuiet DEF handoff, bounds
<1>2. Line' = Line /\ Held' = Held /\ Kept' = Kept /\ Since' = Since
  BY <1>1 DEF Line, Held, Kept, Since
<1>3. \A s \in Snapshots' : s = posted' \/ s \in Snapshots
  BY <1>0, DeclareTable
<1>4. \A i \in 1 .. Len(Line) : Line[i].epoch = epoch' => epoch' = epoch
  BY <1>0, DeclareBatches DEF IInv
<1>5. /\ posted'.rom = None /\ posted'.machine = IF AuthoredReady' THEN machine' ELSE None
      /\ unread' \/ (unread' = unread /\ posted' = posted)
      /\ epoch' = epoch /\ AuthoredReady =>
           AuthoredReady' /\ posted'.identity = posted.identity /\ posted.machine # None
  BY <1>0, UpdateReady
<1>6. /\ posted'.epoch = epoch' /\ posted.epoch = epoch /\ posted \in Snapshots
      /\ \A s \in Snapshots : s.epoch <= epoch /\ s.epoch \in Nat
      /\ epoch \in Nat /\ epoch' \in Nat
  <2>1. epoch \in Nat /\ epoch' \in Nat /\ posted \in Snapshot /\ current \in Snapshot
        /\ declared \in Snapshot
    BY <1>0 DEF TypeInv, ApiTypes, WorkerTypes
  <2>2. \A s \in Snapshots : s.epoch \in Nat
    BY <2>1, SnapshotFields DEF Snapshots
  <2>3. posted'.epoch = epoch' /\ posted.epoch = epoch /\ \A s \in Snapshots : s.epoch <= epoch
    BY DEF IInv, TableInv, Declared
  <2> QED
    BY <2>1, <2>2, <2>3 DEF Snapshots
<1>7. ASSUME NEW s \in Snapshots, s.epoch = epoch', s.machine # None
      PROVE  epoch' = epoch /\ AuthoredReady
  <2>1. epoch' = epoch
    BY <1>6, <1>7
  <2> QED
    BY <1>7, <2>1 DEF ReadyInv
<1>8. ReadyInv'
  <2>1. \A s \in Snapshots' : s.rom = None
    BY <1>3, <1>5 DEF ReadyInv
  <2>2. pushing' = <<>>
    BY <1>1 DEF Idle
  <2>3. unread' \/ current' = posted'
    BY <1>1, <1>5 DEF ReadyInv
  <2>4. \A i \in 1 .. Len(Line) : Line[i].epoch = epoch' => AuthoredReady'
    BY <1>4, <1>5 DEF ReadyInv
  <2>5. \A s \in Snapshots' : s.epoch = epoch' /\ s.machine # None => AuthoredReady'
    BY <1>3, <1>5, <1>7
  <2>6. ASSUME NEW s \in Snapshots, s.epoch = epoch', s.machine # None
        PROVE  s.identity = posted'.identity
    <3>1. epoch' = epoch /\ AuthoredReady
      BY <1>7, <2>6
    <3>2. posted.machine # None /\ posted.epoch = s.epoch
      BY <1>5, <1>6, <2>6, <3>1
    <3>3. s.identity = posted.identity
      BY <1>6, <2>6, <3>2 DEF ReadyInv
    <3> QED
      BY <1>5, <3>1, <3>3
  <2>7. \A s, t \in Snapshots' :
          s.epoch = t.epoch /\ s.machine # None /\ t.machine # None => s.identity = t.identity
    <3> SUFFICES ASSUME NEW s \in Snapshots', NEW t \in Snapshots',
                        s.epoch = t.epoch, s.machine # None, t.machine # None
                 PROVE  s.identity = t.identity
      OBVIOUS
    <3>1. CASE s \in Snapshots /\ t \in Snapshots
      BY <3>1 DEF ReadyInv
    <3>2. CASE s = posted' /\ t \in Snapshots
      BY <1>6, <2>6, <3>2
    <3>3. CASE t = posted' /\ s \in Snapshots
      BY <1>6, <2>6, <3>3
    <3>4. CASE s = posted' /\ t = posted'
      BY <3>4
    <3> QED
      BY <1>3, <3>1, <3>2, <3>3, <3>4
  <2>8. haveDeclared' /\ declared'.epoch = current'.epoch /\ declared'.machine # None
           => current'.machine # None
    BY <1>1 DEF ReadyInv
  <2> QED
    BY <1>2, <1>5, <2>1, <2>2, <2>3, <2>4, <2>5, <2>7, <2>8 DEF ReadyInv
<1>9. OwnInv'
  <2>1. ASSUME Kept > 0, posted'.epoch = gameOpenEpoch
        PROVE  posted'.machine # None /\ posted'.identity = openGameIdentity
    <3>1. 1 \in 1 .. Len(Line) /\ Line[1].epoch = epoch'
      BY <1>6, <2>1, KeptFirst
    <3>2. epoch' = epoch /\ AuthoredReady
      BY <1>4, <3>1 DEF ReadyInv
    <3>3. posted.epoch = gameOpenEpoch
      BY <1>6, <2>1, <3>2
    <3>4. posted.machine # None /\ posted.identity = openGameIdentity
      BY <1>6, <2>1, <3>3 DEF OwnInv
    <3>5. AuthoredReady' /\ posted'.identity = posted.identity
      BY <1>5, <3>2
    <3>6. machine' # None
      BY <3>5 DEF AuthoredReady
    <3> QED
      BY <1>5, <3>4, <3>5, <3>6
  <2>2. Kept > 0 => \A s \in Snapshots' : s.epoch = gameOpenEpoch =>
                      s.machine # None /\ s.identity = openGameIdentity
    BY <1>3, <2>1 DEF OwnInv
  <2> QED
    BY <1>1, <1>2, <2>2 DEF OwnInv
<1>10. RootInv'
  <2>1. game.epoch \in Nat /\ game.epoch <= epoch
    BY <1>0 DEF RootInv, TypeInv, ApiTypes
  <2>2. game.epoch <= epoch' /\ (game.epoch = epoch' => epoch' = epoch)
    BY <1>6, <2>1
  <2> QED
    BY <1>1, <1>2, <2>2 DEF RootInv
<1>11. LogInv' /\ WholeGames'
  BY <1>1, <1>2 DEF LogInv, WholeGames
<1> QED
  BY <1>8, <1>9, <1>10, <1>11

\* A step of the API thread that posts nothing.
LEMMA QuietWhole ==
  ASSUME WholeInv, pushing' # <<>> => AuthoredReady, UNCHANGED <<session, unread, worker, dLog>>,
         UNCHANGED <<queue, refusing, batches, game, cut>>
  PROVE  WholeInv'
<1> USE DEF WholeInv
<1>1. /\ UNCHANGED <<epoch, identity, machine, paths, rom, posted, unread, queue, refusing, batches>>
      /\ UNCHANGED <<current, declared, haveDeclared, games, gameOpenEpoch, openGame, dLog>>
      /\ UNCHANGED <<openGameIdentity, replayPending, replayQueued, nextBatchId, game, cut>>
  BY DEF session, worker, link, retained, replay
<1>2. /\ Line' = Line /\ Held' = Held /\ Kept' = Kept /\ Since' = Since /\ Snapshots' = Snapshots
      /\ AuthoredReady' = AuthoredReady
  BY <1>1 DEF Line, Held, Kept, Since, Snapshots, AuthoredReady
<1>3. ReadyInv'
  BY <1>1, <1>2 DEF ReadyInv
<1>4. OwnInv'
  BY <1>1, <1>2 DEF OwnInv
<1>5. RootInv'
  BY <1>1, <1>2 DEF RootInv
<1>6. LogInv' /\ WholeGames'
  BY <1>1, <1>2 DEF LogInv, WholeGames
<1> QED
  BY <1>3, <1>4, <1>5, <1>6

\* The handlers of the API thread, all but Push.
LEMMA ApiWhole ==
  ASSUME RomIds = {}, IInv, IInv', WholeInv,
         \/ OnGameStart \/ OnGameEnd \/ DisplayChanged \/ ScriptCommit \/ UNCHANGED vars
         \/ \E m \in Machines : DeclareMachine(m)
         \/ \E r \in RomIds \cup {None} : SetRomId(r)
         \/ \E kind \in Kind : ScriptGameOp(kind)
  PROVE  WholeInv'
<1>1. epoch \in Nat /\ rom = None /\ None \notin Machines
  BY Constants DEF IInv, TypeInv, ApiTypes, WholeInv, ReadyInv
<1>2. CASE OnGameStart
  <2>1. epoch <= epoch' /\ epoch' # epoch
    BY <1>1, <1>2 DEF OnGameStart
  <2> QED
    BY <1>1, <1>2, <2>1, DeclareWhole DEF OnGameStart
<1>3. CASE OnGameEnd
  <2>1. epoch <= epoch' /\ epoch' # epoch
    BY <1>1, <1>3 DEF OnGameEnd
  <2> QED
    BY <1>1, <1>3, <2>1, DeclareWhole DEF OnGameEnd
<1>4. CASE DisplayChanged
  <2>1. epoch <= epoch'
    BY <1>1, <1>4 DEF DisplayChanged
  <2> QED
    BY <1>1, <1>4, <2>1, DeclareWhole DEF DisplayChanged
<1>5. ASSUME NEW m \in Machines, DeclareMachine(m) PROVE WholeInv'
  <2>1. epoch <= epoch' /\ (epoch' = epoch => machine = None)
    BY <1>1, <1>5 DEF DeclareMachine, ReplacesMachine
  <2> QED
    BY <1>1, <1>5, <2>1, DeclareWhole DEF DeclareMachine
<1>6. ASSUME NEW r \in RomIds \cup {None}, SetRomId(r) PROVE WholeInv'
  BY <1>1, <1>6 DEF SetRomId
<1>7. ASSUME NEW kind \in Kind, ScriptGameOp(kind) PROVE WholeInv'
  <2>1. /\ UNCHANGED <<session, unread, worker, dLog, pushing, queue, refusing, batches, game, cut>>
    BY <1>7 DEF ScriptGameOp, handoff
  <2> QED
    BY <2>1, QuietWhole DEF WholeInv, ReadyInv
<1>8. CASE ScriptCommit
  <2>1. /\ UNCHANGED <<session, unread, worker, dLog, queue, refusing, batches, game, cut>>
        /\ pushing' = IF AuthoredReady THEN ops ELSE <<>>
    BY <1>8 DEF ScriptCommit, bounds
  <2> QED
    BY <2>1, QuietWhole
<1>9. CASE UNCHANGED vars
  <2>1. UNCHANGED <<session, unread, worker, dLog, pushing, queue, refusing, batches, game, cut>>
    BY <1>9 DEF vars, handoff, bounds
  <2> QED
    BY <2>1, QuietWhole DEF WholeInv, ReadyInv
<1> QED
  BY <1>2, <1>3, <1>4, <1>5, <1>6, <1>7, <1>8, <1>9

\* A batch more at the end of a line: the games of the others have their starts as before.
LEMMA RootedGrows ==
  ASSUME NEW l \in Seq(Post), NEW b \in Post, NEW from, Rooted(l, from),
         GoesOn(b) /\ b.epoch >= from => Begun(l, Len(l), b.game, b.epoch)
  PROVE  Rooted(Append(l, b), from)
<1> DEFINE g == Append(l, b)
<1>1. /\ Len(l) \in Nat /\ Len(g) = Len(l) + 1 /\ g[Len(l) + 1] = b
      /\ \A j \in 1 .. Len(l) : g[j] = l[j]
  BY LenProperties, AppendProperties
<1> HIDE DEF g
<1>2. ASSUME NEW k \in 0 .. Len(l), NEW n, NEW e, Begun(l, k, n, e)
      PROVE  Begun(g, k, n, e)
  <2>1. \A j \in 1 .. k : j \in 1 .. Len(l)
    BY <1>1
  <2>2. \A j \in 1 .. k : g[j] = l[j]
    BY <1>1, <2>1
  <2> QED
    BY <1>2, <2>2 DEF Begun
<1>3. ASSUME NEW i \in 1 .. Len(g), GoesOn(g[i]), g[i].epoch >= from
      PROVE  Begun(g, i - 1, g[i].game, g[i].epoch)
  <2>1. CASE i = Len(l) + 1
    <3>1. g[i] = b /\ i - 1 = Len(l) /\ Len(l) \in 0 .. Len(l)
      BY <1>1, <2>1
    <3> QED
      BY <1>2, <1>3, <3>1
  <2>2. CASE i # Len(l) + 1
    <3>1. i \in 1 .. Len(l) /\ i - 1 \in 0 .. Len(l)
      BY <1>1, <2>2
    <3>2. g[i] = l[i]
      BY <1>1, <3>1
    <3>3. Begun(l, i - 1, l[i].game, l[i].epoch)
      BY <1>3, <3>1, <3>2 DEF Rooted
    <3> QED
      BY <1>2, <3>1, <3>2, <3>3
  <2> QED
    BY <2>1, <2>2
<1>4. Rooted(g, from)
  BY <1>3 DEF Rooted
<1> QED
  BY <1>4 DEF g

\* What it leaves open is the game it starts, or the one it goes on with.
LEMMA BegunGrows ==
  ASSUME NEW l \in Seq(Post), NEW b \in Post, ~Ends(b),
         \A j \in 1 .. Len(l) : l[j].n < b.n, NEW g \in Nat,
         \/ Starts(b) /\ g = b.n
         \/ ~Starts(b) /\ Begun(l, Len(l), g, b.epoch)
  PROVE  Begun(Append(l, b), Len(l) + 1, g, b.epoch)
<1> DEFINE s == Append(l, b)
<1>1. /\ Len(l) \in Nat /\ Len(s) = Len(l) + 1 /\ s[Len(l) + 1] = b
      /\ \A j \in 1 .. Len(l) : s[j] = l[j]
  BY LenProperties, AppendProperties
<1>2. \A j \in 1 .. Len(l) : l[j].n \in Nat
  BY ElementOfSeq, PostFields
<1>6. b.n \in Nat
  BY PostFields
<1>7. Len(l) + 1 \in 1 .. Len(l) + 1
  BY <1>1
<1> HIDE DEF s
<1>3. \A j \in 1 .. Len(l) + 1 : j = Len(l) + 1 \/ j \in 1 .. Len(l)
  BY <1>1
<1>4. CASE Starts(b) /\ g = b.n
  <2>1. Starts(s[Len(l) + 1]) /\ s[Len(l) + 1].n = g /\ s[Len(l) + 1].epoch = b.epoch
    BY <1>1, <1>4
  <2>2. ASSUME NEW j \in 1 .. Len(l) + 1
        PROVE  (Starts(s[j]) => s[j].n <= g) /\ (Ends(s[j]) => s[j].n < g)
    <3>1. CASE j = Len(l) + 1
      BY <1>1, <1>4, <1>6, <3>1
    <3>2. CASE j \in 1 .. Len(l)
      <4>1. s[j].n \in Nat /\ s[j].n < g
        BY <1>1, <1>2, <1>4, <3>2
      <4> QED
        BY <4>1
    <3> QED
      BY <1>3, <3>1, <3>2
  <2>3. Begun(s, Len(l) + 1, g, b.epoch)
    BY <1>7, <2>1, <2>2 DEF Begun
  <2> QED
    BY <2>3 DEF s
<1>5. CASE ~Starts(b) /\ Begun(l, Len(l), g, b.epoch)
  <2>1. PICK r \in 1 .. Len(l) : Starts(l[r]) /\ l[r].n = g /\ l[r].epoch = b.epoch
    BY <1>5 DEF Begun
  <2>2. r \in 1 .. Len(l) + 1 /\ s[r] = l[r]
    BY <1>1
  <2>3. ASSUME NEW j \in 1 .. Len(l) + 1
        PROVE  (Starts(s[j]) => s[j].n <= g) /\ (Ends(s[j]) => s[j].n < g)
    <3>1. CASE j = Len(l) + 1
      BY <1>1, <1>5, <3>1
    <3>2. CASE j \in 1 .. Len(l)
      <4>1. (Starts(l[j]) => l[j].n <= g) /\ (Ends(l[j]) => l[j].n < g)
        BY <1>5, <3>2 DEF Begun
      <4> QED
        BY <1>1, <3>2, <4>1
    <3> QED
      BY <1>3, <3>1, <3>2
  <2>4. Begun(s, Len(l) + 1, g, b.epoch)
    BY <2>1, <2>2, <2>3 DEF Begun
  <2> QED
    BY <2>4 DEF s
<1> QED
  BY <1>4, <1>5

\* The line after a Push: the start of the script's open game has stayed, whatever the queue
\* gave up, or the game is refused.
LEMMA PushRoots ==
  ASSUME IInv, IInv', WholeInv, PushPost
  PROVE  RootInv'
<1> USE DEF WholeInv
<1>0. TypeInv /\ TypeInv' /\ TableInv /\ Ordered(Line) /\ Joined(Line) /\ IInv
  BY DEF IInv, LineInv
<1>1. PICK post : Pushes(post)
  BY <1>0, PushFacts
<1>2. /\ Held' = Held /\ UNCHANGED <<epoch, cut, current, declared, haveDeclared>> /\ Since' = Since
      /\ epoch \in Nat /\ batches \in Nat
  <2>1. Held' = Held /\ UNCHANGED <<epoch, current, declared, haveDeclared>>
        /\ epoch \in Nat /\ batches \in Nat
    BY <1>0, PushQuiet
  <2>2. cut' = cut
    BY <1>0, PushFacts DEF bounds
  <2> QED
    BY <2>1, <2>2 DEF Since
<1>3. Held \in Seq(Post) /\ queue \in Seq(Post) /\ Line \in Seq(Post) /\ Line = Held \o queue
      /\ Len(Held) \in Nat /\ Len(queue) \in Nat /\ Len(Line) = Len(Held) + Len(queue)
      /\ \A i \in Len(Held) + 1 .. Len(Held) + Len(queue) : Line[i] = queue[i - Len(Held)]
  <2>1. queue \in Seq(Post) /\ Line = Held \o queue
    BY <1>0 DEF TypeInv, LineTypes, Line
  <2> QED
    BY <1>0, <2>1, LineFacts, LenProperties
<1>4. /\ post \in Post /\ post.epoch = epoch /\ post.n = batches + 1
      /\ IF Starts(post) THEN post.game = post.n
                          ELSE post.game = IF game.epoch = epoch THEN game.n ELSE 0
      /\ game' = [epoch |-> epoch, n |-> IF Ends(post) THEN 0 ELSE post.game]
  BY <1>1 DEF Pushes
<1>5. game'.epoch = epoch /\ game'.n = IF Ends(post) THEN 0 ELSE post.game
  <2> DEFINE n == IF Ends(post) THEN 0 ELSE post.game
  <2> HIDE DEF n
  <2>1. game' = [epoch |-> epoch, n |-> n]
    BY <1>4 DEF n
  <2>2. game'.epoch = epoch /\ game'.n = n
    BY <2>1
  <2> QED
    BY <2>2 DEF n
<1>6. Since \in Nat
  BY <1>0 DEF Since, TypeInv, WorkerTypes, Snapshot
<1>7. CASE UNCHANGED <<queue, refusing>> /\ refusing
  <2>1. Line' = Line
    BY <1>2, <1>7 DEF Line
  <2>2. game'.epoch <= epoch'
    BY <1>2, <1>5
  <2> QED
    BY <1>2, <1>7, <2>1, <2>2 DEF RootInv
<1>8. ASSUME NEW i \in 1 .. Len(queue) + 1, ~refusing \/ Starts(post),
             i = 1 \/ (i <= Len(queue) /\ Starts(queue[i])) \/ (i = Len(queue) + 1 /\ Starts(post)),
             \/ queue' = Append(From(queue, i), post) /\ refusing' = FALSE
             \/ queue' = From(queue, i) /\ refusing' = TRUE
      PROVE  RootInv'
  <2> DEFINE t == From(queue, i)
             l == Held \o t
             a == Len(Held)
             d == i - 1
  <2>1. /\ i <= Len(queue) => i = 1 \/ Starts(queue[i])
        /\ ~Starts(post) => (i = 1 \/ i <= Len(queue)) /\ ~refusing
    <3>1. i = Len(queue) + 1 => ~(i <= Len(queue))
      BY <1>3
    <3> QED
      BY <1>8, <3>1
  <2>2. /\ l \in Seq(Post)
        /\ \A j \in 1 .. Len(l) : l[j].n < post.n
    BY <1>0, <1>1, <2>1, PushLeaves
  <2>3. /\ t \in Seq(Post) /\ Len(t) = Len(queue) - i + 1
    BY <1>3, FromProperties
  <2>4. Shifted(l, Line, a, d)
    BY <1>0, <1>3, <2>1, LineCut
  <2>5. /\ a \in Nat /\ d \in Nat /\ Len(l) \in Nat /\ a <= Len(l) /\ Len(l) + d = Len(Line)
        /\ \A j \in 1 .. Len(l) :
             LET k == IF j <= a THEN j ELSE j + d
             IN /\ k \in 1 .. Len(Line)
                /\ l[j].n = Line[k].n /\ l[j].game = Line[k].game
                /\ (Starts(l[j]) <=> Starts(Line[k]))
    <3> HIDE DEF l, t, a, d
    <3>1. l \in Seq(Post) /\ Line \in Seq(Post)
      BY <1>3, <2>2
    <3>2. /\ a \in Nat /\ d \in Nat /\ Len(l) \in Nat /\ Len(Line) \in Nat
          /\ a <= Len(l) /\ Len(l) + d = Len(Line)
          /\ \A j \in 1 .. Len(l) :
               LET k == IF j <= a THEN j ELSE j + d
               IN /\ k \in 1 .. Len(Line)
                  /\ l[j].n = Line[k].n /\ l[j].epoch = Line[k].epoch /\ l[j].game = Line[k].game
                  /\ (Starts(l[j]) <=> Starts(Line[k])) /\ (Ends(l[j]) <=> Ends(Line[k]))
      BY ONLY <2>4, <3>1, ShiftedFields
    <3> QED
      BY <3>2
  <2>6. i = 1 \/ i <= Len(queue) => MayGo(Line, a, d, Since)
    <3>1. CASE i = 1
      <4>1. \A j \in a + 1 .. a + d : FALSE
        BY <1>3, <3>1
      <4> QED
        BY <4>1 DEF MayGo
    <3>2. CASE i # 1 /\ i <= Len(queue)
      <4>1. a + d + 1 \in Len(Held) + 1 .. Len(Held) + Len(queue) /\ a + d < Len(Line)
            /\ (a + d + 1) - Len(Held) = i
        BY <1>3, <3>2
      <4>2. Line[a + d + 1] = queue[i]
        BY <1>3, <4>1
      <4>3. Starts(Line[a + d + 1])
        BY <2>1, <3>2, <4>2
      <4> QED
        BY <4>1, <4>3 DEF MayGo
    <3> QED
      BY <3>1, <3>2
  <2>7. a < Len(l) => MayGo(Line, a, d, Since)
    <3>1. Len(l) = a + Len(t)
      BY <1>3, <2>3, PairOf
    <3>2. a < Len(l) => i <= Len(queue)
      BY <1>3, <2>3, <3>1
    <3> QED
      BY <2>6, <3>2
  <2> HIDE DEF t, l, a, d
  <2>8. ~cut => Rooted(l, Since)
    <3>1. Since >= Since
      BY <1>6
    <3> QED
      BY <1>0, <1>3, <1>6, <2>2, <2>4, <2>7, <3>1, RootedShort DEF RootInv
  <2>9. \A j \in 1 .. Len(l) : Starts(l[j]) => l[j].game = l[j].n
    BY <2>5 DEF RootInv
  <2>10. CASE queue' = From(queue, i) /\ refusing' = TRUE
    <3>1. Line' = l
      BY <1>2, <2>10 DEF Line, l, t
    <3>2. game'.epoch <= epoch'
      BY <1>2, <1>5
    <3> QED
      BY <1>2, <2>8, <2>9, <2>10, <3>1, <3>2 DEF RootInv
  <2>11. CASE queue' = Append(From(queue, i), post) /\ refusing' = FALSE
    <3> DEFINE g == Append(l, post)
    <3>1. /\ Len(g) = Len(l) + 1 /\ g[Len(l) + 1] = post
          /\ \A j \in 1 .. Len(l) : g[j] = l[j]
      BY <1>4, <2>2, LenProperties, AppendProperties
    <3>2. Line' = g
      <4>1. <<post>> \in Seq(Post) /\ Append(t, post) = t \o <<post>> /\ g = l \o <<post>>
        BY <1>4, <2>2, <2>3, AppendIsConcat
      <4>2. Held \o (t \o <<post>>) = (Held \o t) \o <<post>>
        <5>1. Held \in Seq(Post) /\ t \in Seq(Post)
          BY <1>3, <2>3
        <5> QED
          BY ONLY <4>1, <5>1, ConcatAssociative
      <4>3. Line' = Held \o Append(t, post)
        BY <1>2, <2>11 DEF Line, t
      <4> QED
        BY <4>1, <4>2, <4>3 DEF l
    <3>3. ASSUME ~cut, ~Starts(post), post.game # 0
          PROVE  Begun(l, Len(l), post.game, epoch)
      <4>1. ~refusing /\ game.epoch = epoch /\ game.n = post.game
        BY <1>4, <2>1, <3>3
      <4>2. Begun(Line, Len(Line), post.game, epoch)
        BY <3>3, <4>1 DEF RootInv
      <4>3. MayGo(Line, a, d, Since)
        BY <2>1, <2>6, <3>3
      <4>4. post.game \in Nat
        BY <1>4, PostFields
      <4>5. /\ Len(l) \in 0 .. Len(l) /\ Len(Line) = Len(l) + d /\ Len(l) >= a
            /\ a + d < Len(Line) => Len(l) > a
        BY <1>3, <2>5
      <4>6. CASE epoch >= Since
        BY <1>0, <1>2, <1>3, <1>6, <2>2, <2>4, <4>2, <4>3, <4>4, <4>5, <4>6, BegunShort
      <4>7. Since <= epoch
        <5>1. current.epoch <= epoch /\ (haveDeclared => declared.epoch <= epoch)
          BY <1>0 DEF TableInv, Snapshots, Declared
        <5> QED
          BY <5>1 DEF Since
      <4>8. epoch >= Since
        BY <1>2, <1>6, <4>7
      <4> QED
        BY <4>6, <4>8
    <3>4. ~cut => Rooted(g, Since)
      <4>1. ASSUME ~cut, GoesOn(post)
            PROVE  Begun(l, Len(l), post.game, post.epoch)
        BY <1>4, <3>3, <4>1 DEF GoesOn
      <4> QED
        BY <1>4, <2>2, <2>8, <4>1, RootedGrows
    <3>5. ~cut /\ game'.n # 0 => Begun(g, Len(g), game'.n, epoch)
      <4> SUFFICES ASSUME ~cut, game'.n # 0 PROVE Begun(g, Len(g), game'.n, epoch)
        OBVIOUS
      <4>1. ~Ends(post) /\ game'.n = post.game /\ post.game # 0
        BY <1>5
      <4>2. post.game \in Nat
        BY <1>4, PostFields
      <4>3. \/ Starts(post) /\ post.game = post.n
            \/ ~Starts(post) /\ Begun(l, Len(l), post.game, post.epoch)
        BY <1>4, <3>3, <4>1
      <4> HIDE DEF g
      <4>4. Begun(Append(l, post), Len(l) + 1, post.game, post.epoch)
        BY <1>4, <2>2, <4>1, <4>2, <4>3, BegunGrows
      <4> QED
        BY <1>4, <3>1, <4>1, <4>4 DEF g
    <3>6. \A j \in 1 .. Len(g) : Starts(g[j]) => g[j].game = g[j].n
      <4> SUFFICES ASSUME NEW j \in 1 .. Len(g), Starts(g[j]) PROVE g[j].game = g[j].n
        OBVIOUS
      <4> HIDE DEF g
      <4>1. j = Len(l) + 1 \/ j \in 1 .. Len(l)
        BY <2>5, <3>1
      <4> QED
        BY <1>4, <2>9, <3>1, <4>1
    <3> HIDE DEF g
    <3>7. game'.epoch <= epoch'
      BY <1>2, <1>5
    <3> QED
      BY <1>2, <3>2, <3>4, <3>5, <3>6, <3>7 DEF RootInv
  <2> QED
    BY <1>8, <2>10, <2>11
<1> QED
  BY <1>1, <1>7, <1>8 DEF Pushes

\* A Push keeps all this.
LEMMA PushWhole ==
  ASSUME IInv, IInv', WholeInv, PushPost
  PROVE  WholeInv'
<1> USE DEF WholeInv
<1>0. TypeInv /\ TableInv
  BY DEF IInv
<1>1. /\ UNCHANGED <<epoch, machine, posted, unread, dLog, current, declared, haveDeclared>>
      /\ UNCHANGED <<gameOpenEpoch, openGame, openGameIdentity, replayQueued, nextBatchId>>
      /\ Held' = Held /\ Kept' = Kept /\ Snapshots' = Snapshots /\ batches \in Nat
  BY <1>0, PushQuiet
<1>2. UNCHANGED <<paths, rom, cut>> /\ pushing # <<>>
  BY <1>0, PushFacts DEF session, bounds
<1>3. AuthoredReady /\ AuthoredReady' = AuthoredReady /\ Since' = Since
  BY <1>1, <1>2 DEF ReadyInv, AuthoredReady, Since
<1>4. ReadyInv'
  BY <1>1, <1>2, <1>3 DEF ReadyInv
<1>5. OwnInv'
  BY <1>1, <1>3 DEF OwnInv
<1>6. PICK post : Pushes(post)
  BY <1>0, PushFacts
<1>7. /\ batches' = batches + 1
      /\ \A j \in 1 .. Len(queue') : queue'[j].n = batches + 1
            \/ \E k \in 1 .. Len(queue) : queue'[j] = queue[k]
  <2>1. /\ post \in Post /\ post.n = batches + 1 /\ batches' = batches + 1
    BY <1>6 DEF Pushes
  <2>2. queue \in Seq(Post) /\ Len(queue) \in Nat
    BY <1>0, LenProperties DEF TypeInv, LineTypes
  <2>3. CASE UNCHANGED queue
    BY <2>1, <2>3
  <2>4. ASSUME NEW i \in 1 .. Len(queue) + 1, NEW j \in 1 .. Len(queue'),
               \/ queue' = Append(From(queue, i), post)
               \/ queue' = From(queue, i)
        PROVE  queue'[j].n = batches + 1 \/ \E k \in 1 .. Len(queue) : queue'[j] = queue[k]
    <3> DEFINE t == From(queue, i)
    <3>1. /\ t \in Seq(Post) /\ Len(t) = Len(queue) - i + 1
          /\ \A m \in 1 .. Len(queue) - i + 1 : t[m] = queue[i + m - 1]
      BY <2>2, FromProperties
    <3> HIDE DEF t
    <3>2. ASSUME NEW m \in 1 .. Len(t) PROVE \E k \in 1 .. Len(queue) : t[m] = queue[k]
      <4>1. i + m - 1 \in 1 .. Len(queue) /\ m \in 1 .. Len(queue) - i + 1
        BY <2>2, <3>1
      <4> QED
        BY <3>1, <4>1
    <3>3. CASE queue' = t
      BY <3>2, <3>3
    <3>4. CASE queue' = Append(t, post)
      <4>1. /\ Len(t) \in Nat /\ Len(queue') = Len(t) + 1 /\ queue'[Len(t) + 1] = post
            /\ \A m \in 1 .. Len(t) : queue'[m] = t[m]
        <5>1. t \in Seq(Post) /\ post \in Post
          BY <2>1, <3>1
        <5> QED
          BY ONLY <3>4, <5>1, LenProperties, AppendProperties
      <4>2. j = Len(t) + 1 \/ j \in 1 .. Len(t)
        BY <4>1
      <4> QED
        BY <2>1, <3>2, <4>1, <4>2
    <3> QED
      BY <2>4, <3>3, <3>4 DEF t
  <2> QED
    BY <1>6, <2>1, <2>3, <2>4 DEF Pushes
<1>8. LogInv'
  <2>1. \A i \in 1 .. Len(dLog) : dLog[i].n \in Nat /\ dLog[i].n <= batches
    <3>1. \A i \in 1 .. Len(dLog) : dLog[i] \in Post
      BY <1>0, ElementOfSeq DEF TypeInv, LineTypes
    <3> QED
      BY <3>1, PostFields DEF LogInv, Logged
  <2>2. \A i \in 1 .. Len(dLog) : dLog[i].n <= batches + 1 /\ dLog[i].n < batches + 1
    BY <1>1, <2>1
  <2>3. ASSUME NEW i \in 1 .. Len(dLog), NEW j \in 1 .. Len(queue')
        PROVE  dLog[i].n < queue'[j].n
    <3>1. CASE queue'[j].n = batches + 1
      BY <2>2, <3>1
    <3>2. CASE \E k \in 1 .. Len(queue) : queue'[j] = queue[k]
      BY <3>2 DEF LogInv, Logged
    <3> QED
      BY <1>7, <3>1, <3>2
  <2>4. /\ \A i, j \in 1 .. Len(dLog) : i < j => dLog[i].n < dLog[j].n
        /\ \A i \in 1 .. Len(dLog) : dLog[i].id < nextBatchId
        /\ \A i \in 1 .. Len(dLog) : \A j \in 1 .. Len(Held) :
             dLog[i].id = Held[j].id => dLog[i].n = Held[j].n
        /\ \A j \in 1 .. Len(Held) : (\A i \in 1 .. Len(dLog) : dLog[i].id # Held[j].id) =>
                              \A i \in 1 .. Len(dLog) : dLog[i].n < Held[j].n
    BY DEF LogInv, Logged
  <2>5. Logged(dLog, Held, queue', nextBatchId, batches + 1)
    BY <2>2, <2>3, <2>4 DEF Logged
  <2> QED
    BY <1>1, <1>7, <2>5 DEF LogInv
<1>9. WholeGames'
  BY <1>1, <1>2 DEF WholeGames
<1> QED
  BY <1>4, <1>5, <1>8, <1>9, PushRoots

-----------------------------------------------------------------------------
(* The steps of the worker.                                                *)

\* What a life of the daemon has of the games, as WholeGames says.
WholeLog(log) ==
  \A i \in 1 .. Len(log) :
    log[i].game # 0 /\ log[i].game # log[i].n => i > 1 /\ log[i - 1].n = log[i].n - 1

\* What the daemon takes follows what it has: it has all that is kept in front of the batch that
\* is sent, and if that one goes on with a game, the batch before it is kept.
LEMMA TakesWhole ==
  ASSUME IInv, WholeInv, pc = "sent", DaemonTakes(Head(games))
  PROVE  Logged(dLog', Held, queue, nextBatchId, batches) /\ (~cut => WholeLog(dLog'))
<1> USE DEF WholeInv
<1>0. TypeInv /\ Ordered(Line) /\ Joined(Line)
  BY DEF IInv, LineInv
<1> DEFINE q == Len(openGame)
           p == q + 1
           front == games[1]
<1>1. /\ games # <<>> /\ front.epoch = declared.epoch /\ haveDeclared /\ ~replayPending
      /\ games \in Seq(Post) /\ dLog \in Seq(Post)
  BY DEF IInv, SessionInv, TypeInv, LineTypes
<1>2. Head(games) = front
  BY <1>1
<1>3. /\ Held \in Seq(Post) /\ q \in Nat /\ Len(games) \in Nat \ {0} /\ Len(Held) = q + Len(games)
      /\ p \in 1 .. Len(Held) /\ Held[p] = front /\ Len(queue) \in Nat
      /\ Len(Line) = Len(Held) + Len(queue)
      /\ \A i \in 1 .. q : i \in 1 .. Len(Held) /\ Held[i] = openGame[i]
      /\ \A i \in 1 .. Len(Held) : Line[i] = Held[i] /\ i \in 1 .. Len(Line)
      /\ \A j \in 1 .. Len(queue) : Len(Held) + j \in 1 .. Len(Line) /\ Line[Len(Held) + j] = queue[j]
      /\ \A i \in 1 .. Len(Line) : Line[i] \in Post
  <2>1. Len(games) # 0
    BY <1>1, EmptySeq
  <2>2. /\ Held \in Seq(Post) /\ q \in Nat /\ Len(games) \in Nat /\ Len(Held) = q + Len(games)
        /\ \A i \in 1 .. q : Held[i] = openGame[i]
        /\ \A i \in q + 1 .. q + Len(games) : Held[i] = games[i - q]
        /\ Len(queue) \in Nat /\ Len(Line) = Len(Held) + Len(queue)
        /\ \A i \in 1 .. Len(Held) : Line[i] = Held[i]
        /\ \A i \in Len(Held) + 1 .. Len(Held) + Len(queue) : Line[i] = queue[i - Len(Held)]
        /\ \A i \in 1 .. Len(Line) : Line[i] \in Post
    BY <1>0, LineFacts
  <2> HIDE DEF q, front
  <2>3. p \in q + 1 .. q + Len(games) /\ p - q = 1 /\ p \in 1 .. Len(Held)
    BY <2>1, <2>2
  <2>4. Held[p] = front
    BY <2>2, <2>3 DEF front
  <2>5. \A i \in 1 .. q : i \in 1 .. Len(Held)
    BY <2>2
  <2>6. \A i \in 1 .. Len(Held) : i \in 1 .. Len(Line)
    BY <2>2
  <2>7. ASSUME NEW j \in 1 .. Len(queue)
        PROVE  Len(Held) + j \in 1 .. Len(Line) /\ Line[Len(Held) + j] = queue[j]
    <3>1. /\ Len(Held) + j \in Len(Held) + 1 .. Len(Held) + Len(queue)
          /\ Len(Held) + j \in 1 .. Len(Line) /\ (Len(Held) + j) - Len(Held) = j
      BY <2>2
    <3> QED
      BY <2>2, <3>1
  <2> QED
    BY <2>1, <2>2, <2>3, <2>4, <2>5, <2>6, <2>7
<1>4. /\ \A i, j \in 1 .. Len(Held) : i < j => Held[i].id < Held[j].id
      /\ \A i \in 1 .. Len(Held) : Held[i].id < nextBatchId
  BY DEF IInv, IdsInOrder, Held
<1>5. \A i \in 1 .. q : \E j \in 1 .. Len(dLog) : dLog[j].id = Held[i].id
  <2>1. InSession
    BY DEF InSession
  <2> QED
    BY <1>1, <1>3, <2>1 DEF IInv, KeptInv, RetainedIsKnown
<1>6. CASE dLog' = dLog
  BY <1>6 DEF LogInv, WholeGames, WholeLog
<1>7. CASE dLog' = Append(dLog, front) /\ \A i \in 1 .. Len(dLog) : dLog[i].id # front.id
  <2> DEFINE L == Len(dLog)
  <2>1. /\ L \in Nat /\ Len(dLog') = L + 1 /\ dLog'[L + 1] = front
        /\ \A i \in 1 .. L : dLog'[i] = dLog[i]
        /\ \A i \in 1 .. L : dLog[i] \in Post
    <3>1. front \in Post
      BY <1>3
    <3> HIDE DEF front
    <3>2. dLog \in Seq(Post)
      BY <1>1
    <3>3. dLog' = Append(dLog, front)
      BY <1>7
    <3> QED
      BY ONLY <3>1, <3>2, <3>3, LenProperties, AppendProperties, ElementOfSeq
  <2>2. /\ \A i, j \in 1 .. L : i < j => dLog[i].n < dLog[j].n
        /\ \A i \in 1 .. L : dLog[i].n <= batches /\ dLog[i].id < nextBatchId
        /\ \A i \in 1 .. L : \A j \in 1 .. Len(queue) : dLog[i].n < queue[j].n
        /\ \A i \in 1 .. L : \A j \in 1 .. Len(Held) : dLog[i].id = Held[j].id => dLog[i].n = Held[j].n
        /\ \A j \in 1 .. Len(Held) : (\A i \in 1 .. L : dLog[i].id # Held[j].id) =>
             \A i \in 1 .. L : dLog[i].n < Held[j].n
    BY DEF LogInv, Logged
  <2>3. \A i \in 1 .. L : dLog[i].n < front.n
    <3>1. \A i \in 1 .. L : dLog[i].id # Held[p].id
      BY <1>3, <1>7
    <3>2. p \in 1 .. Len(Held) /\ Held[p].n = front.n
      BY <1>3
    <3> HIDE DEF L, p, front
    <3>3. \A i \in 1 .. L : dLog[i].n < Held[p].n
      BY <2>2, <3>1, <3>2
    <3> QED
      BY <3>2, <3>3
  <2>4. /\ front.n \in Nat /\ front.epoch \in Nat /\ front.id \in Nat
        /\ \A i \in 1 .. L : dLog[i].n \in Nat
        /\ \A i \in 1 .. Len(Held) : Held[i].n \in Nat /\ Held[i].id \in Nat /\ Held[i].epoch \in Nat
    BY <1>3, <2>1, PostFields
  <2>5. front.n <= batches /\ front.id < nextBatchId
    <3>1. OfTable(Line[p])
      BY <1>3 DEF IInv, BatchInv
    <3> QED
      BY <1>3, <1>4, <3>1 DEF OfTable
  <2>6. \A j \in 1 .. Len(queue) : front.n < queue[j].n
    <3> SUFFICES ASSUME NEW j \in 1 .. Len(queue) PROVE front.n < queue[j].n
      OBVIOUS
    <3>1. p < Len(Held) + j /\ p \in 1 .. Len(Line) /\ Line[p] = front
      BY <1>3
    <3> QED
      BY <1>0, <1>3, <3>1 DEF Ordered
  <2>7. \A j \in 1 .. Len(Held) : front.id = Held[j].id => front.n = Held[j].n
    <3> SUFFICES ASSUME NEW j \in 1 .. Len(Held), front.id = Held[j].id PROVE j = p
      BY <1>3
    <3>1. ~(j < p) /\ ~(p < j)
      BY <1>3, <1>4, <2>4
    <3> QED
      BY <1>3, <3>1
  <2>8. ASSUME NEW j \in 1 .. Len(Held), front.id # Held[j].id, \A i \in 1 .. L : dLog[i].id # Held[j].id
        PROVE  front.n < Held[j].n
    <3>1. j # p /\ j \notin 1 .. q
      BY <1>3, <1>5, <2>8
    <3>2. p < j
      BY <1>3, <3>1
    <3> QED
      BY <1>0, <1>3, <3>2 DEF Ordered
  <2>9. \A i \in 1 .. L + 1 : i = L + 1 \/ i \in 1 .. L
    BY <2>1
  <2>15. L + 1 \in 1 .. L + 1 /\ \A i \in 1 .. L : i \in 1 .. L + 1
    BY <2>1
  <2>10. Logged(dLog', Held, queue, nextBatchId, batches)
    <3> HIDE DEF L, p, q, front
    <3>1. ASSUME NEW i \in 1 .. L + 1, NEW j \in 1 .. L + 1, i < j
          PROVE  dLog'[i].n < dLog'[j].n
      <4>1. i \in 1 .. L
        BY <2>1, <3>1
      <4>2. CASE j = L + 1
        BY <2>1, <2>3, <4>1, <4>2
      <4>3. CASE j \in 1 .. L
        BY <2>1, <2>2, <3>1, <4>1, <4>3
      <4> QED
        BY <2>9, <4>2, <4>3
    <3>2. ASSUME NEW i \in 1 .. L + 1
          PROVE  /\ dLog'[i].n <= batches /\ dLog'[i].id < nextBatchId
                 /\ \A j \in 1 .. Len(queue) : dLog'[i].n < queue[j].n
                 /\ \A j \in 1 .. Len(Held) : dLog'[i].id = Held[j].id => dLog'[i].n = Held[j].n
      <4>1. CASE i = L + 1
        BY <2>1, <2>5, <2>6, <2>7, <4>1
      <4>2. CASE i \in 1 .. L
        BY <2>1, <2>2, <4>2
      <4> QED
        BY <2>9, <4>1, <4>2
    <3>3. ASSUME NEW j \in 1 .. Len(Held), \A i \in 1 .. L + 1 : dLog'[i].id # Held[j].id,
                 NEW i \in 1 .. L + 1
          PROVE  dLog'[i].n < Held[j].n
      <4>1. front.id # Held[j].id /\ \A m \in 1 .. L : dLog[m].id # Held[j].id
        BY <2>1, <2>15, <3>3
      <4>2. CASE i = L + 1
        BY <2>1, <2>8, <4>1, <4>2
      <4>3. CASE i \in 1 .. L
        BY <2>1, <2>2, <4>1, <4>3
      <4> QED
        BY <2>9, <4>2, <4>3
    <3> QED
      BY <2>1, <3>1, <3>2, <3>3 DEF Logged
  <2>11. ASSUME ~cut, front.game # 0, front.game # front.n
         PROVE  L + 1 > 1 /\ dLog[L].n = front.n - 1
    <3>1. ~Starts(front) /\ GoesOn(front)
      BY <1>3, <2>11 DEF RootInv, GoesOn
    <3>2. p \in 1 .. Len(Line) /\ Line[p] = front /\ front.epoch >= Since
      BY <1>1, <1>3, <2>4 DEF Since
    <3>3. Begun(Line, p - 1, front.game, front.epoch)
      BY <2>11, <3>1, <3>2 DEF RootInv, Rooted
    <3>4. PICK s \in 1 .. p - 1 : Line[s].epoch = front.epoch
      BY <3>3 DEF Begun
    <3>5. q \in 1 .. q /\ q \in 1 .. Len(Line) - 1 /\ q \in 1 .. Len(Line) /\ s \in 1 .. Len(Line)
          /\ (s < q \/ s = q) /\ q < p /\ Line[q] = Held[q] /\ q \in 1 .. Len(Held)
      BY <1>3
    <3>6. Line[q].epoch = front.epoch
      <4>1. Line[q].epoch <= front.epoch /\ (s < q => front.epoch <= Line[q].epoch)
        BY <1>0, <3>2, <3>4, <3>5 DEF Ordered
      <4> QED
        BY <2>4, <3>4, <3>5, <4>1
    <3>7. front.n = Held[q].n + 1
      <4>1. Joins(Line[q], Line[q + 1])
        BY <1>0, <3>5 DEF Joined
      <4> QED
        BY <3>1, <3>2, <3>5, <3>6, <4>1 DEF Joins
    <3>8. PICK i \in 1 .. L : dLog[i].id = Held[q].id
      BY <1>5, <3>5
    <3>9. dLog[i].n = front.n - 1
      BY <2>2, <2>4, <3>5, <3>7, <3>8
    <3>10. L \in 1 .. L /\ (i < L \/ i = L)
      BY <2>1
    <3>11. dLog[L].n < front.n /\ (i < L => dLog[i].n < dLog[L].n)
      BY <2>2, <2>3, <3>10
    <3>12. dLog[L].n \in Nat
      BY <2>4, <3>10
    <3> HIDE DEF L, q, p, front
    <3> QED
      BY <2>1, <2>4, <3>9, <3>10, <3>11, <3>12
  <2>12. ASSUME ~cut PROVE WholeLog(dLog')
    <3> SUFFICES ASSUME NEW i \in 1 .. L + 1, dLog'[i].game # 0, dLog'[i].game # dLog'[i].n
                 PROVE  i > 1 /\ dLog'[i - 1].n = dLog'[i].n - 1
      BY <2>1 DEF WholeLog
    <3> HIDE DEF L, front
    <3>1. CASE i = L + 1
      <4>1. L + 1 > 1 /\ dLog[L].n = front.n - 1
        BY <2>1, <2>11, <2>12, <3>1
      <4>2. i - 1 = L /\ L \in 1 .. L
        BY <2>1, <3>1, <4>1
      <4> QED
        BY <2>1, <3>1, <4>1, <4>2
    <3>2. CASE i \in 1 .. L
      <4>1. i > 1 /\ dLog[i - 1].n = dLog[i].n - 1
        BY <2>1, <2>12, <3>2 DEF WholeGames, L
      <4>2. i - 1 \in 1 .. L
        BY <2>1, <3>2, <4>1
      <4> QED
        BY <2>1, <3>2, <4>1, <4>2
    <3> QED
      BY <2>9, <3>1, <3>2
  <2> QED
    BY <2>10, <2>12
<1>8. DOMAIN dLog = 1 .. Len(dLog)
  BY <1>1, LenProperties
<1> QED
  BY <1>2, <1>6, <1>7, <1>8 DEF DaemonTakes

\* The epochs are numbers.
LEMMA SinceType == TypeInv => Since \in Nat
BY DEF TypeInv, WorkerTypes, Snapshot, Since

\* And after the step.
LEMMA SinceTypeAfter == TypeInv' => Since' \in Nat
BY DEF TypeInv, WorkerTypes, Snapshot, Since

\* What the worker takes out of the latch is what was posted last.
LEMMA TakesPosted ==
  ASSUME IInv, ReadyInv, TakeDeclare, UNCHANGED posted,
         haveDeclared' => haveDeclared /\ UNCHANGED declared
  PROVE  /\ current' = posted /\ Since <= Since'
         /\ haveDeclared' /\ declared'.epoch = current'.epoch /\ declared'.machine # None
              => current'.machine # None
<1>1. current' = posted
  BY DEF TakeDeclare, ReadyInv
<1>2. /\ posted.epoch = epoch /\ posted.machine = IF AuthoredReady THEN machine ELSE None
      /\ epoch \in Nat /\ current.epoch \in Nat /\ declared.epoch \in Nat
  BY SnapshotFields DEF ReadyInv, IInv, TableInv, TypeInv, ApiTypes, WorkerTypes
<1>3. current.epoch <= epoch /\ (haveDeclared => declared.epoch <= epoch)
  BY DEF IInv, TableInv, Snapshots, Declared
<1>4. Since <= Since'
  BY <1>1, <1>2, <1>3 DEF Since
<1>5. ASSUME haveDeclared', declared'.epoch = current'.epoch, declared'.machine # None
      PROVE  current'.machine # None
  <2>1. declared \in Snapshots /\ declared.epoch = epoch /\ declared.machine # None
    BY <1>1, <1>2, <1>5 DEF Snapshots
  <2>2. AuthoredReady
    BY <2>1 DEF ReadyInv
  <2> QED
    BY <1>1, <1>2, <2>2 DEF AuthoredReady
<1> QED
  BY <1>1, <1>4, <1>5

\* The game that is kept is as it was, or none is.
LEMMA OwnKept ==
  ASSUME TypeInv, TypeInv', OwnInv, Snapshots' \subseteq Snapshots, Since <= Since',
         Kept' > 0 => Kept > 0 /\ UNCHANGED <<gameOpenEpoch, openGameIdentity>>
  PROVE  OwnInv'
<1>1. Since \in Nat /\ Since' \in Nat /\ gameOpenEpoch \in Nat
  BY SinceType, SinceTypeAfter DEF TypeInv, WorkerTypes
<1>2. Kept' > 0 => gameOpenEpoch' <= Since'
  BY <1>1 DEF OwnInv
<1>3. Kept' > 0 => \A s \in Snapshots' : s.epoch = gameOpenEpoch' =>
                     s.machine # None /\ s.identity = openGameIdentity'
  BY DEF OwnInv
<1> QED
  BY <1>2, <1>3 DEF OwnInv

\* Where nothing goes, nothing has to.
LEMMA NoneGoes ==
  ASSUME NEW s, NEW a \in Nat, NEW from
  PROVE  MayGo(s, a, 0, from)
<1>1. \A j \in a + 1 .. a + 0 : FALSE
  OBVIOUS
<1> QED
  BY <1>1 DEF MayGo

\* A step of the worker that leaves what it holds alone.
LEMMA LinkWhole ==
  ASSUME IInv, IInv', WholeInv, ApiQuiet, UNCHANGED <<paths, rom, game>>,
         Snapshots' \subseteq Snapshots, unread' \/ current' = posted,
         haveDeclared' /\ declared'.epoch = current'.epoch /\ declared'.machine # None
           => current'.machine # None,
         Since <= Since', ~cut' => ~cut,
         UNCHANGED <<openGame, games, queue, nextBatchId, replayQueued>>,
         UNCHANGED <<gameOpenEpoch, openGameIdentity>>,
         Logged(dLog', Held, queue, nextBatchId, batches), WholeGames'
  PROVE  WholeInv'
<1>1. TypeInv /\ TypeInv' /\ replayQueued <= Len(games) /\ Kept' = Kept
  BY DEF IInv, KeptInv, Kept
<1>2. Lets(0, 0)
  BY <1>1, HeldSame
<1>3. OwnInv'
  BY <1>1, OwnKept DEF WholeInv
<1>4. MayGo(Line, 0, 0, Since')
  BY NoneGoes
<1> QED
  BY <1>2, <1>3, <1>4, WholeStep

\* The steps that move only the connection, or only what is current.
LEMMA LinkStepsWhole ==
  ASSUME IInv, IInv', WholeInv,
         Connect \/ MaybeDeclare \/ SendReturns \/ SendBatch \/ Disconnect \/ DaemonRestart
  PROVE  WholeInv'
<1>1. ASSUME UNCHANGED session, UNCHANGED <<pushing, refusing, batches, game>>,
             UNCHANGED <<openGame, games, queue, nextBatchId, replayQueued>>,
             UNCHANGED <<gameOpenEpoch, openGameIdentity, cut>>,
             \/ TakeDeclare /\ (haveDeclared' => haveDeclared /\ UNCHANGED declared)
             \/ UNCHANGED <<unread, current, declared, haveDeclared>>,
             Logged(dLog', Held, queue, nextBatchId, batches), ~cut => WholeLog(dLog')
      PROVE  WholeInv'
  <2>1. ApiQuiet /\ UNCHANGED <<posted, paths, rom, game>> /\ (~cut' => ~cut)
    BY <1>1, ApiQuietFrom DEF session
  <2>2. WholeGames'
    BY <1>1 DEF WholeGames, WholeLog
  <2>3. ReadyInv
    BY DEF WholeInv
  <2>4. /\ unread' \/ current' = posted
        /\ haveDeclared' /\ declared'.epoch = current'.epoch /\ declared'.machine # None
             => current'.machine # None
        /\ Since <= Since' /\ Snapshots' \subseteq Snapshots
    <3>1. CASE TakeDeclare /\ (haveDeclared' => haveDeclared /\ UNCHANGED declared)
      <4>1. current' = posted /\ Since <= Since'
            /\ (haveDeclared' /\ declared'.epoch = current'.epoch /\ declared'.machine # None
                 => current'.machine # None)
        BY <2>1, <2>3, <3>1, TakesPosted
      <4>2. Snapshots' \subseteq Snapshots
        BY <2>1, <3>1, <4>1 DEF Snapshots
      <4> QED
        BY <4>1, <4>2
    <3>2. CASE UNCHANGED <<unread, current, declared, haveDeclared>>
      <4>1. Snapshots' = Snapshots /\ Since' = Since
        BY <2>1, <3>2 DEF Snapshots, Since
      <4>2. Since <= Since
        BY SinceType DEF IInv
      <4> QED
        BY <2>3, <3>2, <4>1, <4>2 DEF ReadyInv
    <3> QED
      BY <1>1, <3>1, <3>2
  <2> QED
    BY <1>1, <2>1, <2>2, <2>4, LinkWhole
<1>2. Logged(dLog, Held, queue, nextBatchId, batches) /\ (~cut => WholeLog(dLog))
  BY DEF WholeInv, LogInv, WholeGames, WholeLog
<1>3. CASE Connect
  <2>1. /\ UNCHANGED session /\ UNCHANGED <<pushing, refusing, batches, game, dLog>>
        /\ UNCHANGED <<openGame, games, queue, nextBatchId, replayQueued>>
        /\ UNCHANGED <<gameOpenEpoch, openGameIdentity, cut>>
        /\ TakeDeclare /\ ~haveDeclared'
    BY <1>3 DEF Connect, handoff, retained, replay, bounds
  <2> QED
    BY <1>1, <1>2, <2>1
<1>4. CASE MaybeDeclare
  <2>1. /\ UNCHANGED session /\ UNCHANGED <<pushing, refusing, batches, game, dLog>>
        /\ UNCHANGED <<openGame, games, queue, nextBatchId, replayQueued>>
        /\ UNCHANGED <<gameOpenEpoch, openGameIdentity, cut>>
        /\ TakeDeclare /\ UNCHANGED <<declared, haveDeclared>>
    BY <1>4 DEF MaybeDeclare, handoff, retained, replay, bounds
  <2> QED
    BY <1>1, <1>2, <2>1
<1>5. CASE SendReturns
  <2>1. /\ UNCHANGED session /\ UNCHANGED <<pushing, refusing, batches, game, dLog>>
        /\ UNCHANGED <<openGame, games, queue, nextBatchId, replayQueued>>
        /\ UNCHANGED <<gameOpenEpoch, openGameIdentity, cut>>
        /\ UNCHANGED <<unread, current, declared, haveDeclared>>
    BY <1>5 DEF SendReturns, handoff, retained, replay, bounds
  <2> QED
    BY <1>1, <1>2, <2>1
<1>6. CASE SendBatch
  <2>1. /\ UNCHANGED session /\ UNCHANGED <<pushing, refusing, batches, game, dLog>>
        /\ UNCHANGED <<openGame, games, queue, nextBatchId, replayQueued>>
        /\ UNCHANGED <<gameOpenEpoch, openGameIdentity, cut>>
        /\ UNCHANGED <<unread, current, declared, haveDeclared>>
    BY <1>6 DEF SendBatch, api, link, handoff, retained, replay, bounds
  <2> QED
    BY <1>1, <1>2, <2>1
<1>7. CASE Disconnect
  <2>1. /\ UNCHANGED session /\ UNCHANGED <<pushing, refusing, batches, game>>
        /\ UNCHANGED <<openGame, games, queue, nextBatchId, replayQueued>>
        /\ UNCHANGED <<gameOpenEpoch, openGameIdentity, cut>>
        /\ UNCHANGED <<unread, current, declared, haveDeclared>>
        /\ UNCHANGED dLog \/ (pc = "sent" /\ DaemonTakes(Head(games)))
    BY <1>7 DEF Disconnect, api, link, handoff, retained, replay
  <2>2. Logged(dLog', Held, queue, nextBatchId, batches) /\ (~cut => WholeLog(dLog'))
    BY <1>2, <2>1, TakesWhole
  <2> QED
    BY <1>1, <2>1, <2>2
<1>8. CASE DaemonRestart
  <2>1. /\ UNCHANGED session /\ UNCHANGED <<pushing, refusing, batches, game>>
        /\ UNCHANGED <<openGame, games, queue, nextBatchId, replayQueued>>
        /\ UNCHANGED <<gameOpenEpoch, openGameIdentity, cut>>
        /\ UNCHANGED <<unread, current, declared, haveDeclared>> /\ dLog' = <<>>
    BY <1>8 DEF DaemonRestart, api, worker, link, handoff, retained, replay
  <2>2. Len(<<>>) = 0
    OBVIOUS
  <2>3. \A i \in 1 .. Len(dLog') : FALSE
    BY <2>1, <2>2
  <2>4. Logged(dLog', Held, queue, nextBatchId, batches) /\ WholeLog(dLog')
    BY <2>3 DEF Logged, WholeLog
  <2> QED
    BY <1>1, <2>1, <2>4
<1> QED
  BY <1>3, <1>4, <1>5, <1>6, <1>7, <1>8

\* A step of the worker that leaves the declarations alone.
LEMMA HeldWhole ==
  ASSUME IInv, IInv', WholeInv, UNCHANGED session, UNCHANGED <<pushing, refusing, batches, game>>,
         UNCHANGED <<unread, current, declared, haveDeclared>>, OwnInv', ~cut' => ~cut,
         NEW a, NEW d, Lets(a, d), ~cut' => MayGo(Line, a, d, Since),
         Logged(dLog', Held, queue, nextBatchId, batches), WholeGames'
  PROVE  WholeInv'
<1>1. ApiQuiet /\ UNCHANGED <<posted, paths, rom, game>>
  BY ApiQuietFrom DEF session
<1>2. Snapshots' = Snapshots /\ Since' = Since
  BY <1>1 DEF Snapshots, Since
<1>3. Since <= Since'
  BY <1>2, SinceType DEF IInv
<1>4. ReadyInv
  BY DEF WholeInv
<1>5. /\ unread' \/ current' = posted
      /\ haveDeclared' /\ declared'.epoch = current'.epoch /\ declared'.machine # None
           => current'.machine # None
  BY <1>4 DEF ReadyInv
<1>6. Snapshots' \subseteq Snapshots /\ (~cut' => MayGo(Line, a, d, Since'))
  BY <1>2
<1> QED
  BY <1>1, <1>3, <1>5, <1>6, WholeStep

\* What is kept of a table that is over may go.
LEMMA KeptMayGo ==
  ASSUME IInv, Kept > 0, NEW from, gameOpenEpoch < from, NEW d \in Nat, d <= Kept
  PROVE  MayGo(Line, 0, d, from)
<1>1. Continues(Line, Kept) /\ gameOpenEpoch = Line[1].epoch /\ Kept \in Nat
  BY OpenFacts DEF IInv, KeptInv
<1>2. \A j \in 0 + 1 .. 0 + d : j \in 1 .. Kept
  BY <1>1
<1>3. \A j \in 1 .. Kept : Line[j].epoch = Line[1].epoch
  BY <1>1 DEF Continues
<1> QED
  BY <1>1, <1>2, <1>3 DEF MayGo

\* What the log says stays, if the worker writes nothing into it.
LEMMA LogSame ==
  ASSUME WholeInv, UNCHANGED dLog, ~cut' => ~cut
  PROVE  Logged(dLog', Held, queue, nextBatchId, batches) /\ WholeGames'
BY DEF WholeInv, LogInv, WholeGames

\* HelloAck: the fragment that goes holds no start.
LEMMA HelloAckWhole ==
  ASSUME IInv, IInv', WholeInv, HelloAck
  PROVE  WholeInv'
<1>0. /\ UNCHANGED session /\ TakeSourceGames
      /\ UNCHANGED <<unread, current, declared, haveDeclared, gameOpenEpoch, openGameIdentity>>
      /\ UNCHANGED <<dLog, cut>>
  BY DEF HelloAck, bounds
<1>1. UNCHANGED <<pushing, refusing, batches, game>>
  BY <1>0, TakeQuiet
<1>2. PICK d \in Nat : /\ Lets(Kept, d) /\ Kept' = Kept
                       /\ \A j \in Kept + 1 .. Kept + d : ~Starts(Line[j])
  BY HelloAckLets
<1>3. MayGo(Line, Kept, d, Since)
  BY <1>2 DEF MayGo
<1>4. Snapshots' = Snapshots /\ Since' = Since /\ TypeInv /\ TypeInv' /\ OwnInv
  BY <1>0 DEF Snapshots, Since, IInv, WholeInv, session
<1>5. Since <= Since'
  BY <1>4, SinceType
<1>6. OwnInv'
  BY <1>0, <1>2, <1>4, <1>5, OwnKept
<1>7. Logged(dLog', Held, queue, nextBatchId, batches) /\ WholeGames'
  BY <1>0, LogSame
<1> QED
  BY <1>0, <1>1, <1>2, <1>3, <1>6, <1>7, HeldWhole

\* DeclareAck: another table was named, so the kept game's table is over.
LEMMA DeclareAckWhole ==
  ASSUME IInv, IInv', WholeInv, DeclareAck
  PROVE  WholeInv'
<1>0. /\ declared' = current /\ haveDeclared' = TRUE /\ UNCHANGED session
      /\ UNCHANGED <<pushing, queue, refusing, batches, game, unread, current, nextBatchId>>
      /\ UNCHANGED <<gameOpenEpoch, openGameIdentity, dLog, cut>>
  BY DeclareAckCases DEF handoff
<1>1. ApiQuiet /\ UNCHANGED <<posted, paths, rom, game>>
  BY <1>0, ApiQuietFrom DEF session
<1>2. Snapshots' \subseteq Snapshots
  BY <1>0, <1>1, SnapshotsStep
<1>3. /\ TypeInv /\ TypeInv' /\ ReadyInv /\ OwnInv
      /\ replayQueued <= Len(games)
      /\ \A s, t \in Snapshots : Agree(s, t)
      /\ haveDeclared => declared.epoch <= current.epoch
  BY DEF IInv, WholeInv, KeptInv, TableInv
<1>4. /\ unread' \/ current' = posted
      /\ haveDeclared' /\ declared'.epoch = current'.epoch /\ declared'.machine # None
           => current'.machine # None
  BY <1>0, <1>3 DEF ReadyInv
<1>5. /\ current.epoch \in Nat /\ declared.epoch \in Nat /\ gameOpenEpoch \in Nat
      /\ Since' = current.epoch /\ Since <= Since'
  <2>1. current.epoch \in Nat /\ declared.epoch \in Nat /\ gameOpenEpoch \in Nat
    BY <1>3, SnapshotFields DEF TypeInv, WorkerTypes
  <2>2. Since' = current.epoch
    BY <1>0 DEF Since
  <2> QED
    BY <1>3, <2>1, <2>2 DEF Since
<1>6. Logged(dLog', Held, queue, nextBatchId, batches) /\ WholeGames'
  BY <1>0, LogSame
<1>7. CASE NewTable
  <2>1. Kept' = 0 /\ Without(Held', Held, 0, Kept)
    BY <1>3, <1>7, DeclareAckCases, DiscardAll
  <2>2. Lets(0, Kept) /\ OwnInv'
    BY <1>0, <2>1 DEF Lets, OwnInv
  <2>3. Kept \in Nat
    BY <1>3, OpenFacts
  <2>4. MayGo(Line, 0, Kept, Since')
    <3>1. CASE Kept > 0
      <4>1. /\ haveDeclared /\ declared \in Snapshots /\ current \in Snapshots
            /\ gameOpenEpoch <= declared.epoch
            /\ current.rom = declared.rom
            /\ \A s \in Snapshots : s.epoch = gameOpenEpoch =>
                 s.machine # None /\ s.identity = openGameIdentity
        BY <1>3, <1>7, <3>1 DEF NewTable, Snapshots, ReadyInv, OwnInv, Since
      <4>2. ~(gameOpenEpoch = declared.epoch /\ current.epoch = declared.epoch)
        <5> SUFFICES ASSUME gameOpenEpoch = declared.epoch, current.epoch = declared.epoch
                     PROVE  FALSE
          OBVIOUS
        <5>1. declared.machine # current.machine
          BY <1>7, <4>1 DEF NewTable, NewIdentity
        <5>2. declared.identity = current.identity
          BY <4>1
        <5> QED
          BY <1>3, <4>1, <5>1, <5>2 DEF Agree
      <4>3. gameOpenEpoch < Since'
        BY <1>3, <1>5, <4>1, <4>2
      <4>4. Kept <= Kept
        BY <2>3
      <4> QED
        BY <2>3, <3>1, <4>3, <4>4, KeptMayGo
    <3>2. CASE ~(Kept > 0)
      <4>1. Kept = 0
        BY <2>3, <3>2
      <4> QED
        BY <4>1, NoneGoes
    <3> QED
      BY <3>1, <3>2
  <2> QED
    BY <1>0, <1>1, <1>2, <1>4, <1>5, <1>6, <2>2, <2>4, WholeStep
<1>8. CASE ~NewTable
  <2>1. UNCHANGED <<openGame, games, queue, nextBatchId, replayQueued>>
    BY <1>0, <1>8, DeclareAckCases
  <2> QED
    BY <1>0, <1>1, <1>2, <1>4, <1>5, <1>6, <2>1, LinkWhole
<1> QED
  BY <1>7, <1>8

\* TakeGames: a replay that is not taken up is of a table that is over.
LEMMA TakeGamesWhole ==
  ASSUME IInv, IInv', WholeInv, TakeGames
  PROVE  WholeInv'
<1>1. haveDeclared
  BY DEF TakeGames, IInv, SessionInv
<1>0. /\ TakeSourceGames /\ UNCHANGED session
      /\ UNCHANGED <<unread, current, declared, haveDeclared>>
      /\ UNCHANGED <<gameOpenEpoch, openGameIdentity, dLog, cut>>
  BY <1>1, TakeGamesCases
<1>2. /\ UNCHANGED <<pushing, refusing, batches, game>> /\ queue' = <<>>
      /\ nextBatchId' = nextBatchId + Len(queue) /\ UNCHANGED posted
  BY <1>0, TakeQuiet
<1>3. /\ TypeInv /\ TypeInv' /\ OwnInv /\ replayQueued <= Len(games)
      /\ (Kept > 0 => gameOpenEpoch = Line[1].epoch)
      /\ (replayPending => replayQueued = 0)
  BY DEF IInv, WholeInv, KeptInv, SessionInv
<1>4. Snapshots' = Snapshots /\ Since' = Since /\ Since = declared.epoch
  BY <1>0, <1>1, <1>2 DEF Snapshots, Since
<1>5. /\ Since \in Nat /\ Since <= Since' /\ gameOpenEpoch \in Nat /\ Kept \in Nat
      /\ Len(openGame) \in Nat /\ Len(openGame) <= Kept /\ Len(games) \in Nat /\ replayQueued \in Nat
  <2>1. Since \in Nat /\ gameOpenEpoch \in Nat /\ replayQueued \in Nat
    BY <1>3, SinceType DEF TypeInv, WorkerTypes
  <2>2. Len(openGame) \in Nat /\ Len(games) \in Nat
    BY <1>3, LenProperties DEF TypeInv, LineTypes
  <2>3. Kept = Len(openGame) + replayQueued
    BY DEF Kept
  <2> QED
    BY <1>4, <2>1, <2>2, <2>3
<1>6. Logged(dLog', Held, queue, nextBatchId, batches) /\ WholeGames'
  BY <1>0, LogSame
<1>7. CASE Without(Held', Taking, 0, 0) /\ Kept' = Kept
  <2>1. Lets(0, 0)
    BY <1>2, <1>7 DEF Lets
  <2>2. OwnInv'
    BY <1>0, <1>3, <1>4, <1>5, <1>7, OwnKept
  <2>3. MayGo(Line, 0, 0, Since)
    BY NoneGoes
  <2> QED
    BY <1>0, <1>2, <1>6, <2>1, <2>2, <2>3, HeldWhole
<1>8. CASE ~(Kept' = Kept) /\ Without(Held', Taking, 0, Len(openGame)) /\ Kept' = 0
  <2>1. Lets(0, Len(openGame)) /\ OwnInv'
    BY <1>2, <1>8 DEF Lets, OwnInv
  <2>2. Kept > 0 /\ gameOpenEpoch <= declared.epoch
    BY <1>3, <1>4, <1>5, <1>8 DEF OwnInv
  <2>3. replayPending /\ ~OwnGame /\ openGame' = <<>> /\ Len(openGame) = Kept
    <3>1. CASE replayPending /\ OwnGame /\ replayQueued' = Len(openGame) /\ openGame' = <<>>
      <4>1. Kept' = 0 + Len(openGame) /\ Len(openGame) = Kept
        BY <1>3, <1>5, <3>1 DEF Kept
      <4> QED
        BY <1>5, <1>8, <4>1
    <3>2. CASE replayPending /\ ~OwnGame /\ openGame' = <<>>
      BY <1>3, <1>5, <3>2 DEF Kept
    <3>3. CASE UNCHANGED <<replayQueued, openGame>>
      BY <1>8, <3>3 DEF Kept
    <3> QED
      BY <1>1, <3>1, <3>2, <3>3, TakeGamesCases
  <2>4. gameOpenEpoch # declared.epoch
    <3> SUFFICES ASSUME gameOpenEpoch = declared.epoch PROVE FALSE
      OBVIOUS
    <3>1. declared \in Snapshots
      BY <1>1 DEF Snapshots
    <3>2. declared.identity = openGameIdentity
      BY <1>3, <2>2, <3>1 DEF OwnInv
    <3>3. openGame # <<>>
      <4>1. Len(<<>>) = 0
        OBVIOUS
      <4> QED
        BY <2>2, <2>3, <4>1
    <3>4. openGame[1].epoch = gameOpenEpoch
      <4>1. 1 \in 1 .. Len(openGame) /\ 1 \in 1 .. Len(Held)
        BY <1>3, <1>5, <2>2, <2>3, LineFacts
      <4>2. Line[1] = openGame[1]
        BY <1>3, <4>1, LineFacts
      <4> QED
        BY <1>3, <2>2, <4>2
    <3> QED
      BY <2>3, <3>2, <3>3, <3>4 DEF OwnGame
  <2>5. gameOpenEpoch < Since
    <3>1. declared.epoch \in Nat
      BY <1>4, <1>5
    <3> QED
      BY <1>4, <1>5, <2>2, <2>4, <3>1
  <2>6. MayGo(Line, 0, Len(openGame), Since)
    BY <1>5, <2>2, <2>5, KeptMayGo
  <2> QED
    BY <1>0, <1>2, <1>6, <2>1, <2>6, HeldWhole
<1>9. \/ Without(Held', Taking, 0, 0) /\ Kept' = Kept
      \/ Without(Held', Taking, 0, Len(openGame)) /\ Kept' = 0
  BY TakeGamesLine
<1>10. CASE Kept' = Kept /\ Without(Held', Taking, 0, Len(openGame)) /\ Kept' = 0
  <2>1. Len(openGame) = 0
    BY <1>5, <1>10
  <2> QED
    BY <1>7, <1>10, <2>1
<1> QED
  BY <1>7, <1>8, <1>9, <1>10

\* SendNotAuthored: the Declare that the batch follows is still in the latch.
LEMMA NotAuthoredWhole ==
  ASSUME PeerAuthored \subseteq {TRUE}, IInv, IInv', WholeInv, SendNotAuthored
  PROVE  WholeInv'
<1>0. /\ pc = "send" /\ games # <<>> /\ haveDeclared /\ ~Authored /\ TakeDeclare
      /\ UNCHANGED session /\ UNCHANGED <<pushing, queue, refusing, batches, game, nextBatchId>>
      /\ UNCHANGED <<declared, haveDeclared, gameOpenEpoch, openGame, openGameIdentity, dLog, cut>>
      /\ Head(games).epoch = declared.epoch
  BY NotAuthoredCases DEF handoff, SendNotAuthored
<1>1. ApiQuiet /\ UNCHANGED <<posted, paths, rom, game>>
  BY <1>0, ApiQuietFrom DEF session
<1>2. TypeInv /\ TypeInv' /\ ReadyInv /\ Ordered(Line)
  BY DEF IInv, WholeInv, LineInv
<1>3. /\ current' = posted /\ Since <= Since'
      /\ haveDeclared' /\ declared'.epoch = current'.epoch /\ declared'.machine # None
           => current'.machine # None
  BY <1>0, <1>1, <1>2, TakesPosted
<1>4. Snapshots' \subseteq Snapshots
  BY <1>0, <1>1, <1>3 DEF Snapshots
<1>5. Logged(dLog', Held, queue, nextBatchId, batches) /\ WholeGames'
  BY <1>0, LogSame
<1>6. CASE UNCHANGED <<games, replayQueued>>
  BY <1>0, <1>1, <1>3, <1>4, <1>5, <1>6, LinkWhole
<1>7. ~(current' = declared)
  <2> SUFFICES ASSUME current' = declared PROVE FALSE
    OBVIOUS
  <2>1. peerAuthored
    BY <1>0 DEF IInv, StartInv, InSession
  <2>2. declared.machine = None
    BY <1>0, <2>1 DEF Authored
  <2>3. posted.epoch = epoch /\ posted = declared
    BY <1>3 DEF IInv, TableInv
  <2>4. /\ Len(openGame) + 1 \in 1 .. Len(Line) /\ Line[Len(openGame) + 1] = games[1]
        /\ Head(games) = games[1]
    BY <1>0, <1>2, LaterWait DEF TypeInv, LineTypes
  <2>5. AuthoredReady
    BY <1>0, <1>2, <2>3, <2>4 DEF ReadyInv
  <2> QED
    BY <1>2, <2>2, <2>3, <2>5 DEF ReadyInv, AuthoredReady
<1> QED
  BY <1>6, <1>7, NotAuthoredCases

\* SendDropsOld: the batch is of a table that is over.
LEMMA DropsOldWhole ==
  ASSUME IInv, IInv', WholeInv, SendDropsOld
  PROVE  WholeInv'
<1>0. /\ pc = "send" /\ games # <<>> /\ haveDeclared /\ Head(games).epoch < declared.epoch /\ PopGame
      /\ UNCHANGED session /\ UNCHANGED <<pushing, queue, refusing, batches, game, nextBatchId>>
      /\ UNCHANGED <<unread, current, declared, haveDeclared, openGame, dLog, cut>>
  BY DEF SendDropsOld, api, handoff, link, retained, bounds
<1>1. TypeInv /\ TypeInv' /\ Ordered(Line) /\ replayQueued <= Len(games)
  BY DEF IInv, LineInv, KeptInv
<1>2. /\ games[1] \in Post /\ Len(openGame) + 1 \in 1 .. Len(Line)
      /\ Line[Len(openGame) + 1] = games[1] /\ Head(games) = games[1]
  BY <1>0, <1>1, LaterWait DEF TypeInv, LineTypes
<1>3. games[1].epoch \in Nat /\ declared.epoch \in Nat
  BY <1>1, <1>2, PostFields, SnapshotFields DEF TypeInv, WorkerTypes
<1>4. ~(Kept > 0)
  <2> SUFFICES ASSUME Kept > 0 PROVE FALSE
    OBVIOUS
  <2>1. declared.epoch <= games[1].epoch
    BY <1>0, FirstInEpoch
  <2> QED
    BY <1>0, <1>2, <1>3, <2>1
<1>5. Kept = 0 /\ openGame = <<>> /\ Len(openGame) = 0 /\ replayQueued = 0
  <2>1. Len(openGame) \in Nat /\ replayQueued \in Nat /\ openGame \in Seq(Post)
    BY <1>1, LenProperties DEF TypeInv, LineTypes, WorkerTypes
  <2>2. Len(openGame) = 0 /\ Kept = 0 /\ replayQueued = 0
    BY <1>4, <2>1 DEF Kept
  <2> QED
    BY <2>1, <2>2, EmptySeq
<1>6. Kept' = 0 /\ Without(Held', Held, 0, 1)
  <2>1. openGame' = <<>>
    BY <1>0, <1>5
  <2>2. /\ Kept' = replayQueued' /\ replayQueued' = IF replayQueued > 0 THEN replayQueued - 1 ELSE 0
        /\ Without(Held', Held, 0, Len(openGame) + 1)
    BY <1>0, <1>1, <2>1, PopGone
  <2> QED
    BY <1>5, <2>2
<1>7. Lets(0, 1) /\ OwnInv'
  BY <1>0, <1>6 DEF Lets, OwnInv
<1>8. MayGo(Line, 0, 1, Since)
  <2>1. Since = declared.epoch
    BY <1>0 DEF Since
  <2>2. \A j \in 0 + 1 .. 0 + 1 : j = 1
    OBVIOUS
  <2>3. Line[1].epoch < Since
    BY <1>0, <1>2, <1>5, <2>1
  <2> QED
    BY <2>2, <2>3 DEF MayGo
<1>9. Logged(dLog', Held, queue, nextBatchId, batches) /\ WholeGames'
  BY <1>0, LogSame
<1> QED
  BY <1>0, <1>7, <1>8, <1>9, HeldWhole

\* GameRefused: from here on nothing is said of whole games.
LEMMA RefusedWhole ==
  ASSUME IInv, IInv', WholeInv, GameRefused
  PROVE  WholeInv'
<1>0. /\ UNCHANGED session /\ UNCHANGED <<pushing, queue, refusing, batches, game, nextBatchId>>
      /\ UNCHANGED <<unread, current, declared, haveDeclared, dLog>> /\ cut' = TRUE
  BY DEF GameRefused, api, handoff, link
<1>1. PICK d \in Nat : Kept' = 0 /\ Without(Held', Held, 0, d)
  BY RefusedLine
<1>2. Lets(0, d) /\ OwnInv'
  BY <1>0, <1>1 DEF Lets, OwnInv
<1>3. Logged(dLog', Held, queue, nextBatchId, batches) /\ WholeGames'
  BY <1>0 DEF WholeInv, LogInv, WholeGames
<1> QED
  BY <1>0, <1>2, <1>3, HeldWhole

\* GameAck: what is let go with the batch is of a game that is over.
LEMMA GameAckWhole ==
  ASSUME PeerAuthored \subseteq {TRUE}, IInv, IInv', WholeInv, GameAck
  PROVE  WholeInv'
<1> DEFINE front == games[1]
           q == Len(openGame)
<1>0. /\ pc = "sent" /\ games # <<>> /\ front \in Post /\ front.epoch = declared.epoch
      /\ Authored /\ haveDeclared /\ DaemonTakes(front)
      /\ gameOpenEpoch' = IF Ends(front) THEN 0
                          ELSE IF Starts(front) THEN front.epoch ELSE gameOpenEpoch
      /\ openGameIdentity' = IF Starts(front) THEN declared.identity ELSE openGameIdentity
      /\ AckKeepsNone \/ AckGoes \/ AckDrops \/ AckStarts \/ AckAppends
      /\ UNCHANGED session /\ UNCHANGED <<unread, pushing, queue, refusing, batches, game>>
      /\ UNCHANGED <<current, declared, haveDeclared, nextBatchId>>
  BY AckCases
<1>1. /\ TypeInv /\ TypeInv' /\ Ordered(Line) /\ replayQueued <= Len(games) /\ ReadyInv /\ OwnInv
      /\ posted.epoch = epoch /\ current \in Snapshots /\ declared \in Snapshots
  BY <1>0 DEF IInv, LineInv, KeptInv, WholeInv, TableInv, Snapshots
<1>2. /\ q + 1 \in 1 .. Len(Line) /\ Line[q + 1] = front /\ q \in Nat /\ Head(games) = front
  <2>1. games \in Seq(Post) /\ openGame \in Seq(Post)
    BY <1>1 DEF TypeInv, LineTypes
  <2>2. q \in Nat /\ Head(games) = front
    BY <2>1, LenProperties
  <2> QED
    BY <1>0, <1>1, <2>2, LaterWait
<1>3. Logged(dLog', Held, queue, nextBatchId, batches) /\ (~cut => WholeLog(dLog'))
  BY <1>0, <1>2, TakesWhole
<1>4. ~cut' => /\ ~cut
               /\ openGame' = <<>> => Ends(front) \/ (~Starts(front) /\ openGame = <<>>)
  BY <1>2 DEF GameAck
<1>5. WholeGames'
  BY <1>3, <1>4 DEF WholeGames, WholeLog
<1>6. Snapshots' = Snapshots /\ Since' = Since /\ Since = declared.epoch
  BY <1>0 DEF Snapshots, Since, session
<1>7. Since \in Nat /\ Since <= Since'
  BY <1>1, <1>6, SinceType
<1>8. CASE openGame' = <<>>
  <2>1. Kept' = replayQueued' /\ Without(Held', Held, 0, q + 1)
    BY <1>8, AckLine
  <2>2. ~(Kept' > 0)
    BY <1>8, AckGoneStep
  <2>3. Lets(0, q + 1) /\ OwnInv'
    BY <1>0, <2>1, <2>2 DEF Lets, OwnInv
  <2>4. ASSUME ~cut' PROVE MayGo(Line, 0, q + 1, Since)
    <3>1. CASE Ends(front)
      <4>1. \A j \in 0 + 1 .. 0 + (q + 1) : q + 1 \in j .. 0 + (q + 1)
        BY <1>2
      <4>2. Ends(Line[q + 1])
        BY <1>2, <3>1
      <4> HIDE DEF q, front
      <4> QED
        BY <4>1, <4>2 DEF MayGo
    <3>2. CASE ~Starts(front) /\ openGame = <<>>
      <4>1. q = 0
        BY <3>2
      <4>2. \A j \in 0 + 1 .. 0 + (q + 1) : j = 1
        BY <4>1
      <4>3. ~Starts(Line[1])
        BY <1>2, <3>2, <4>1
      <4> HIDE DEF q, front
      <4> QED
        BY <4>2, <4>3 DEF MayGo
    <3> QED
      BY <1>4, <1>8, <2>4, <3>1, <3>2
  <2> HIDE DEF q, front
  <2> QED
    BY <1>0, <1>3, <1>4, <1>5, <2>3, <2>4, HeldWhole
<1>9. CASE AckStarts
  <2>1. Without(Held', Held, 0, q)
    BY <1>9, AckLine
  <2>2. Lets(0, q)
    BY <1>0, <2>1 DEF Lets
  <2>3. MayGo(Line, 0, q, Since)
    <3>1. 0 + q < Len(Line) /\ Starts(Line[0 + q + 1])
      <4>1. Len(Line) \in Nat
        BY <1>1, LineFacts
      <4>2. 0 + q + 1 = q + 1
        BY <1>2
      <4> QED
        BY <1>2, <1>9, <4>1, <4>2 DEF AckStarts
    <3> HIDE DEF q, front
    <3> QED
      BY <3>1 DEF MayGo
  <2>4. gameOpenEpoch' = declared.epoch /\ openGameIdentity' = declared.identity
    BY <1>0, <1>9 DEF AckStarts
  <2>5. ASSUME NEW s \in Snapshots, s.epoch = declared.epoch
        PROVE  s.machine # None /\ s.identity = declared.identity
    <3>1. declared.machine # None
      BY <1>0 DEF Authored
    <3>2. s = posted => s.machine # None
      <4> SUFFICES ASSUME s = posted PROVE posted.machine # None
        OBVIOUS
      <4>1. declared.epoch = epoch
        BY <1>1, <2>5
      <4>2. AuthoredReady
        BY <1>1, <3>1, <4>1 DEF ReadyInv
      <4> QED
        BY <1>1, <4>2 DEF ReadyInv, AuthoredReady
    <3>3. s = current => s.machine # None
      BY <1>0, <1>1, <2>5, <3>1 DEF ReadyInv
    <3>4. s.machine # None
      BY <3>1, <3>2, <3>3 DEF Snapshots
    <3> QED
      BY <1>1, <2>5, <3>1, <3>4 DEF ReadyInv
  <2>6. OwnInv'
    <3>1. gameOpenEpoch' <= Since'
      BY <1>6, <1>7, <2>4
    <3>2. \A s \in Snapshots' : s.epoch = gameOpenEpoch' =>
            s.machine # None /\ s.identity = openGameIdentity'
      BY <1>6, <2>4, <2>5
    <3> QED
      BY <3>1, <3>2 DEF OwnInv
  <2> HIDE DEF q, front
  <2> QED
    BY <1>0, <1>3, <1>4, <1>5, <2>2, <2>3, <2>6, HeldWhole
<1>10. CASE AckAppends
  <2>1. Without(Held', Held, 0, 0)
    BY <1>10, AckLine
  <2>2. Lets(0, 0)
    BY <1>0, <2>1 DEF Lets
  <2>3. MayGo(Line, 0, 0, Since)
    BY NoneGoes
  <2>4. UNCHANGED <<gameOpenEpoch, openGameIdentity>> /\ Kept > 0
    BY <1>0, <1>10, AckAppendsStep DEF AckAppends
  <2>5. OwnInv'
    BY <1>1, <1>6, <1>7, <2>4, OwnKept
  <2> HIDE DEF q, front
  <2> QED
    BY <1>0, <1>3, <1>4, <1>5, <2>2, <2>3, <2>5, HeldWhole
<1> QED
  BY <1>0, <1>8, <1>9, <1>10 DEF AckKeepsNone, AckGoes, AckDrops

-----------------------------------------------------------------------------
(* The theorem.                                                            *)

\* Before anything was committed there is nothing to miss.
LEMMA InitWhole == Init => WholeInv
<1> SUFFICES ASSUME Init PROVE WholeInv
  OBVIOUS
<1> USE DEF Init
<1>1. Len(<<>>) = 0 /\ Line = <<>> /\ Held = <<>> /\ Kept = 0
  BY DEF Line, Held, Kept
<1>2. Snapshots = {NoDeclare} /\ ~AuthoredReady
  BY DEF Snapshots, AuthoredReady
<1>3. \A i \in 1 .. Len(Line) : FALSE
  BY <1>1
<1>4. \A i \in 1 .. Len(Held) : FALSE
  BY <1>1
<1>5. \A i \in 1 .. Len(queue) : FALSE
  BY <1>1
<1>6. \A i \in 1 .. Len(dLog) : FALSE
  BY <1>1
<1>7. ReadyInv
  BY <1>2, <1>3 DEF ReadyInv, NoDeclare
<1>8. OwnInv
  BY <1>1 DEF OwnInv
<1>9. RootInv
  BY <1>3 DEF RootInv, Rooted
<1>10. LogInv
  BY <1>4, <1>5, <1>6 DEF LogInv, Logged
<1>11. WholeGames
  BY <1>6 DEF WholeGames
<1> QED
  BY <1>7, <1>8, <1>9, <1>10, <1>11 DEF WholeInv

\* Every step of every party keeps what the whole games rest on.
LEMMA NextWhole ==
  ASSUME RomIds = {}, PeerAuthored \subseteq {TRUE}, IInv, WholeInv, [Next]_vars
  PROVE  WholeInv'
<1>1. IInv'
  BY NextStep
<1>2. CASE Api \/ UNCHANGED vars
  BY <1>1, <1>2, ApiWhole, PushWhole DEF Api
<1>3. CASE Worker
  BY <1>1, <1>3, LinkStepsWhole, HelloAckWhole, DeclareAckWhole, TakeGamesWhole, NotAuthoredWhole,
     DropsOldWhole, GameAckWhole DEF Worker
<1>4. CASE GameRefused
  BY <1>1, <1>4, RefusedWhole
<1>5. CASE Disconnect \/ DaemonRestart
  BY <1>1, <1>5, LinkStepsWhole
<1> QED
  BY <1>2, <1>3, <1>4, <1>5 DEF Next

\* Where no ROM runs beside the script and every daemon serves authored tables, one life of a
\* daemon sees a game only from its start and without a hole, through every overflow, replay, loss
\* and restart, unless it refused a batch or the game outgrew what RetainAcknowledged keeps.
THEOREM DaemonSeesWholeGames ==
  ASSUME RomIds = {}, PeerAuthored \subseteq {TRUE}
  PROVE  Spec => []WholeGames
<1>1. Init => WholeInv
  BY InitWhole
<1>2. IInv /\ WholeInv /\ [Next]_vars => WholeInv'
  BY NextWhole
<1>3. WholeInv => WholeGames
  BY DEF WholeInv
<1> QED
  BY <1>1, <1>2, <1>3, DeliveryInvariant, PTL DEF Spec
=============================================================================
