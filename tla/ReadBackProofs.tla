--------------------------- MODULE ReadBackProofs ---------------------------
(***************************************************************************)
(* Theorems about ReadBack, for every set of tables, every size of the     *)
(* queues and every number of tables, requests and lost sessions.          *)
(***************************************************************************)
EXTENDS ReadBack, FiniteSetTheorems, SequenceTheorems, TLAPS

-----------------------------------------------------------------------------
(* The numbers of a set in their order.                                    *)

Below(P, i) == {j \in P : j < i}

\* A number has as many below it as it has places before it.
LEMMA BelowFacts ==
  ASSUME NEW P, P \subseteq Int, IsFiniteSet(P)
  PROVE  /\ Cardinality(P) \in Nat
         /\ \A i \in P : Cardinality(Below(P, i)) \in 0 .. Cardinality(P) - 1
         /\ \A i, j \in P : i < j => Cardinality(Below(P, i)) < Cardinality(Below(P, j))
<1>1. Cardinality(P) \in Nat
  BY FS_CardinalityType
<1>2. ASSUME NEW i \in P
      PROVE  /\ IsFiniteSet(Below(P, i)) /\ Cardinality(Below(P, i)) \in Nat
             /\ i \notin Below(P, i)
             /\ IsFiniteSet(Below(P, i) \cup {i})
             /\ Cardinality(Below(P, i) \cup {i}) = Cardinality(Below(P, i)) + 1
  <2>1. Below(P, i) \in SUBSET P /\ i \notin Below(P, i)
    BY DEF Below
  <2>2. IsFiniteSet(Below(P, i))
    BY <2>1, FS_Subset
  <2> QED
    BY <2>1, <2>2, FS_CardinalityType, FS_AddElement
<1>3. ASSUME NEW i \in P PROVE Cardinality(Below(P, i)) \in 0 .. Cardinality(P) - 1
  <2>1. Below(P, i) \cup {i} \in SUBSET P
    BY DEF Below
  <2>2. Cardinality(Below(P, i) \cup {i}) <= Cardinality(P)
    BY <2>1, FS_Subset
  <2> QED
    BY <1>1, <1>2, <2>2
<1>4. ASSUME NEW i \in P, NEW j \in P, i < j
      PROVE  Cardinality(Below(P, i)) < Cardinality(Below(P, j))
  <2>0. i \in Int /\ j \in Int /\ \A x \in P : x \in Int
    OBVIOUS
  <2>1. Below(P, i) \cup {i} \in SUBSET Below(P, j)
    <3>1. \A x \in Below(P, i) : x \in P /\ x \in Int /\ x < i
      BY <2>0 DEF Below
    <3>2. \A x \in Below(P, i) : x \in Below(P, j)
      BY <1>4, <2>0, <3>1 DEF Below
    <3> QED
      BY <1>4, <3>2 DEF Below
  <2>2. Cardinality(Below(P, i) \cup {i}) <= Cardinality(Below(P, j))
    BY <1>2, <2>1, FS_Subset
  <2>3. Cardinality(Below(P, i)) \in Nat /\ Cardinality(Below(P, j)) \in Nat
    BY <1>2
  <2>4. Cardinality(Below(P, i) \cup {i}) = Cardinality(Below(P, i)) + 1
    BY <1>2
  <2> QED
    BY <2>2, <2>3, <2>4
<1> QED
  BY <1>1, <1>3, <1>4

\* Nth numbers a finite set: each of its numbers once.
LEMMA NthFacts ==
  ASSUME NEW P, P \subseteq Int, IsFiniteSet(P)
  PROVE  /\ Cardinality(P) \in Nat
         /\ \A k \in 1 .. Cardinality(P) : Nth(P, k) \in P
         /\ \A k \in 1 .. Cardinality(P) : Cardinality(Below(P, Nth(P, k))) = k - 1
         /\ \A k, l \in 1 .. Cardinality(P) : Nth(P, k) = Nth(P, l) => k = l
         /\ \A i \in P : \E k \in 1 .. Cardinality(P) : Nth(P, k) = i
<1> DEFINE N == Cardinality(P)
           rank == [i \in P |-> Cardinality(Below(P, i)) + 1]
<1>1. /\ N \in Nat
      /\ \A i \in P : Cardinality(Below(P, i)) \in 0 .. N - 1
      /\ \A i, j \in P : i < j => Cardinality(Below(P, i)) < Cardinality(Below(P, j))
  BY BelowFacts
<1>2. rank \in [P -> 1 .. N] /\ \A i \in P : rank[i] = Cardinality(Below(P, i)) + 1
  BY <1>1
<1>3. \A i, j \in P : rank[i] = rank[j] => i = j
  <2> SUFFICES ASSUME NEW i \in P, NEW j \in P, rank[i] = rank[j] PROVE i = j
    OBVIOUS
  <2>1. i \in Int /\ j \in Int
    OBVIOUS
  <2> QED
    BY <1>1, <1>2, <2>1
<1> HIDE DEF rank
<1>4. IsFiniteSet(1 .. N) /\ Cardinality(1 .. N) = N
  BY <1>1, FS_Interval, 1 \in Int
<1>5. rank \in Injection(P, 1 .. N)
  BY <1>2, <1>3 DEF Injection, IsInjective
<1>6. rank \in Surjection(P, 1 .. N)
  BY <1>4, <1>5, FS_Injection
<1>7. \A k \in 1 .. N : \E i \in P : rank[i] = k
  BY <1>6 DEF Surjection
<1>8. ASSUME NEW k \in 1 .. N
      PROVE  Nth(P, k) \in P /\ rank[Nth(P, k)] = k /\ Cardinality(Below(P, Nth(P, k))) = k - 1
  <2>1. PICK i \in P : rank[i] = k
    BY <1>7
  <2>2. Cardinality(Below(P, i)) = k - 1
    BY <1>1, <1>2, <2>1
  <2>3. Nth(P, k) \in P /\ Cardinality(Below(P, Nth(P, k))) = k - 1
    BY <2>2 DEF Nth, Below
  <2>4. rank[Nth(P, k)] = Cardinality(Below(P, Nth(P, k))) + 1
    BY <1>2, <2>3
  <2>5. k \in Int
    BY <1>1
  <2> QED
    BY <2>3, <2>4, <2>5
<1>9. ASSUME NEW i \in P PROVE \E k \in 1 .. N : Nth(P, k) = i
  <2>1. rank[i] \in 1 .. N
    BY <1>2
  <2>2. Nth(P, rank[i]) = i
    BY <1>3, <1>8, <2>1
  <2> QED
    BY <2>1, <2>2
<1> QED
  BY <1>1, <1>8, <1>9

-----------------------------------------------------------------------------
(* Parts of sequences.                                                     *)

Elems(s) == {s[i] : i \in DOMAIN s}
Names(s) == {s[i].n : i \in DOMAIN s}
Named(s, n) == Cardinality({i \in DOMAIN s : s[i].n = n})
Distinct(s) == \A i, j \in DOMAIN s : s[i].n = s[j].n => i = j

\* The places of a sequence, and how many there are of some kind.
LEMMA Places ==
  ASSUME NEW S, NEW s \in Seq(S), NEW P \in SUBSET DOMAIN s
  PROVE  /\ DOMAIN s = 1 .. Len(s) /\ Len(s) \in Nat /\ P \subseteq Int
         /\ IsFiniteSet(P) /\ Cardinality(P) \in Nat /\ Cardinality(P) <= Len(s)
<1>1. DOMAIN s = 1 .. Len(s) /\ Len(s) \in Nat
  OBVIOUS
<1>2. IsFiniteSet(1 .. Len(s)) /\ Cardinality(1 .. Len(s)) = Len(s)
  <2>1. 1 \in Int /\ Len(s) \in Int
    BY <1>1
  <2>2. /\ IsFiniteSet(1 .. Len(s))
        /\ Cardinality(1 .. Len(s)) = IF 1 > Len(s) THEN 0 ELSE Len(s) - 1 + 1
    BY <2>1, FS_Interval
  <2> QED
    BY <1>1, <2>2
<1>3. IsFiniteSet(P) /\ Cardinality(P) <= Len(s)
  BY <1>1, <1>2, FS_Subset
<1>4. P \subseteq Int
  BY <1>1
<1> QED
  BY <1>1, <1>3, <1>4, FS_CardinalityType

\* At keeps just what stands at the places given.
LEMMA AtFacts ==
  ASSUME NEW S, NEW s \in Seq(S), NEW P \in SUBSET DOMAIN s
  PROVE  /\ At(s, P) \in Seq(S) /\ Len(At(s, P)) = Cardinality(P) /\ Len(At(s, P)) <= Len(s)
         /\ Elems(At(s, P)) = {s[i] : i \in P}
         /\ Distinct(s) => Distinct(At(s, P))
<1> DEFINE N == Cardinality(P)
           t == At(s, P)
<1>1. /\ DOMAIN s = 1 .. Len(s) /\ Len(s) \in Nat /\ N \in Nat /\ N <= Len(s)
      /\ P \subseteq Int /\ IsFiniteSet(P)
  BY Places
<1>2. /\ \A k \in 1 .. N : Nth(P, k) \in P
      /\ \A k, l \in 1 .. N : Nth(P, k) = Nth(P, l) => k = l
      /\ \A i \in P : \E k \in 1 .. N : Nth(P, k) = i
  BY <1>1, NthFacts
<1>3. DOMAIN t = 1 .. N /\ \A k \in 1 .. N : t[k] = s[Nth(P, k)]
  BY DEF At
<1>4. t = [k \in 1 .. N |-> s[Nth(P, k)]]
  BY DEF At
<1> HIDE DEF N, t
<1>5. \A k \in 1 .. N : s[Nth(P, k)] \in S
  BY <1>1, <1>2
<1>6. t \in Seq(S) /\ Len(t) = N
  BY <1>1, <1>4, <1>5
<1>7. Distinct(s) => Distinct(t)
  BY <1>1, <1>2, <1>3 DEF Distinct
<1>8. Elems(t) = {s[i] : i \in P}
  BY <1>2, <1>3 DEF Elems
<1> QED
  BY <1>1, <1>6, <1>7, <1>8 DEF t, N

\* The names at all places but those of P are those that P's places do not have.
LEMMA AtNames ==
  ASSUME NEW S, NEW s \in Seq(S), NEW P \in SUBSET DOMAIN s, Distinct(s)
  PROVE  /\ Names(At(s, P)) = {s[i].n : i \in P}
         /\ Names(At(s, DOMAIN s \ P)) = Names(s) \ Names(At(s, P))
<1>1. DOMAIN s \ P \in SUBSET DOMAIN s
  OBVIOUS
<1>2. ASSUME NEW Q \in SUBSET DOMAIN s PROVE Names(At(s, Q)) = {s[i].n : i \in Q}
  <2> DEFINE t == At(s, Q)
  <2>1. Elems(t) = {s[i] : i \in Q}
    BY AtFacts
  <2> HIDE DEF t
  <2>2. Names(t) = {r.n : r \in Elems(t)}
    BY DEF Names, Elems
  <2>3. Names(t) = {s[i].n : i \in Q}
    BY <2>1, <2>2
  <2> QED
    BY <2>3 DEF t
<1>3. Names(At(s, P)) = {s[i].n : i \in P}
  BY <1>2
<1>4. Names(At(s, DOMAIN s \ P)) = {s[i].n : i \in DOMAIN s \ P}
  BY <1>1, <1>2
<1>5. {s[i].n : i \in DOMAIN s \ P} = Names(s) \ {s[i].n : i \in P}
  BY DEF Names, Distinct
<1> QED
  BY <1>3, <1>4, <1>5

\* The newest of a sequence are of the sequence, and no more than the bound.
LEMMA NewestFacts ==
  ASSUME NEW S, NEW s \in Seq(S), NEW k \in Nat \ {0}
  PROVE  /\ Newest(s, k) \in Seq(S) /\ Len(Newest(s, k)) <= k
         /\ Elems(Newest(s, k)) \subseteq Elems(s)
<1> DEFINE m == IF Len(s) > k THEN Len(s) - k + 1 ELSE 1
           t == Newest(s, k)
<1>1. Len(s) \in Nat /\ m \in Nat /\ m >= 1 /\ m <= Len(s) + 1
  OBVIOUS
<1>2. t = SubSeq(s, m, Len(s))
  BY DEF Newest
<1>3. m > Len(s) => Len(s) = 0
  OBVIOUS
<1>4. t \in Seq(S) /\ Len(t) = Len(s) - m + 1 /\ \A i \in 1 .. Len(t) : t[i] = s[m + i - 1]
  <2>1. m \in Int /\ Len(s) \in Int
    BY <1>1
  <2>2. \A i \in m .. Len(s) : s[i] \in S
    BY <1>1
  <2> HIDE DEF m
  <2>3. /\ t \in Seq(S)
        /\ Len(t) = IF m <= Len(s) THEN Len(s) - m + 1 ELSE 0
        /\ \A i \in 1 .. Len(s) - m + 1 : t[i] = s[m + i - 1]
    BY <1>2, <2>1, <2>2, SubSeqProperties
  <2>4. Len(t) = Len(s) - m + 1
    BY <1>1, <2>1, <2>3
  <2> QED
    BY <2>3, <2>4
<1>5. Len(t) <= k
  BY <1>1, <1>4
<1>6. \A i \in 1 .. Len(t) : m + i - 1 \in 1 .. Len(s)
  BY <1>1, <1>4
<1> HIDE DEF m
<1>7. DOMAIN t = 1 .. Len(t) /\ DOMAIN s = 1 .. Len(s)
  BY <1>4
<1> HIDE DEF t
<1>8. \A i \in DOMAIN t : \E j \in DOMAIN s : t[i] = s[j]
  BY <1>4, <1>6, <1>7
<1>9. Elems(t) \subseteq Elems(s)
  BY <1>8 DEF Elems
<1> QED
  BY <1>4, <1>5, <1>9 DEF t

OneEach(T) == \A p, q \in T : p.id = q.id \/ p.n = q.n => p = q

\* A map in the order of its keys.
LEMMA ByIdsFacts ==
  ASSUME NEW T \in SUBSET Note, IsFiniteSet(T)
  PROVE  /\ ByIds(T) \in Seq(Note) /\ Elems(ByIds(T)) \subseteq T
         /\ OneEach(T) => /\ Distinct(ByIds(T)) /\ Names(ByIds(T)) = {p.n : p \in T}
                          /\ Elems(ByIds(T)) = T
<1> DEFINE ids == {p.id : p \in T}
           N == Cardinality(ids)
           t == ByIds(T)
<1>1. ids \subseteq Int
  BY DEF Note
<1>2. IsFiniteSet(ids)
  <2> DEFINE f == [p \in T |-> p.id]
  <2>1. f \in Surjection(T, ids)
    BY DEF Surjection
  <2> HIDE DEF f, ids
  <2> QED
    BY <2>1, FS_Surjection
<1>3. N \in Nat
  BY <1>2, FS_CardinalityType
<1>4. /\ \A k \in 1 .. N : Nth(ids, k) \in ids
      /\ \A k, l \in 1 .. N : Nth(ids, k) = Nth(ids, l) => k = l
      /\ \A i \in ids : \E k \in 1 .. N : Nth(ids, k) = i
  BY <1>1, <1>2, NthFacts
<1>5. t = [k \in 1 .. N |-> CHOOSE p \in T : p.id = Nth(ids, k)]
  BY DEF ByIds
<1>6. \A k \in 1 .. N : t[k] \in T /\ t[k].id = Nth(ids, k)
  <2> TAKE k \in 1 .. N
  <2>0. Nth(ids, k) \in ids
    BY <1>4
  <2>1. \E p \in T : p.id = Nth(ids, k)
    BY <2>0, Zenon
  <2>2. t[k] = CHOOSE p \in T : p.id = Nth(ids, k)
    BY <1>5
  <2> HIDE DEF t, ids, N
  <2> QED
    BY <2>1, <2>2
<1>7. OneEach(T) => \A p \in T : \E k \in 1 .. N : t[k] = p
  <2> SUFFICES ASSUME OneEach(T), NEW p \in T PROVE \E k \in 1 .. N : t[k] = p
    OBVIOUS
  <2>1. PICK k \in 1 .. N : Nth(ids, k) = p.id
    BY <1>4
  <2> QED
    BY <1>6, <2>1 DEF OneEach
<1> HIDE DEF t, ids, N
<1>8. t \in Seq(Note) /\ DOMAIN t = 1 .. N
  <2>1. \A k \in 1 .. N : t[k] \in Note
    BY <1>6
  <2>2. t = [k \in 1 .. N |-> t[k]]
    BY <1>5
  <2> QED
    BY <1>3, <2>1, <2>2
<1>9. OneEach(T) => Distinct(t)
  BY <1>4, <1>6, <1>8 DEF Distinct, OneEach
<1>10. OneEach(T) => Names(t) = {p.n : p \in T}
  BY <1>6, <1>7, <1>8 DEF Names
<1>11. OneEach(T) => Elems(t) = T
  BY <1>6, <1>7, <1>8 DEF Elems
<1>12. Elems(t) \subseteq T
  BY <1>6, <1>8 DEF Elems
<1> QED
  BY <1>8, <1>9, <1>10, <1>11, <1>12 DEF t

-----------------------------------------------------------------------------
(* The inductive invariant.                                                *)

\* Between them the requests do not use up the ids.
NoWrap == MaxRequests <= MaxId

TypeInv == /\ TypeOK /\ IsFiniteSet(pending)
           /\ \A r \in Elems(requests) \cup Elems(asks) : r.n \in DOMAIN asked

\* While the ids do not wrap, the id of a request is its number.
Numbers ==
  /\ Len(asked) <= MaxRequests
  /\ nextId = IF Len(asked) < MaxId THEN Len(asked) + 1 ELSE 1
  /\ lastRequest = Len(asked) /\ clearedThrough <= Len(asked)

\* A request or what is left of it, and the table it was made for.
OfRequest(r) == r.n \in DOMAIN asked /\ r.id = r.n /\ r.epoch = asked[r.n].epoch
OfAsk(r) == OfRequest(r) /\ r.identity = asked[r.n].identity

Tags ==
  /\ \A r \in Elems(requests) : OfAsk(r)
  /\ \A r \in Elems(asks) : OfAsk(r)
  /\ \A ask \in cur : OfAsk(ask)
  /\ \A p \in pending : OfRequest(p)
  /\ \A r \in Elems(results) : OfRequest(r)
  /\ \A r \in Elems(scores) : OfRequest(r)

\* Every table that was posted and is still told of.
Told == {NoDeclare, posted, current, declared} \cup {asked[n] : n \in DOMAIN asked}

\* Epoch and identity name a table, and the posted one has the highest.
OneTable ==
  /\ \A x \in Told : x.epoch <= posted.epoch /\ x.identity <= posted.identity
  /\ \A x, y \in Told : x.epoch = y.epoch /\ x.identity = y.identity => x = y

\* What the script may still read of this epoch was asked of this table.
Readable ==
  \A n \in DOMAIN asked : asked[n].epoch = posted.epoch /\ n > clearedThrough => asked[n] = posted

Pending == {p.n : p \in pending}

\* A request waits in one place only, and once.
OnePlace ==
  /\ Distinct(requests) /\ Distinct(asks)
  /\ Names(requests) \cap Names(asks) = {}
  /\ Names(requests) \cap Pending = {} /\ Names(asks) \cap Pending = {}

Waiting == Names(requests) \cup Names(asks) \cup Pending

Counted == answered = [n \in DOMAIN asked |-> IF n \in Waiting THEN 0 ELSE 1]

Idle ==
  pc \in {"down", "hello"} => /\ ~leaderboards
                              /\ requests = <<>> /\ asks = <<>> /\ pending = {}

IInv == /\ Numbers /\ Tags /\ OneTable /\ Readable /\ OwnResults /\ AskedOfOwnTable
        /\ OnePlace /\ Counted /\ Idle

-----------------------------------------------------------------------------
(* What sequences are made of.                                             *)

Item == Ask \cup Note

LEMMA ItemFacts ==
  ASSUME NEW r \in Item
  PROVE  r.n \in Nat /\ r.id \in 1 .. MaxId /\ r.epoch \in Nat
  BY DEF Item, Ask, Note

LEMMA ConcatFacts ==
  ASSUME NEW S, NEW s \in Seq(S), NEW t \in Seq(S)
  PROVE  /\ s \o t \in Seq(S) /\ Len(s \o t) = Len(s) + Len(t)
         /\ Elems(s \o t) = Elems(s) \cup Elems(t)
         /\ Names(s \o t) = Names(s) \cup Names(t)
         /\ Distinct(s) /\ Distinct(t) /\ Names(s) \cap Names(t) = {} => Distinct(s \o t)
<1> DEFINE u == s \o t
<1>1. /\ DOMAIN s = 1 .. Len(s) /\ DOMAIN t = 1 .. Len(t) /\ DOMAIN u = 1 .. Len(s) + Len(t)
      /\ Len(s) \in Nat /\ Len(t) \in Nat /\ u \in Seq(S) /\ Len(u) = Len(s) + Len(t)
  OBVIOUS
<1>2. /\ \A i \in 1 .. Len(s) : u[i] = s[i]
      /\ \A i \in 1 .. Len(t) : u[Len(s) + i] = t[i]
  BY <1>1
<1>3. \A i \in DOMAIN u : \/ i \in 1 .. Len(s)
                          \/ i - Len(s) \in 1 .. Len(t) /\ i = Len(s) + (i - Len(s))
  BY <1>1
<1>4. \A i \in 1 .. Len(t) : Len(s) + i \in DOMAIN u
  BY <1>1
<1>5. \A i \in 1 .. Len(s) : i \in DOMAIN u
  BY <1>1
<1> HIDE DEF u
<1>6. \A i \in DOMAIN u : \/ i \in DOMAIN s /\ u[i] = s[i]
                          \/ i - Len(s) \in DOMAIN t /\ u[i] = t[i - Len(s)]
  <2> TAKE i \in DOMAIN u
  <2>1. CASE i \in 1 .. Len(s)
    BY <1>1, <1>2, <2>1
  <2>2. CASE i - Len(s) \in 1 .. Len(t) /\ i = Len(s) + (i - Len(s))
    BY <1>1, <1>2, <2>2
  <2> QED
    BY <1>3, <2>1, <2>2
<1>7. Names(u) = Names(s) \cup Names(t)
  <2>1. \A i \in DOMAIN u : u[i].n \in Names(s) \cup Names(t)
    BY <1>6 DEF Names
  <2>2. \A i \in DOMAIN s : s[i].n \in Names(u)
    BY <1>1, <1>2, <1>5 DEF Names
  <2>3. \A i \in DOMAIN t : t[i].n \in Names(u)
    BY <1>1, <1>2, <1>4 DEF Names
  <2> QED
    BY <2>1, <2>2, <2>3 DEF Names
<1>e. Elems(u) = Elems(s) \cup Elems(t)
  <2>1. \A i \in DOMAIN u : u[i] \in Elems(s) \cup Elems(t)
    BY <1>6 DEF Elems
  <2>2. \A i \in DOMAIN s : s[i] \in Elems(u)
    BY <1>1, <1>2, <1>5 DEF Elems
  <2>3. \A i \in DOMAIN t : t[i] \in Elems(u)
    BY <1>1, <1>2, <1>4 DEF Elems
  <2> QED
    BY <2>1, <2>2, <2>3 DEF Elems
<1>8. ASSUME Distinct(s), Distinct(t), Names(s) \cap Names(t) = {} PROVE Distinct(u)
  <2> SUFFICES ASSUME NEW i \in DOMAIN u, NEW j \in DOMAIN u, u[i].n = u[j].n PROVE i = j
    BY DEF Distinct
  <2>1. CASE i \in DOMAIN s /\ u[i] = s[i] /\ j \in DOMAIN s /\ u[j] = s[j]
    BY <1>8, <2>1 DEF Distinct
  <2>2. CASE i - Len(s) \in DOMAIN t /\ u[i] = t[i - Len(s)]
             /\ j - Len(s) \in DOMAIN t /\ u[j] = t[j - Len(s)]
    <3>1. i - Len(s) = j - Len(s)
      BY <1>8, <2>2 DEF Distinct
    <3> QED
      BY <1>1, <3>1
  <2>3. CASE i \in DOMAIN s /\ u[i] = s[i]
             /\ j - Len(s) \in DOMAIN t /\ u[j] = t[j - Len(s)]
    <3>1. u[i].n \in Names(s) /\ u[j].n \in Names(t)
      BY <2>3 DEF Names
    <3> QED
      BY <1>8, <3>1
  <2>4. CASE j \in DOMAIN s /\ u[j] = s[j]
             /\ i - Len(s) \in DOMAIN t /\ u[i] = t[i - Len(s)]
    <3>1. u[j].n \in Names(s) /\ u[i].n \in Names(t)
      BY <2>4 DEF Names
    <3> QED
      BY <1>8, <3>1
  <2> QED
    BY <1>6, <2>1, <2>2, <2>3, <2>4
<1> QED
  BY <1>1, <1>7, <1>8, <1>e DEF u

LEMMA OneFacts ==
  ASSUME NEW S, NEW x \in S
  PROVE  /\ <<x>> \in Seq(S) /\ Len(<<x>>) = 1 /\ Elems(<<x>>) = {x}
         /\ Names(<<x>>) = {x.n} /\ Distinct(<<x>>)
  BY DEF Elems, Names, Distinct

LEMMA NoneFacts ==
  ASSUME NEW S
  PROVE  /\ <<>> \in Seq(S) /\ Len(<<>>) = 0 /\ Elems(<<>>) = {}
         /\ Names(<<>>) = {} /\ Distinct(<<>>)
  BY DEF Elems, Names, Distinct

LEMMA AppendFacts ==
  ASSUME NEW S, NEW s \in Seq(S), NEW x \in S
  PROVE  /\ Append(s, x) \in Seq(S) /\ Len(Append(s, x)) = Len(s) + 1
         /\ Elems(Append(s, x)) = Elems(s) \cup {x}
         /\ Names(Append(s, x)) = Names(s) \cup {x.n}
         /\ Distinct(s) /\ x.n \notin Names(s) => Distinct(Append(s, x))
<1>1. Append(s, x) = s \o <<x>>
  OBVIOUS
<1> DEFINE t == <<x>>
<1>2. t \in Seq(S) /\ Len(t) = 1 /\ Elems(t) = {x} /\ Names(t) = {x.n} /\ Distinct(t)
  BY OneFacts
<1>3. Append(s, x) = s \o t
  BY <1>1
<1> HIDE DEF t
<1>4. s \o t \in Seq(S) /\ Len(s \o t) = Len(s) + Len(t)
  BY <1>2, ConcatFacts
<1>5. Elems(s \o t) = Elems(s) \cup Elems(t)
  BY <1>2, ConcatFacts
<1>6. Names(s \o t) = Names(s) \cup Names(t)
  BY <1>2, ConcatFacts
<1>7. Distinct(s) /\ Distinct(t) /\ Names(s) \cap Names(t) = {} => Distinct(s \o t)
  BY <1>2, ConcatFacts
<1> QED
  BY <1>2, <1>3, <1>4, <1>5, <1>6, <1>7

LEMMA TailFacts ==
  ASSUME NEW S, NEW s \in Seq(S), s # <<>>
  PROVE  /\ Tail(s) \in Seq(S) /\ Head(s) \in S /\ 1 \in DOMAIN s /\ Head(s) = s[1]
         /\ Elems(Tail(s)) \subseteq Elems(s) /\ Head(s) \in Elems(s) /\ Head(s).n \in Names(s)
         /\ Distinct(s) => /\ Distinct(Tail(s)) /\ Names(Tail(s)) = Names(s) \ {Head(s).n}
<1> DEFINE t == Tail(s)
<1>1. /\ t \in Seq(S) /\ Head(s) \in S /\ Head(s) = s[1] /\ Len(s) \in Nat /\ Len(s) >= 1
      /\ DOMAIN s = 1 .. Len(s) /\ DOMAIN t = 1 .. Len(s) - 1
  OBVIOUS
<1>2. \A i \in DOMAIN t : i + 1 \in DOMAIN s /\ t[i] = s[i + 1]
  BY <1>1
<1>3. \A j \in DOMAIN s : j = 1 \/ (j - 1 \in DOMAIN t /\ t[j - 1] = s[j])
  BY <1>1
<1>4. 1 \in DOMAIN s
  BY <1>1
<1>5. \A i \in DOMAIN t : i + 1 # 1 /\ i \in Int
  BY <1>1
<1> HIDE DEF t
<1>6. ASSUME Distinct(s) PROVE Distinct(t) /\ Names(t) = Names(s) \ {Head(s).n}
  <2>1. \A i, j \in DOMAIN t : t[i].n = t[j].n => i + 1 = j + 1
    BY <1>2, <1>6 DEF Distinct
  <2>2. Distinct(t)
    BY <1>5, <2>1 DEF Distinct
  <2>3. \A i \in DOMAIN t : t[i].n \in Names(s) \ {Head(s).n}
    BY <1>1, <1>2, <1>4, <1>5, <1>6 DEF Names, Distinct
  <2>4. \A j \in DOMAIN s : s[j].n # Head(s).n => s[j].n \in Names(t)
    BY <1>1, <1>3 DEF Names
  <2> QED
    BY <2>2, <2>3, <2>4 DEF Names
<1>7. Elems(t) \subseteq Elems(s)
  BY <1>2 DEF Elems
<1>8. Head(s) \in Elems(s) /\ Head(s).n \in Names(s)
  BY <1>1, <1>4 DEF Elems, Names
<1> QED
  BY <1>1, <1>4, <1>6, <1>7, <1>8 DEF t

\* How often a sequence names a request.
LEMMA CountFacts ==
  ASSUME NEW S, NEW s \in Seq(S), NEW n
  PROVE  /\ Named(s, n) \in Nat
         /\ Distinct(s) => Named(s, n) = IF n \in Names(s) THEN 1 ELSE 0
<1> DEFINE P == {i \in DOMAIN s : s[i].n = n}
<1>1. Cardinality(P) \in Nat
  BY Places
<1>2. ASSUME Distinct(s), n \in Names(s) PROVE Cardinality(P) = 1
  <2>1. PICK i \in DOMAIN s : s[i].n = n
    BY <1>2 DEF Names
  <2>2. P = {i}
    BY <1>2, <2>1 DEF Distinct
  <2> QED
    BY <2>2, FS_Singleton
<1>3. ASSUME n \notin Names(s) PROVE Cardinality(P) = 0
  <2>1. P = {}
    BY <1>3 DEF Names
  <2> QED
    BY <2>1, FS_EmptySet
<1> QED
  BY <1>1, <1>2, <1>3 DEF Named

NoteOf(r) == [n |-> r.n, id |-> r.id, epoch |-> r.epoch]

\* What Post tells the script, and whom it counts as answered.
LEMMA PostFacts ==
  ASSUME NEW lost \in Seq(Item), Post(lost), MAX_QUEUED \in Nat \ {0},
         results \in Seq(Note), answered \in [DOMAIN asked -> Nat]
  PROVE  /\ results' \in Seq(Note) /\ Len(results') <= MAX_QUEUED
         /\ answered' \in [DOMAIN asked -> Nat]
         /\ Elems(results)' \subseteq Elems(results) \cup {NoteOf(r) : r \in Elems(lost)}
         /\ Distinct(lost) =>
              \A n \in DOMAIN asked :
                answered'[n] = answered[n] + IF n \in Names(lost) THEN 1 ELSE 0
<1> DEFINE note == [i \in DOMAIN lost |-> NoteOf(lost[i])]
<1>1. DOMAIN lost = 1 .. Len(lost) /\ Len(lost) \in Nat /\ \A i \in DOMAIN lost : lost[i] \in Item
  OBVIOUS
<1>2. \A i \in DOMAIN lost : note[i] \in Note
  BY <1>1, ItemFacts DEF Note, NoteOf
<1>3. note = [i \in 1 .. Len(lost) |-> note[i]]
  BY <1>1
<1>4. results' = Newest(results \o note, MAX_QUEUED)
  BY DEF Post, NoteOf
<1>5. Elems(note) = {NoteOf(r) : r \in Elems(lost)}
  BY DEF Elems
<1> HIDE DEF note
<1>6. note \in Seq(Note)
  BY <1>1, <1>2, <1>3
<1> DEFINE all == results \o note
<1>7. all \in Seq(Note) /\ Elems(all) = Elems(results) \cup Elems(note)
  BY <1>6, ConcatFacts
<1>8. results' = Newest(all, MAX_QUEUED)
  BY <1>4
<1> HIDE DEF all
<1>9. results' \in Seq(Note) /\ Len(results') <= MAX_QUEUED /\ Elems(Newest(all, MAX_QUEUED)) \subseteq Elems(all)
  BY <1>7, <1>8, NewestFacts
<1>10. Elems(results)' \subseteq Elems(all)
  BY <1>8, <1>9 DEF Elems
<1>11. answered' = [n \in DOMAIN answered |-> answered[n] + Named(lost, n)]
  BY DEF Post, Named
<1>12. \A n : /\ Named(lost, n) \in Nat
              /\ Distinct(lost) => Named(lost, n) = IF n \in Names(lost) THEN 1 ELSE 0
  BY CountFacts
<1>13. answered' \in [DOMAIN asked -> Nat]
  BY <1>11, <1>12
<1>14. Distinct(lost) => \A n \in DOMAIN asked :
                answered'[n] = answered[n] + IF n \in Names(lost) THEN 1 ELSE 0
  BY <1>11, <1>12
<1> QED
  BY <1>5, <1>7, <1>9, <1>10, <1>13, <1>14

\* A set of notes has one of the lowest id.
LEMMA LowestFacts ==
  ASSUME NEW T \in SUBSET Note, IsFiniteSet(T), T # {}
  PROVE  \E p \in T : \A q \in T : p.id <= q.id
<1> DEFINE ids == {p.id : p \in T}
           i == Nth(ids, 1)
<1>1. ids \subseteq Int /\ ids # {}
  BY DEF Note
<1>2. IsFiniteSet(ids)
  <2> DEFINE f == [p \in T |-> p.id]
  <2>1. f \in Surjection(T, ids)
    BY DEF Surjection
  <2> HIDE DEF f, ids
  <2> QED
    BY <2>1, FS_Surjection
<1> HIDE DEF ids
<1>3. 1 \in 1 .. Cardinality(ids)
  BY <1>1, <1>2, FS_CardinalityType, FS_EmptySet
<1>4. i \in ids /\ Cardinality(Below(ids, i)) = 0
  <2>1. Nth(ids, 1) \in ids
    BY <1>1, <1>2, <1>3, NthFacts
  <2>2. Cardinality(Below(ids, Nth(ids, 1))) = 1 - 1
    BY <1>1, <1>2, <1>3, NthFacts
  <2> QED
    BY <2>1, <2>2
<1>5. Below(ids, i) = {}
  <2>1. Below(ids, i) \in SUBSET ids
    BY DEF Below
  <2> QED
    BY <1>2, <1>4, <2>1, FS_Subset, FS_EmptySet
<1> HIDE DEF i
<1>6. \A j \in ids : i <= j
  <2> SUFFICES ASSUME NEW j \in ids PROVE i <= j
    OBVIOUS
  <2>1. j \notin Below(ids, i)
    BY <1>5
  <2>2. ~(j < i)
    BY <2>1 DEF Below
  <2> QED
    BY <1>1, <1>4, <2>2
<1> QED
  BY <1>4, <1>6 DEF ids

-----------------------------------------------------------------------------
(* Types.                                                                  *)

LEMMA Constants ==
  /\ MAX_QUEUED \in Nat \ {0} /\ MAX_PENDING \in Nat \ {0} /\ CAPACITY \in Nat \ {0}
  /\ MaxId \in Nat \ {0} /\ MaxRequests \in Nat
  BY ReadBackAssumption

LEMMA SubSeqType ==
  ASSUME NEW S, NEW T, S \subseteq T, NEW s \in Seq(S) PROVE s \in Seq(T)
  OBVIOUS

\* What Post says of the pending requests.
LEMMA PendingFacts ==
  ASSUME TypeInv, NEW T \in SUBSET pending
  PROVE  /\ IsFiniteSet(T) /\ Cardinality(T) \in Nat /\ Cardinality(T) <= Cardinality(pending)
         /\ ByIds(T) \in Seq(Item)
<1>1. /\ IsFiniteSet(T) /\ Cardinality(T) \in Nat /\ Cardinality(T) <= Cardinality(pending)
      /\ T \in SUBSET Note
  BY FS_Subset, FS_CardinalityType DEF TypeInv, TypeOK
<1>2. ByIds(T) \in Seq(Note)
  BY <1>1, ByIdsFacts
<1>3. Note \subseteq Item
  BY DEF Item
<1> QED
  BY <1>1, <1>2, <1>3, SubSeqType

\* A set of places but for one kind of them, as a sequence of requests.
LEMMA AtType ==
  ASSUME NEW S, NEW s \in Seq(S), NEW P \in SUBSET DOMAIN s
  PROVE  /\ At(s, P) \in Seq(S) /\ Len(At(s, P)) <= Len(s)
         /\ Elems(At(s, P)) \subseteq Elems(s)
<1>1. At(s, P) \in Seq(S) /\ Len(At(s, P)) <= Len(s) /\ Elems(At(s, P)) = {s[i] : i \in P}
  BY AtFacts
<1> QED
  BY <1>1 DEF Elems

LEMMA PostType ==
  ASSUME TypeInv, NEW lost \in Seq(Item), Post(lost)
  PROVE  /\ results' \in Seq(Note) /\ Len(results') <= MAX_QUEUED
         /\ answered' \in [DOMAIN asked -> Nat]
  BY Constants, PostFacts DEF TypeInv, TypeOK

LEMMA TypeInit == Init => TypeInv
<1> SUFFICES ASSUME Init PROVE TypeInv
  OBVIOUS
<1>1. TypeOK
  <2>1. NoDeclare \in Snapshot
    BY DEF NoDeclare, Snapshot
  <2>2. Cardinality(pending) = 0 /\ IsFiniteSet(pending)
    BY FS_EmptySet DEF Init
  <2>3. asked \in Seq(Snapshot) /\ requests \in Seq(Ask) /\ asks \in Seq(Ask)
        /\ results \in Seq(Note) /\ scores \in Seq(Note)
        /\ Len(requests) = 0 /\ Len(results) = 0 /\ Len(scores) = 0
    BY DEF Init
  <2>4. answered \in [DOMAIN asked -> Nat]
    BY DEF Init
  <2> QED
    <3>1. {posted, current, declared} \subseteq Snapshot
      BY <2>1 DEF Init
    <3>2. {unread, leaderboards, haveDeclared} \subseteq BOOLEAN /\ peer = NoPeer
      BY DEF Init
    <3>3. lastRequest \in 0 .. MaxId /\ clearedThrough \in 0 .. MaxId /\ nextId \in 1 .. MaxId
      BY Constants DEF Init
    <3>4. cur = {} /\ pending = {} /\ inbox = {} /\ owed = {} /\ losses = 0 /\ pc = "down"
      BY DEF Init
    <3> QED
      BY Constants, <2>2, <2>3, <2>4, <3>1, <3>2, <3>3, <3>4 DEF TypeOK
<1>2. IsFiniteSet(pending)
  BY FS_EmptySet DEF Init
<1>3. \A r \in Elems(requests) \cup Elems(asks) : r.n \in DOMAIN asked
  BY DEF Init, Elems
<1> QED
  BY <1>1, <1>2, <1>3 DEF TypeInv

LEMMA TypeScript == ASSUME TypeInv, Script PROVE TypeInv'
<1> USE DEF TypeInv, channel, link, wire
<1>1. ASSUME NEW t \in Tables \cup {None}, ChangeIdentity(t) PROVE TypeInv'
  <2>1. posted' \in Snapshot
    <3>1. posted \in Snapshot
      BY DEF TypeOK
    <3>2. posted.epoch \in Nat /\ posted.identity \in Nat
      BY <3>1 DEF Snapshot
    <3>3. posted' = [epoch |-> posted.epoch, identity |-> posted.identity + 1, table |-> t]
      BY <1>1, <3>1 DEF ChangeIdentity, Snapshot
    <3> QED
      BY <3>2, <3>3 DEF Snapshot
  <2>2. scores' \in Seq(Note) /\ Len(scores') = 0
    BY <1>1 DEF ChangeIdentity, ClearScores
  <2>3. TypeOK'
    BY <1>1, <2>1, <2>2, Constants DEF TypeOK, ChangeIdentity, ClearScores
  <2> QED
    BY <1>1, <2>3 DEF ChangeIdentity, Elems
<1>2. ASSUME NEW t \in Tables \cup {None}, NewEpoch(t) PROVE TypeInv'
  <2>1. posted' \in Snapshot
    <3>1. posted \in Snapshot
      BY DEF TypeOK
    <3>2. posted.epoch \in Nat /\ posted.identity \in Nat
      BY <3>1 DEF Snapshot
    <3>3. posted' = [epoch |-> posted.epoch + 1, identity |-> posted.identity, table |-> t]
      BY <1>2, <3>1 DEF NewEpoch, Snapshot
    <3> QED
      BY <3>2, <3>3 DEF Snapshot
  <2>2. scores' \in Seq(Note) /\ Len(scores') = 0
    BY <1>2 DEF NewEpoch
  <2>3. TypeOK'
    BY <1>2, <2>1, <2>2, Constants DEF TypeOK, NewEpoch
  <2> QED
    BY <1>2, <2>3 DEF NewEpoch, Elems
<1>3. ASSUME Request PROVE TypeInv'
  <2> DEFINE ask == [n |-> Len(asked) + 1, id |-> nextId,
                     epoch |-> posted.epoch, identity |-> posted.identity]
  <2>1. /\ requests' = Append(requests, ask) /\ asked' = Append(asked, posted)
        /\ answered' = Append(answered, 0) /\ Len(requests) < MAX_QUEUED
    BY <1>3 DEF Request
  <2>2. ask \in Ask /\ ask.n = Len(asked) + 1
    BY DEF TypeOK, Ask, Snapshot
  <2> HIDE DEF ask
  <2>3. requests' \in Seq(Ask) /\ Len(requests') <= MAX_QUEUED
    BY <2>1, <2>2, Constants DEF TypeOK
  <2>4. Elems(Append(requests, ask)) = Elems(requests) \cup {ask}
    BY <2>2, AppendFacts DEF TypeOK
  <2>5. /\ asked' \in Seq(Snapshot) /\ DOMAIN asked' = 1 .. Len(asked) + 1
        /\ DOMAIN asked = 1 .. Len(asked) /\ Len(asked) \in Nat
    BY <2>1 DEF TypeOK
  <2>6. answered' \in [1 .. Len(asked) + 1 -> Nat]
    <3>1. answered \in Seq(Nat) /\ Len(answered) = Len(asked)
      <4>1. answered \in [1 .. Len(asked) -> Nat]
        BY <2>5 DEF TypeOK
      <4>2. answered = [i \in 1 .. Len(asked) |-> answered[i]] /\ \A i \in 1 .. Len(asked) : answered[i] \in Nat
        BY <4>1
      <4> QED
        BY <2>5, <4>2
    <3>2. Append(answered, 0) \in Seq(Nat) /\ Len(Append(answered, 0)) = Len(asked) + 1
      BY <3>1
    <3>3. answered' \in Seq(Nat) /\ Len(answered') = Len(asked) + 1
      BY <2>1, <3>2
    <3> QED
      BY ONLY <3>3
  <2>7. nextId' \in 1 .. MaxId /\ lastRequest' \in 0 .. MaxId
    BY <1>3, Constants DEF TypeOK, Request
  <2>8. DOMAIN asked \subseteq DOMAIN asked' /\ Len(asked) + 1 \in DOMAIN asked'
    BY <2>5
  <2>9. TypeOK'
    BY <1>3, <2>3, <2>5, <2>6, <2>7, <2>8 DEF TypeOK, Request
  <2>10. Elems(requests)' = Elems(requests) \cup {ask} /\ Elems(asks)' = Elems(asks)
    BY <1>3, <2>1, <2>4 DEF Request, Elems
  <2>11. \A r \in (Elems(requests) \cup Elems(asks))' : r.n \in DOMAIN asked'
    BY <2>2, <2>8, <2>10
  <2> QED
    BY <1>3, <2>9, <2>11 DEF Request
<1>4. ASSUME Drain PROVE TypeInv'
  <2>1. PICK read \in SUBSET DOMAIN results, held \in SUBSET DOMAIN scores :
          scores' = Newest(At(scores, held) \o At(results, read), CAPACITY)
    BY <1>4 DEF Drain
  <2>2. At(scores, held) \in Seq(Note) /\ At(results, read) \in Seq(Note)
    BY AtType DEF TypeOK
  <2>3. At(scores, held) \o At(results, read) \in Seq(Note)
    BY <2>2
  <2>4. scores' \in Seq(Note) /\ Len(scores') <= CAPACITY
    BY <2>1, <2>3, Constants, NewestFacts
  <2>5. results' \in Seq(Note) /\ Len(results') = 0
    BY <1>4 DEF Drain
  <2>6. TypeOK'
    BY <1>4, <2>4, <2>5, Constants DEF TypeOK, Drain
  <2> QED
    BY <1>4, <2>6 DEF Drain, Elems
<1>5. ASSUME Release PROVE TypeInv'
  <2>1. PICK i \in DOMAIN scores : scores' = At(scores, DOMAIN scores \ {i})
    BY <1>5 DEF Release
  <2>2. DOMAIN scores \ {i} \in SUBSET DOMAIN scores
    OBVIOUS
  <2>3. scores' \in Seq(Note) /\ Len(scores') <= Len(scores)
    BY <2>1, <2>2, AtType DEF TypeOK
  <2>4. TypeOK'
    BY <1>5, <2>3, Constants DEF TypeOK, Release
  <2> QED
    BY <1>5, <2>4 DEF Release, Elems
<1> QED
  BY <1>1, <1>2, <1>3, <1>4, <1>5 DEF Script

LEMMA TypeLink ==
  ASSUME TypeInv,
         \/ Connect \/ HelloAck \/ SetLeaderboards \/ TakeDeclare \/ SendGames \/ MaybeDeclare
         \/ SendReturns \/ RequestAck \/ PollEnds \/ Resolve
  PROVE  TypeInv'
<1> USE DEF TypeInv, api, channel, link, wire
<1>1. ASSUME Connect PROVE TypeInv'
  <2>1. declared' \in Snapshot
    BY <1>1 DEF Connect, NoDeclare, Snapshot
  <2> QED
    BY <1>1, <2>1 DEF TypeOK, Connect, Elems
<1>2. ASSUME HelloAck PROVE TypeInv'
  BY <1>2 DEF TypeOK, HelloAck, Elems
<1>3. ASSUME SetLeaderboards PROVE TypeInv'
  <2>1. leaderboards' \in BOOLEAN
    BY <1>3 DEF SetLeaderboards
  <2> QED
    BY <1>3, <2>1 DEF TypeOK, SetLeaderboards, Elems
<1>4. ASSUME TakeDeclare PROVE TypeInv'
  BY <1>4 DEF TypeOK, TakeDeclare, Elems
<1>5. ASSUME SendGames PROVE TypeInv'
  BY <1>5 DEF TypeOK, SendGames, Elems
<1>6. ASSUME MaybeDeclare PROVE TypeInv'
  <2>1. leaderboards' \in BOOLEAN
    BY <1>6 DEF MaybeDeclare, TypeOK
  <2> QED
    BY <1>6, <2>1 DEF TypeOK, MaybeDeclare, Elems
<1>7. ASSUME SendReturns PROVE TypeInv'
  BY <1>7 DEF TypeOK, SendReturns, Elems
<1>8. ASSUME RequestAck PROVE TypeInv'
  BY <1>8 DEF TypeOK, RequestAck, Elems
<1>9. ASSUME PollEnds PROVE TypeInv'
  BY <1>9 DEF TypeOK, PollEnds, Elems
<1>10. ASSUME Resolve PROVE TypeInv'
  BY <1>10 DEF TypeOK, Resolve, Elems
<1> QED
  BY <1>1, <1>2, <1>3, <1>4, <1>5, <1>6, <1>7, <1>8, <1>9, <1>10

LEMMA TypeAnswers ==
  ASSUME TypeInv,
         \/ DeclareAck \/ LoseQueuedRequests \/ TakeRequests \/ AnswerHere
         \/ RequestRefused \/ AnswerTopScores \/ Disconnect
  PROVE  TypeInv'
<1> USE DEF TypeInv, api, channel, link, wire
<1>0. /\ asks \in Seq(Ask) /\ requests \in Seq(Ask) /\ Ask \subseteq Item /\ Note \subseteq Item
      /\ pending \subseteq Note /\ IsFiniteSet(pending) /\ Cardinality(pending) <= MAX_PENDING
      /\ \A r \in Elems(requests) \cup Elems(asks) : r.n \in DOMAIN asked
  BY DEF TypeOK, Item
<1>e. Elems(<<>>) = {} /\ <<>> \in Seq(Ask) /\ Len(<<>>) = 0
  BY DEF Elems
<1>s. asks \in Seq(Item) /\ requests \in Seq(Item)
  BY <1>0, SubSeqType
<1>f. IsFiniteSet({}) /\ Cardinality({}) = 0
  BY FS_EmptySet
<1>1. ASSUME DeclareAck PROVE TypeInv'
  <2>1. CASE Post(ByIds(pending)) /\ pending' = {}
    <3>1. ByIds(pending) \in Seq(Item)
      BY PendingFacts
    <3>2. results' \in Seq(Note) /\ Len(results') <= MAX_QUEUED /\ answered' \in [DOMAIN asked -> Nat]
      BY <2>1, <3>1, PostType
    <3> QED
      BY <1>1, <1>f, <2>1, <3>2, Constants DEF TypeOK, DeclareAck, Elems
  <2>2. CASE UNCHANGED <<results, answered, pending>>
    BY <1>1, <2>2 DEF TypeOK, DeclareAck, Elems
  <2> QED
    BY <1>1, <2>1, <2>2 DEF DeclareAck
<1>2. ASSUME LoseQueuedRequests PROVE TypeInv'
  <2> DEFINE all == asks \o requests
  <2>1. PICK old \in SUBSET DOMAIN all : Post(At(all, old)) /\ asks' = At(all, DOMAIN all \ old)
    BY <1>2 DEF LoseQueuedRequests
  <2>2. all \in Seq(Ask)
    BY <1>0, ConcatFacts
  <2>3. Elems(all) = Elems(asks) \cup Elems(requests)
    BY <1>0, ConcatFacts
  <2> HIDE DEF all
  <2>4. all \in Seq(Item)
    BY <1>0, <2>2, SubSeqType
  <2>5. At(all, old) \in Seq(Item)
    BY <2>4, AtType
  <2>6. results' \in Seq(Note) /\ Len(results') <= MAX_QUEUED /\ answered' \in [DOMAIN asked -> Nat]
    BY <2>1, <2>5, PostType
  <2>7. asks' \in Seq(Ask) /\ Elems(At(all, DOMAIN all \ old)) \subseteq Elems(all)
    BY <2>1, <2>2, AtType
  <2>8. Elems(asks)' \subseteq Elems(asks) \cup Elems(requests) /\ Elems(requests)' = {}
    BY <1>2, <1>e, <2>1, <2>3, <2>7 DEF LoseQueuedRequests, Elems
  <2>9. TypeOK'
    <3>1. requests' \in Seq(Ask) /\ Len(requests') <= MAX_QUEUED
      BY <1>2, <1>e, Constants DEF LoseQueuedRequests
    <3>2. /\ UNCHANGED <<posted, lastRequest, clearedThrough, scores, unread, leaderboards, nextId>>
          /\ UNCHANGED <<current, declared, haveDeclared, peer, pending, cur, inbox, owed, asked, losses>>
          /\ pc' = "games"
      BY <1>2 DEF LoseQueuedRequests
    <3> QED
      BY <2>6, <2>7, <3>1, <3>2 DEF TypeOK
  <2> QED
    BY <1>0, <1>2, <2>8, <2>9 DEF LoseQueuedRequests
<1>3. ASSUME TakeRequests PROVE TypeInv'
  <2>1. asks' \in Seq(Ask)
    BY <1>0, <1>3 DEF TakeRequests
  <2>2. Elems(asks \o requests) = Elems(asks) \cup Elems(requests)
    BY <1>0, ConcatFacts
  <2>3. Elems(asks)' = Elems(asks) \cup Elems(requests) /\ Elems(requests)' = {}
    BY <1>3, <1>e, <2>2 DEF TakeRequests, Elems
  <2>4. TypeOK'
    BY <1>3, <1>e, <2>1, Constants DEF TypeOK, TakeRequests
  <2> QED
    BY <1>0, <1>3, <2>3, <2>4 DEF TakeRequests
<1>4. ASSUME AnswerHere PROVE TypeInv'
  <2>1. asks # <<>> /\ Post(<<Head(asks)>>) /\ asks' = Tail(asks)
    BY <1>4 DEF AnswerHere
  <2>2. Tail(asks) \in Seq(Ask) /\ Head(asks) \in Ask /\ Elems(Tail(asks)) \subseteq Elems(asks)
    BY <1>0, <2>1, TailFacts
  <2>3. <<Head(asks)>> \in Seq(Item)
    BY <1>0, <2>2
  <2>4. results' \in Seq(Note) /\ Len(results') <= MAX_QUEUED /\ answered' \in [DOMAIN asked -> Nat]
    BY <2>1, <2>3, PostType
  <2>5. Elems(asks)' \subseteq Elems(asks) /\ Elems(requests)' = Elems(requests)
    BY <1>4, <2>1, <2>2 DEF AnswerHere, Elems
  <2>6. TypeOK'
    BY <1>4, <2>1, <2>2, <2>4 DEF TypeOK, AnswerHere
  <2> QED
    BY <1>0, <1>4, <2>5, <2>6 DEF AnswerHere
<1>5. ASSUME RequestRefused PROVE TypeInv'
  <2>1. RefusedPending \in SUBSET pending
    BY DEF RefusedPending
  <2>2. ByIds(RefusedPending) \in Seq(Item)
    BY <2>1, PendingFacts
  <2>3. results' \in Seq(Note) /\ Len(results') <= MAX_QUEUED /\ answered' \in [DOMAIN asked -> Nat]
    BY <1>5, <2>2, PostType DEF RequestRefused
  <2>4. pending' \in SUBSET pending
    BY <1>5 DEF RequestRefused
  <2>5. IsFiniteSet(pending') /\ Cardinality(pending') <= Cardinality(pending) /\ Cardinality(pending') \in Nat
    BY <2>4, PendingFacts
  <2>6. Cardinality(pending') <= MAX_PENDING
    BY <1>0, <2>5, Constants, FS_CardinalityType
  <2>7. TypeOK'
    BY <1>5, <2>3, <2>4, <2>6 DEF TypeOK, RequestRefused
  <2> QED
    BY <1>5, <2>5, <2>7 DEF RequestRefused, Elems
<1>6. ASSUME AnswerTopScores PROVE TypeInv'
  <2>1. PICK n \in inbox : /\ inbox' = inbox \ {n}
                           /\ Post(ByIds({p \in pending : p.n = n}))
                           /\ pending' = {p \in pending : p.n # n}
    BY <1>6 DEF AnswerTopScores
  <2>2. {p \in pending : p.n = n} \in SUBSET pending /\ pending' \in SUBSET pending
    BY <2>1
  <2>3. ByIds({p \in pending : p.n = n}) \in Seq(Item)
    BY <2>2, PendingFacts
  <2>4. results' \in Seq(Note) /\ Len(results') <= MAX_QUEUED /\ answered' \in [DOMAIN asked -> Nat]
    BY <2>1, <2>3, PostType
  <2>5. IsFiniteSet(pending') /\ Cardinality(pending') <= Cardinality(pending) /\ Cardinality(pending') \in Nat
    BY <2>2, PendingFacts
  <2>6. Cardinality(pending') <= MAX_PENDING
    BY <1>0, <2>5, Constants, FS_CardinalityType
  <2>7. TypeOK'
    BY <1>6, <2>1, <2>2, <2>4, <2>6 DEF TypeOK, AnswerTopScores
  <2> QED
    BY <1>6, <2>5, <2>7 DEF AnswerTopScores, Elems
<1>7. ASSUME Disconnect PROVE TypeInv'
  <2>1. /\ Post(asks \o requests \o ByIds(pending))
        /\ requests' = <<>> /\ asks' = <<>> /\ pending' = {}
    BY <1>7 DEF Disconnect
  <2>2. ByIds(pending) \in Seq(Item)
    BY PendingFacts
  <2>3. asks \o requests \o ByIds(pending) \in Seq(Item)
    BY <1>s, <2>2
  <2>4. results' \in Seq(Note) /\ Len(results') <= MAX_QUEUED /\ answered' \in [DOMAIN asked -> Nat]
    BY <2>1, <2>3, PostType
  <2>5. leaderboards' \in BOOLEAN /\ losses' \in Nat
    <3>1. leaderboards' = FALSE /\ losses' = losses + 1
      BY <1>7 DEF Disconnect, Close
    <3>2. losses \in Nat
      BY DEF TypeOK
    <3>3. leaderboards' \in BOOLEAN
      BY <3>1
    <3>4. losses' \in Nat
      BY <3>1, <3>2
    <3> QED
      BY <3>3, <3>4
  <2>6. TypeOK'
    BY <1>7, <1>e, <1>f, <2>1, <2>4, <2>5, Constants DEF TypeOK, Disconnect
  <2> QED
    BY <1>7, <1>e, <1>f, <2>1, <2>6 DEF Disconnect, Elems
<1> QED
  BY <1>1, <1>2, <1>3, <1>4, <1>5, <1>6, <1>7

LEMMA TypeSend == ASSUME TypeInv, SendRequest PROVE TypeInv'
<1> USE DEF TypeInv, api, channel, link, wire
<1> DEFINE ask == Head(asks)
           first == {p \in pending : Cardinality(pending) >= MAX_PENDING
                                      /\ \A q \in pending : p.id <= q.id}
           note == [n |-> ask.n, id |-> ask.id, epoch |-> ask.epoch]
<1>1. /\ asks # <<>> /\ asks' = Tail(asks) /\ cur' = {ask} /\ owed' = owed \cup {ask.n}
      /\ Post(ByIds(first)) /\ pending' = (pending \ first) \cup {note}
  BY DEF SendRequest
<1>2. Tail(asks) \in Seq(Ask) /\ ask \in Ask /\ Elems(Tail(asks)) \subseteq Elems(asks) /\ ask \in Elems(asks)
  BY <1>1, TailFacts DEF TypeOK
<1>3. note \in Note /\ ask.n \in DOMAIN asked
  BY <1>2 DEF Ask, Note
<1>4. first \in SUBSET pending /\ pending \ first \in SUBSET pending
  OBVIOUS
<1>5. /\ IsFiniteSet(pending) /\ pending \subseteq Note
      /\ Cardinality(pending) \in Nat /\ Cardinality(pending) <= MAX_PENDING
  BY FS_CardinalityType DEF TypeOK
<1>6. Cardinality(pending \ first) < MAX_PENDING
  <2>1. CASE Cardinality(pending) >= MAX_PENDING
    <3>1. pending # {}
      BY <1>5, <2>1, FS_EmptySet, Constants
    <3>2. PICK p \in pending : \A q \in pending : p.id <= q.id
      BY <1>5, <3>1, LowestFacts
    <3>3. p \in first
      BY <2>1, <3>2
    <3>4. pending \ first \in SUBSET (pending \ {p})
      BY <3>3
    <3>5. IsFiniteSet(pending \ {p}) /\ Cardinality(pending \ {p}) = Cardinality(pending) - 1
      BY <1>5, <3>2, FS_RemoveElement
    <3>6. Cardinality(pending \ first) <= Cardinality(pending \ {p})
      BY <3>4, <3>5, FS_Subset
    <3>7. Cardinality(pending \ first) \in Nat
      BY <1>4, PendingFacts
    <3> QED
      BY <1>5, <3>5, <3>6, <3>7, Constants
  <2>2. CASE ~(Cardinality(pending) >= MAX_PENDING)
    <3>1. Cardinality(pending \ first) \in Nat /\ Cardinality(pending \ first) <= Cardinality(pending)
      BY <1>4, PendingFacts
    <3> QED
      BY <1>5, <2>2, <3>1, Constants
  <2> QED
    BY <2>1, <2>2
<1>7. ByIds(first) \in Seq(Item)
  BY <1>4, PendingFacts
<1>8. results' \in Seq(Note) /\ Len(results') <= MAX_QUEUED /\ answered' \in [DOMAIN asked -> Nat]
  BY <1>1, <1>7, PostType
<1>9. IsFiniteSet(pending') /\ Cardinality(pending') <= MAX_PENDING
  <2>1. IsFiniteSet(pending \ first) /\ Cardinality(pending \ first) \in Nat
    BY <1>4, PendingFacts
  <2> HIDE DEF first, note
  <2>2. IsFiniteSet((pending \ first) \cup {note})
    BY <2>1, FS_AddElement
  <2>3. Cardinality((pending \ first) \cup {note}) <= Cardinality(pending \ first) + 1
    BY <2>1, FS_AddElement
  <2>4. Cardinality((pending \ first) \cup {note}) \in Nat
    BY <2>2, FS_CardinalityType
  <2> QED
    BY <1>1, <1>6, <2>1, <2>2, <2>3, <2>4, Constants
<1> HIDE DEF first, note, ask
<1>10. Elems(asks)' \subseteq Elems(asks) /\ Elems(requests)' = Elems(requests)
  BY <1>1, <1>2 DEF SendRequest, Elems
<1>11. pending' \subseteq Note /\ cur' \subseteq Ask /\ owed' \subseteq DOMAIN asked
  BY <1>1, <1>2, <1>3, <1>5 DEF TypeOK
<1>12. /\ UNCHANGED <<posted, lastRequest, clearedThrough, scores, unread, leaderboards, nextId>>
       /\ UNCHANGED <<requests, current, declared, haveDeclared, peer, inbox, asked, losses>>
       /\ pc' = "asked"
  BY DEF SendRequest
<1>13. TypeOK'
  BY <1>1, <1>2, <1>8, <1>9, <1>11, <1>12 DEF TypeOK
<1> QED
  BY <1>9, <1>10, <1>12, <1>13

\* The types with what they need: pending is finite, and every request that
\* waits was made.
LEMMA TypeInvariant == Spec => []TypeInv
<1>1. ASSUME TypeInv, UNCHANGED vars PROVE TypeInv'
  BY <1>1 DEF vars, api, channel, link, wire, TypeInv, TypeOK, Elems
<1>2. ASSUME TypeInv, Next PROVE TypeInv'
  BY <1>2, TypeScript, TypeLink, TypeAnswers, TypeSend DEF Next, Worker
<1>3. Init => TypeInv
  BY TypeInit
<1>4. TypeInv /\ [Next]_vars => TypeInv'
  BY <1>1, <1>2
<1> QED
  BY <1>3, <1>4, PTL DEF Spec

\* Every variable keeps its type: the queues, the store and the pending
\* requests stay within their bounds, also when an id comes round again, and
\* the daemon owes and sends results of requests that were made only.
THEOREM TypeCorrect == Spec => []TypeOK
<1>1. TypeInv => TypeOK
  BY DEF TypeInv
<1> QED
  BY <1>1, TypeInvariant, PTL

-----------------------------------------------------------------------------
(* Where requests go.                                                      *)

\* The worker, the daemon and the script pass requests on; none appears.
Flow ==
  /\ asked' = asked
  /\ Elems(requests)' \subseteq Elems(requests)
  /\ Elems(asks)' \subseteq Elems(asks) \cup Elems(requests)
  /\ cur' \subseteq cur \cup Elems(asks)
  /\ pending' \subseteq pending \cup {NoteOf(r) : r \in Elems(asks)}
  /\ Elems(results)' \subseteq Elems(results) \cup
       {NoteOf(r) : r \in Elems(asks) \cup Elems(requests) \cup pending}
  /\ Elems(scores)' \subseteq Elems(scores) \cup Elems(results)

LEMMA TagsKept == ASSUME Tags, Flow PROVE Tags'
<1>1. \A r : (OfRequest(r) <=> OfRequest(r)') /\ (OfAsk(r) <=> OfAsk(r)')
  BY DEF Flow, OfRequest, OfAsk
<1>2. \A r : OfRequest(r) => OfRequest(NoteOf(r))
  BY DEF OfRequest, NoteOf
<1>3. \A r : OfAsk(r) => OfRequest(r)
  BY DEF OfAsk
<1>4. \A r \in Elems(requests)' : OfAsk(r)'
  BY <1>1 DEF Tags, Flow
<1>5. \A r \in Elems(asks)' : OfAsk(r)'
  BY <1>1 DEF Tags, Flow
<1>6. \A r \in cur' : OfAsk(r)'
  BY <1>1 DEF Tags, Flow
<1>7. \A r \in pending' : OfRequest(r)'
  BY <1>1, <1>2, <1>3 DEF Tags, Flow
<1>8. \A r \in Elems(results)' : OfRequest(r)'
  BY <1>1, <1>2, <1>3 DEF Tags, Flow
<1>9. \A r \in Elems(scores)' : OfRequest(r)'
  BY <1>1 DEF Tags, Flow
<1> QED
  BY <1>4, <1>5, <1>6, <1>7, <1>8, <1>9 DEF Tags

\* What Post reports of requests that waited.
LEMMA FlowPost ==
  ASSUME TypeInv, NEW lost \in Seq(Item), Post(lost),
         Elems(lost) \subseteq Elems(asks) \cup Elems(requests) \cup pending
  PROVE  Elems(results)' \subseteq Elems(results) \cup
           {NoteOf(r) : r \in Elems(asks) \cup Elems(requests) \cup pending}
<1>1. Elems(results)' \subseteq Elems(results) \cup {NoteOf(r) : r \in Elems(lost)}
  BY Constants, PostFacts DEF TypeInv, TypeOK
<1> QED
  BY <1>1

\* Notes of the pending requests in the order of their ids.
LEMMA PendingItems ==
  ASSUME TypeInv, NEW T \in SUBSET pending
  PROVE  ByIds(T) \in Seq(Item) /\ Elems(ByIds(T)) \subseteq T
<1>1. ByIds(T) \in Seq(Item) /\ IsFiniteSet(T) /\ T \in SUBSET Note
  BY PendingFacts DEF TypeInv, TypeOK
<1> QED
  BY <1>1, ByIdsFacts

LEMMA FlowScript ==
  ASSUME TypeInv, \/ \E t \in Tables \cup {None} : ChangeIdentity(t) \/ NewEpoch(t)
                  \/ Drain \/ Release
  PROVE  Flow
<1> USE DEF api, channel, link, wire, Flow
<1>e. Elems(<<>>) = {}
  BY DEF Elems
<1>1. ASSUME NEW t \in Tables \cup {None}, ChangeIdentity(t) PROVE Flow
  BY <1>1, <1>e DEF ChangeIdentity, ClearScores, Elems
<1>2. ASSUME NEW t \in Tables \cup {None}, NewEpoch(t) PROVE Flow
  BY <1>2, <1>e DEF NewEpoch, Elems
<1>3. ASSUME Drain PROVE Flow
  <2>1. PICK read \in SUBSET DOMAIN results, held \in SUBSET DOMAIN scores :
          scores' = Newest(At(scores, held) \o At(results, read), CAPACITY)
    BY <1>3 DEF Drain
  <2>2. /\ At(scores, held) \in Seq(Note) /\ Elems(At(scores, held)) \subseteq Elems(scores)
        /\ At(results, read) \in Seq(Note) /\ Elems(At(results, read)) \subseteq Elems(results)
    BY AtType DEF TypeInv, TypeOK
  <2> DEFINE all == At(scores, held) \o At(results, read)
  <2>3. all \in Seq(Note)
    BY <2>2, ConcatFacts
  <2>4. Elems(all) = Elems(At(scores, held)) \cup Elems(At(results, read))
    BY <2>2, ConcatFacts
  <2> HIDE DEF all
  <2>5. Elems(Newest(all, CAPACITY)) \subseteq Elems(all)
    BY <2>3, Constants, NewestFacts
  <2>6. Elems(scores)' = Elems(Newest(all, CAPACITY))
    BY <2>1 DEF all, Elems
  <2>7. Elems(scores)' \subseteq Elems(scores) \cup Elems(results)
    BY <2>2, <2>4, <2>5, <2>6
  <2>8. Elems(results)' = {}
    BY <1>3, <1>e DEF Drain, Elems
  <2> QED
    BY <1>3, <2>7, <2>8 DEF Drain, Elems
<1>4. ASSUME Release PROVE Flow
  <2>1. PICK i \in DOMAIN scores : scores' = At(scores, DOMAIN scores \ {i})
    BY <1>4 DEF Release
  <2>2. DOMAIN scores \ {i} \in SUBSET DOMAIN scores
    OBVIOUS
  <2>3. Elems(At(scores, DOMAIN scores \ {i})) \subseteq Elems(scores)
    BY <2>2, AtType DEF TypeInv, TypeOK
  <2>4. Elems(scores)' \subseteq Elems(scores)
    BY <2>1, <2>3 DEF Elems
  <2> QED
    BY <1>4, <2>4 DEF Release, Elems
<1> QED
  BY <1>1, <1>2, <1>3, <1>4

LEMMA FlowLink ==
  ASSUME \/ Connect \/ HelloAck \/ SetLeaderboards \/ TakeDeclare \/ SendGames \/ MaybeDeclare
         \/ SendReturns \/ RequestAck \/ PollEnds \/ Resolve
  PROVE  /\ Flow
         /\ UNCHANGED <<api, requests, asks, pending, answered, nextId, asked>>
<1> USE DEF api, channel, link, wire, Flow, Elems
<1>1. CASE Connect
  BY <1>1 DEF Connect
<1>2. CASE HelloAck
  BY <1>2 DEF HelloAck
<1>3. CASE SetLeaderboards
  BY <1>3 DEF SetLeaderboards
<1>4. CASE TakeDeclare
  BY <1>4 DEF TakeDeclare
<1>5. CASE SendGames
  BY <1>5 DEF SendGames
<1>6. CASE MaybeDeclare
  BY <1>6 DEF MaybeDeclare
<1>7. CASE SendReturns
  BY <1>7 DEF SendReturns
<1>8. CASE RequestAck
  BY <1>8 DEF RequestAck
<1>9. CASE PollEnds
  BY <1>9 DEF PollEnds
<1>10. CASE Resolve
  BY <1>10 DEF Resolve
<1> QED
  BY <1>1, <1>2, <1>3, <1>4, <1>5, <1>6, <1>7, <1>8, <1>9, <1>10

-----------------------------------------------------------------------------
(* Who waits where.                                                        *)

\* Post answers lost, which waited until now and does not wait any more.
Answers(lost) ==
  /\ lost \in Seq(Item) /\ Post(lost) /\ Distinct(lost)
  /\ Names(lost) \subseteq Waiting /\ Waiting' = Waiting \ Names(lost)
  /\ OnePlace' /\ Flow

LEMMA CountedKept ==
  ASSUME TypeInv, Counted, NEW lost, Answers(lost) PROVE Counted'
<1>1. asked' = asked
  BY DEF Answers, Flow
<1>2. /\ answered' \in [DOMAIN asked -> Nat]
      /\ \A n \in DOMAIN asked : answered'[n] = answered[n] + IF n \in Names(lost) THEN 1 ELSE 0
  BY Constants, PostFacts DEF Answers, TypeInv, TypeOK
<1>3. \A n \in DOMAIN asked : answered[n] = IF n \in Waiting THEN 0 ELSE 1
  BY DEF Counted
<1>4. Names(lost) \subseteq Waiting /\ Waiting' = Waiting \ Names(lost)
  BY DEF Answers
<1>5. \A n \in DOMAIN asked : answered'[n] = IF n \in Waiting' THEN 0 ELSE 1
  BY <1>2, <1>3, <1>4
<1>6. answered' = [n \in DOMAIN asked |-> IF n \in Waiting' THEN 0 ELSE 1]
  BY <1>2, <1>5
<1> QED
  BY <1>1, <1>6 DEF Counted

\* A pending request is known by its number.
LEMMA PendingNames ==
  ASSUME TypeInv, Tags, NEW T \in SUBSET pending
  PROVE  /\ ByIds(T) \in Seq(Item) /\ Distinct(ByIds(T)) /\ Elems(ByIds(T)) = T
         /\ Names(ByIds(T)) = {p.n : p \in T} /\ Names(ByIds(T)) \subseteq Pending
         /\ {p.n : p \in pending \ T} = Pending \ Names(ByIds(T))
<1>1. OneEach(pending)
  <2> SUFFICES ASSUME NEW p \in pending, NEW q \in pending, p.id = q.id \/ p.n = q.n
               PROVE  p = q
    BY DEF OneEach
  <2>1. p \in Note /\ q \in Note
    BY DEF TypeInv, TypeOK
  <2>2. p.n = q.n /\ p.id = q.id /\ p.epoch = q.epoch
    BY DEF Tags, OfRequest
  <2> QED
    BY <2>1, <2>2 DEF Note
<1>2. OneEach(T)
  BY <1>1 DEF OneEach
<1>3. T \in SUBSET Note /\ IsFiniteSet(T) /\ ByIds(T) \in Seq(Item)
  BY PendingFacts DEF TypeInv, TypeOK
<1>4. Distinct(ByIds(T)) /\ Elems(ByIds(T)) = T /\ Names(ByIds(T)) = {p.n : p \in T}
  BY <1>2, <1>3, ByIdsFacts
<1>5. {p.n : p \in pending \ T} = Pending \ {p.n : p \in T}
  BY <1>1 DEF OneEach, Pending
<1>6. {p.n : p \in T} \subseteq Pending
  BY DEF Pending
<1> QED
  BY <1>3, <1>4, <1>5, <1>6

LEMMA QueueTypes ==
  ASSUME TypeInv
  PROVE  /\ asks \in Seq(Ask) /\ requests \in Seq(Ask)
         /\ asks \in Seq(Item) /\ requests \in Seq(Item)
<1>1. asks \in Seq(Ask) /\ requests \in Seq(Ask) /\ Ask \subseteq Item
  BY DEF TypeInv, TypeOK, Item
<1> QED
  BY <1>1, SubSeqType

\* Notes that leave m_pendingScores are answered; the rest stays where it is.
LEMMA PendingAnswered ==
  ASSUME TypeInv, Tags, OnePlace, NEW T \in SUBSET pending, Post(ByIds(T)),
         pending' = pending \ T, cur' \subseteq cur,
         UNCHANGED <<asked, requests, asks, scores>>
  PROVE  Answers(ByIds(T))
<1> DEFINE lost == ByIds(T)
<1>1. /\ lost \in Seq(Item) /\ Distinct(lost) /\ Elems(lost) = T
      /\ Names(lost) \subseteq Pending /\ {p.n : p \in pending \ T} = Pending \ Names(lost)
  BY PendingNames
<1>p. Post(lost)
  OBVIOUS
<1> HIDE DEF lost
<1>2. Pending' = Pending \ Names(lost)
  BY <1>1 DEF Pending
<1>3. Names(requests)' = Names(requests) /\ Names(asks)' = Names(asks)
  BY DEF Names
<1>4. Elems(requests)' = Elems(requests) /\ Elems(asks)' = Elems(asks) /\ Elems(scores)' = Elems(scores)
  BY DEF Elems
<1>5. OnePlace'
  BY <1>2, <1>3 DEF OnePlace, Distinct
<1>6. Names(lost) \subseteq Waiting /\ Waiting' = Waiting \ Names(lost)
  BY <1>1, <1>2, <1>3 DEF Waiting, OnePlace
<1>7. Elems(results)' \subseteq Elems(results) \cup
           {NoteOf(r) : r \in Elems(asks) \cup Elems(requests) \cup pending}
  BY <1>1, <1>p, FlowPost
<1>8. Flow
  BY <1>4, <1>7 DEF Flow
<1> QED
  BY <1>1, <1>p, <1>5, <1>6, <1>8 DEF Answers, lost

LEMMA AnswersPending ==
  ASSUME TypeInv, Tags, OnePlace,
         \/ (DeclareAck /\ pending' # pending) \/ RequestRefused \/ AnswerTopScores
  PROVE  \E lost : Answers(lost)
<1> USE DEF api, channel, link, wire
<1>1. CASE DeclareAck /\ pending' # pending
  <2>1. Post(ByIds(pending)) /\ pending' = {}
    BY <1>1 DEF DeclareAck
  <2>2. pending' = pending \ pending /\ pending \in SUBSET pending
    BY <2>1
  <2>3. cur' \subseteq cur /\ UNCHANGED <<asked, requests, asks, scores>>
    BY <1>1 DEF DeclareAck
  <2> QED
    BY <2>1, <2>2, <2>3, PendingAnswered
<1>2. CASE RequestRefused
  <2>1. /\ Post(ByIds(RefusedPending)) /\ pending' = pending \ RefusedPending
        /\ cur' \subseteq cur /\ UNCHANGED <<asked, requests, asks, scores>>
    BY <1>2 DEF RequestRefused
  <2>2. RefusedPending \in SUBSET pending
    BY DEF RefusedPending
  <2> QED
    BY <2>1, <2>2, PendingAnswered
<1>3. CASE AnswerTopScores
  <2>1. PICK n \in inbox : /\ Post(ByIds({p \in pending : p.n = n}))
                           /\ pending' = {p \in pending : p.n # n}
    BY <1>3 DEF AnswerTopScores
  <2> DEFINE T == {p \in pending : p.n = n}
  <2>2. pending' = pending \ T /\ T \in SUBSET pending /\ Post(ByIds(T))
    BY <2>1
  <2>3. cur' \subseteq cur /\ UNCHANGED <<asked, requests, asks, scores>>
    BY <1>3 DEF AnswerTopScores
  <2> HIDE DEF T
  <2> QED
    BY <2>2, <2>3, PendingAnswered
<1> QED
  BY <1>1, <1>2, <1>3

LEMMA AnswersHead ==
  ASSUME TypeInv, Tags, OnePlace, AnswerHere PROVE \E lost : Answers(lost)
<1> DEFINE ask == Head(asks)
           lost == <<ask>>
<1>1. /\ asks # <<>> /\ Post(lost) /\ asks' = Tail(asks)
      /\ UNCHANGED <<asked, requests, pending, scores, cur>>
  BY DEF AnswerHere, api, channel, link, wire
<1>2. /\ ask \in Ask /\ ask \in Elems(asks) /\ ask.n \in Names(asks)
      /\ Elems(Tail(asks)) \subseteq Elems(asks)
  BY <1>1, QueueTypes, TailFacts
<1>3. Distinct(Tail(asks)) /\ Names(Tail(asks)) = Names(asks) \ {ask.n}
  BY <1>1, QueueTypes, TailFacts DEF OnePlace
<1>4. ask \in Item
  BY <1>2 DEF Item
<1>5. lost \in Seq(Item) /\ Elems(lost) = {ask} /\ Names(lost) = {ask.n} /\ Distinct(lost)
  BY <1>4, OneFacts
<1> HIDE DEF lost, ask
<1>6. /\ Names(asks)' = Names(asks) \ {ask.n} /\ Distinct(asks)' /\ Elems(asks)' \subseteq Elems(asks)
      /\ Names(requests)' = Names(requests) /\ Elems(requests)' = Elems(requests)
      /\ Distinct(requests)' <=> Distinct(requests)
      /\ Pending' = Pending /\ Elems(scores)' = Elems(scores)
  BY <1>1, <1>2, <1>3 DEF Names, Distinct, Elems, Pending
<1>7. OnePlace'
  BY <1>6 DEF OnePlace
<1>8. Names(lost) \subseteq Waiting /\ Waiting' = Waiting \ Names(lost)
  BY <1>2, <1>5, <1>6 DEF Waiting, OnePlace
<1>9. Elems(lost) \subseteq Elems(asks) \cup Elems(requests) \cup pending
  BY <1>2, <1>5
<1>10. Flow
  BY <1>1, <1>5, <1>6, <1>9, FlowPost DEF Flow
<1>11. Answers(lost)
  BY <1>1, <1>5, <1>7, <1>8, <1>10 DEF Answers
<1> QED
  BY <1>11

LEMMA AnswersOldest ==
  ASSUME TypeInv, Tags, OnePlace, SendRequest PROVE \E lost : Answers(lost)
<1> DEFINE ask == Head(asks)
           first == {p \in pending : Cardinality(pending) >= MAX_PENDING
                                      /\ \A q \in pending : p.id <= q.id}
           lost == ByIds(first)
<1>1. /\ asks # <<>> /\ Post(lost) /\ asks' = Tail(asks) /\ cur' = {ask}
      /\ pending' = (pending \ first) \cup {NoteOf(ask)}
      /\ UNCHANGED <<asked, requests, scores>>
  BY DEF SendRequest, api, channel, link, wire, NoteOf
<1>2. /\ ask \in Ask /\ ask \in Elems(asks) /\ ask.n \in Names(asks)
      /\ Elems(Tail(asks)) \subseteq Elems(asks)
  BY <1>1, QueueTypes, TailFacts
<1>3. Distinct(Tail(asks)) /\ Names(Tail(asks)) = Names(asks) \ {ask.n}
  BY <1>1, QueueTypes, TailFacts DEF OnePlace
<1>4. first \in SUBSET pending
  OBVIOUS
<1> HIDE DEF first
<1>5. /\ lost \in Seq(Item) /\ Distinct(lost) /\ Elems(lost) = first
      /\ Names(lost) \subseteq Pending
      /\ {p.n : p \in pending \ first} = Pending \ Names(lost)
  BY <1>4, PendingNames
<1> HIDE DEF lost, ask
<1>6. Pending' = (Pending \ Names(lost)) \cup {ask.n}
  <2>1. Pending' = {p.n : p \in pending \ first} \cup {NoteOf(ask).n}
    BY <1>1 DEF Pending
  <2>2. NoteOf(ask).n = ask.n
    BY DEF NoteOf
  <2> QED
    BY <1>5, <2>1, <2>2
<1>7. /\ Names(asks)' = Names(asks) \ {ask.n} /\ Distinct(asks)' /\ Elems(asks)' \subseteq Elems(asks)
      /\ Names(requests)' = Names(requests) /\ Elems(requests)' = Elems(requests)
      /\ Distinct(requests)' <=> Distinct(requests)
      /\ Elems(scores)' = Elems(scores)
  BY <1>1, <1>2, <1>3 DEF Names, Distinct, Elems
<1>8. OnePlace'
  BY <1>2, <1>5, <1>6, <1>7 DEF OnePlace
<1>9. Names(lost) \subseteq Waiting /\ Waiting' = Waiting \ Names(lost)
  BY <1>2, <1>5, <1>6, <1>7 DEF Waiting, OnePlace
<1>10. Elems(lost) \subseteq Elems(asks) \cup Elems(requests) \cup pending
  BY <1>4, <1>5
<1>11. Elems(results)' \subseteq Elems(results) \cup
           {NoteOf(r) : r \in Elems(asks) \cup Elems(requests) \cup pending}
  BY <1>1, <1>5, <1>10, FlowPost
<1>12. Flow
  BY <1>1, <1>2, <1>7, <1>11 DEF Flow
<1>13. Answers(lost)
  BY <1>1, <1>5, <1>8, <1>9, <1>12 DEF Answers
<1> QED
  BY <1>13

LEMMA AnswersQueued ==
  ASSUME TypeInv, Tags, OnePlace, LoseQueuedRequests PROVE \E lost : Answers(lost)
<1> DEFINE all == asks \o requests
<1>1. PICK old \in SUBSET DOMAIN all : Post(At(all, old)) /\ asks' = At(all, DOMAIN all \ old)
  BY DEF LoseQueuedRequests
<1>2. requests' = <<>> /\ UNCHANGED <<asked, pending, scores, cur>>
  BY DEF LoseQueuedRequests, api, channel, link, wire
<1>3. all \in Seq(Item) /\ Elems(all) = Elems(asks) \cup Elems(requests)
  BY QueueTypes, ConcatFacts
<1>4. Names(all) = Names(asks) \cup Names(requests)
  BY QueueTypes, ConcatFacts
<1>5. Distinct(all)
  <2>1. Distinct(asks) /\ Distinct(requests) /\ Names(asks) \cap Names(requests) = {}
    BY DEF OnePlace
  <2> QED
    BY <2>1, QueueTypes, ConcatFacts
<1> DEFINE lost == At(all, old)
           rest == At(all, DOMAIN all \ old)
<1> HIDE DEF all
<1>6. DOMAIN all \ old \in SUBSET DOMAIN all
  OBVIOUS
<1>7. lost \in Seq(Item) /\ Elems(lost) \subseteq Elems(all) /\ Elems(rest) \subseteq Elems(all)
  BY <1>3, <1>6, AtType
<1>8. Distinct(lost) /\ Distinct(rest)
  BY <1>3, <1>5, <1>6, AtFacts
<1>9. /\ Names(lost) = {all[i].n : i \in old}
      /\ Names(rest) = Names(all) \ Names(lost)
  BY <1>3, <1>5, AtNames
<1>10. Names(lost) \subseteq Names(all)
  BY <1>9 DEF Names
<1> HIDE DEF lost, rest
<1>11. Post(lost) /\ asks' = rest
  BY <1>1 DEF lost, rest
<1>12. /\ Names(asks)' = Names(rest) /\ Distinct(asks)' /\ Elems(asks)' = Elems(rest)
       /\ Names(requests)' = {} /\ Elems(requests)' = {} /\ Distinct(requests)'
       /\ Pending' = Pending /\ Elems(scores)' = Elems(scores)
  BY <1>2, <1>8, <1>11 DEF Names, Distinct, Elems, Pending
<1>13. OnePlace'
  BY <1>4, <1>9, <1>12 DEF OnePlace
<1>14. Names(lost) \subseteq Waiting /\ Waiting' = Waiting \ Names(lost)
  BY <1>4, <1>9, <1>10, <1>12 DEF Waiting, OnePlace
<1>15. Elems(results)' \subseteq Elems(results) \cup
           {NoteOf(r) : r \in Elems(asks) \cup Elems(requests) \cup pending}
  BY <1>3, <1>7, <1>11, FlowPost
<1>16. Flow
  BY <1>2, <1>3, <1>7, <1>12, <1>15 DEF Flow
<1>17. Answers(lost)
  BY <1>7, <1>8, <1>11, <1>13, <1>14, <1>16 DEF Answers
<1> QED
  BY <1>17

LEMMA AnswersAll ==
  ASSUME TypeInv, Tags, OnePlace, Disconnect PROVE \E lost : Answers(lost)
<1> DEFINE notes == ByIds(pending)
           all == asks \o requests
           lost == all \o notes
<1>1. /\ Post(lost) /\ requests' = <<>> /\ asks' = <<>> /\ pending' = {} /\ cur' = {}
      /\ UNCHANGED <<asked, scores>>
  BY DEF Disconnect, api, link
<1>2. all \in Seq(Item) /\ Elems(all) = Elems(asks) \cup Elems(requests)
  BY QueueTypes, ConcatFacts
<1>3. Names(all) = Names(asks) \cup Names(requests)
  BY QueueTypes, ConcatFacts
<1>4. Distinct(all)
  <2>1. Distinct(asks) /\ Distinct(requests) /\ Names(asks) \cap Names(requests) = {}
    BY DEF OnePlace
  <2> QED
    BY <2>1, QueueTypes, ConcatFacts
<1>5. notes \in Seq(Item) /\ Distinct(notes) /\ Elems(notes) = pending /\ Names(notes) = Pending
  BY PendingNames DEF Pending
<1> HIDE DEF all, notes
<1>6. lost \in Seq(Item) /\ Elems(lost) = Elems(all) \cup Elems(notes)
  BY <1>2, <1>5, ConcatFacts
<1>7. Names(lost) = Names(all) \cup Names(notes)
  BY <1>2, <1>5, ConcatFacts
<1>8. Distinct(lost)
  <2>1. Names(all) \cap Names(notes) = {}
    BY <1>3, <1>5 DEF OnePlace
  <2> QED
    BY <1>2, <1>4, <1>5, <2>1, ConcatFacts
<1> HIDE DEF lost
<1>9. /\ Names(asks)' = {} /\ Distinct(asks)' /\ Elems(asks)' = {}
      /\ Names(requests)' = {} /\ Elems(requests)' = {} /\ Distinct(requests)'
      /\ Pending' = {} /\ Elems(scores)' = Elems(scores)
  BY <1>1 DEF Names, Distinct, Elems, Pending
<1>10. OnePlace'
  BY <1>9 DEF OnePlace
<1>11. Names(lost) \subseteq Waiting /\ Waiting' = Waiting \ Names(lost)
  BY <1>3, <1>5, <1>7, <1>9 DEF Waiting
<1>12. Elems(results)' \subseteq Elems(results) \cup
           {NoteOf(r) : r \in Elems(asks) \cup Elems(requests) \cup pending}
  BY <1>1, <1>2, <1>5, <1>6, FlowPost
<1>13. Flow
  BY <1>1, <1>9, <1>12 DEF Flow
<1>14. Answers(lost)
  BY <1>1, <1>6, <1>8, <1>10, <1>11, <1>13 DEF Answers
<1> QED
  BY <1>14

\* What the worker does keeps every request in one place until it is answered.
LEMMA PlacesKept ==
  ASSUME TypeInv, Tags, OnePlace, Counted, Worker \/ Resolve \/ Disconnect
  PROVE  Flow /\ OnePlace' /\ Counted'
<1>1. ASSUME NEW lost, Answers(lost) PROVE Flow /\ OnePlace' /\ Counted'
  BY <1>1, CountedKept DEF Answers
<1>2. ASSUME Flow, UNCHANGED <<requests, asks, pending, answered, asked>>
      PROVE  Flow /\ OnePlace' /\ Counted'
  <2>1. /\ Names(requests)' = Names(requests) /\ (Distinct(requests)' <=> Distinct(requests))
        /\ Names(asks)' = Names(asks) /\ (Distinct(asks)' <=> Distinct(asks))
        /\ Pending' = Pending
    BY <1>2 DEF Pending, Names, Distinct
  <2>2. OnePlace' /\ Waiting' = Waiting
    BY <2>1 DEF OnePlace, Waiting
  <2> QED
    BY <1>2, <2>2 DEF Counted
<1>3. CASE \/ Connect \/ HelloAck \/ SetLeaderboards \/ TakeDeclare \/ SendGames \/ MaybeDeclare
           \/ SendReturns \/ RequestAck \/ PollEnds \/ Resolve
  BY <1>2, <1>3, FlowLink
<1>4. CASE (DeclareAck /\ pending' # pending) \/ RequestRefused \/ AnswerTopScores
  BY <1>1, <1>4, AnswersPending
<1>5. CASE DeclareAck /\ pending' = pending
  <2>1. (Post(ByIds(pending)) /\ pending' = {}) \/ UNCHANGED <<results, answered, pending>>
    BY <1>5 DEF DeclareAck
  <2>2. CASE Post(ByIds(pending)) /\ pending' = {}
    <3>1. pending' = pending \ pending /\ pending \in SUBSET pending
      BY <1>5, <2>2
    <3>2. cur' \subseteq cur /\ UNCHANGED <<asked, requests, asks, scores>>
      BY <1>5 DEF DeclareAck, api, channel, link, wire
    <3>3. Answers(ByIds(pending))
      BY <2>2, <3>1, <3>2, PendingAnswered
    <3> QED
      BY <1>1, <3>3
  <2>3. CASE UNCHANGED <<results, answered, pending>>
    <3>1. /\ UNCHANGED <<asked, requests, asks, scores, cur>>
      BY <1>5 DEF DeclareAck, api, channel, link, wire
    <3>2. Flow
      BY <2>3, <3>1 DEF Flow, Elems
    <3> QED
      BY <1>2, <2>3, <3>1, <3>2
  <2> QED
    BY <2>1, <2>2, <2>3
<1>6. CASE LoseQueuedRequests
  BY <1>1, <1>6, AnswersQueued
<1>7. CASE TakeRequests
  <2> DEFINE all == asks \o requests
  <2>1. /\ asks' = all /\ requests' = <<>>
        /\ UNCHANGED <<asked, pending, scores, cur, results, answered>>
    BY <1>7 DEF TakeRequests, api, channel, link, wire
  <2>2. Elems(all) = Elems(asks) \cup Elems(requests)
    BY QueueTypes, ConcatFacts
  <2>3. Names(all) = Names(asks) \cup Names(requests)
    BY QueueTypes, ConcatFacts
  <2>4. Distinct(all)
    <3>1. Distinct(asks) /\ Distinct(requests) /\ Names(asks) \cap Names(requests) = {}
      BY DEF OnePlace
    <3> QED
      BY <3>1, QueueTypes, ConcatFacts
  <2> HIDE DEF all
  <2>5. /\ Names(asks)' = Names(all) /\ Distinct(asks)' /\ Elems(asks)' = Elems(all)
        /\ Names(requests)' = {} /\ Elems(requests)' = {} /\ Distinct(requests)'
        /\ Pending' = Pending /\ Elems(scores)' = Elems(scores)
        /\ Elems(results)' = Elems(results)
    BY <2>1, <2>4 DEF Names, Distinct, Elems, Pending
  <2>6. OnePlace' /\ Waiting' = Waiting
    BY <2>3, <2>5 DEF OnePlace, Waiting
  <2>7. Flow
    BY <2>1, <2>2, <2>5 DEF Flow
  <2>8. Counted'
    BY <2>1, <2>6 DEF Counted
  <2> QED
    BY <2>6, <2>7, <2>8
<1>8. CASE AnswerHere
  BY <1>1, <1>8, AnswersHead
<1>9. CASE SendRequest
  BY <1>1, <1>9, AnswersOldest
<1>10. CASE Disconnect
  BY <1>1, <1>10, AnswersAll
<1> QED
  BY <1>3, <1>4, <1>5, <1>6, <1>7, <1>8, <1>9, <1>10 DEF Worker

-----------------------------------------------------------------------------
(* The script.                                                             *)

LEMMA ScriptRequest == ASSUME NoWrap, TypeInv, IInv, Request PROVE IInv'
<1>0. PICK N, ask : /\ N = Len(asked)
                    /\ ask = [n |-> N + 1, id |-> nextId,
                              epoch |-> posted.epoch, identity |-> posted.identity]
  OBVIOUS
<1>1. /\ leaderboards /\ N < MaxRequests
      /\ requests' = Append(requests, ask) /\ asked' = Append(asked, posted)
      /\ answered' = Append(answered, 0)
      /\ lastRequest' = nextId /\ nextId' = IF nextId >= MaxId THEN 1 ELSE nextId + 1
      /\ UNCHANGED <<posted, clearedThrough, scores, unread, leaderboards, results, pc, current,
                     declared, haveDeclared, peer, asks, pending, cur, inbox, owed, losses>>
  BY <1>0 DEF Request, link, wire
<1>2. N \in Nat /\ N < MaxId /\ nextId = N + 1
  BY <1>0, <1>1, Constants DEF NoWrap, IInv, Numbers, TypeInv, TypeOK
<1>3. /\ ask.n = N + 1 /\ ask.id = N + 1 /\ ask.epoch = posted.epoch
      /\ ask.identity = posted.identity /\ ask \in Ask
  BY <1>0, <1>2, Constants DEF Ask, TypeInv, TypeOK, Snapshot
<1>4. /\ DOMAIN asked = 1 .. N /\ DOMAIN asked' = 1 .. N + 1 /\ Len(asked') = N + 1
      /\ asked'[N + 1] = posted /\ \A n \in DOMAIN asked : n \in DOMAIN asked' /\ asked'[n] = asked[n]
      /\ N + 1 \notin DOMAIN asked /\ N + 1 \in DOMAIN asked'
      /\ \A n \in DOMAIN asked' : n = N + 1 \/ n \in DOMAIN asked
  BY <1>0, <1>1, <1>2 DEF TypeInv, TypeOK
<1>5. /\ Elems(Append(requests, ask)) = Elems(requests) \cup {ask}
      /\ Names(Append(requests, ask)) = Names(requests) \cup {N + 1}
  BY <1>3, QueueTypes, AppendFacts
<1>6. N + 1 \notin Waiting
  BY <1>4 DEF IInv, Tags, Waiting, Pending, Names, Elems, OfAsk, OfRequest
<1>7. Distinct(Append(requests, ask))
  <2>1. Distinct(requests) /\ ask.n \notin Names(requests)
    BY <1>3, <1>6 DEF IInv, OnePlace, Waiting
  <2> QED
    BY <1>3, <2>1, QueueTypes, AppendFacts
<1>8. /\ Elems(requests)' = Elems(requests) \cup {ask} /\ Names(requests)' = Names(requests) \cup {N + 1}
      /\ Distinct(requests)' /\ Elems(asks)' = Elems(asks) /\ Names(asks)' = Names(asks)
      /\ Distinct(asks)' <=> Distinct(asks)
      /\ Elems(results)' = Elems(results) /\ Elems(scores)' = Elems(scores) /\ Pending' = Pending
  <2>1. PICK q : q = Append(requests, ask)
    OBVIOUS
  <2>2. Elems(q) = Elems(requests) \cup {ask} /\ Names(q) = Names(requests) \cup {N + 1} /\ Distinct(q)
    BY <1>5, <1>7, <2>1
  <2>3. requests' = q
    BY <1>1, <2>1
  <2>4. Elems(requests)' = Elems(q) /\ Names(requests)' = Names(q) /\ (Distinct(requests)' <=> Distinct(q))
    BY <2>3 DEF Elems, Names, Distinct
  <2>5. /\ Elems(asks)' = Elems(asks) /\ Names(asks)' = Names(asks)
        /\ Distinct(asks)' <=> Distinct(asks)
        /\ Elems(results)' = Elems(results) /\ Elems(scores)' = Elems(scores) /\ Pending' = Pending
    BY <1>1 DEF Elems, Names, Distinct, Pending
  <2> QED
    BY <2>2, <2>4, <2>5
<1>9. Numbers'
  <2>1. N + 1 <= MaxRequests /\ clearedThrough <= N /\ clearedThrough \in Nat
    BY <1>0, <1>1, <1>2, Constants DEF IInv, Numbers, TypeInv, TypeOK
  <2>2. nextId' = IF N + 1 < MaxId THEN N + 1 + 1 ELSE 1
    BY <1>1, <1>2, Constants
  <2>3. Len(asked') = N + 1 /\ lastRequest' = N + 1 /\ clearedThrough' = clearedThrough
    BY <1>1, <1>2, <1>4
  <2> HIDE <1>1, <1>0
  <2>4. clearedThrough' <= Len(asked')
    BY <1>2, <2>1, <2>3
  <2> QED
    BY <2>1, <2>2, <2>3, <2>4 DEF Numbers
<1>10. Tags'
  <2>1. \A r : (OfRequest(r) => OfRequest(r)') /\ (OfAsk(r) => OfAsk(r)')
    BY <1>4 DEF OfRequest, OfAsk
  <2>2. OfAsk(ask)'
    BY <1>3, <1>4 DEF OfRequest, OfAsk
  <2> QED
    BY <1>1, <1>8, <2>1, <2>2 DEF IInv, Tags
<1>11. OneTable'
  <2>1. Told' \subseteq Told
    BY <1>1, <1>4 DEF Told
  <2> QED
    BY <1>1, <2>1 DEF IInv, OneTable
<1>12. Readable'
  BY <1>1, <1>4 DEF IInv, Readable
<1>13. OwnResults'
  <2>1. \A i \in DOMAIN scores : scores[i].n \in DOMAIN asked
    BY DEF IInv, Tags, Elems, OfRequest
  <2> QED
    BY <1>1, <1>4, <2>1 DEF IInv, OwnResults
<1>14. AskedOfOwnTable'
  <2>1. \A r \in cur : r.n \in DOMAIN asked
    BY DEF IInv, Tags, OfAsk, OfRequest
  <2> QED
    BY <1>1, <1>4, <2>1 DEF IInv, AskedOfOwnTable
<1>15. OnePlace' /\ Waiting' = Waiting \cup {N + 1}
  BY <1>6, <1>8 DEF IInv, OnePlace, Waiting
<1>16. Counted'
  <2>1. answered = [n \in DOMAIN asked |-> IF n \in Waiting THEN 0 ELSE 1]
    BY DEF IInv, Counted
  <2>2. answered \in Seq(Nat) /\ Len(answered) = N
    <3>1. answered = [n \in 1 .. N |-> answered[n]] /\ \A n \in 1 .. N : answered[n] \in Nat
      BY <1>4, <2>1
    <3> QED
      BY <1>2, <3>1
  <2>3. /\ DOMAIN answered' = DOMAIN asked' /\ answered'[N + 1] = 0
        /\ \A n \in DOMAIN asked : answered'[n] = answered[n]
    BY <1>1, <1>2, <1>4, <2>2
  <2>4. answered' = [n \in DOMAIN answered' |-> answered'[n]]
    BY TypeScript DEF Script, TypeInv, TypeOK
  <2>5. \A n \in DOMAIN asked' : answered'[n] = IF n \in Waiting' THEN 0 ELSE 1
    BY <1>4, <1>15, <2>1, <2>3
  <2>6. answered' = [n \in DOMAIN asked' |-> IF n \in Waiting' THEN 0 ELSE 1]
    BY <2>3, <2>4, <2>5
  <2> QED
    BY <2>6 DEF Counted
<1>17. Idle'
  BY <1>1 DEF IInv, Idle
<1> QED
  BY <1>9, <1>10, <1>11, <1>12, <1>13, <1>14, <1>15, <1>16, <1>17 DEF IInv

\* Requests wait where they waited.
LEMMA PlacesStay ==
  ASSUME IInv, UNCHANGED <<requests, asks, pending, answered, asked, pc, leaderboards>>
  PROVE  OnePlace' /\ Counted' /\ Idle'
<1>1. /\ Names(requests)' = Names(requests) /\ (Distinct(requests)' <=> Distinct(requests))
      /\ Names(asks)' = Names(asks) /\ (Distinct(asks)' <=> Distinct(asks))
      /\ Pending' = Pending
  BY DEF Pending, Names, Distinct
<1>2. OnePlace' /\ Waiting' = Waiting
  BY <1>1 DEF IInv, OnePlace, Waiting
<1>3. Idle'
  BY DEF IInv, Idle
<1> QED
  BY <1>2, <1>3 DEF IInv, Counted

\* Posted, current, declared and asked-for tables, and their numbers.
LEMMA ToldTypes ==
  ASSUME TypeInv
  PROVE  /\ \A x \in Told : x \in Snapshot /\ x.epoch \in Nat /\ x.identity \in Nat
         /\ posted \in Told /\ current \in Told /\ declared \in Told
         /\ \A n \in DOMAIN asked : asked[n] \in Told
<1>1. \A n \in DOMAIN asked : asked[n] \in Snapshot
  BY DEF TypeInv, TypeOK
<1>2. NoDeclare \in Snapshot
  BY DEF NoDeclare, Snapshot
<1>3. posted \in Snapshot /\ current \in Snapshot /\ declared \in Snapshot
  BY DEF TypeInv, TypeOK
<1>4. \A x \in Told : x \in Snapshot
  BY <1>1, <1>2, <1>3 DEF Told
<1> QED
  BY <1>4 DEF Told, Snapshot

LEMMA ScriptTable ==
  ASSUME TypeInv, IInv, NEW t \in Tables \cup {None}, ChangeIdentity(t) \/ NewEpoch(t)
  PROVE  IInv'
<1>1. /\ scores' = <<>>
      /\ UNCHANGED <<lastRequest, leaderboards, nextId, requests, results, pc, current,
                     declared, haveDeclared, peer, asks, pending, cur, inbox, owed, asked, answered>>
  BY DEF ChangeIdentity, ClearScores, NewEpoch, channel, link, wire
<1>2. posted \in Snapshot /\ posted.epoch \in Nat /\ posted.identity \in Nat
  BY ToldTypes
<1>3. \/ /\ posted' = [epoch |-> posted.epoch, identity |-> posted.identity + 1, table |-> t]
         /\ clearedThrough' = lastRequest
      \/ /\ posted' = [epoch |-> posted.epoch + 1, identity |-> posted.identity, table |-> t]
         /\ clearedThrough' = 0
  BY <1>2 DEF ChangeIdentity, ClearScores, NewEpoch, Snapshot
<1>4. /\ posted'.epoch \in Nat /\ posted'.identity \in Nat
      /\ posted.epoch <= posted'.epoch /\ posted.identity <= posted'.identity
      /\ \/ posted.epoch < posted'.epoch /\ clearedThrough' = 0
         \/ posted.identity < posted'.identity /\ clearedThrough' = lastRequest
  BY <1>2, <1>3
<1>5. Numbers'
  BY <1>1, <1>4 DEF IInv, Numbers, TypeInv, TypeOK
<1>6. Tags'
  BY FlowScript, TagsKept DEF IInv
<1>7. OneTable'
  <2>1. Told' \subseteq Told \cup {posted'}
    BY <1>1 DEF Told
  <2>2. \A x \in Told : /\ x.epoch \in Nat /\ x.identity \in Nat
                        /\ x.epoch <= posted.epoch /\ x.identity <= posted.identity
    BY ToldTypes DEF IInv, OneTable
  <2>3. \A x \in Told : /\ x.epoch <= posted'.epoch /\ x.identity <= posted'.identity
                        /\ ~(x.epoch = posted'.epoch /\ x.identity = posted'.identity)
    BY <1>2, <1>4, <2>2
  <2>4. \A x, y \in Told : x.epoch = y.epoch /\ x.identity = y.identity => x = y
    BY DEF IInv, OneTable
  <2>5. \A x \in Told' : x.epoch <= posted'.epoch /\ x.identity <= posted'.identity
    BY <1>4, <2>1, <2>3
  <2>6. \A x, y \in Told' : x.epoch = y.epoch /\ x.identity = y.identity => x = y
    BY <2>1, <2>3, <2>4
  <2> QED
    BY <2>5, <2>6 DEF OneTable
<1>8. Readable'
  <2> SUFFICES ASSUME NEW n \in DOMAIN asked, asked[n].epoch = posted'.epoch, n > clearedThrough'
               PROVE  FALSE
    BY <1>1 DEF Readable
  <2>1. asked[n].epoch \in Nat /\ asked[n].epoch <= posted.epoch
    BY ToldTypes DEF IInv, OneTable
  <2>2. n \in Nat /\ n <= Len(asked) /\ lastRequest = Len(asked) /\ Len(asked) \in Nat
    BY DEF IInv, Numbers, TypeInv, TypeOK
  <2> QED
    BY <1>2, <1>4, <2>1, <2>2
<1>9. OwnResults'
  BY <1>1 DEF OwnResults
<1>10. AskedOfOwnTable'
  BY <1>1 DEF IInv, AskedOfOwnTable
<1>11. OnePlace' /\ Counted' /\ Idle'
  BY <1>1, PlacesStay
<1> QED
  BY <1>5, <1>6, <1>7, <1>8, <1>9, <1>10, <1>11 DEF IInv

LEMMA ScriptReads == ASSUME TypeInv, IInv, Drain \/ Release PROVE IInv'
<1>1. UNCHANGED <<posted, lastRequest, clearedThrough, leaderboards, nextId, requests, pc, current,
                  declared, haveDeclared, peer, asks, pending, cur, inbox, owed, asked, answered>>
  BY DEF Drain, Release, channel, link, wire
<1>2. Tags'
  BY FlowScript, TagsKept DEF IInv
<1>3. Numbers' /\ Readable' /\ AskedOfOwnTable'
  BY <1>1 DEF IInv, Numbers, Readable, AskedOfOwnTable
<1>4. OneTable'
  <2>1. Told' = Told
    BY <1>1 DEF Told
  <2> QED
    BY <1>1, <2>1 DEF IInv, OneTable
<1>5. OnePlace' /\ Counted' /\ Idle'
  BY <1>1, PlacesStay
<1>6. \A r \in Elems(scores) : asked[r.n] = posted
  BY DEF IInv, OwnResults, Elems
<1>7. ASSUME NEW r \in Elems(scores)' PROVE asked[r.n] = posted
  <2>1. CASE Drain
    <3> DEFINE read == {i \in DOMAIN results : Read(results[i])}
               held == {i \in DOMAIN scores : \A j \in read : results[j].id # scores[i].id}
               all == At(scores, held) \o At(results, read)
    <3>1. scores' = Newest(all, CAPACITY) /\ held \in SUBSET DOMAIN scores /\ read \in SUBSET DOMAIN results
      BY <2>1 DEF Drain
    <3>2. \A i \in read : Read(results[i])
      OBVIOUS
    <3> HIDE DEF read, held
    <3>3. /\ At(scores, held) \in Seq(Note) /\ Elems(At(scores, held)) \subseteq Elems(scores)
          /\ At(results, read) \in Seq(Note)
      BY <3>1, AtType DEF TypeInv, TypeOK
    <3>4. Elems(At(results, read)) = {results[i] : i \in read}
      BY <3>1, AtFacts DEF TypeInv, TypeOK
    <3>5. all \in Seq(Note)
      BY <3>3, ConcatFacts
    <3>6. Elems(all) = Elems(At(scores, held)) \cup Elems(At(results, read))
      BY <3>3, ConcatFacts
    <3> HIDE DEF all
    <3>7. Elems(scores)' \subseteq Elems(all)
      <4>1. Elems(Newest(all, CAPACITY)) \subseteq Elems(all)
        BY <3>5, Constants, NewestFacts
      <4> QED
        BY <3>1, <4>1 DEF Elems
    <3>8. CASE r \in Elems(scores)
      BY <1>6, <3>8
    <3>9. CASE \E i \in read : r = results[i]
      <4>1. PICK i \in read : r = results[i]
        BY <3>9
      <4>2. r.n \in DOMAIN asked /\ r.id = r.n /\ r.epoch = asked[r.n].epoch
        BY <3>1, <4>1 DEF IInv, Tags, Elems, OfRequest
      <4>3. r.epoch = posted.epoch /\ (clearedThrough = 0 \/ r.id > clearedThrough)
        BY <3>2, <4>1 DEF Read
      <4>4. r.n > clearedThrough
        BY <4>2, <4>3 DEF TypeInv, TypeOK
      <4> QED
        BY <4>2, <4>3, <4>4 DEF IInv, Readable
    <3> QED
      BY <3>3, <3>4, <3>6, <3>7, <3>8, <3>9
  <2>2. CASE Release
    <3>1. PICK i \in DOMAIN scores : scores' = At(scores, DOMAIN scores \ {i})
      BY <2>2 DEF Release
    <3>2. DOMAIN scores \ {i} \in SUBSET DOMAIN scores
      OBVIOUS
    <3>3. Elems(At(scores, DOMAIN scores \ {i})) \subseteq Elems(scores)
      BY <3>2, AtType DEF TypeInv, TypeOK
    <3>4. Elems(scores)' \subseteq Elems(scores)
      BY <3>1, <3>3 DEF Elems
    <3> QED
      BY <1>6, <3>4
  <2> QED
    BY <2>1, <2>2
<1>8. OwnResults'
  BY <1>1, <1>7 DEF OwnResults, Elems
<1> QED
  BY <1>2, <1>3, <1>4, <1>5, <1>8 DEF IInv

-----------------------------------------------------------------------------
(* The worker.                                                             *)

\* What the worker is told, where it is, and what it waits for.
LEMMA Control ==
  ASSUME TypeInv, Worker \/ Resolve \/ Disconnect
  PROVE  /\ UNCHANGED <<posted, lastRequest, clearedThrough, scores, nextId, asked>>
         /\ current' \in {current, posted} /\ declared' \in {NoDeclare, declared, current}
         /\ \/ pc' # "asked"
            \/ pc = "asked" /\ cur' \subseteq cur /\ declared' = declared
            \/ SendRequest
         /\ \/ pc' \notin {"down", "hello"}
            \/ /\ pc \in {"down", "hello"}
               /\ UNCHANGED <<leaderboards, requests, asks, pending>>
            \/ ~leaderboards' /\ requests' = <<>> /\ asks' = <<>> /\ pending' = {}
<1> USE DEF api, channel, link, wire
<1>1. CASE Connect
  BY <1>1 DEF Connect
<1>2. CASE HelloAck
  BY <1>2 DEF HelloAck
<1>3. CASE SetLeaderboards
  BY <1>3 DEF SetLeaderboards
<1>4. CASE TakeDeclare
  BY <1>4 DEF TakeDeclare
<1>5. CASE SendGames
  BY <1>5 DEF SendGames
<1>6. CASE MaybeDeclare
  BY <1>6 DEF MaybeDeclare
<1>7. CASE DeclareAck
  BY <1>7 DEF DeclareAck
<1>8. CASE LoseQueuedRequests
  BY <1>8 DEF LoseQueuedRequests
<1>9. CASE TakeRequests
  BY <1>9 DEF TakeRequests
<1>10. CASE SendReturns
  BY <1>10 DEF SendReturns
<1>11. CASE AnswerHere
  BY <1>11 DEF AnswerHere
<1>12. CASE SendRequest
  BY <1>12 DEF SendRequest
<1>13. CASE RequestAck
  BY <1>13 DEF RequestAck
<1>14. CASE RequestRefused
  BY <1>14 DEF RequestRefused
<1>15. CASE AnswerTopScores
  BY <1>15 DEF AnswerTopScores, Waits
<1>16. CASE PollEnds
  BY <1>16 DEF PollEnds
<1>17. CASE Resolve
  BY <1>17 DEF Resolve
<1>18. CASE Disconnect
  BY <1>18 DEF Disconnect, Close
<1> QED
  BY <1>1, <1>2, <1>3, <1>4, <1>5, <1>6, <1>7, <1>8, <1>9, <1>10, <1>11, <1>12, <1>13, <1>14,
     <1>15, <1>16, <1>17, <1>18 DEF Worker

LEMMA WorkerStep == ASSUME TypeInv, IInv, Worker \/ Resolve \/ Disconnect PROVE IInv'
<1>1. /\ UNCHANGED <<posted, lastRequest, clearedThrough, scores, nextId, asked>>
      /\ current' \in {current, posted} /\ declared' \in {NoDeclare, declared, current}
  BY Control
<1>2. Flow /\ OnePlace' /\ Counted'
  BY PlacesKept DEF IInv
<1>3. Tags'
  BY <1>2, TagsKept DEF IInv
<1>4. Numbers' /\ Readable' /\ OwnResults'
  BY <1>1 DEF IInv, Numbers, Readable, OwnResults
<1>5. OneTable'
  <2>1. Told' \subseteq Told
    BY <1>1 DEF Told
  <2> QED
    BY <1>1, <2>1 DEF IInv, OneTable
<1>6. AskedOfOwnTable'
  <2>1. CASE pc' # "asked"
    BY <2>1 DEF AskedOfOwnTable
  <2>2. CASE pc = "asked" /\ cur' \subseteq cur /\ declared' = declared
    BY <1>1, <2>2 DEF IInv, AskedOfOwnTable
  <2>3. CASE SendRequest
    <3> DEFINE ask == Head(asks)
    <3>1. /\ asks # <<>> /\ cur' = {ask} /\ declared' = declared
          /\ ~AwaitsDeclare(ask) /\ ~Gone(ask)
      BY <2>3 DEF SendRequest, link
    <3>2. ask \in Ask /\ ask \in Elems(asks)
      BY <3>1, QueueTypes, TailFacts
    <3> HIDE DEF ask
    <3>3. ask.epoch \in Nat /\ ask.identity \in Nat
      BY <3>2 DEF Ask
    <3>4. declared.epoch \in Nat /\ declared.identity \in Nat
      BY ToldTypes
    <3>5. ask.epoch = declared.epoch /\ ask.identity = declared.identity
      BY <3>1, <3>3, <3>4 DEF AwaitsDeclare, Gone
    <3>6. ask.n \in DOMAIN asked /\ ask.epoch = asked[ask.n].epoch /\ ask.identity = asked[ask.n].identity
      BY <3>2 DEF IInv, Tags, OfAsk, OfRequest
    <3>7. asked[ask.n] = declared
      BY <3>5, <3>6, ToldTypes DEF IInv, OneTable
    <3> QED
      BY <1>1, <3>1, <3>7 DEF AskedOfOwnTable
  <2> QED
    BY <2>1, <2>2, <2>3, Control
<1>7. Idle'
  BY Control DEF IInv, Idle
<1> QED
  BY <1>2, <1>3, <1>4, <1>5, <1>6, <1>7 DEF IInv

-----------------------------------------------------------------------------
(* The theorems.                                                           *)

LEMMA InvInit == Init => IInv
<1> SUFFICES ASSUME Init PROVE IInv
  OBVIOUS
<1>1. /\ asked = <<>> /\ Len(asked) = 0 /\ DOMAIN asked = {}
      /\ Elems(requests) = {} /\ Elems(asks) = {} /\ Elems(results) = {} /\ Elems(scores) = {}
      /\ Names(requests) = {} /\ Names(asks) = {} /\ Distinct(requests) /\ Distinct(asks)
      /\ DOMAIN scores = {} /\ pending = {} /\ cur = {} /\ Pending = {}
  BY DEF Init, Elems, Names, Distinct, Pending
<1>2. Numbers
  BY <1>1, Constants DEF Init, Numbers
<1>3. Tags /\ Readable /\ OwnResults /\ AskedOfOwnTable
  BY <1>1 DEF Tags, Readable, OwnResults, AskedOfOwnTable
<1>4. OneTable
  <2>1. Told = {NoDeclare} /\ posted = NoDeclare
    BY <1>1 DEF Init, Told
  <2>2. NoDeclare.epoch = 0 /\ NoDeclare.identity = 0
    BY DEF NoDeclare
  <2> QED
    BY <2>1, <2>2 DEF OneTable
<1>5. OnePlace /\ Idle
  BY <1>1 DEF Init, OnePlace, Idle
<1>6. Counted
  <2>1. answered = <<>> /\ asked = <<>>
    BY DEF Init
  <2>2. answered = [n \in {} |-> IF n \in Waiting THEN 0 ELSE 1]
    BY <2>1
  <2> QED
    BY <1>1, <2>2 DEF Counted
<1> QED
  BY <1>2, <1>3, <1>4, <1>5, <1>6 DEF IInv

\* While the ids do not wrap, every request waits in one place or was answered,
\* and carries the table it was made for wherever it goes.
THEOREM ReadBackInvariant == NoWrap => (Spec => [](TypeInv /\ IInv))
<1> SUFFICES ASSUME NoWrap PROVE Spec => [](TypeInv /\ IInv)
  OBVIOUS
<1>1. Init => TypeInv /\ IInv
  BY TypeInit, InvInit
<1>2. ASSUME TypeInv, IInv, UNCHANGED vars PROVE IInv'
  <2>1. UNCHANGED <<posted, lastRequest, clearedThrough, scores, leaderboards, nextId, requests,
                    results, pc, current, declared, haveDeclared, peer, asks, pending, cur,
                    inbox, owed, asked, answered>>
    BY <1>2 DEF vars, api, channel, link, wire
  <2>2. Flow
    BY <2>1 DEF Flow, Elems
  <2>3. Tags'
    BY <1>2, <2>2, TagsKept DEF IInv
  <2>4. Numbers' /\ Readable' /\ OwnResults' /\ AskedOfOwnTable'
    BY <1>2, <2>1 DEF IInv, Numbers, Readable, OwnResults, AskedOfOwnTable
  <2>5. OneTable'
    <3>1. Told' = Told
      BY <2>1 DEF Told
    <3> QED
      BY <1>2, <2>1, <3>1 DEF IInv, OneTable
  <2>6. OnePlace' /\ Counted' /\ Idle'
    BY <1>2, <2>1, PlacesStay
  <2> QED
    BY <2>3, <2>4, <2>5, <2>6 DEF IInv
<1>3. ASSUME TypeInv, IInv, Next PROVE IInv'
  BY <1>3, ScriptRequest, ScriptTable, ScriptReads, WorkerStep DEF Next, Script
<1>4. TypeInv /\ IInv /\ [Next]_vars => IInv'
  BY <1>2, <1>3
<1> QED
  BY <1>1, <1>4, TypeInvariant, PTL DEF Spec

\* While the ids do not wrap: every request is answered exactly once or waits
\* where the end of a session still finds it.
THEOREM OnceAnswered == NoWrap => (Spec => []AnsweredOnce)
<1> SUFFICES ASSUME NoWrap PROVE Spec => []AnsweredOnce
  OBVIOUS
<1>1. ASSUME TypeInv, IInv PROVE AnsweredOnce
  <2>1. ASSUME NEW n \in DOMAIN asked
        PROVE  answered[n] + Cardinality({i \in DOMAIN requests : requests[i].n = n})
                 + Cardinality({i \in DOMAIN asks : asks[i].n = n})
                 + Cardinality({p \in pending : p.n = n}) = 1
    <3>1. /\ Named(requests, n) = IF n \in Names(requests) THEN 1 ELSE 0
          /\ Named(asks, n) = IF n \in Names(asks) THEN 1 ELSE 0
      BY <1>1, QueueTypes, CountFacts DEF IInv, OnePlace
    <3> DEFINE P == {p \in pending : p.n = n}
    <3>2. Cardinality(P) = IF n \in Pending THEN 1 ELSE 0
      <4>1. CASE n \in Pending
        <5>1. PICK p \in pending : p.n = n
          BY <4>1 DEF Pending
        <5>2. \A q \in P : q = p
          <6> SUFFICES ASSUME NEW q \in P PROVE q = p
            OBVIOUS
          <6>1. p \in Note /\ q \in Note
            BY <1>1 DEF TypeInv, TypeOK
          <6>2. q.n = p.n /\ q.id = p.id /\ q.epoch = p.epoch
            BY <1>1, <5>1 DEF IInv, Tags, OfRequest
          <6> QED
            BY <6>1, <6>2 DEF Note
        <5>3. P = {p}
          BY <5>1, <5>2
        <5> QED
          BY <4>1, <5>3, FS_Singleton
      <4>2. CASE n \notin Pending
        <5>1. P = {}
          BY <4>2 DEF Pending
        <5> QED
          BY <4>2, <5>1, FS_EmptySet
      <4> QED
        BY <4>1, <4>2
    <3> HIDE DEF P
    <3>3. answered[n] = IF n \in Waiting THEN 0 ELSE 1
      BY <1>1 DEF IInv, Counted
    <3>4. answered[n] + Named(requests, n) + Named(asks, n) + Cardinality(P) = 1
      BY <1>1, <3>1, <3>2, <3>3 DEF IInv, OnePlace, Waiting
    <3> QED
      BY <3>4 DEF P, Named
  <2>2. AnsweredOrWaits
    BY <2>1 DEF AnsweredOrWaits
  <2>3. NoneWaits
    BY <1>1 DEF IInv, Idle, NoneWaits
  <2> QED
    BY <2>2, <2>3 DEF AnsweredOnce
<1> QED
  BY <1>1, ReadBackInvariant, PTL

\* While the ids do not wrap: the script reads results of requests of this very
\* table only, and the daemon is asked only while their table is declared.
THEOREM ResultsOfOwnTable == NoWrap => (Spec => []OwnTable)
<1> SUFFICES ASSUME NoWrap PROVE Spec => []OwnTable
  OBVIOUS
<1>1. IInv => OwnTable
  BY DEF IInv, OwnTable
<1> QED
  BY <1>1, ReadBackInvariant, PTL
=============================================================================
