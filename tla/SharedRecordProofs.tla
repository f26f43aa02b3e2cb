------------------------- MODULE SharedRecordProofs -------------------------
(***************************************************************************)
(* Theorems about SeqLock and about Overlay, whose record is published     *)
(* through one: SeqLock returns no torn value and implements AtomicPublish *)
(* for any number of readers, any capacity and any retry bounds; Overlay   *)
(* applies and shows what it was asked for every set of bitmaps and of     *)
(* consumers, every limit of the queue and every bound.                    *)
(***************************************************************************)
EXTENDS SeqLock, Overlay, FiniteSetTheorems, TLAPS

(* SeqLock.                                                                *)

\* Write k is number k; all but the newest have stored all of their value.
WriterInv ==
  /\ \/ seq % 2 = 0 /\ seq = 2 * Len(data)
     \/ seq % 2 = 1 /\ seq = 2 * Len(data) - 1 /\ data # <<>>
  /\ \A k \in 1 .. Len(data) : Len(data[k]) <= Capacity
  /\ \A l \in Loc : \A m \in wrote[l] :
       m <= Len(data) /\ (m # 0 => l <= Len(data[m]))
  /\ \A k \in 1 .. Len(data) : \A l \in 0 .. Len(data[k]) :
       k \in wrote[l] \/ (k = Len(data) /\ seq % 2 = 1 /\ next <= l)

\* The copy so far is that of Write k.
CopyOf(r, k) ==
  /\ size[r] = Len(data[k])
  /\ \A i \in 1 .. Len(out[r]) : out[r][i] = data[k][i]

\* A copy is what the acquired m_seq = 2k published, or the fence will tell
\* the reader that m_seq has moved on.
CopyInv(r) ==
  /\ pc[r] \in {"size", "copy"} =>
       \E k \in 1 .. Len(data) : before[r] = 2 * k /\ before[r] <= view[r]
  /\ pc[r] = "copy" =>
       /\ size[r] <= Capacity /\ Len(out[r]) <= size[r]
       /\ \A k \in 1 .. Len(data) :
            before[r] = 2 * k => before[r] < pend[r] \/ CopyOf(r, k)

GotInv(r) ==
  /\ 2 * got[r].k <= view[r]
  /\ got[r].k # 0 => got[r].k <= Len(data) /\ got[r].value = data[got[r].k]

ReaderInv ==
  \A r \in Readers : /\ view[r] <= seq /\ pend[r] <= seq
                     /\ CopyInv(r) /\ GotInv(r)

IInv == TypeOK /\ WriterInv /\ ReaderInv

-----------------------------------------------------------------------------
\* What the steps below need of parity and of halving.
LEMMA Parity ==
  ASSUME NEW s \in Nat
  PROVE  /\ s % 2 = 0 \/ s % 2 = 1
         /\ s % 2 = 0 <=> (s + 1) % 2 = 1
         /\ s % 2 = 1 <=> (s + 1) % 2 = 0
  OBVIOUS

LEMMA Halving ==
  ASSUME NEW k \in Nat
  PROVE  /\ (2 * k) \div 2 = k /\ (2 * k) % 2 = 0
         /\ k > 0 => (2 * k - 1) \div 2 = k - 1
  OBVIOUS

LEMMA Even ==
  ASSUME NEW s \in Nat, s % 2 = 0
  PROVE  \E k \in Nat : s = 2 * k
<1>1. s = 2 * (s \div 2) /\ s \div 2 \in Nat
  OBVIOUS
<1> QED
  BY <1>1

\* Values are sequences of words.
LEMMA DataType ==
  ASSUME TypeOK
  PROVE  /\ Len(data) \in Nat
         /\ \A k \in 1 .. Len(data) : /\ data[k] \in Seq(Word)
                                      /\ Len(data[k]) \in Nat
  BY SeqLockAssumption DEF TypeOK

LEMMA InitInv == Init => IInv
<1> SUFFICES ASSUME Init PROVE IInv
  OBVIOUS
<1>1. TypeOK
  BY SeqLockAssumption DEF Init, TypeOK, Pc, Loc
<1>2. WriterInv
  BY DEF Init, WriterInv, Loc
<1>3. ReaderInv
  <2> SUFFICES ASSUME NEW r \in Readers
               PROVE  view[r] <= seq /\ pend[r] <= seq /\ CopyInv(r) /\ GotInv(r)
    BY DEF ReaderInv
  <2>1. pc[r] = "idle" /\ view[r] = 0 /\ pend[r] = 0 /\ seq = 0 /\ got[r].k = 0
    BY DEF Init
  <2>2. CopyInv(r)
    BY <2>1 DEF CopyInv
  <2>3. GotInv(r)
    BY <2>1 DEF GotInv
  <2> QED
    BY <2>1, <2>2, <2>3
<1> QED
  BY <1>1, <1>2, <1>3 DEF IInv

-----------------------------------------------------------------------------
(* The writer's steps.                                                     *)

LEMMA WriterType ==
  ASSUME IInv, Write PROVE TypeOK' /\ UNCHANGED reader
<1> USE DEF IInv, TypeOK
<1>1. ASSUME NEW p \in Payloads, WriteBegin(p) PROVE TypeOK' /\ UNCHANGED reader
  BY <1>1 DEF WriteBegin, reader
<1>2. ASSUME WriteStore PROVE TypeOK' /\ UNCHANGED reader
  <2>1. wrote' \in [Loc -> SUBSET Nat]
    <3>1. Len(data) \in Nat
      OBVIOUS
    <3> QED
      BY <1>2, <3>1 DEF WriteStore
  <2> QED
    BY <1>2, <2>1 DEF WriteStore, reader
<1>3. ASSUME WriteEnd PROVE TypeOK' /\ UNCHANGED reader
  BY <1>3 DEF WriteEnd, reader
<1> QED
  BY <1>1, <1>2, <1>3 DEF Write

LEMMA WriterSteps ==
  ASSUME IInv, Write PROVE WriterInv'
<1>0. /\ seq \in Nat /\ next \in Nat /\ data \in Seq(Payloads)
      /\ wrote \in [Loc -> SUBSET Nat] /\ Len(data) \in Nat
      /\ \A k \in 1 .. Len(data) : Len(data[k]) \in Nat
  BY DataType DEF IInv, TypeOK
<1>1. ASSUME NEW p \in Payloads, WriteBegin(p) PROVE WriterInv'
  <2>0. data' = Append(data, p) /\ seq' = seq + 1 /\ wrote' = wrote /\ next' = 0
        /\ seq % 2 = 0 /\ Len(p) <= Capacity
    BY <1>1 DEF WriteBegin
  <2>a. /\ Len(data') = Len(data) + 1 /\ data'[Len(data) + 1] = p
        /\ \A k \in 1 .. Len(data) : data'[k] = data[k]
    BY <1>0, <2>0
  <2>b. seq = 2 * Len(data)
    BY <1>0, <2>0 DEF IInv, WriterInv
  <2>c. p \in Seq(Word)
    BY SeqLockAssumption
  <2>d. data' # <<>>
    BY <1>0, <2>0
  <2>1. /\ Len(data') = Len(data) + 1 /\ data'[Len(data) + 1] = p
        /\ \A k \in 1 .. Len(data) : data'[k] = data[k]
        /\ seq' = seq + 1 /\ wrote' = wrote /\ next' = 0
        /\ Len(p) <= Capacity /\ Len(p) \in Nat /\ seq = 2 * Len(data)
        /\ data' # <<>>
    BY <2>0, <2>a, <2>b, <2>c, <2>d
  <2>2. seq' % 2 = 1
    BY <1>0, <1>1, <2>1, Parity DEF WriteBegin
  <2>3. \A k \in 1 .. Len(data') : k \in 1 .. Len(data) \/ k = Len(data) + 1
    BY <1>0, <2>1
  <2>4. \A k \in 1 .. Len(data') : Len(data'[k]) <= Capacity
    BY <2>1, <2>3 DEF IInv, WriterInv
  <2>5. \A l \in Loc : \A m \in wrote'[l] :
          m <= Len(data') /\ (m # 0 => l <= Len(data'[m]))
    BY <1>0, <2>1 DEF IInv, WriterInv
  <2>6. \A k \in 1 .. Len(data') : \A l \in 0 .. Len(data'[k]) :
          k \in wrote'[l] \/ (k = Len(data') /\ seq' % 2 = 1 /\ next' <= l)
    <3> SUFFICES ASSUME NEW k \in 1 .. Len(data'), NEW l \in 0 .. Len(data'[k])
                 PROVE  k \in wrote[l] \/ k = Len(data) + 1
      BY <2>1, <2>2
    <3> QED
      BY <1>0, <1>1, <2>1, <2>3 DEF WriteBegin, IInv, WriterInv
  <2> QED
    BY <1>0, <2>1, <2>2, <2>4, <2>5, <2>6 DEF WriterInv
<1>2. ASSUME WriteStore PROVE WriterInv'
  <2>1. /\ Len(data) \in 1 .. Len(data) /\ data' = data /\ seq' = seq
        /\ next' = next + 1 /\ next \in 0 .. Len(data[Len(data)]) /\ next \in Loc
        /\ wrote' = [wrote EXCEPT ![next] = wrote[next] \cup {Len(data)}]
    BY <1>0, <1>2, SeqLockAssumption DEF WriteStore, IInv, WriterInv, Loc
  <2>2. \A l \in Loc : wrote'[l] = IF l = next THEN wrote[l] \cup {Len(data)} ELSE wrote[l]
    BY <1>0, <2>1
  <2>3. \A l \in Loc : \A m \in wrote'[l] :
          m <= Len(data') /\ (m # 0 => l <= Len(data'[m]))
    BY <1>0, <2>1, <2>2 DEF IInv, WriterInv
  <2>4. \A k \in 1 .. Len(data) : \A l \in 0 .. Len(data[k]) : l \in Loc
    BY <1>0, SeqLockAssumption DEF IInv, WriterInv, Loc
  <2>5. \A k \in 1 .. Len(data') : \A l \in 0 .. Len(data'[k]) :
          k \in wrote'[l] \/ (k = Len(data') /\ seq' % 2 = 1 /\ next' <= l)
    <3> SUFFICES ASSUME NEW k \in 1 .. Len(data), NEW l \in 0 .. Len(data[k])
                 PROVE  k \in wrote'[l] \/ (k = Len(data) /\ seq % 2 = 1 /\ next + 1 <= l)
      BY <2>1
    <3>1. k \in wrote[l] \/ (k = Len(data) /\ seq % 2 = 1 /\ next <= l)
      BY DEF IInv, WriterInv
    <3> QED
      BY <1>0, <2>1, <2>2, <2>4, <3>1
  <2> QED
    BY <2>1, <2>3, <2>5 DEF IInv, WriterInv
<1>3. ASSUME WriteEnd PROVE WriterInv'
  <2>1. /\ data' = data /\ wrote' = wrote /\ next' = next /\ seq' = seq + 1
        /\ Len(data) \in 1 .. Len(data) /\ next > Len(data[Len(data)])
        /\ seq % 2 = 1 /\ seq = 2 * Len(data) - 1
    BY <1>0, <1>3 DEF WriteEnd, IInv, WriterInv
  <2>2. seq' % 2 = 0 /\ seq' = 2 * Len(data')
    BY <1>0, <2>1, Parity
  <2>3. \A k \in 1 .. Len(data) : \A l \in 0 .. Len(data[k]) : k \in wrote[l]
    BY <1>0, <2>1 DEF IInv, WriterInv
  <2> QED
    BY <2>1, <2>2, <2>3 DEF IInv, WriterInv
<1> QED
  BY <1>1, <1>2, <1>3 DEF Write

\* A writer's step leaves every copy as right or as doomed as it was.
LEMMA WriterLeavesReaders ==
  ASSUME IInv, Write PROVE ReaderInv'
<1>1. /\ seq \in Nat /\ seq' \in Nat /\ seq <= seq'
      /\ UNCHANGED reader
      /\ Len(data) \in Nat /\ Len(data') \in Nat /\ Len(data) <= Len(data')
      /\ \A k \in 1 .. Len(data) : data'[k] = data[k]
  <2>1. data \in Seq(Payloads) /\ seq \in Nat /\ UNCHANGED reader
    BY WriterType DEF IInv, TypeOK
  <2>2. ASSUME NEW p \in Payloads, WriteBegin(p)
        PROVE  data' = Append(data, p) /\ seq' = seq + 1
    BY <2>2 DEF WriteBegin
  <2>3. ASSUME WriteStore \/ WriteEnd
        PROVE  data' = data /\ (seq' = seq \/ seq' = seq + 1)
    BY <2>3 DEF WriteStore, WriteEnd
  <2> QED
    BY <2>1, <2>2, <2>3 DEF Write
<1> SUFFICES ASSUME NEW r \in Readers
             PROVE  /\ view'[r] <= seq' /\ pend'[r] <= seq'
                    /\ CopyInv(r)' /\ GotInv(r)'
  BY DEF ReaderInv
<1>2. /\ view[r] \in Nat /\ pend[r] \in Nat /\ before[r] \in Nat /\ got[r].k \in Nat
      /\ view[r] <= seq /\ pend[r] <= seq /\ CopyInv(r) /\ GotInv(r)
  BY DEF IInv, TypeOK, ReaderInv
<1>3. view'[r] <= seq' /\ pend'[r] <= seq'
  BY <1>1, <1>2 DEF reader
<1>4. GotInv(r)'
  BY <1>1, <1>2 DEF GotInv, reader
<1>5. CopyInv(r)'
  <2>1. ASSUME NEW k \in 1 .. Len(data') , before[r] = 2 * k, pc[r] = "copy"
        PROVE  before[r] < pend[r] \/ CopyOf(r, k)'
    <3>1. k \in 1 .. Len(data)
      BY <1>1, <1>2, <2>1 DEF CopyInv
    <3> QED
      BY <1>1, <1>2, <2>1, <3>1 DEF CopyInv, CopyOf, reader
  <2>2. 1 .. Len(data) \subseteq 1 .. Len(data')
    BY <1>1
  <2> QED
    BY <1>1, <1>2, <2>1, <2>2 DEF CopyInv, reader
<1> QED
  BY <1>3, <1>4, <1>5

-----------------------------------------------------------------------------
(* A reader's steps.                                                       *)

\* What a load of a location of the copied value may return: the store of the
\* Write that was acquired, or one that dooms the copy.
LEMMA LoadIsRightOrDoomed ==
  ASSUME IInv, NEW r \in Readers, NEW k \in 1 .. Len(data),
         before[r] = 2 * k, before[r] <= seq,
         NEW l \in 0 .. Len(data[k]), NEW m \in Loadable(r, l)
  PROVE  m = k \/ before[r] < Fenced(r, m)
<1>0. /\ seq \in Nat /\ Len(data) \in Nat /\ Len(data[k]) \in Nat
      /\ wrote \in [Loc -> SUBSET Nat] /\ pend[r] \in Nat
  BY DataType DEF IInv, TypeOK
<1>1. l \in Loc
  BY <1>0, SeqLockAssumption DEF IInv, WriterInv, Loc
<1>2. k \in wrote[l]
  BY <1>0 DEF IInv, WriterInv
<1>3. m \in Nat /\ (m < k => before[r] < 2 * k)
  BY <1>0, <1>1, <1>2 DEF Loadable
<1> QED
  BY <1>0, <1>3 DEF Fenced, MaxOf

\* Whatever is loaded, the pending view only grows and stays within m_seq.
LEMMA FencedBounds ==
  ASSUME IInv, NEW r \in Readers, NEW l \in Loc, NEW m \in Loadable(r, l)
  PROVE  /\ m \in Nat /\ m <= Len(data) /\ (m # 0 => m \in 1 .. Len(data) /\ l <= Len(data[m]))
         /\ Fenced(r, m) \in Nat /\ pend[r] <= Fenced(r, m) /\ Fenced(r, m) <= seq
<1>0. /\ seq \in Nat /\ Len(data) \in Nat /\ wrote \in [Loc -> SUBSET Nat]
      /\ pend[r] \in Nat /\ pend[r] <= seq
  BY DataType DEF IInv, TypeOK, ReaderInv
<1>1. m \in Nat /\ m <= Len(data) /\ (m # 0 => m \in 1 .. Len(data) /\ l <= Len(data[m]))
  BY <1>0 DEF Loadable, IInv, WriterInv
<1>2. 2 * Len(data) - 1 <= seq
  BY <1>0 DEF IInv, WriterInv
<1> QED
  BY <1>0, <1>1, <1>2 DEF Fenced, MaxOf

LEMMA RetryType ==
  ASSUME IInv, NEW r \in Readers, Retry(r)
  PROVE  pc' \in [Readers -> Pc] /\ attempt' \in [Readers -> Nat]
  BY DEF Retry, IInv, TypeOK, Pc

\* The types and the unchanged parts of a reader's step.
LEMMA ReaderType ==
  ASSUME IInv, NEW r \in Readers, ReadBegin(r) \/ Read(r)
  PROVE  TypeOK' /\ UNCHANGED writer
<1>1. CASE ReadBegin(r)
  BY <1>1 DEF ReadBegin, IInv, TypeOK, Pc, writer
<1>2. CASE LoadSeq(r)
  <2>1. PICK s \in view[r] .. seq : /\ view' = [view EXCEPT ![r] = s]
                                    /\ before' = [before EXCEPT ![r] = s]
    BY <1>2 DEF LoadSeq
  <2>2. s \in Nat
    BY <2>1 DEF IInv, TypeOK
  <2>3. /\ pc' \in [Readers -> Pc] /\ attempt' \in [Readers -> Nat]
        /\ yields' \in [Readers -> Nat]
    <3>0. /\ pc \in [Readers -> Pc] /\ attempt \in [Readers -> Nat]
          /\ yields \in [Readers -> Nat]
      BY DEF IInv, TypeOK
    <3>1. CASE Yield(r) /\ UNCHANGED <<pc, attempt>>
      BY <3>0, <3>1 DEF Yield
    <3>2. CASE Retry(r) /\ UNCHANGED yields
      BY <3>0, <3>2, RetryType
    <3>3. CASE pc' = [pc EXCEPT ![r] = "idle"] /\ UNCHANGED <<attempt, yields>>
      BY <3>0, <3>3 DEF Pc
    <3>4. CASE pc' = [pc EXCEPT ![r] = "size"] /\ UNCHANGED <<attempt, yields>>
      BY <3>0, <3>4 DEF Pc
    <3> QED
      BY <1>2, <3>1, <3>2, <3>3, <3>4 DEF LoadSeq
  <2> QED
    BY <1>2, <2>1, <2>2, <2>3 DEF LoadSeq, IInv, TypeOK, writer
<1>3. CASE LoadSize(r)
  <2>1. PICK m \in Loadable(r, 0) : /\ size' = [size EXCEPT ![r] = StoredSize(m)]
                                    /\ pend' = [pend EXCEPT ![r] = Fenced(r, m)]
    BY <1>3 DEF LoadSize
  <2>2. Fenced(r, m) \in Nat /\ (m # 0 => m \in 1 .. Len(data))
    BY <2>1, FencedBounds, SeqLockAssumption DEF Loc
  <2>3. StoredSize(m) \in Nat
    BY <2>2, DataType DEF StoredSize, IInv
  <2> QED
    BY <1>3, <2>1, <2>2, <2>3 DEF LoadSize, IInv, TypeOK, Pc, writer
<1>4. CASE LoadWord(r)
  <2> DEFINE i == Len(out[r]) + 1
  <2>1. PICK m \in Loadable(r, i) :
               /\ out' = [out EXCEPT ![r] = Append(out[r], Stored(m, i))]
               /\ pend' = [pend EXCEPT ![r] = Fenced(r, m)]
    BY <1>4 DEF LoadWord, IInv, TypeOK
  <2>2. i \in Loc
    BY <1>4, SeqLockAssumption DEF LoadWord, Loc, IInv, TypeOK, ReaderInv, CopyInv
  <2>3. Fenced(r, m) \in Nat /\ (m # 0 => m \in 1 .. Len(data) /\ i <= Len(data[m]))
    BY <2>1, <2>2, FencedBounds
  <2>4. Stored(m, i) \in Word
    <3>1. i \in Nat \ {0}
      BY DEF IInv, TypeOK
    <3>2. m # 0 => data[m] \in Seq(Word) /\ i \in 1 .. Len(data[m])
      BY <2>3, <3>1, DataType DEF IInv
    <3> QED
      BY <3>2, SeqLockAssumption DEF Stored
  <2>5. out' \in [Readers -> Seq(Word)] /\ pend' \in [Readers -> Nat]
    BY <2>1, <2>3, <2>4 DEF IInv, TypeOK
  <2>6. UNCHANGED <<seq, data, next, wrote, pc, attempt, yields, before, size, view, got>>
    BY <1>4 DEF LoadWord, writer
  <2> QED
    BY <2>5, <2>6 DEF IInv, TypeOK, writer
<1>5. CASE CheckSeq(r)
  <2>1. view' \in [Readers -> Nat]
    <3>1. PICK s \in MaxOf(view[r], pend[r]) .. seq : view' = [view EXCEPT ![r] = s]
      BY <1>5 DEF CheckSeq, Unmoved
    <3> QED
      BY <3>1 DEF MaxOf, IInv, TypeOK
  <2>2. /\ pc \in [Readers -> Pc] /\ attempt \in [Readers -> Nat]
        /\ got \in [Readers -> [k : Nat, value : Seq(Word)]]
    BY DEF IInv, TypeOK
  <2>3. [k |-> before[r] \div 2, value |-> out[r]] \in [k : Nat, value : Seq(Word)]
    <3>1. before[r] \in Nat /\ out[r] \in Seq(Word)
      BY DEF IInv, TypeOK
    <3>2. before[r] \div 2 \in Nat
      BY <3>1
    <3> QED
      BY <3>1, <3>2
  <2> DEFINE delivered == [k |-> before[r] \div 2, value |-> out[r]]
             Success == /\ got' = [got EXCEPT ![r] = delivered]
                        /\ pc' = [pc EXCEPT ![r] = "idle"] /\ UNCHANGED attempt
  <2>a. Success \/ (Retry(r) /\ UNCHANGED got)
    BY <1>5 DEF CheckSeq, Unmoved
  <2> HIDE DEF delivered
  <2>4. /\ pc' \in [Readers -> Pc] /\ attempt' \in [Readers -> Nat]
        /\ got' \in [Readers -> [k : Nat, value : Seq(Word)]]
    <3>0. delivered \in [k : Nat, value : Seq(Word)]
      BY <2>3 DEF delivered
    <3>1. CASE Success
      BY <2>2, <3>0, <3>1 DEF Pc
    <3>2. CASE Retry(r) /\ UNCHANGED got
      BY <2>2, <3>2, RetryType
    <3> QED
      BY <2>a, <3>1, <3>2
  <2> QED
    BY <1>5, <2>1, <2>4 DEF CheckSeq, Unmoved, IInv, TypeOK, writer
<1> QED
  BY <1>1, <1>2, <1>3, <1>4, <1>5 DEF Read

\* What the reader knew, with the types the steps below compute in.
Known(r) ==
  /\ seq \in Nat /\ Len(data) \in Nat
  /\ view[r] \in Nat /\ pend[r] \in Nat /\ before[r] \in Nat
  /\ size[r] \in Nat /\ out[r] \in Seq(Word) /\ got[r].k \in Nat
  /\ view[r] <= seq /\ pend[r] <= seq /\ CopyInv(r) /\ GotInv(r)

LEMMA KnownHolds ==
  ASSUME IInv, NEW r \in Readers PROVE Known(r)
  BY DataType DEF IInv, TypeOK, ReaderInv, Known

\* A step of one reader leaves the others alone.
LEMMA OtherReader ==
  ASSUME IInv, NEW r \in Readers, ReadBegin(r) \/ Read(r),
         NEW q \in Readers, q # r
  PROVE  view'[q] <= seq' /\ pend'[q] <= seq' /\ CopyInv(q)' /\ GotInv(q)'
<1>1. UNCHANGED writer /\ TypeOK /\ TypeOK'
  BY ReaderType DEF IInv
<1>2. /\ pc'[q] = pc[q] /\ before'[q] = before[q] /\ size'[q] = size[q]
      /\ out'[q] = out[q] /\ view'[q] = view[q] /\ pend'[q] = pend[q]
      /\ got'[q] = got[q]
  <2>1. CASE ReadBegin(r)
    BY <1>1, <2>1 DEF ReadBegin, TypeOK
  <2>2. CASE LoadSeq(r)
    BY <1>1, <2>2 DEF LoadSeq, Retry, TypeOK
  <2>3. CASE LoadSize(r)
    BY <1>1, <2>3 DEF LoadSize, TypeOK
  <2>4. CASE LoadWord(r)
    BY <1>1, <2>4 DEF LoadWord, TypeOK
  <2>5. CASE CheckSeq(r)
    BY <1>1, <2>5 DEF CheckSeq, Unmoved, Retry, TypeOK
  <2> QED
    BY <2>1, <2>2, <2>3, <2>4, <2>5 DEF Read
<1>3. Known(q)
  BY KnownHolds
<1> QED
  BY <1>1, <1>2, <1>3 DEF Known, CopyInv, CopyOf, GotInv, writer

\* A step that neither copies nor returns a value.
LEMMA NotCopying ==
  ASSUME IInv, NEW r \in Readers, UNCHANGED writer,
         pc'[r] \notin {"size", "copy"}, view'[r] \in view[r] .. seq,
         pend'[r] = pend[r], got'[r] = got[r]
  PROVE  view'[r] <= seq' /\ pend'[r] <= seq' /\ CopyInv(r)' /\ GotInv(r)'
<1>1. Known(r)
  BY KnownHolds
<1>2. CopyInv(r)'
  BY DEF CopyInv
<1>3. view'[r] <= seq' /\ pend'[r] <= seq'
  BY <1>1 DEF Known, writer
<1>4. GotInv(r)'
  BY <1>1 DEF Known, GotInv, writer
<1> QED
  BY <1>2, <1>3, <1>4

\* A finished copy that the fence did not doom is the value of Write k.
CheckedCopy(r, k) == before[r] \div 2 = k /\ out[r] = data[k]

LEMMA CopyIsWhole ==
  ASSUME IInv, NEW r \in Readers, pc[r] = "copy", Len(out[r]) = size[r],
         NEW k \in 1 .. Len(data), before[r] = 2 * k, pend[r] <= before[r]
  PROVE  CheckedCopy(r, k)
<1>1. Known(r)
  BY KnownHolds
<1>2. Len(data) \in Nat /\ out[r] \in Seq(Word) /\ data[k] \in Seq(Word)
  BY <1>1, DataType DEF IInv, Known
<1>3. CopyOf(r, k)
  <2>1. ~(before[r] < pend[r])
    BY <1>1 DEF Known
  <2>2. \A j \in 1 .. Len(data) :
          before[r] = 2 * j => before[r] < pend[r] \/ CopyOf(r, j)
    BY <1>1 DEF Known, CopyInv
  <2> QED
    BY <2>1, <2>2
<1>4. /\ Len(out[r]) = Len(data[k])
      /\ \A i \in 1 .. Len(out[r]) : out[r][i] = data[k][i]
  BY <1>3 DEF CopyOf
<1>5. out[r] = data[k]
  BY <1>2, <1>4
<1>6. before[r] \div 2 = k
  BY <1>2, Halving
<1> QED
  BY <1>5, <1>6 DEF CheckedCopy

LEMMA OwnSteps ==
  ASSUME IInv, NEW r \in Readers, ReadBegin(r) \/ Read(r)
  PROVE  view'[r] <= seq' /\ pend'[r] <= seq' /\ CopyInv(r)' /\ GotInv(r)'
<1>0. Known(r) /\ UNCHANGED writer /\ TypeOK /\ TypeOK'
  BY KnownHolds, ReaderType DEF IInv
<1>a. /\ seq \in Nat /\ Len(data) \in Nat /\ view[r] \in Nat /\ pend[r] \in Nat
      /\ view[r] <= seq /\ pend[r] <= seq /\ seq' = seq /\ data' = data
  BY <1>0 DEF Known, writer
<1>1. CASE ReadBegin(r)
  BY <1>0, <1>1, <1>a, NotCopying DEF ReadBegin, TypeOK
<1>2. CASE LoadSeq(r)
  <2>1. PICK s \in view[r] .. seq :
          /\ view' = [view EXCEPT ![r] = s] /\ before' = [before EXCEPT ![r] = s]
          /\ \/ UNCHANGED pc
             \/ Retry(r)
             \/ pc' = [pc EXCEPT ![r] = "idle"]
             \/ s % 2 = 0 /\ s # 0 /\ pc' = [pc EXCEPT ![r] = "size"]
    BY <1>2 DEF LoadSeq
  <2>2. /\ view'[r] = s /\ before'[r] = s /\ pend' = pend /\ got' = got
        /\ view'[r] \in view[r] .. seq /\ pc[r] = "load"
    BY <1>0, <1>2, <2>1 DEF LoadSeq, TypeOK
  <2>3. CASE s % 2 = 0 /\ s # 0 /\ pc' = [pc EXCEPT ![r] = "size"]
    <3>0. s \in Nat /\ s <= seq
      BY <1>a, <2>1
    <3>1. PICK k \in Nat : s = 2 * k
      BY <2>3, <3>0, Even
    <3>2. seq <= 2 * Len(data)
      BY <1>a DEF IInv, WriterInv
    <3>3. k \in 1 .. Len(data)
      BY <1>a, <2>3, <3>0, <3>1, <3>2
    <3>4. pc'[r] = "size"
      BY <1>0, <2>3 DEF TypeOK
    <3>5. CopyInv(r)'
      BY <1>a, <2>2, <3>0, <3>1, <3>3, <3>4 DEF CopyInv
    <3>6. GotInv(r)'
      BY <1>0, <1>a, <2>2, <3>0 DEF Known, GotInv
    <3> QED
      BY <1>a, <2>2, <3>0, <3>5, <3>6
  <2>4. CASE UNCHANGED pc \/ Retry(r) \/ pc' = [pc EXCEPT ![r] = "idle"]
    <3>1. pc'[r] \notin {"size", "copy"}
      BY <1>0, <2>2, <2>4 DEF Retry, TypeOK
    <3> QED
      BY <1>0, <2>2, <3>1, NotCopying
  <2> QED
    BY <2>1, <2>3, <2>4
<1>3. CASE LoadSize(r)
  <2>1. PICK m \in Loadable(r, 0) : /\ size' = [size EXCEPT ![r] = StoredSize(m)]
                                    /\ pend' = [pend EXCEPT ![r] = Fenced(r, m)]
    BY <1>3 DEF LoadSize
  <2>2. /\ pc[r] = "size" /\ pc'[r] = "copy" /\ out'[r] = <<>> /\ view' = view
        /\ got' = got /\ before' = before
        /\ size'[r] = StoredSize(m) /\ pend'[r] = Fenced(r, m)
    BY <1>0, <1>3, <2>1 DEF LoadSize, TypeOK
  <2>3. /\ m \in Nat /\ (m # 0 => m \in 1 .. Len(data))
        /\ Fenced(r, m) \in Nat /\ Fenced(r, m) <= seq
    BY FencedBounds, SeqLockAssumption DEF Loc
  <2>4. StoredSize(m) \in Nat /\ StoredSize(m) <= Capacity
    BY <2>3, DataType, SeqLockAssumption DEF StoredSize, IInv, WriterInv
  <2>5. PICK k \in 1 .. Len(data) : before[r] = 2 * k /\ before[r] <= view[r]
    BY <1>0, <2>2 DEF Known, CopyInv
  <2>6. before[r] < Fenced(r, m) \/ StoredSize(m) = Len(data[k])
    <3>1. 0 \in 0 .. Len(data[k]) /\ before[r] <= seq
      BY <1>a, <2>5, DataType DEF IInv
    <3>2. m = k \/ before[r] < Fenced(r, m)
      BY <2>5, <3>1, LoadIsRightOrDoomed
    <3> QED
      BY <2>5, <3>2 DEF StoredSize
  <2>7. \A j \in 1 .. Len(data) :
          before[r] = 2 * j => before[r] < Fenced(r, m) \/ CopyOf(r, j)'
    <3> SUFFICES ASSUME NEW j \in 1 .. Len(data), before[r] = 2 * j
                 PROVE  before[r] < Fenced(r, m) \/ CopyOf(r, j)'
      OBVIOUS
    <3>1. j = k
      BY <1>a, <2>5
    <3> QED
      BY <1>a, <2>2, <2>6, <3>1 DEF CopyOf
  <2>8. CopyInv(r)'
    BY <1>a, <2>2, <2>4, <2>5, <2>7 DEF CopyInv
  <2>9. GotInv(r)'
    BY <1>0, <1>a, <2>2 DEF Known, GotInv
  <2> QED
    BY <1>a, <2>2, <2>3, <2>8, <2>9
<1>4. CASE LoadWord(r)
  <2> DEFINE i == Len(out[r]) + 1
  <2>0. Len(out[r]) \in Nat /\ size[r] \in Nat /\ Len(out[r]) < size[r]
        /\ size[r] <= Capacity /\ pc[r] = "copy"
    BY <1>0, <1>4 DEF LoadWord, Known, CopyInv
  <2>1. PICK m \in Loadable(r, i) :
               /\ out' = [out EXCEPT ![r] = Append(out[r], Stored(m, i))]
               /\ pend' = [pend EXCEPT ![r] = Fenced(r, m)]
    BY <1>0, <1>4 DEF LoadWord, TypeOK
  <2>2. /\ pc'[r] = "copy" /\ view' = view /\ got' = got /\ before' = before
        /\ size' = size /\ pend'[r] = Fenced(r, m)
        /\ out'[r] = Append(out[r], Stored(m, i))
    BY <1>0, <1>4, <2>0, <2>1 DEF LoadWord, TypeOK
  <2>3. i \in Loc /\ i \in Nat
    BY <2>0, SeqLockAssumption DEF Loc
  <2>4. /\ m \in Nat /\ (m # 0 => m \in 1 .. Len(data))
        /\ Fenced(r, m) \in Nat /\ Fenced(r, m) <= seq /\ pend[r] <= Fenced(r, m)
    BY <2>3, FencedBounds
  <2>5. PICK k \in 1 .. Len(data) : before[r] = 2 * k /\ before[r] <= view[r]
    BY <1>0, <2>0 DEF Known, CopyInv
  <2>6. /\ Len(out'[r]) = Len(out[r]) + 1 /\ out'[r][i] = Stored(m, i)
        /\ \A j \in 1 .. Len(out[r]) : out'[r][j] = out[r][j]
    BY <1>0, <2>2 DEF Known
  <2>7. ASSUME ~(before[r] < Fenced(r, m)) PROVE CopyOf(r, k)'
    <3>0. Len(data[k]) \in Nat /\ before[r] \in Nat
      BY <1>0, DataType DEF IInv, Known
    <3>1. ~(before[r] < pend[r])
      BY <1>a, <2>4, <2>7, <3>0
    <3>2. CopyOf(r, k)
      BY <1>0, <2>0, <2>5, <3>1 DEF Known, CopyInv
    <3>3. i \in 0 .. Len(data[k]) /\ before[r] <= seq
      BY <1>a, <2>0, <2>5, <3>0, <3>2 DEF CopyOf
    <3>4. m = k
      BY <2>5, <2>7, <3>3, LoadIsRightOrDoomed
    <3>5. out'[r][i] = data[k][i]
      BY <2>5, <2>6, <3>4 DEF Stored
    <3>6. \A j \in 1 .. Len(out'[r]) : j \in 1 .. Len(out[r]) \/ j = i
      BY <2>0, <2>6
    <3> QED
      BY <1>a, <2>2, <2>6, <3>2, <3>5, <3>6 DEF CopyOf
  <2>8. \A j \in 1 .. Len(data) :
          before[r] = 2 * j => before[r] < Fenced(r, m) \/ CopyOf(r, j)'
    <3> SUFFICES ASSUME NEW j \in 1 .. Len(data), before[r] = 2 * j
                 PROVE  before[r] < Fenced(r, m) \/ CopyOf(r, j)'
      OBVIOUS
    <3>1. j = k
      BY <1>a, <2>5
    <3> QED
      BY <2>7, <3>1
  <2>9. CopyInv(r)'
    <3>1. Len(out'[r]) <= size'[r] /\ size'[r] <= Capacity
      BY <2>0, <2>2, <2>6
    <3> QED
      BY <1>a, <2>2, <2>5, <2>8, <3>1 DEF CopyInv
  <2>10. GotInv(r)'
    BY <1>0, <1>a, <2>2 DEF Known, GotInv
  <2> QED
    BY <1>a, <2>2, <2>4, <2>9, <2>10
<1>5. CASE CheckSeq(r)
  <2>1. PICK s \in MaxOf(view[r], pend[r]) .. seq :
          /\ view' = [view EXCEPT ![r] = s]
          /\ \/ /\ s = before[r]
                /\ got' = [got EXCEPT ![r] = [k |-> before[r] \div 2, value |-> out[r]]]
                /\ pc' = [pc EXCEPT ![r] = "idle"]
             \/ Retry(r) /\ UNCHANGED got
    BY <1>5 DEF CheckSeq, Unmoved
  <2>2. /\ s \in view[r] .. seq /\ pend[r] <= s /\ view'[r] = s
        /\ pend' = pend /\ pc[r] = "copy" /\ Len(out[r]) = size[r]
        /\ view'[r] \in view[r] .. seq
    <3>1. s \in view[r] .. seq /\ pend[r] <= s
      BY <1>a, <2>1 DEF MaxOf
    <3>2. view'[r] = s
      BY <1>0, <2>1 DEF TypeOK
    <3> QED
      BY <1>5, <3>1, <3>2 DEF CheckSeq, Unmoved
  <2>3. CASE Retry(r) /\ UNCHANGED got
    <3>1. pc'[r] \notin {"size", "copy"}
      BY <1>0, <2>3 DEF Retry, TypeOK
    <3> QED
      BY <1>0, <2>2, <2>3, <3>1, NotCopying
  <2>4. CASE /\ s = before[r]
             /\ got' = [got EXCEPT ![r] = [k |-> before[r] \div 2, value |-> out[r]]]
             /\ pc' = [pc EXCEPT ![r] = "idle"]
    <3>1. PICK k \in 1 .. Len(data) : before[r] = 2 * k
      BY <1>0, <2>2 DEF Known, CopyInv
    <3>2. CheckedCopy(r, k)
      BY <1>a, <2>2, <2>4, <3>1, CopyIsWhole
    <3>3. /\ pc'[r] = "idle" /\ got'[r].k = k /\ got'[r].value = data[k]
      <4>1. got'[r] = [k |-> before[r] \div 2, value |-> out[r]]
        BY <1>0, <2>4 DEF TypeOK
      <4>2. pc'[r] = "idle"
        BY <1>0, <2>4 DEF TypeOK
      <4> QED
        BY <3>2, <4>1, <4>2 DEF CheckedCopy
    <3>4. CopyInv(r)'
      BY <3>3 DEF CopyInv
    <3>5. GotInv(r)'
      BY <1>a, <2>2, <2>4, <3>1, <3>3 DEF GotInv
    <3> QED
      BY <1>a, <2>2, <3>4, <3>5
  <2> QED
    BY <2>1, <2>3, <2>4
<1> QED
  BY <1>1, <1>2, <1>3, <1>4, <1>5 DEF Read

LEMMA NextInv == IInv /\ [Next]_vars => IInv'
<1> SUFFICES ASSUME IInv, [Next]_vars PROVE IInv'
  OBVIOUS
<1>1. CASE Write
  BY <1>1, WriterType, WriterSteps, WriterLeavesReaders DEF IInv
<1>2. ASSUME NEW r \in Readers, ReadBegin(r) \/ Read(r) PROVE IInv'
  <2>1. TypeOK' /\ UNCHANGED writer
    BY <1>2, ReaderType
  <2>2. WriterInv'
    BY <2>1 DEF IInv, WriterInv, writer
  <2>3. ReaderInv'
    BY <1>2, OwnSteps, OtherReader DEF ReaderInv
  <2> QED
    BY <2>1, <2>2, <2>3 DEF IInv
<1>3. CASE UNCHANGED vars
  BY <1>3 DEF vars, writer, reader, IInv, TypeOK, WriterInv, ReaderInv, CopyInv,
              CopyOf, GotInv
<1> QED
  BY <1>1, <1>2, <1>3 DEF Next

-----------------------------------------------------------------------------
\* The inductive invariant holds in every state.
THEOREM Invariance == Spec => []IInv
  BY InitInv, NextInv, PTL DEF Spec

\* Every variable of SeqLock keeps its type.
THEOREM TypeCorrect == Spec => []TypeOK
<1>1. IInv => TypeOK
  BY DEF IInv
<1> QED
  BY <1>1, Invariance, PTL

\* No successful Read of SeqLock::Read returns anything but a whole value that
\* one call of SeqLock::Write was given.
THEOREM NeverTorn == Spec => []NoTornRead
<1>1. IInv => NoTornRead
  BY DEF IInv, ReaderInv, GotInv, NoTornRead
<1> QED
  BY <1>1, Invariance, PTL

-----------------------------------------------------------------------------
(* Refinement: a Write publishes when it makes m_seq even, a Read delivers *)
(* when its second load of m_seq finds the first one's value.              *)

Published == SubSeq(data, 1, seq \div 2)

LEMMA PrefixOfAppend ==
  ASSUME NEW S, NEW s \in Seq(S), NEW p \in S, NEW n \in Nat, n <= Len(s)
  PROVE  SubSeq(Append(s, p), 1, n) = SubSeq(s, 1, n)
<1> DEFINE a == Append(s, p)
           t == SubSeq(a, 1, n)
           u == SubSeq(s, 1, n)
<1>1. /\ a \in Seq(S) /\ Len(a) = Len(s) + 1 /\ n <= Len(a)
      /\ \A i \in 1 .. n : a[i] = s[i]
  OBVIOUS
<1> HIDE DEF a
<1>2. t \in Seq(S) /\ Len(t) = n /\ \A i \in 1 .. n : t[i] = a[i]
  BY <1>1
<1>3. u \in Seq(S) /\ Len(u) = n /\ \A i \in 1 .. n : u[i] = s[i]
  OBVIOUS
<1> HIDE DEF t, u
<1>4. t = u
  BY <1>1, <1>2, <1>3
<1> QED
  BY <1>4 DEF a, t, u

LEMMA AppendToPrefix ==
  ASSUME NEW S, NEW s \in Seq(S), Len(s) > 0
  PROVE  SubSeq(s, 1, Len(s)) = Append(SubSeq(s, 1, Len(s) - 1), s[Len(s)])
<1> DEFINE t == SubSeq(s, 1, Len(s) - 1)
           u == Append(t, s[Len(s)])
           v == SubSeq(s, 1, Len(s))
<1>0. Len(s) \in Nat
  OBVIOUS
<1>1. t \in Seq(S) /\ Len(t) = Len(s) - 1 /\ \A i \in 1 .. Len(s) - 1 : t[i] = s[i]
  <2> DEFINE n == Len(s) - 1
  <2>1. n \in Nat /\ n <= Len(s)
    BY <1>0
  <2> HIDE DEF n
  <2>2. LET w == SubSeq(s, 1, n)
        IN w \in Seq(S) /\ Len(w) = n /\ \A i \in 1 .. n : w[i] = s[i]
    BY <2>1
  <2> QED
    BY <2>2 DEF n
<1>2. v \in Seq(S) /\ Len(v) = Len(s) /\ \A i \in 1 .. Len(s) : v[i] = s[i]
  OBVIOUS
<1> HIDE DEF t, v
<1>3. u \in Seq(S) /\ Len(u) = Len(s) /\ \A i \in 1 .. Len(s) : u[i] = s[i]
  BY <1>1
<1> HIDE DEF u
<1>4. u = v
  BY <1>2, <1>3
<1> QED
  BY <1>4 DEF t, u, v

\* What is published: every value but one still being written.
LEMMA PublishedIs ==
  ASSUME IInv
  PROVE  /\ seq \div 2 \in Nat /\ seq \div 2 <= Len(data)
         /\ Published \in Seq(Payloads) /\ Len(Published) = seq \div 2
         /\ \A k \in 1 .. seq \div 2 : Published[k] = data[k]
<1>1. seq \in Nat /\ Len(data) \in Nat /\ data \in Seq(Payloads)
  BY DataType DEF IInv, TypeOK
<1>2. seq \div 2 \in Nat
  BY <1>1
<1>3. seq <= 2 * Len(data)
  BY <1>1 DEF IInv, WriterInv
<1>4. seq \div 2 <= Len(data)
  BY <1>1, <1>3
<1>5. 1 \in 1 .. Len(data) + 1 /\ seq \div 2 \in 0 .. Len(data)
  BY <1>1, <1>2, <1>4
<1>6. /\ Published \in Seq(Payloads) /\ Len(Published) = seq \div 2
      /\ \A k \in 1 .. seq \div 2 : Published[k] = data[k]
  BY <1>1, <1>2, <1>4 DEF Published
<1> QED
  BY <1>2, <1>4, <1>6

LEMMA RefinesInit == Init => Atomic!Init
  BY DEF Init, Atomic!Init

LEMMA RefinesNext ==
  ASSUME IInv, IInv', Next PROVE [Atomic!Next]_<<Published, got>>
<1>0. /\ seq \in Nat /\ Len(data) \in Nat /\ data \in Seq(Payloads)
      /\ got \in [Readers -> [k : Nat, value : Seq(Word)]]
  BY DataType DEF IInv, TypeOK
<1>1. ASSUME NEW p \in Payloads, WriteBegin(p) PROVE UNCHANGED <<Published, got>>
  <2>1. /\ seq % 2 = 0 /\ seq' = seq + 1 /\ data' = Append(data, p) /\ got' = got
    BY <1>1 DEF WriteBegin, reader
  <2>2. seq' \div 2 = seq \div 2
    BY <1>0, <2>1
  <2>4. Published' = Published
    BY <1>0, <2>1, <2>2, PublishedIs, PrefixOfAppend DEF Published
  <2> QED
    BY <2>1, <2>4
<1>2. CASE WriteStore
  BY <1>2 DEF WriteStore, reader, Published
<1>3. CASE WriteEnd
  <2>1. /\ seq % 2 = 1 /\ seq = 2 * Len(data) - 1 /\ seq' = seq + 1
        /\ data' = data /\ got' = got /\ Len(data) > 0
    BY <1>0, <1>3 DEF WriteEnd, reader, IInv, WriterInv
  <2>2. seq \div 2 = Len(data) - 1 /\ seq' \div 2 = Len(data)
    BY <1>0, <2>1
  <2>3. data[Len(data)] \in Payloads
    BY <1>0, <2>1
  <2>4. Published' = Append(Published, data[Len(data)])
    BY <1>0, <2>1, <2>2, AppendToPrefix DEF Published
  <2> QED
    BY <2>1, <2>3, <2>4 DEF Atomic!Next, Atomic!Publish, Published
<1>4. ASSUME NEW r \in Readers, ReadBegin(r) \/ LoadSeq(r) \/ LoadSize(r) \/ LoadWord(r)
      PROVE  UNCHANGED <<Published, got>>
  BY <1>4 DEF ReadBegin, LoadSeq, LoadSize, LoadWord, writer, Published
<1>5. ASSUME NEW r \in Readers, CheckSeq(r)
      PROVE  UNCHANGED <<Published, got>> \/ Atomic!Deliver(r)
  <2>1. Published' = Published
    BY <1>5 DEF CheckSeq, Unmoved, writer, Published
  <2>2. CASE got' = got
    BY <2>1, <2>2
  <2>3. CASE got' # got
    <3>0. /\ pc[r] = "copy" /\ Len(out[r]) = size[r] /\ before[r] \in Nat
          /\ view[r] \in Nat /\ pend[r] \in Nat /\ got[r].k \in Nat
          /\ 2 * got[r].k <= view[r]
      BY <1>5, KnownHolds DEF CheckSeq, Unmoved, Known, GotInv
    <3>1. /\ before[r] \in MaxOf(view[r], pend[r]) .. seq
          /\ got' = [got EXCEPT ![r] = [k |-> before[r] \div 2, value |-> out[r]]]
      BY <1>5, <2>3 DEF CheckSeq, Unmoved
    <3>2. view[r] <= before[r] /\ pend[r] <= before[r] /\ before[r] <= seq
      BY <1>0, <3>0, <3>1 DEF MaxOf
    <3>3. PICK k \in 1 .. Len(data) : before[r] = 2 * k
      BY <3>0, KnownHolds DEF Known, CopyInv
    <3>4. before[r] \div 2 = k /\ out[r] = data[k]
      BY <3>0, <3>2, <3>3, CopyIsWhole DEF CheckedCopy
    <3>5. k \in 1 .. seq \div 2 /\ got[r].k <= k
      BY <1>0, <3>0, <3>2, <3>3
    <3>6. k \in 1 .. Len(Published) /\ Published[k] = data[k]
      BY <3>5, PublishedIs
    <3>7. got' = [got EXCEPT ![r] = [k |-> k, value |-> Published[k]]]
      BY <3>1, <3>4, <3>6
    <3> QED
      BY <2>1, <3>5, <3>6, <3>7 DEF Atomic!Deliver, Published
  <2> QED
    BY <2>2, <2>3
<1>6. CASE Write
  BY <1>1, <1>2, <1>3, <1>6 DEF Write
<1>7. ASSUME NEW r \in Readers, ReadBegin(r) \/ Read(r)
      PROVE  [Atomic!Next]_<<Published, got>>
  BY <1>4, <1>5, <1>7 DEF Read, Atomic!Next
<1> QED
  BY <1>6, <1>7 DEF Next

\* SeqLock implements AtomicPublish: to its users a Write is one step, and so
\* is a Read that succeeds.
THEOREM Refinement == Spec => ImplementsAtomic
<1>1. IInv /\ IInv' /\ [Next]_vars => [Atomic!Next]_<<Published, got>>
  BY RefinesNext DEF vars, writer, reader, Published
<1> QED
  BY <1>1, Invariance, RefinesInit, PTL DEF Spec, ImplementsAtomic, Atomic!Spec, Published

-----------------------------------------------------------------------------
(* Overlay.                                                                *)

-----------------------------------------------------------------------------
(* Sequences whose elements have no type of their own.                     *)

IsSeq(s) == s \in Seq({s[i] : i \in 1 .. Len(s)})

\* A sequence over any set is one over the set of its elements.
LEMMA OwnRange == ASSUME NEW S, NEW s \in Seq(S) PROVE IsSeq(s)
  BY DEF IsSeq

\* Appending keeps the first element and ends in the new one.
LEMMA AppendFacts ==
  ASSUME NEW s, IsSeq(s), NEW x
  PROVE  /\ IsSeq(Append(s, x)) /\ Len(Append(s, x)) = Len(s) + 1 /\ Len(s) \in Nat
         /\ Append(s, x)[Len(Append(s, x))] = x
         /\ \A i \in 1 .. Len(s) : Append(s, x)[i] = s[i]
         /\ Len(s) > 0 => Head(Append(s, x)) = Head(s)
<1> DEFINE S == {s[i] : i \in 1 .. Len(s)} \cup {x}
<1>1. s \in Seq(S)
  BY DEF IsSeq
<1> HIDE DEF S
<1>2. x \in S
  BY DEF S
<1>3. Append(s, x) \in Seq(S)
  BY <1>1, <1>2
<1>4. IsSeq(Append(s, x))
  BY <1>3, OwnRange
<1> QED
  BY <1>1, <1>2, <1>4

\* What is left of a sequence from its k-th element on.
LEMMA SuffixFacts ==
  ASSUME NEW s, IsSeq(s), NEW k \in 1 .. Len(s)
  PROVE  LET t == SubSeq(s, k, Len(s)) IN
         /\ IsSeq(t) /\ Len(t) = Len(s) - k + 1 /\ Len(s) \in Nat
         /\ Len(t) > 0 /\ Head(t) = s[k] /\ t[Len(t)] = s[Len(s)]
<1> DEFINE S == {s[i] : i \in 1 .. Len(s)}
           t == SubSeq(s, k, Len(s))
<1>1. s \in Seq(S)
  BY DEF IsSeq
<1> HIDE DEF S
<1>2. t \in Seq(S) /\ Len(t) = Len(s) - k + 1 /\ Len(s) \in Nat
  BY <1>1
<1>3. IsSeq(t)
  BY <1>2, OwnRange
<1>4. \A i \in 1 .. Len(t) : t[i] = s[k + i - 1]
  BY <1>1, <1>2
<1>5. Len(t) > 0 /\ Head(t) = t[1] /\ t[1] = s[k] /\ t[Len(t)] = s[Len(s)]
  BY <1>2, <1>4
<1> QED
  BY <1>2, <1>3, <1>5

-----------------------------------------------------------------------------
(* The inductive invariant.                                                *)

\* The operations that may wait.
ApiOps == [kind : {"upload"}, by : {"api"}, payload : Bitmaps, n : Nat] \cup
          [kind : {"control"}, by : {"api"}, enable : BOOLEAN, ms : Nat, at : Nat, n : Nat]

TypeInv ==
  /\ now \in Nat /\ posted \in Nat /\ applied \in Nat
  /\ pending \in Seq(ApiOps)
  /\ IsSeq(window) /\ Len(window) > 0

\* The override: its fields, and what they say of its composite.
EntryInv ==
  /\ entry = [live |-> entry.live, servedDark |-> entry.servedDark, out |-> entry.out,
              srcFrameId |-> entry.srcFrameId, outFrameId |-> entry.outFrameId,
              lastComposited |-> entry.lastComposited, platform |-> entry.platform]
  /\ entry.live \in BOOLEAN /\ entry.servedDark \in BOOLEAN
  /\ entry.lastComposited \in BOOLEAN /\ entry.outFrameId \in Nat
  /\ entry.lastComposited =>
       entry.out = Composite(entry.srcFrameId, Head(window), entry.platform)
  /\ entry.servedDark => ~entry.live

\* The consumers: none is ahead of the override, and one that has its newest
\* id has the composite, or the dark buffer, that id stands for.
ConsumerInv ==
  /\ shown = [c \in Consumers |-> [id |-> shown[c].id, content |-> shown[c].content]]
  /\ \A c \in Consumers :
       /\ shown[c].id \in Int /\ shown[c].id <= entry.outFrameId
       /\ shown[c].id = entry.outFrameId =>
            /\ entry.live /\ entry.lastComposited => shown[c].content = entry.out
            /\ entry.servedDark => shown[c].content = Blank

ServedInv == LitIsShown /\ DarkIsShown

\* The newest record is the state, also while the worker has the mutex and has
\* not changed the state yet.
NewestInv == window[Len(window)] = Record(state)

OverlayIInv == /\ TypeInv /\ ArrivalOrder /\ NewestInv
        /\ EntryInv /\ ConsumerInv /\ ServedInv

-----------------------------------------------------------------------------
(* The operations of the API thread.                                       *)

\* The operations offered to Post, and their number.
LEMMA OfferedOps ==
  ASSUME OverlayAssumption, TypeInv, NEW op \in OfApi
  PROVE  op \in ApiOps /\ op.n = posted + 1
<1>1. now \in Nat /\ posted \in Nat /\ Durations \subseteq Nat
  BY DEF TypeInv, OverlayAssumption
<1>2. CASE op \in Uploads("api", Bitmaps, posted + 1)
  BY <1>1, <1>2 DEF ApiOps, Uploads
<1>3. CASE op \in Shows("api", now, posted + 1)
  <2>1. /\ op = [kind |-> op.kind, by |-> op.by, enable |-> op.enable, ms |-> op.ms,
                 at |-> op.at, n |-> op.n]
        /\ op.kind = "control" /\ op.by = "api" /\ op.enable = TRUE /\ op.ms \in Durations
        /\ op.at = now /\ op.n = posted + 1
    BY <1>3 DEF Shows
  <2>4. op.enable \in BOOLEAN
    BY <1>3, Zenon DEF Shows
  <2>2. op.enable \in BOOLEAN /\ op.ms \in Nat /\ op.at \in Nat /\ op.n \in Nat
    BY <1>1, <2>1, <2>4
  <2>3. op \in [kind : {"control"}, by : {"api"}, enable : BOOLEAN, ms : Nat, at : Nat, n : Nat]
    BY <2>1, <2>2
  <2> QED
    BY <2>1, <2>3 DEF ApiOps
<1>4. CASE op = Hide("api", now, posted + 1)
  BY <1>1, <1>4 DEF ApiOps, Hide
<1> QED
  BY <1>2, <1>3, <1>4 DEF OfApi

\* The newest record is the state after a Publish of it.
LEMMA PublishFacts ==
  ASSUME TypeInv, Publish(state')
  PROVE  /\ IsSeq(window') /\ Len(window') > 0 /\ Head(window') = Head(window)
         /\ window'[Len(window')] = Record(state')
<1> DEFINE r == Record(state')
<1>1. window' = Append(window, r)
  BY DEF Publish
<1> HIDE DEF r
<1>2. IsSeq(window) /\ Len(window) > 0
  BY DEF TypeInv
<1>3. /\ IsSeq(Append(window, r)) /\ Len(Append(window, r)) = Len(window) + 1
      /\ Len(window) \in Nat /\ Append(window, r)[Len(Append(window, r))] = r
      /\ Head(Append(window, r)) = Head(window)
  BY <1>2, AppendFacts
<1> QED
  BY <1>1, <1>3 DEF r

\* The parts about the override and its consumers do not see a step that leaves
\* those alone and keeps the copy of the record.
LEMMA RenderUntouched ==
  ASSUME EntryInv, ConsumerInv, ServedInv, UNCHANGED render, Head(window') = Head(window)
  PROVE  EntryInv' /\ ConsumerInv' /\ ServedInv'
  BY DEF EntryInv, ConsumerInv, ServedInv, LitIsShown, DarkIsShown, render, Composite, Blank

\* The cache's parts after a Post.
LEMMA PostPreserves ==
  ASSUME OverlayAssumption, OverlayIInv, NEW op \in OfApi, Post(op)
  PROVE  OverlayIInv'
<1>1. op \in ApiOps /\ op.n = posted + 1
  BY OfferedOps DEF OverlayIInv
<1> USE DEF OverlayIInv
<1>2. CASE Tries /\ Publish(state') /\ applied' = op.n /\ UNCHANGED pending
  <2>1. IsSeq(window') /\ Len(window') > 0 /\ Head(window') = Head(window) /\ NewestInv'
    BY <1>2, PublishFacts DEF NewestInv
  <2>2. TypeInv' /\ ArrivalOrder'
    BY <1>1, <1>2, <2>1 DEF TypeInv, ArrivalOrder, Tries, Post
  <2>3. UNCHANGED render
    BY DEF Post
  <2> QED
    BY <2>1, <2>2, <2>3, RenderUntouched
<1>3. CASE HasRoom /\ pending' = Append(pending, op) /\ UNCHANGED <<state, window, applied>>
  <2>1. TypeInv' /\ ArrivalOrder'
    <3>1. /\ pending' \in Seq(ApiOps) /\ Len(pending') = Len(pending) + 1
          /\ \A i \in 1 .. Len(pending) : pending'[i] = pending[i]
          /\ pending'[Len(pending) + 1] = op
      BY <1>1, <1>3 DEF TypeInv
    <3>2. posted' = posted + 1 /\ UNCHANGED <<now, window, applied>>
      BY <1>3 DEF Post
    <3>3. TypeInv'
      BY <3>1, <3>2 DEF TypeInv
    <3>0. /\ Len(pending) \in Nat /\ applied \in Nat /\ posted \in Nat
          /\ applied + Len(pending) = posted
      BY DEF TypeInv, ArrivalOrder
    <3>4. applied' + Len(pending') = posted'
      <4>1. applied' = applied /\ posted' = posted + 1
        BY <3>2
      <4>2. Len(pending') = Len(pending) + 1
        BY <3>1
      <4> QED
        BY <3>0, <4>1, <4>2
    <3>6. Len(pending') <= PENDING_LIMIT
      BY <1>3, <3>0, <3>1 DEF HasRoom, OverlayAssumption
    <3>5. ASSUME NEW i \in DOMAIN pending' PROVE pending'[i].n = applied' + i
      <4>1. i \in 1 .. Len(pending) \/ i = Len(pending) + 1
        BY <3>1 DEF TypeInv
      <4>2. CASE i \in 1 .. Len(pending)
        <5>1. i \in DOMAIN pending /\ pending'[i] = pending[i]
          BY <3>1, <4>2 DEF TypeInv
        <5> QED
          BY <3>2, <5>1 DEF ArrivalOrder
      <4>3. CASE i = Len(pending) + 1
        <5>1. pending'[i] = op
          BY <3>1, <4>3
        <5>2. op.n = applied' + i
          BY <1>1, <3>0, <3>2, <4>3
        <5> QED
          BY <5>1, <5>2
      <4> QED
        BY <4>1, <4>2, <4>3
    <3> QED
      BY <3>3, <3>4, <3>5, <3>6 DEF ArrivalOrder
  <2>2. NewestInv' /\ Head(window') = Head(window) /\ UNCHANGED render
    BY <1>3 DEF NewestInv, Post
  <2> QED
    BY <2>1, <2>2, RenderUntouched
<1> QED
  BY <1>2, <1>3 DEF Post

\* The cache's parts after a drain.
LEMMA DrainPreserves ==
  ASSUME OverlayAssumption, OverlayIInv, DrainPending, UNCHANGED <<now, holder, posted, render>>
  PROVE  OverlayIInv'
<1> USE DEF OverlayIInv
<1>1. CASE pending # <<>> /\ holder = Nobody
  <2>1. Publish(state') /\ applied' = pending[Len(pending)].n /\ pending' = <<>>
    BY <1>1 DEF DrainPending
  <2>2. IsSeq(window') /\ Len(window') > 0 /\ Head(window') = Head(window) /\ NewestInv'
    BY <2>1, PublishFacts DEF NewestInv
  <2>3. Len(pending) \in 1 .. Len(pending) /\ DOMAIN pending = 1 .. Len(pending)
    BY <1>1 DEF TypeInv
  <2>4. applied' = posted
    BY <2>1, <2>3 DEF ArrivalOrder, TypeInv
  <2>5. TypeInv' /\ ArrivalOrder'
    BY <2>1, <2>2, <2>4 DEF TypeInv, ArrivalOrder, OverlayAssumption
  <2> QED
    BY <2>2, <2>5, RenderUntouched
<1>2. CASE ~(pending # <<>> /\ holder = Nobody)
  <2>1. UNCHANGED <<state, window, applied, pending>>
    BY <1>2 DEF DrainPending
  <2> QED
    BY <2>1, RenderUntouched DEF TypeInv, ArrivalOrder, NewestInv
<1> QED
  BY <1>1, <1>2

\* The cache's parts after the worker's operation.
LEMMA WorkerPreserves ==
  ASSUME OverlayAssumption, OverlayIInv, WorkerApplies
  PROVE  OverlayIInv'
<1> USE DEF OverlayIInv
<1>1. TypeInv /\ UNCHANGED <<now, pending, posted, applied, render>>
  BY DEF WorkerApplies
<1>2. CASE Publish(state')
  <2>1. IsSeq(window') /\ Len(window') > 0 /\ Head(window') = Head(window) /\ NewestInv'
    BY <1>2, PublishFacts DEF NewestInv
  <2> QED
    BY <1>1, <2>1, RenderUntouched DEF TypeInv, ArrivalOrder
<1>3. CASE holder.kind = "upload" /\ holder.payload \in Unfit /\ window' = window
  \* An upload that is ignored leaves the state, and so the newest record, alone.
  <2>1. state' = state
    BY <1>3 DEF WorkerApplies, Apply, Store, OverlayAssumption
  <2> QED
    BY <1>1, <1>3, <2>1, RenderUntouched DEF TypeInv, ArrivalOrder, NewestInv
<1> QED
  BY <1>2, <1>3 DEF WorkerApplies

-----------------------------------------------------------------------------
(* The override.                                                           *)

\* Serving c leaves every other consumer alone, and gives c the content unless
\* it has the id.
LEMMA ServeFacts ==
  ASSUME ConsumerInv, NEW c \in Consumers, NEW kind, NEW want, NEW id, NEW content,
         Serve(c, kind, want, id, content)
  PROVE  /\ shown' = [d \in Consumers |-> [id |-> shown'[d].id, content |-> shown'[d].content]]
         /\ \A d \in Consumers \ {c} : shown'[d] = shown[d]
         /\ shown'[c].id = id
         /\ shown'[c].content = (IF shown[c].id = id THEN shown[c].content ELSE content)
         /\ last'.kind = kind /\ last'.to = c /\ last'.want = want
  BY DEF ConsumerInv, Serve

\* A call of an override that is not live.
LEMMA DarkPreserves ==
  ASSUME EntryInv, ConsumerInv, NEW c \in Consumers, RenderDark(c)
  PROVE  EntryInv' /\ ConsumerInv' /\ ServedInv'
<1> DEFINE id == entry'.outFrameId
<1>1. /\ entry' = Darkened(entry) /\ window' = window /\ ~entry.live
      /\ Serve(c, "dark", Blank, id, Blank)
  BY DEF RenderDark
<1>2. /\ EntryInv' /\ entry'.servedDark /\ ~entry'.live
      /\ id = (IF entry.servedDark THEN entry.outFrameId ELSE entry.outFrameId + 1)
  <2>1. CASE entry.servedDark
    BY <1>1, <2>1 DEF EntryInv, Darkened, Composite
  <2>2. CASE ~entry.servedDark
    <3>1. entry' = [entry EXCEPT !.servedDark = TRUE, !.outFrameId = entry.outFrameId + 1]
      BY <1>1, <2>2 DEF Darkened
    <3>2. entry' = [live |-> entry.live, servedDark |-> TRUE, out |-> entry.out,
                    srcFrameId |-> entry.srcFrameId, outFrameId |-> entry.outFrameId + 1,
                    lastComposited |-> entry.lastComposited, platform |-> entry.platform]
      BY <3>1 DEF EntryInv
    <3> QED
      BY <1>1, <2>2, <3>2 DEF EntryInv, Composite
  <2> QED
    BY <2>1, <2>2 DEF EntryInv
<1>3. /\ shown' = [d \in Consumers |-> [id |-> shown'[d].id, content |-> shown'[d].content]]
      /\ \A d \in Consumers \ {c} : shown'[d] = shown[d]
      /\ shown'[c].id = id
      /\ shown'[c].content = (IF shown[c].id = id THEN shown[c].content ELSE Blank)
      /\ last'.kind = "dark" /\ last'.to = c /\ last'.want = Blank
  BY <1>1, ServeFacts
<1>4. shown'[c].content = Blank
  BY <1>2, <1>3 DEF ConsumerInv, EntryInv
<1>5. ConsumerInv'
  BY <1>2, <1>3, <1>4 DEF ConsumerInv, EntryInv
<1>6. ServedInv'
  BY <1>3, <1>4 DEF ServedInv, LitIsShown, DarkIsShown
<1> QED
  BY <1>2, <1>5, <1>6

\* A call while the target has no frame.
LEMMA NullPreserves ==
  ASSUME EntryInv, ConsumerInv, NEW c \in Consumers, RenderNull(c)
  PROVE  EntryInv' /\ ConsumerInv' /\ ServedInv'
<1>1. /\ entry' = entry /\ window' = window /\ entry.live
      /\ Serve(c, "null", Blank, entry.outFrameId, entry.out)
  BY DEF RenderNull
<1>2. EntryInv'
  BY <1>1 DEF EntryInv, Composite
<1>3. /\ shown' = [d \in Consumers |-> [id |-> shown'[d].id, content |-> shown'[d].content]]
      /\ \A d \in Consumers \ {c} : shown'[d] = shown[d]
      /\ shown'[c].id = entry.outFrameId
      /\ shown'[c].content = (IF shown[c].id = entry.outFrameId THEN shown[c].content ELSE entry.out)
      /\ last'.kind = "null" /\ last'.to = c
  BY <1>1, ServeFacts
<1>4. ConsumerInv'
  BY <1>1, <1>3 DEF ConsumerInv, EntryInv
<1>5. ServedInv'
  BY <1>3 DEF ServedInv, LitIsShown, DarkIsShown
<1> QED
  BY <1>2, <1>4, <1>5

\* What is left of the window: the copy is new exactly when it changed.
LEMMA WindowFacts ==
  ASSUME TypeInv, NEW c, RenderLive(c)
  PROVE  /\ IsSeq(window') /\ Len(window') > 0
         /\ window'[Len(window')] = window[Len(window)]
         /\ ~(Len(window') < Len(window)) => Head(window') = Head(window)
<1>1. PICK k \in 1 .. Len(window) : window' = SubSeq(window, k, Len(window))
  BY DEF RenderLive
<1>2. IsSeq(window)
  BY DEF TypeInv
<1> DEFINE t == SubSeq(window, k, Len(window))
<1>3. /\ IsSeq(t) /\ Len(t) = Len(window) - k + 1 /\ Len(window) \in Nat
      /\ Len(t) > 0 /\ Head(t) = window[k] /\ t[Len(t)] = window[Len(window)]
  BY <1>2, SuffixFacts
<1>4. ~(Len(t) < Len(window)) => k = 1
  BY <1>3
<1>5. Head(window) = window[1]
  BY <1>2, <1>3 DEF IsSeq
<1> QED
  BY <1>1, <1>3, <1>4, <1>5

\* The entry after it was brought up to date, field by field.
LEMMA RefreshedFacts ==
  ASSUME EntryInv, NEW changed \in BOOLEAN
  PROVE  LET e == Refreshed(entry, changed) IN
         /\ e = [live |-> entry.live, servedDark |-> entry.servedDark, out |-> entry.out,
                 srcFrameId |-> entry.srcFrameId, outFrameId |-> entry.outFrameId,
                 lastComposited |-> (entry.lastComposited /\ ~changed /\ entry.platform = platform),
                 platform |-> platform]
<1> DEFINE b == entry.lastComposited /\ ~changed /\ entry.platform = platform
           d == [entry EXCEPT !.lastComposited = b]
<1>1. Refreshed(entry, changed) = [d EXCEPT !.platform = platform]
  BY DEF Refreshed
<1>2. d = [live |-> entry.live, servedDark |-> entry.servedDark, out |-> entry.out,
           srcFrameId |-> entry.srcFrameId, outFrameId |-> entry.outFrameId,
           lastComposited |-> b, platform |-> entry.platform]
  BY DEF EntryInv
<1> HIDE DEF d
<1> QED
  BY <1>1, <1>2

\* A call that composites, or serves the composite again.
LEMMA LitPreserves ==
  ASSUME TypeInv, EntryInv, ConsumerInv, NEW c \in Consumers, RenderLive(c),
         Visible(Head(window'))
  PROVE  EntryInv' /\ ConsumerInv' /\ ServedInv'
<1> DEFINE changed == Len(window') < Len(window)
           rec == Head(window')
           e == Refreshed(entry, changed)
           comp == entry.lastComposited /\ ~changed /\ entry.platform = platform
           want == Composite(src, rec, platform)
           id == entry'.outFrameId
<1>1. /\ entry.live /\ entry' = Composited(e, rec)
      /\ Serve(c, "lit", want, id, entry'.out)
  BY DEF RenderLive
<1>2. changed \in BOOLEAN /\ (~changed => rec = Head(window))
  BY WindowFacts
<1> HIDE DEF changed, rec
<1>3. e = [live |-> entry.live, servedDark |-> entry.servedDark, out |-> entry.out,
           srcFrameId |-> entry.srcFrameId, outFrameId |-> entry.outFrameId,
           lastComposited |-> comp, platform |-> platform]
  BY <1>2, RefreshedFacts
<1> HIDE DEF e
<1>4. /\ entry.live = TRUE /\ ~entry.servedDark /\ entry.outFrameId \in Nat
      /\ comp \in BOOLEAN
  BY <1>1 DEF EntryInv
<1>5. /\ EntryInv' /\ entry'.out = want /\ entry'.lastComposited /\ entry'.live
      /\ ~entry'.servedDark
      /\ \/ comp /\ id = entry.outFrameId /\ entry'.out = entry.out
         \/ id = entry.outFrameId + 1
  <2>1. CASE comp /\ src = entry.srcFrameId
    <3>1. entry' = e
      BY <1>1, <1>3, <2>1 DEF Composited
    <3>2. entry.out = Composite(entry.srcFrameId, Head(window), entry.platform)
      BY <2>1 DEF EntryInv
    <3>3. entry.out = want
      BY <1>2, <2>1, <3>2
    <3> QED
      BY <1>3, <1>4, <2>1, <3>1, <3>3 DEF EntryInv, rec
  <2>2. CASE ~(comp /\ src = entry.srcFrameId)
    <3>1. entry' = [e EXCEPT !.out = Composite(src, rec, e.platform), !.lastComposited = TRUE,
                             !.srcFrameId = src, !.outFrameId = e.outFrameId + 1]
      BY <1>1, <1>3, <2>2 DEF Composited
    <3>2. entry' = [live |-> entry.live, servedDark |-> entry.servedDark, out |-> want,
                    srcFrameId |-> src, outFrameId |-> entry.outFrameId + 1,
                    lastComposited |-> TRUE, platform |-> platform]
      BY <1>3, <3>1
    <3> QED
      BY <1>4, <3>2 DEF EntryInv, rec
  <2> QED
    BY <2>1, <2>2
<1>6. /\ shown' = [d \in Consumers |-> [id |-> shown'[d].id, content |-> shown'[d].content]]
      /\ \A d \in Consumers \ {c} : shown'[d] = shown[d]
      /\ shown'[c].id = id
      /\ shown'[c].content = (IF shown[c].id = id THEN shown[c].content ELSE entry'.out)
      /\ last'.kind = "lit" /\ last'.to = c /\ last'.want = want
  BY <1>1, ServeFacts
<1> HIDE DEF want
<1>7. shown'[c].content = entry'.out
  BY <1>4, <1>5, <1>6 DEF ConsumerInv
<1>8. ConsumerInv'
  BY <1>4, <1>5, <1>6, <1>7 DEF ConsumerInv
<1>9. ServedInv'
  BY <1>5, <1>6, <1>7 DEF ServedInv, LitIsShown, DarkIsShown
<1> QED
  BY <1>5, <1>8, <1>9

\* A call that passes the target's frame through.
LEMMA PassedPreserves ==
  ASSUME TypeInv, EntryInv, ConsumerInv, NEW c \in Consumers, RenderLive(c),
         ~Visible(Head(window'))
  PROVE  EntryInv' /\ ConsumerInv' /\ ServedInv'
<1> DEFINE changed == Len(window') < Len(window)
           e == Refreshed(entry, changed)
           comp == entry.lastComposited /\ ~changed /\ entry.platform = platform
           id == entry'.outFrameId
<1>1. /\ entry.live /\ entry' = PassThrough(e)
      /\ Serve(c, "passed", Passed(src), id, Passed(src))
  BY DEF RenderLive
<1>2. changed \in BOOLEAN
  OBVIOUS
<1> HIDE DEF changed
<1>3. e = [live |-> entry.live, servedDark |-> entry.servedDark, out |-> entry.out,
           srcFrameId |-> entry.srcFrameId, outFrameId |-> entry.outFrameId,
           lastComposited |-> comp, platform |-> platform]
  BY <1>2, RefreshedFacts
<1> HIDE DEF e
<1>4. entry.live = TRUE /\ ~entry.servedDark /\ entry.outFrameId \in Nat /\ comp \in BOOLEAN
  BY <1>1 DEF EntryInv
<1>5. PICK n \in {entry.outFrameId, entry.outFrameId + 1} :
        entry' = [live |-> entry.live, servedDark |-> entry.servedDark, out |-> entry.out,
                  srcFrameId |-> src, outFrameId |-> n,
                  lastComposited |-> FALSE, platform |-> platform]
  BY <1>1, <1>3 DEF PassThrough
<1>6. /\ EntryInv' /\ ~entry'.lastComposited /\ ~entry'.servedDark
      /\ id \in Nat /\ id >= entry.outFrameId
  BY <1>4, <1>5 DEF EntryInv
<1>7. /\ shown' = [d \in Consumers |-> [id |-> shown'[d].id, content |-> shown'[d].content]]
      /\ \A d \in Consumers \ {c} : shown'[d] = shown[d]
      /\ shown'[c].id = id
      /\ last'.kind = "passed"
  BY <1>1, ServeFacts
<1>8. ConsumerInv'
  BY <1>4, <1>6, <1>7 DEF ConsumerInv
<1>9. ServedInv'
  BY <1>7 DEF ServedInv, LitIsShown, DarkIsShown
<1> QED
  BY <1>6, <1>8, <1>9

\* A call of GetRenderFrame.
LEMMA RenderPreserves ==
  ASSUME OverlayIInv, NEW c \in Consumers, GetRenderFrame(c)
  PROVE  OverlayIInv'
<1> USE DEF OverlayIInv
<1>1. UNCHANGED <<now, state, pending, posted, applied>>
  BY DEF GetRenderFrame, cache
<1>2. CASE RenderDark(c)
  <2>1. window' = window
    BY <1>2 DEF RenderDark
  <2> QED
    BY <1>1, <1>2, <2>1, DarkPreserves DEF TypeInv, ArrivalOrder, NewestInv
<1>3. CASE RenderNull(c)
  <2>1. window' = window
    BY <1>3 DEF RenderNull
  <2> QED
    BY <1>1, <1>3, <2>1, NullPreserves DEF TypeInv, ArrivalOrder, NewestInv
<1>4. CASE RenderLive(c)
  <2>1. /\ IsSeq(window') /\ Len(window') > 0
        /\ window'[Len(window')] = window[Len(window)]
    BY <1>4, WindowFacts
  <2>2. TypeInv' /\ ArrivalOrder' /\ NewestInv'
    BY <1>1, <2>1 DEF TypeInv, ArrivalOrder, NewestInv
  <2>3. EntryInv' /\ ConsumerInv' /\ ServedInv'
    BY <1>4, LitPreserves, PassedPreserves
  <2> QED
    BY <2>2, <2>3
<1> QED
  BY <1>2, <1>3, <1>4 DEF GetRenderFrame

\* The override stops calling its target, by DarkenStale or Detach.
LEMMA DarkeningPreserves ==
  ASSUME OverlayIInv, entry' = [entry EXCEPT !.live = FALSE],
         UNCHANGED <<now, state, pending, window, posted, applied, src, shown, last>>
  PROVE  OverlayIInv'
<1> USE DEF OverlayIInv
<1>1. entry' = [live |-> FALSE, servedDark |-> entry.servedDark, out |-> entry.out,
                srcFrameId |-> entry.srcFrameId, outFrameId |-> entry.outFrameId,
                lastComposited |-> entry.lastComposited, platform |-> entry.platform]
  BY DEF EntryInv
<1>2. EntryInv'
  BY <1>1 DEF EntryInv, Composite
<1>3. ConsumerInv'
  BY <1>1 DEF ConsumerInv, EntryInv
<1>4. TypeInv' /\ ArrivalOrder' /\ NewestInv' /\ ServedInv'
  BY DEF TypeInv, ArrivalOrder, NewestInv, ServedInv, LitIsShown, DarkIsShown
<1> QED
  BY <1>2, <1>3, <1>4

-----------------------------------------------------------------------------

\* OverlayIInv holds at the start.
LEMMA OverlayInitInv == ASSUME OverlayAssumption, OverlayInit PROVE OverlayIInv
<1>1. TypeInv
  <2>1. window \in Seq({Record(NoOverlay)}) /\ Len(window) = 1
    BY DEF OverlayInit
  <2>2. IsSeq(window)
    BY <2>1, OwnRange
  <2> QED
    BY <2>1, <2>2 DEF OverlayInit, TypeInv
<1>2. ArrivalOrder /\ NewestInv
  BY DEF OverlayInit, ArrivalOrder, NewestInv
<1>3. EntryInv
  BY DEF OverlayInit, EntryInv, NewEntry
<1>4. ConsumerInv
  BY DEF OverlayInit, ConsumerInv, NewEntry
<1>5. ServedInv
  BY DEF OverlayInit, ServedInv, LitIsShown, DarkIsShown
<1> QED
  BY <1>1, <1>2, <1>3, <1>4, <1>5 DEF OverlayIInv

\* Every step keeps OverlayIInv.
LEMMA StepInv == ASSUME OverlayAssumption, OverlayIInv, [OverlayNext]_overlayVars PROVE OverlayIInv'
<1>1. ASSUME UNCHANGED <<state, pending, window, posted, applied, entry, shown, last>>,
             now' \in Nat
      PROVE  OverlayIInv'
  BY <1>1 DEF OverlayIInv, TypeInv, ArrivalOrder, NewestInv, EntryInv, ConsumerInv, ServedInv,
              LitIsShown, DarkIsShown
<1>2. now \in Nat
  BY DEF OverlayIInv, TypeInv
<1>3. CASE Connect \/ Disconnect \/ \E op \in OfDaemon : AnswerOverlay(op)
  BY <1>1, <1>2, <1>3 DEF Connect, Disconnect, AnswerOverlay, cache, render
<1>4. CASE SetController \/ TargetFrame \/ Passes
  BY <1>1, <1>2, <1>4 DEF SetController, TargetFrame, Passes, cache, render
<1>5. CASE WorkerApplies
  BY <1>5, WorkerPreserves
<1>6. CASE \E op \in OfApi : Post(op)
  BY <1>6, PostPreserves
<1>7. CASE OnPrepareFrame \/ DrainSocketLog
  BY <1>7, DrainPreserves DEF OnPrepareFrame, DrainSocketLog, TickDrains
<1>8. CASE DarkenStale \/ Detach
  BY <1>8, DarkeningPreserves DEF DarkenStale, Detach, cache
<1>9. CASE \E c \in Consumers : GetRenderFrame(c)
  BY <1>9, RenderPreserves
<1>10. CASE UNCHANGED overlayVars
  BY <1>1, <1>2, <1>10 DEF overlayVars, cache, render
<1> QED
  BY <1>3, <1>4, <1>5, <1>6, <1>7, <1>8, <1>9, <1>10 DEF OverlayNext

\* OverlayIInv is an invariant: what waits follows on what was applied, the newest record
\* is the state, and a consumer with the override's newest id has the composite,
\* or the dark buffer, of that id.
THEOREM OverlayInvariant == OverlaySpec => []OverlayIInv
<1>1. OverlayAssumption
  BY OverlayAssumption
<1>2. OverlayInit => OverlayIInv
  BY <1>1, OverlayInitInv
<1>3. OverlayIInv /\ [OverlayNext]_overlayVars => OverlayIInv'
  BY <1>1, StepInv
<1> QED
  BY <1>2, <1>3, PTL DEF OverlaySpec

\* The API thread's operations are applied once, in the order in which they came
\* (Cache::Post, Cache::DrainPending).
THEOREM AppliedInOrder == OverlaySpec => []ArrivalOrder
<1>1. OverlayIInv => ArrivalOrder
  BY DEF OverlayIInv
<1> QED
  BY <1>1, OverlayInvariant, PTL

\* With the mutex free the newest record is the state (Cache::Publish), and a
\* consumer that skips ids it has shows the newest composite of a visible overlay
\* and the dark buffer of an override that lost its target
\* (DmdOverlay::GetRenderFrame).
THEOREM ConsumersSeeTheState == OverlaySpec => []ShownTruly
<1>1. OverlayIInv => ShownTruly
  BY DEF OverlayIInv, NewestInv, ServedInv, PublishedIsState, ShownTruly
<1> QED
  BY <1>1, OverlayInvariant, PTL

-----------------------------------------------------------------------------
(* Nothing of the overlay outlives its time.                               *)

\* Induction, over the set of the numbers that have the property.
LEMMA NatSet ==
  ASSUME NEW S, 0 \in S, \A n \in Nat : n \in S => n + 1 \in S,
         NEW x \in Nat
  PROVE  x \in S
<1> SUFFICES ASSUME x \notin S PROVE FALSE
  OBVIOUS
<1> DEFINE T == {n \in 0 .. x : n \notin S}
           f == [n \in T |-> n - 1]
<1>1. IsFiniteSet(T)
  BY FS_Interval, FS_Subset, 0 \in Int, x \in Int
<1>2. x \in T
  OBVIOUS
<1>3. ASSUME NEW n \in T PROVE n \in Nat /\ n - 1 \in T \ {x}
  <2>1. n \in 0 .. x /\ n \notin S /\ n # 0
    OBVIOUS
  <2>2. n - 1 \in Nat /\ n - 1 + 1 = n /\ n - 1 \in 0 .. x /\ n - 1 # x
    BY <2>1
  <2> QED
    BY <2>1, <2>2
<1>4. f \in [T -> T \ {x}]
  BY <1>3
<1>5. \A a, b \in T : f[a] = f[b] => a = b
  BY <1>3
<1>6. IsFiniteSet(T \ {x}) /\ Cardinality(T \ {x}) = Cardinality(T) - 1 /\ Cardinality(T) \in Nat
  BY <1>1, <1>2, FS_RemoveElement, FS_CardinalityType
<1> HIDE DEF T, f
<1>7. \E a, b \in T : a # b /\ f[a] = f[b]
  BY <1>1, <1>4, <1>6, FS_PigeonHole
<1> QED
  BY <1>5, <1>7

\* What ApplyAll computes, one operation after the other, exists.
LEMMA Iterated ==
  ASSUME NEW U, NEW z \in U, NEW m \in Nat, NEW G \in [1 .. m -> [U -> U]]
  PROVE  \E f \in [0 .. m -> U] : f[0] = z /\ \A i \in 1 .. m : f[i] = G[i][f[i - 1]]
<1> DEFINE Goes(f, n) == \A i \in 0 .. n : f[i] = IF i = 0 THEN z ELSE G[i][f[i - 1]]
           S == {n \in Nat : n <= m => \E f \in [0 .. n -> U] : Goes(f, n)}
<1>1. 0 \in S
  <2>1. [i \in 0 .. 0 |-> z] \in [0 .. 0 -> U] /\ Goes([i \in 0 .. 0 |-> z], 0)
    OBVIOUS
  <2> QED
    BY <2>1
<1>2. ASSUME NEW n \in Nat, n \in S PROVE n + 1 \in S
  <2> SUFFICES ASSUME n + 1 <= m PROVE \E f \in [0 .. n + 1 -> U] : Goes(f, n + 1)
    OBVIOUS
  <2>1. PICK f \in [0 .. n -> U] : Goes(f, n)
    BY <1>2
  <2> DEFINE h == [i \in 0 .. n + 1 |-> IF i = n + 1 THEN G[n + 1][f[n]] ELSE f[i]]
  <2>2. G[n + 1][f[n]] \in U
    <3>1. n + 1 \in 1 .. m /\ f[n] \in U
      OBVIOUS
    <3> QED
      BY <3>1
  <2>3. h \in [0 .. n + 1 -> U]
    BY <2>2
  <2>4. ASSUME NEW i \in 0 .. n + 1 PROVE h[i] = IF i = 0 THEN z ELSE G[i][h[i - 1]]
    <3>1. CASE i = n + 1
      <4>1. i # 0 /\ i - 1 = n /\ n \in 0 .. n + 1 /\ n # n + 1
        BY <3>1
      <4>2. h[i - 1] = f[n] /\ h[i] = G[n + 1][f[n]]
        BY <3>1, <4>1
      <4> QED
        BY <3>1, <4>1, <4>2
    <3>2. CASE i # n + 1
      <4>1. i \in 0 .. n /\ h[i] = f[i]
        BY <3>2
      <4>2. i # 0 => i - 1 \in 0 .. n /\ h[i - 1] = f[i - 1]
        BY <4>1
      <4> QED
        BY <2>1, <4>1, <4>2
    <3> QED
      BY <3>1, <3>2
  <2> HIDE DEF h
  <2>5. Goes(h, n + 1)
    BY <2>4
  <2> QED
    BY <2>3, <2>5
<1> HIDE DEF S
<1>3. m \in S
  BY <1>1, <1>2, NatSet
<1>4. PICK f \in [0 .. m -> U] : Goes(f, m)
  BY <1>3 DEF S
<1>5. f[0] = z /\ \A i \in 1 .. m : f[i] = G[i][f[i - 1]]
  BY <1>4
<1> QED
  BY <1>5

\* What every operation keeps, all that wait keep.
LEMMA ApplyAllIn ==
  ASSUME NEW U, NEW st \in U, NEW Ops, NEW ops
  PROVE  (ops \in Seq(Ops) /\ \A x \in U, op \in Ops : Apply(x, op) \in U)
         => ApplyAll(st, ops) \in U
<1>0. ASSUME NEW n \in Nat, NEW g \in [1 .. n -> [U -> U]]
      PROVE  \E f \in [0 .. n -> U] : f[0] = st /\ \A i \in 1 .. n : f[i] = g[i][f[i - 1]]
  BY Iterated
<1> SUFFICES ASSUME ops \in Seq(Ops), \A x \in U, op \in Ops : Apply(x, op) \in U PROVE ApplyAll(st, ops) \in U
  OBVIOUS
<1> DEFINE m == Len(ops)
           G == [i \in 1 .. m |-> [x \in U |-> Apply(x, ops[i])]]
           P(f) == f = [i \in 0 .. Len(ops) |-> IF i = 0 THEN st ELSE Apply(f[i - 1], ops[i])]
           All == CHOOSE f : P(f)
<1>1. m \in Nat /\ \A i \in 1 .. m : ops[i] \in Ops
  OBVIOUS
<1>2. G \in [1 .. m -> [U -> U]]
  BY <1>1
<1>3. PICK f \in [0 .. m -> U] : f[0] = st /\ \A i \in 1 .. m : f[i] = G[i][f[i - 1]]
  <2>1. PICK n \in Nat : n = m
    BY <1>1
  <2>2. PICK g \in [1 .. n -> [U -> U]] : g = G
    BY <1>2, <2>1
  <2> HIDE DEF m, G, P, All
  <2>3. \E f \in [0 .. n -> U] : f[0] = st /\ \A i \in 1 .. n : f[i] = g[i][f[i - 1]]
    BY <1>0
  <2> QED
    BY <2>1, <2>2, <2>3
<1>4. P(f)
  <2>2. ASSUME NEW i \in 0 .. m PROVE f[i] = IF i = 0 THEN st ELSE Apply(f[i - 1], ops[i])
    <3>1. CASE i = 0
      BY <1>3, <3>1
    <3>2. CASE i # 0
      <4>1. i \in 1 .. m /\ i - 1 \in 0 .. m
        BY <1>1, <3>2
      <4>2. f[i - 1] \in U
        BY <4>1
      <4>3. G[i][f[i - 1]] = Apply(f[i - 1], ops[i])
        BY <4>1, <4>2
      <4>4. f[i] = G[i][f[i - 1]]
        BY <1>3, <4>1
      <4> QED
        BY <3>2, <4>3, <4>4
    <3> QED
      BY <3>1, <3>2
  <2>3. f = [i \in 0 .. m |-> f[i]]
    OBVIOUS
  <2> QED
    BY <2>2, <2>3
<1>5. P(All)
  <2> HIDE DEF P
  <2> QED
    BY <1>4
<1>6. ApplyAll(st, ops) = All[m]
  BY DEF ApplyAll
<1>7. \A i \in 0 .. m : All[i] = IF i = 0 THEN st ELSE Apply(All[i - 1], ops[i])
  <2> HIDE DEF All
  <2> QED
    BY <1>5
<1> HIDE DEF All
<1> DEFINE S == {n \in Nat : n <= m => All[n] \in U}
<1>8. 0 \in S
  BY <1>1, <1>7
<1>9. ASSUME NEW n \in Nat, n \in S PROVE n + 1 \in S
  <2> SUFFICES ASSUME n + 1 <= m PROVE All[n + 1] \in U
    OBVIOUS
  <2>1. n + 1 \in 0 .. m /\ n + 1 \in 1 .. m /\ n + 1 # 0 /\ n + 1 - 1 = n /\ All[n] \in U
    BY <1>1, <1>9
  <2>2. All[n + 1] = Apply(All[n], ops[n + 1])
    BY <1>7, <2>1
  <2> QED
    BY <1>1, <2>1, <2>2
<1> HIDE DEF S
<1>10. m \in S
  BY <1>1, <1>8, <1>9, NatSet
<1> QED
  BY <1>1, <1>6, <1>10 DEF S

Parties == {"none", "api", "daemon"}
StateType == [bitmap : Bitmaps \cup {"none"}, enabled : BOOLEAN, untilHidden : BOOLEAN,
              hideAt : Nat, drawnBy : Parties, armedBy : Parties, due : Nat]

\* The states whose show ends when it is due, and those of them without anything of the daemon's.
Punctual == {st \in StateType : st.hideAt = st.due}
OwnState == {st \in Punctual : st.drawnBy # "daemon" /\ st.armedBy # "daemon"}

ClearOp == [kind |-> "clear"]
Ops == ApiOps \cup OfDaemon

\* What is about to be applied is of the session's daemon, or clears the session's end; every
\* record ends when it is due.
TimeInv ==
  /\ holder \in {Nobody, ClearOp} \/ (connected /\ holder \in OfDaemon)
  /\ state \in Punctual /\ DaemonGone
  /\ \A i \in 1 .. Len(window) : window[i].hideAt = window[i].due

LEMMA StoreIs ==
  ASSUME NEW st \in Punctual, NEW op, op.by \in {"api", "daemon"}
  PROVE  /\ Store(st, op) \in Punctual
         /\ op.by = "api" /\ st \in OwnState => Store(st, op) \in OwnState
<1>1. CASE op.payload \in Bitmaps
  <2>1. Store(st, op) = [bitmap |-> op.payload, enabled |-> st.enabled, untilHidden |-> st.untilHidden,
                         hideAt |-> st.hideAt, drawnBy |-> op.by, armedBy |-> st.armedBy, due |-> st.due]
    BY <1>1 DEF Store, Punctual, StateType
  <2>2. op.by \in Parties
    BY DEF Parties
  <2> QED
    BY <1>1, <2>1, <2>2 DEF Punctual, StateType, OwnState
<1>2. CASE op.payload \notin Bitmaps
  BY <1>2 DEF Store
<1> QED
  BY <1>1, <1>2

LEMMA ControlIs ==
  ASSUME now \in Nat, NEW st \in Punctual, NEW op, op.by \in {"api", "daemon"},
         op.enable \in BOOLEAN, op.ms \in Nat, op.at \in Nat
  PROVE  /\ Control(st, op) \in Punctual
         /\ op.by = "api" /\ st \in OwnState => Control(st, op) \in OwnState
<1>1. PICK end \in Nat : end = TimedFrom(op) + op.ms
  BY DEF TimedFrom
<1>2. (IF op.by = "api" THEN op.at + op.ms ELSE now + op.ms) = end
  BY <1>1 DEF TimedFrom
<1>3. PICK u \in BOOLEAN : u = (op.ms = 0)
  OBVIOUS
<1>4. Control(st, op) = [st EXCEPT !.enabled = op.enable, !.armedBy = op.by, !.untilHidden = u,
                                   !.hideAt = end, !.due = end]
  BY <1>1, <1>2, <1>3, Zenon DEF Control
<1>5. st = [bitmap |-> st.bitmap, enabled |-> st.enabled, untilHidden |-> st.untilHidden,
            hideAt |-> st.hideAt, drawnBy |-> st.drawnBy, armedBy |-> st.armedBy, due |-> st.due]
  BY DEF Punctual, StateType
<1>6. Control(st, op) = [bitmap |-> st.bitmap, enabled |-> op.enable, untilHidden |-> u,
                         hideAt |-> end, drawnBy |-> st.drawnBy, armedBy |-> op.by, due |-> end]
  BY <1>4, <1>5
<1>7. op.by \in Parties
  BY DEF Parties
<1> QED
  BY <1>6, <1>7 DEF Punctual, StateType, OwnState

\* The operations, by kind.
LEMMA OpIs ==
  ASSUME OverlayAssumption, NEW op \in Ops
  PROVE  /\ op.by \in {"api", "daemon"}
         /\ op \in ApiOps => op.by = "api"
         /\ \/ op.kind = "upload"
            \/ op.kind = "control" /\ op.enable \in BOOLEAN /\ op.ms \in Nat /\ op.at \in Nat
<1>1. CASE op \in ApiOps
  BY <1>1 DEF ApiOps
<1>2. CASE op \in Uploads("daemon", Bitmaps \cup Unfit, 0)
  BY <1>2 DEF Uploads, ApiOps
<1>3. CASE op \in Shows("daemon", 0, 0)
  <2>1. /\ op.kind = "control" /\ op.by = "daemon" /\ op.enable = TRUE /\ op.ms \in Durations /\ op.at = 0
    BY <1>3 DEF Shows
  <2>2. op.ms \in Nat
    BY <2>1 DEF OverlayAssumption
  <2>3. op \notin ApiOps
    BY <2>1 DEF ApiOps
  <2>4. op.enable \in BOOLEAN
    BY <1>3, Zenon DEF Shows
  <2> QED
    BY <2>1, <2>2, <2>3, <2>4
<1>4. CASE op = Hide("daemon", 0, 0)
  BY <1>4 DEF Hide, ApiOps
<1> QED
  BY <1>1, <1>2, <1>3, <1>4 DEF Ops, OfDaemon

\* Every operation makes a punctual state of one, and one of the API thread brings in nothing of
\* the daemon's.
LEMMA ApplyIs ==
  ASSUME OverlayAssumption, now \in Nat
  PROVE  /\ \A st \in Punctual, op \in Ops : Apply(st, op) \in Punctual
         /\ \A st \in OwnState, op \in ApiOps : Apply(st, op) \in OwnState
<1>1. ASSUME NEW st \in Punctual, NEW op \in Ops
      PROVE  /\ Apply(st, op) \in Punctual
             /\ op \in ApiOps /\ st \in OwnState => Apply(st, op) \in OwnState
  <2>1. CASE op.kind = "upload"
    <3>1. Apply(st, op) = Store(st, op)
      BY <2>1 DEF Apply
    <3> QED
      BY <3>1, OpIs, StoreIs
  <2>2. CASE op.kind = "control"
    <3>1. Apply(st, op) = Control(st, op)
      BY <2>2 DEF Apply
    <3> QED
      BY <2>2, <3>1, OpIs, ControlIs
  <2> QED
    BY <2>1, <2>2, OpIs
<1> QED
  BY <1>1 DEF Ops, OwnState

LEMMA NoOverlayIs == NoOverlay \in OwnState /\ Record(NoOverlay).hideAt = Record(NoOverlay).due
  BY DEF NoOverlay, OwnState, Punctual, StateType, Parties, Record

\* Publishing the record of a punctual state.
LEMMA PublishedInTime ==
  ASSUME TypeInv, TimeInv, state' \in Punctual, Publish(state')
  PROVE  \A i \in 1 .. Len(window') : window'[i].hideAt = window'[i].due
<1>1. PICK r : r = Record(state')
  OBVIOUS
<1>2. r.hideAt = r.due
  BY <1>1 DEF Record, Punctual
<1>3. window' = Append(window, r)
  BY <1>1 DEF Publish
<1>4. IsSeq(window)
  BY DEF TypeInv
<1>5. /\ Len(Append(window, r)) = Len(window) + 1 /\ Len(window) \in Nat
      /\ Append(window, r)[Len(Append(window, r))] = r
      /\ \A i \in 1 .. Len(window) : Append(window, r)[i] = window[i]
  BY <1>4, AppendFacts
<1> QED
  BY <1>2, <1>3, <1>5 DEF TimeInv

LEMMA TimeInit == OverlayInit => TimeInv
<1> SUFFICES ASSUME OverlayInit PROVE TimeInv
  OBVIOUS
<1>1. window = <<Record(NoOverlay)>> /\ state = NoOverlay /\ holder = Nobody
  BY DEF OverlayInit
<1>2. \A i \in 1 .. Len(window) : window[i].hideAt = window[i].due
  BY <1>1, NoOverlayIs
<1>3. DaemonGone /\ state \in Punctual
  BY <1>1, NoOverlayIs DEF DaemonGone, OwnState
<1> QED
  BY <1>1, <1>2, <1>3 DEF TimeInv

LEMMA TimeStep == OverlayIInv /\ TimeInv /\ [OverlayNext]_overlayVars => TimeInv'
<1> SUFFICES ASSUME OverlayIInv, TimeInv, [OverlayNext]_overlayVars PROVE TimeInv'
  OBVIOUS
<1>0. /\ OverlayAssumption /\ TypeInv /\ now \in Nat /\ IsSeq(window) /\ Len(window) \in Nat
  BY OverlayAssumption DEF OverlayIInv, TypeInv, IsSeq
<1>1. ASSUME UNCHANGED <<holder, state, window, connected>> PROVE TimeInv'
  BY <1>1 DEF TimeInv, DaemonGone
\* An operation of the API thread, or all that waited: of nothing of the daemon's it makes nothing
\* of the daemon's.
<1>2. ASSUME UNCHANGED <<holder, connected>>, holder = Nobody, Publish(state'),
             state' \in Punctual, state \in OwnState => state' \in OwnState
      PROVE  TimeInv'
  <2>1. \A i \in 1 .. Len(window') : window'[i].hideAt = window'[i].due
    BY <1>0, <1>2, PublishedInTime
  <2>2. DaemonGone'
    BY <1>2 DEF TimeInv, DaemonGone, OwnState
  <2> QED
    BY <1>2, <2>1, <2>2 DEF TimeInv
<1>3. CASE Connect
  BY <1>3 DEF Connect, cache, TimeInv, DaemonGone
<1>4. CASE Disconnect
  BY <1>4 DEF Disconnect, TimeInv, DaemonGone, Nobody, ClearOp
<1>5. CASE \E op \in OfDaemon : AnswerOverlay(op)
  <2>1. PICK op \in OfDaemon : AnswerOverlay(op)
    BY <1>5
  <2>2. connected' /\ holder' \in OfDaemon /\ UNCHANGED <<state, window>>
    BY <2>1 DEF AnswerOverlay
  <2> QED
    BY <2>2 DEF TimeInv, DaemonGone
<1>6. CASE WorkerApplies
  <2>1. /\ holder # Nobody /\ state' = Apply(state, holder) /\ holder' = Nobody /\ UNCHANGED connected
        /\ window' = window \/ Publish(state')
    BY <1>6 DEF WorkerApplies
  <2>2. CASE holder = ClearOp
    <3>1. state' = NoOverlay
      BY <2>1, <2>2 DEF Apply, Clear, ClearOp
    <3> QED
      BY <1>0, <2>1, <3>1, NoOverlayIs, PublishedInTime DEF TimeInv, DaemonGone, OwnState
  <2>3. CASE connected /\ holder \in OfDaemon
    <3>1. state' \in Punctual
      BY <1>0, <2>1, <2>3, ApplyIs DEF Ops, TimeInv
    <3> QED
      BY <1>0, <2>1, <2>3, <3>1, PublishedInTime DEF TimeInv, DaemonGone
  <2> QED
    BY <2>1, <2>2, <2>3 DEF TimeInv
<1>7. CASE \E op \in OfApi : Post(op)
  <2>1. PICK op \in OfApi : Post(op)
    BY <1>7
  <2>2. op \in ApiOps
    BY <1>0, OfferedOps
  <2>3. CASE Tries /\ state' = Apply(state, op) /\ Publish(state')
    <3>1. state' \in Punctual /\ (state \in OwnState => state' \in OwnState)
      BY <1>0, <2>2, <2>3, ApplyIs DEF Ops, TimeInv
    <3> QED
      BY <1>2, <2>1, <2>3, <3>1 DEF Post, Tries
  <2>4. CASE UNCHANGED <<state, window, applied>>
    BY <1>1, <2>1, <2>4 DEF Post
  <2> QED
    BY <2>1, <2>3, <2>4 DEF Post
<1>8. CASE OnPrepareFrame \/ DrainSocketLog
  <2>1. DrainPending /\ UNCHANGED <<holder, connected>>
    BY <1>8 DEF OnPrepareFrame, DrainSocketLog, TickDrains
  <2>2. CASE pending # <<>> /\ holder = Nobody
    <3>1. state' = ApplyAll(state, pending) /\ Publish(state')
      BY <2>1, <2>2 DEF DrainPending
    <3>2. pending \in Seq(ApiOps)
      BY <1>0 DEF TypeInv
    <3>3. state' \in Punctual
      BY <1>0, <3>1, <3>2, ApplyIs, ApplyAllIn DEF Ops, TimeInv
    <3>4. state \in OwnState => state' \in OwnState
      BY <1>0, <3>1, <3>2, ApplyIs, ApplyAllIn
    <3> QED
      BY <1>2, <2>1, <2>2, <3>1, <3>3, <3>4
  <2>3. CASE ~(pending # <<>> /\ holder = Nobody)
    BY <1>1, <2>1, <2>3 DEF DrainPending
  <2> QED
    BY <2>2, <2>3
<1>9. CASE \E c \in Consumers : GetRenderFrame(c)
  <2>1. PICK c \in Consumers : GetRenderFrame(c)
    BY <1>9
  <2>2. UNCHANGED <<holder, state, connected>>
    BY <2>1 DEF GetRenderFrame, cache
  <2>3. CASE RenderDark(c) \/ RenderNull(c)
    BY <1>1, <2>2, <2>3 DEF RenderDark, RenderNull
  <2>4. CASE RenderLive(c)
    <3>1. PICK k \in 1 .. Len(window) : window' = SubSeq(window, k, Len(window))
      BY <2>4 DEF RenderLive
    <3>2. ASSUME NEW i \in 1 .. Len(window') PROVE window'[i].hideAt = window'[i].due
      <4>1. window \in Seq({window[j] : j \in 1 .. Len(window)})
        BY <1>0 DEF IsSeq
      <4>2. Len(window') = Len(window) - k + 1 /\ window'[i] = window[k + i - 1]
        BY <1>0, <3>1, <4>1
      <4>3. k + i - 1 \in 1 .. Len(window)
        BY <1>0, <4>2
      <4> QED
        BY <4>2, <4>3 DEF TimeInv
    <3> QED
      BY <2>2, <3>2 DEF TimeInv, DaemonGone
  <2> QED
    BY <2>1, <2>3, <2>4 DEF GetRenderFrame
<1>10. CASE SetController \/ TargetFrame \/ Passes \/ DarkenStale \/ Detach \/ UNCHANGED overlayVars
  BY <1>1, <1>10 DEF SetController, TargetFrame, Passes, DarkenStale, Detach, overlayVars, cache
<1> QED
  BY <1>3, <1>4, <1>5, <1>6, <1>7, <1>8, <1>9, <1>10 DEF OverlayNext

\* Nothing of the overlay outlives its time: once a session's end is through nothing of its daemon is
\* left in the state, however many operations of the API thread waited meanwhile (Disconnect), and a
\* timed show is over when its time, counted from its arrival, is (Op::at).
THEOREM Timely == OverlaySpec => NotOutlived
<1>1. OverlaySpec => []TimeInv
  BY TimeInit, TimeStep, OverlayInvariant, PTL DEF OverlaySpec
<1>2. OverlayIInv /\ TimeInv /\ TimeInv' /\ [OverlayNext]_overlayVars => [DaemonGone' /\ NotShownLate]_overlayVars
  <2> SUFFICES ASSUME OverlayIInv, TimeInv, NEW c \in Consumers, RenderLive(c), last'.kind = "lit"
               PROVE  Head(window').untilHidden \/ now < Head(window').due
    BY DEF TimeInv, NotShownLate
  <2>1. Visible(Head(window'))
    BY DEF RenderLive, Serve
  <2>2. PICK k \in 1 .. Len(window) : window' = SubSeq(window, k, Len(window))
    BY DEF RenderLive
  <2>3. Head(window') = window[k]
    BY <2>2, SuffixFacts DEF OverlayIInv, TypeInv
  <2> QED
    BY <2>1, <2>3 DEF Visible, TimeInv
<1> QED
  BY <1>1, <1>2, OverlayInvariant, PTL DEF OverlaySpec, NotOutlived
=============================================================================
