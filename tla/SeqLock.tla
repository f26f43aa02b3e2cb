------------------------------ MODULE SeqLock ------------------------------
(***************************************************************************)
(* SeqLock.h: one writer, any number of readers, one store or load at a    *)
(* time, under the C++ memory model.  A load need not return the newest    *)
(* store: it may return any store that the reader is not already ordered   *)
(* after.  Stores of m_seq are identified with their values, stores of the *)
(* size and of the words with the number of the Write that made them.      *)
(*                                                                         *)
(*   - view[r] is the oldest store of m_seq that r may still load;         *)
(*   - pend[r] is what r would be ordered after by an acquire fence: a     *)
(*     word stored by Write k comes after the release fence, hence after   *)
(*     m_seq = 2k - 1, and a reader that loads it is told so by its fence; *)
(*   - an even m_seq = 2k is a release store: having acquired it, a reader *)
(*     may not load a word older than the newest store of Writes 1 .. k.   *)
(*                                                                         *)
(* What a reader has learnt in an earlier attempt needs no variable: its   *)
(* fence put it in view[r], and the next attempt's m_seq is no older.      *)
(***************************************************************************)
EXTENDS Integers, Sequences

CONSTANTS Readers,     \* the reading threads
          Word,        \* values of a 64-bit word
          Zero,        \* the initial value of a word
          Capacity,    \* CAPACITY in words
          Payloads,    \* what the writer may be given
          MAX_RETRIES, MAX_YIELDS,
          MaxWrites    \* bound: Writes in a behaviour

ASSUME SeqLockAssumption ==
  /\ Zero \in Word
  /\ Capacity \in Nat
  /\ Payloads \subseteq Seq(Word)
  /\ MAX_RETRIES \in Nat /\ MAX_YIELDS \in Nat

VARIABLES
  seq,      \* the newest m_seq
  data,     \* data[k] is what Write k was given
  next,     \* the next location Write stores: 0 the size, then the words
  wrote,    \* per location, the Writes that stored it (0: the initial value)
  pc, attempt, yields,  \* per reader: where it is in Read
  before,   \* per reader: the m_seq its copy began with
  size,     \* per reader: the size it loaded, in words
  out,      \* per reader: the words copied so far
  view, pend,           \* per reader: see above
  got       \* per reader: what its last successful Read returned

writer == <<seq, data, next, wrote>>
reader == <<pc, attempt, yields, before, size, out, view, pend, got>>
vars   == <<writer, reader>>

Loc == 0 .. Capacity

Init ==
  /\ seq = 0 /\ data = <<>> /\ next = 0
  /\ wrote = [l \in Loc |-> {0}]
  /\ pc = [r \in Readers |-> "idle"]
  /\ attempt = [r \in Readers |-> 0] /\ yields = [r \in Readers |-> 0]
  /\ before = [r \in Readers |-> 0] /\ size = [r \in Readers |-> 0]
  /\ out = [r \in Readers |-> <<>>]
  /\ view = [r \in Readers |-> 0] /\ pend = [r \in Readers |-> 0]
  /\ got = [r \in Readers |-> [k |-> 0, value |-> <<>>]]

-----------------------------------------------------------------------------
(* Write.  A value over CAPACITY is not published at all.                  *)

WriteBegin(p) ==
  /\ seq % 2 = 0 /\ Len(p) <= Capacity /\ Len(data) < MaxWrites
  /\ seq' = seq + 1
  /\ data' = Append(data, p)
  /\ next' = 0
  /\ UNCHANGED <<wrote, reader>>

WriteStore ==
  /\ seq % 2 = 1 /\ next <= Len(data[Len(data)])
  /\ wrote' = [wrote EXCEPT ![next] = @ \cup {Len(data)}]
  /\ next' = next + 1
  /\ UNCHANGED <<seq, data, reader>>

WriteEnd ==
  /\ seq % 2 = 1 /\ next > Len(data[Len(data)])
  /\ seq' = seq + 1
  /\ UNCHANGED <<data, next, wrote, reader>>

-----------------------------------------------------------------------------
(* Read.                                                                   *)

MaxOf(a, b) == IF a < b THEN b ELSE a

\* The stores of location l that r may load: none that is older than another
\* store of a Write the acquired m_seq published.
Loadable(r, l) ==
  {m \in wrote[l] : \A j \in wrote[l] : m < j => before[r] < 2 * j}

\* Mutant: Read without its acquire fence.
Unfenced(r, m) == pend[r]
\* What a load of a store of Write m adds to the reader's pending view.
Fenced(r, m) == IF m = 0 THEN pend[r] ELSE MaxOf(pend[r], 2 * m - 1)

Stored(m, l) == IF m = 0 THEN Zero ELSE data[m][l]
StoredSize(m) == IF m = 0 THEN 0 ELSE Len(data[m])

ReadBegin(r) ==
  /\ pc[r] = "idle"
  /\ pc' = [pc EXCEPT ![r] = "load"]
  /\ attempt' = [attempt EXCEPT ![r] = 0]
  /\ yields' = [yields EXCEPT ![r] = 0]
  /\ UNCHANGED <<writer, before, size, out, view, pend, got>>

\* The next attempt, or Read reports nothing.
Retry(r) ==
  /\ attempt' = [attempt EXCEPT ![r] = @ + 1]
  /\ pc' = [pc EXCEPT ![r] = IF attempt[r] < MAX_RETRIES THEN "load" ELSE "idle"]

\* Mutant: the yields are not counted.
YieldUncounted(r) == yields' = yields
\* A write in progress is waited out, but not for ever.
Yield(r) == yields' = [yields EXCEPT ![r] = @ + 1]

\* The acquire load of m_seq, and what the loop does with it.
LoadSeq(r) ==
  /\ pc[r] = "load"
  /\ \E s \in view[r] .. seq :
       /\ view' = [view EXCEPT ![r] = s]
       /\ before' = [before EXCEPT ![r] = s]
       /\ \/ /\ s % 2 = 1 /\ yields[r] < MAX_YIELDS
             /\ Yield(r)
             /\ UNCHANGED <<pc, attempt>>
          \/ /\ s % 2 = 1 /\ ~(yields[r] < MAX_YIELDS)
             /\ Retry(r)
             /\ UNCHANGED yields
          \/ /\ s = 0
             /\ pc' = [pc EXCEPT ![r] = "idle"]
             /\ UNCHANGED <<attempt, yields>>
          \/ /\ s % 2 = 0 /\ s # 0
             /\ pc' = [pc EXCEPT ![r] = "size"]
             /\ UNCHANGED <<attempt, yields>>
  /\ UNCHANGED <<writer, size, out, pend, got>>

\* The loaded size is never over CAPACITY, as Write publishes no such value.
LoadSize(r) ==
  /\ pc[r] = "size"
  /\ \E m \in Loadable(r, 0) :
       /\ size' = [size EXCEPT ![r] = StoredSize(m)]
       /\ pend' = [pend EXCEPT ![r] = Fenced(r, m)]
  /\ out' = [out EXCEPT ![r] = <<>>]
  /\ pc' = [pc EXCEPT ![r] = "copy"]
  /\ UNCHANGED <<writer, attempt, yields, before, view, got>>

LoadWord(r) ==
  /\ pc[r] = "copy" /\ Len(out[r]) < size[r]
  /\ LET i == Len(out[r]) + 1
     IN \E m \in Loadable(r, i) :
          /\ out' = [out EXCEPT ![r] = Append(@, Stored(m, i))]
          /\ pend' = [pend EXCEPT ![r] = Fenced(r, m)]
  /\ UNCHANGED <<writer, pc, attempt, yields, before, size, view, got>>

\* Mutant: any even m_seq will do the second time.
AnyEven(r, s) == s % 2 = 0
\* The copy did not overlap a Write.
Unmoved(r, s) == s = before[r]

\* The acquire fence and the second, relaxed load of m_seq.
CheckSeq(r) ==
  /\ pc[r] = "copy" /\ Len(out[r]) = size[r]
  /\ \E s \in MaxOf(view[r], pend[r]) .. seq :
       /\ view' = [view EXCEPT ![r] = s]
       /\ \/ /\ Unmoved(r, s)
             /\ got' = [got EXCEPT ![r] = [k |-> before[r] \div 2, value |-> out[r]]]
             /\ pc' = [pc EXCEPT ![r] = "idle"]
             /\ UNCHANGED attempt
          \/ /\ ~Unmoved(r, s)
             /\ Retry(r)
             /\ UNCHANGED got
  /\ UNCHANGED <<writer, yields, before, size, out, pend>>

-----------------------------------------------------------------------------
Write == (\E p \in Payloads : WriteBegin(p)) \/ WriteStore \/ WriteEnd
Read(r) == LoadSeq(r) \/ LoadSize(r) \/ LoadWord(r) \/ CheckSeq(r)
Next == Write \/ \E r \in Readers : ReadBegin(r) \/ Read(r)

Spec == Init /\ [][Next]_vars

\* A reading thread runs; the writer may stop anywhere.
FairSpec == Spec /\ \A r \in Readers : WF_vars(Read(r))

-----------------------------------------------------------------------------
Pc == {"idle", "load", "size", "copy"}

TypeOK ==
  /\ seq \in Nat /\ next \in Nat
  /\ data \in Seq(Payloads)
  /\ wrote \in [Loc -> SUBSET Nat]
  /\ pc \in [Readers -> Pc]
  /\ attempt \in [Readers -> Nat] /\ yields \in [Readers -> Nat]
  /\ before \in [Readers -> Nat] /\ size \in [Readers -> Nat]
  /\ out \in [Readers -> Seq(Word)]
  /\ view \in [Readers -> Nat] /\ pend \in [Readers -> Nat]
  /\ got \in [Readers -> [k : Nat, value : Seq(Word)]]

\* A Read that reports success returns exactly what one Write was given: no
\* copy that overlapped a Write, or mixed the words of two, gets through.
NoTornRead ==
  \A r \in Readers : got[r].k # 0 =>
    /\ got[r].k <= Len(data)
    /\ got[r].value = data[got[r].k]

\* SeqLock implements its promise: see AtomicPublish.
Atomic == INSTANCE AtomicPublish WITH published <- SubSeq(data, 1, seq \div 2),
                                      got <- got
ImplementsAtomic == Atomic!Spec

\* Read is wait-free: it returns although a writer may never finish.
ReadReturns == \A r \in Readers : pc[r] # "idle" ~> pc[r] = "idle"
=============================================================================
