--------------------------- MODULE AtomicPublish ---------------------------
(***************************************************************************)
(* What SeqLock.h promises its users: one writer publishes values, a read  *)
(* that reports success returns some published value, whole, and never one *)
(* older than the value the same reader got before.                        *)
(***************************************************************************)
EXTENDS Integers, Sequences

CONSTANTS Readers,  \* the reading threads
          Payloads  \* the values a writer may publish

VARIABLES published,  \* every value published, oldest first
          got         \* per reader, the last value it was given

Init == /\ published = <<>>
        /\ got = [r \in Readers |-> [k |-> 0, value |-> <<>>]]

Publish(p) == /\ published' = Append(published, p)
              /\ UNCHANGED got

Deliver(r) ==
  /\ \E k \in 1 .. Len(published) :
       /\ got[r].k <= k
       /\ got' = [got EXCEPT ![r] = [k |-> k, value |-> published[k]]]
  /\ UNCHANGED published

Next == \/ \E p \in Payloads : Publish(p)
        \/ \E r \in Readers : Deliver(r)

Spec == Init /\ [][Next]_<<published, got>>
=============================================================================
