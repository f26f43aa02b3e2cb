------------------------- MODULE MemoryBridgeProofs -------------------------
(***************************************************************************)
(* Theorems about MemoryBridge, for every number of requests, frames,      *)
(* games and Clears, all sets of ranges and whatever the handler does.     *)
(***************************************************************************)
EXTENDS MemoryBridge, SequenceTheorems, FiniteSetTheorems, TLAPS

-----------------------------------------------------------------------------
(* The inductive invariant.                                                *)

AllRanges == SUBSET UNION Sets

SnapType == [id : Nat, complete : BOOLEAN, blocks : AllRanges, game : Nat, mem : SUBSET Nat]

\* The snapshots that the worker may still load, those that it may load once it takes
\* m_mutex, and the newest.
Loadable == {snaps[j] : j \in DOMAIN snaps}
Fresh    == {snaps[j] : j \in rel .. Len(snaps)}
Last     == snaps[Len(snaps)]

ApiTypes ==
  /\ apc \in {"idle", "ended", "answer", "complete", "join"}
  /\ svc \in [ranges : AllRanges, id : Nat]
  /\ game \in Nat /\ mem \subseteq DOMAIN reqs
  /\ running \in BOOLEAN /\ gameRunning \in BOOLEAN
  /\ writesUnsupported \in BOOLEAN /\ space \in BOOLEAN
  /\ frames \in Nat /\ clears \in Nat

RequestTypes ==
  /\ reqs \in Seq(RequestType) /\ cur \in 0 .. Len(reqs)
  /\ queue \in {<<>>} \cup {<<i>> : i \in DOMAIN reqs}
  /\ work \in {<<>>} \cup {<<i>> : i \in DOMAIN reqs} /\ at \in 0 .. Len(work)

WorkerTypes ==
  /\ wpc \in {"idle", "submit", "wait", "poll", "read", "polled", "done"}
  /\ ranges \in AllRanges /\ told \in AllRanges
  /\ subscriptionId \in Nat /\ nextSubscriptionId \in Nat
  /\ poll \in [blocks : AllRanges, game : Nat, mem : SUBSET Nat] /\ poll.mem \subseteq DOMAIN reqs
  /\ began \in Nat /\ sub \in [id : Nat, none : BOOLEAN]

SnapTypes == snaps \in Seq(SnapType) /\ rel \in 1 .. Len(snaps)

TypeInv == /\ ApiTypes /\ RequestTypes /\ WorkerTypes /\ SnapTypes
           /\ \A h \in Loadable : h.mem \subseteq DOMAIN reqs

\* A request that nobody has answered yet.
Unanswered(q) == /\ ~q.done /\ q.result = "Busy" /\ q.accepted = {}
                 /\ q.applied = 0 /\ q.in = 0 /\ q.answer = "none"

\* What the request says happened is what happened.
TrueRequest(q) ==
  /\ q.kind # "write" => q.applied = 0
  /\ q.kind = "write" => ~q.abandoned
  /\ q.answer = "Ok" => q.applied = 1 /\ q.kind = "write"
  /\ q.answer \in Result \ {"Ok"} => q.applied = 0
  /\ q.kind = "write" /\ q.answer = "none" => q.applied = IF q.result = "Ok" THEN 1 ELSE 0

\* Whose hands each request is in.
Queued ==
  /\ queue # <<>> => /\ queue = <<cur>> /\ wpc = "wait" /\ work # <<cur>> /\ Unanswered(reqs[cur])
  /\ wpc = "submit" => /\ Unanswered(reqs[cur]) /\ queue = <<>> /\ work # <<cur>>
  /\ wpc = "wait" => reqs[cur].done \/ queue = <<cur>> \/ work = <<cur>>

InWork ==
  work # <<>> =>
    /\ ~reqs[work[1]].done /\ reqs[work[1]].taken
    /\ at = 0 => /\ reqs[work[1]].result = "Busy" /\ reqs[work[1]].accepted = {}
                 /\ reqs[work[1]].applied = 0
    /\ work = <<cur>> \/ reqs[work[1]].abandoned

Hands ==
  /\ \A i \in DOMAIN reqs : TrueRequest(reqs[i]) /\ reqs[i].in <= game
  /\ cur # 0 <=> wpc \in {"submit", "wait"}
  /\ cur # 0 => cur = Len(reqs) /\ ~reqs[cur].abandoned /\ reqs[cur].answer = "none"
  /\ Queued /\ InWork
  /\ apc \in {"idle", "ended", "join"} => work = <<>> /\ at = 0
  /\ apc = "complete" => at = Len(work)
  /\ ~running <=> apc = "join"
  /\ gameRunning => game > 0 /\ apc # "ended"

\* The request that the worker waits for, while it is a Subscribe that is not installed.
Asking == wpc \in {"submit", "wait"} /\ reqs[cur].kind = "subscribe" /\ ~reqs[cur].done

\* What is installed, what the daemon was told, and what Service takes its snapshot for.
Subscribed ==
  /\ subscriptionId < nextSubscriptionId /\ svc.id < nextSubscriptionId
  /\ \A i \in DOMAIN reqs : reqs[i].sub < nextSubscriptionId
  /\ Asking => /\ subscriptionId < reqs[cur].sub
               /\ svc.id = reqs[cur].sub => work = <<cur>> /\ at = 1
  /\ ranges = IF wpc = "wait" /\ reqs[cur].done /\ reqs[cur].kind = "subscribe"
              THEN reqs[cur].accepted ELSE told
  /\ work # <<>> /\ work # <<cur>> =>
       /\ reqs[work[1]].sub # subscriptionId \/ reqs[work[1]].kind # "subscribe"
       /\ Asking => reqs[work[1]].sub < reqs[cur].sub
  /\ apc \in {"answer", "complete"} =>
       /\ at = 0 => svc.id <= subscriptionId
       /\ svc.id = subscriptionId => svc.ranges = ranges
       /\ ranges # {} => svc.id >= subscriptionId
       /\ Asking /\ work = <<cur>> /\ at = 1 =>
            svc.ranges = reqs[cur].accepted /\ svc.id = reqs[cur].sub

\* The snapshots: of the installed set, or of one that is about to be.
Snapshots ==
  /\ \A h \in Loadable :
       /\ h.id < nextSubscriptionId /\ h.game <= game
       /\ h.complete /\ h.id = subscriptionId => h.blocks = ranges
       /\ Asking /\ h.id = reqs[cur].sub =>
            /\ apc = "complete" /\ work = <<cur>>
            /\ h.complete => h.blocks = reqs[cur].accepted
  /\ ranges # {} => \A h \in Fresh : h.id = 0 \/ h.id >= subscriptionId
  /\ apc = "complete" => Last.id = svc.id /\ Last.game = game /\ Last.mem = mem

\* The Writes of a game, in its memory and in its snapshots.
Shows(h, i, g) == h.complete /\ h.game = g => i \in h.mem

Written ==
  /\ \A i \in DOMAIN reqs : reqs[i].applied = 1 /\ reqs[i].in = game /\ game > 0 => i \in mem
  /\ \A i \in DOMAIN reqs : reqs[i].kind = "write" =>
       /\ reqs[i].answer = "Ok" => \A h \in Loadable : Shows(h, i, reqs[i].in)
       /\ reqs[i].done /\ reqs[i].applied = 1 => \A h \in Fresh : Shows(h, i, reqs[i].in)

\* The snapshots that a Poll may still load are of the game it saw running, or of a later one.
Current ==
  /\ gameRunning => \A h \in Fresh : h.complete => h.game = game
  /\ apc \in {"idle", "complete"} /\ ~gameRunning => ~Last.complete
  /\ \A h \in Loadable : h.complete => h.game > 0
  /\ began <= game
  /\ wpc = "poll" => \A h \in Fresh : h.complete => h.game >= began
  /\ wpc = "read" => /\ \A h \in Loadable : h.complete => h.game >= began
                     /\ sub.id = subscriptionId /\ (sub.none <=> ranges = {})

PollInv ==
  wpc = "polled" =>
    /\ poll.blocks = told
    /\ poll.blocks # {} =>
         /\ poll.game >= began
         /\ \A i \in DOMAIN reqs :
              reqs[i].kind = "write" /\ reqs[i].answer = "Ok" /\ reqs[i].in = poll.game => i \in poll.mem

IInv == TypeInv /\ Hands /\ Subscribed /\ Snapshots /\ Written /\ Current /\ PollInv

-----------------------------------------------------------------------------
(* Snapshots, by what may be loaded.                                       *)

\* The newest snapshot can always be loaded.
LEMMA LastLoads ==
  ASSUME SnapTypes
  PROVE  /\ Last \in Fresh /\ Fresh \subseteq Loadable /\ Loadable \subseteq SnapType
BY DEF SnapTypes, Last, Fresh, Loadable

\* A part of the snapshots from the k-th on.
LEMMA FromOn ==
  ASSUME SnapTypes, NEW k \in 1 .. Len(snaps), snaps' = SubSeq(snaps, k, Len(snaps)),
         rel' = IF rel < k THEN 1 ELSE rel - k + 1
  PROVE  /\ SnapTypes' /\ Last' = Last
         /\ Loadable' = {snaps[j] : j \in k .. Len(snaps)}
         /\ Fresh' = {snaps[j] : j \in (IF rel < k THEN k ELSE rel) .. Len(snaps)}
<1> USE DEF SnapTypes
<1>1. /\ snaps' \in Seq(SnapType) /\ Len(snaps') = Len(snaps) - k + 1
      /\ \A j \in 1 .. (Len(snaps) - k + 1) : snaps'[j] = snaps[j + k - 1]
  <2>1. \A j \in k .. Len(snaps) : snaps[j] \in SnapType
    OBVIOUS
  <2> QED
    BY <2>1, SubSeqProperties
<1>2. SnapTypes' /\ Last' = Last
  BY <1>1 DEF Last
<1>3. \A j \in k .. Len(snaps) : j - k + 1 \in DOMAIN snaps' /\ snaps'[j - k + 1] = snaps[j]
  BY <1>1
<1>4. \A j \in DOMAIN snaps' : j + k - 1 \in k .. Len(snaps) /\ snaps'[j] = snaps[j + k - 1]
  BY <1>1
<1>5. Loadable' = {snaps[j] : j \in k .. Len(snaps)}
  <2>1. Loadable' = {snaps'[j] : j \in DOMAIN snaps'}
    BY DEF Loadable
  <2>2. ASSUME NEW h \in Loadable'
        PROVE  h \in {snaps[j] : j \in k .. Len(snaps)}
    <3>1. PICK j \in DOMAIN snaps' : h = snaps'[j]
      BY <2>1, <2>2
    <3> QED
      BY <3>1, <1>4
  <2>3. ASSUME NEW j \in k .. Len(snaps)
        PROVE  snaps[j] \in Loadable'
    BY <2>1, <2>3, <1>3
  <2> QED
    BY <2>2, <2>3
<1>6. \A j \in rel' .. Len(snaps') : j + k - 1 \in (IF rel < k THEN k ELSE rel) .. Len(snaps)
  BY <1>1
<1>7. \A j \in (IF rel < k THEN k ELSE rel) .. Len(snaps) : j - k + 1 \in rel' .. Len(snaps')
  BY <1>1
<1>8. \A j \in rel' .. Len(snaps') : j \in DOMAIN snaps'
  BY <1>2
<1>9. \A j \in (IF rel < k THEN k ELSE rel) .. Len(snaps) : j \in k .. Len(snaps)
  OBVIOUS
<1> QED
  <2>1. Fresh' = {snaps'[j] : j \in rel' .. Len(snaps')}
    BY DEF Fresh
  <2>2. ASSUME NEW h \in Fresh'
        PROVE  h \in {snaps[j] : j \in (IF rel < k THEN k ELSE rel) .. Len(snaps)}
    <3>1. PICK j \in rel' .. Len(snaps') : h = snaps'[j]
      BY <2>1, <2>2
    <3>2. j \in DOMAIN snaps'
      BY <3>1, <1>8
    <3> QED
      BY <3>1, <3>2, <1>4, <1>6
  <2>3. ASSUME NEW j \in (IF rel < k THEN k ELSE rel) .. Len(snaps)
        PROVE  snaps[j] \in Fresh'
    <3>1. j \in k .. Len(snaps) /\ j - k + 1 \in rel' .. Len(snaps')
      BY <2>3, <1>7, <1>9
    <3>2. snaps'[j - k + 1] = snaps[j]
      BY <3>1, <1>3
    <3> QED
      BY <2>1, <3>1, <3>2
  <2>4. Fresh' = {snaps[j] : j \in (IF rel < k THEN k ELSE rel) .. Len(snaps)}
    BY <2>2, <2>3
  <2> QED
    BY <1>2, <1>5, <2>4

\* Taking m_mutex leaves what is ordered before the worker.
LEMMA AcquireSnaps ==
  ASSUME SnapTypes, Acquire
  PROVE  SnapTypes' /\ Last' = Last /\ Loadable' = Fresh /\ Fresh' = Fresh
<1>1. /\ rel \in 1 .. Len(snaps) /\ snaps' = SubSeq(snaps, rel, Len(snaps))
      /\ rel' = IF rel < rel THEN 1 ELSE rel - rel + 1
  BY DEF SnapTypes, Acquire
<1> QED
  BY <1>1, FromOn DEF Fresh

\* A load drops what is older than what it read.
LEMMA LoadSnaps ==
  ASSUME SnapTypes, NEW k \in 1 .. Len(snaps), snaps' = SubSeq(snaps, k, Len(snaps)),
         rel' = IF rel < k THEN 1 ELSE rel - k + 1
  PROVE  SnapTypes' /\ Last' = Last /\ Loadable' \subseteq Loadable /\ Fresh' \subseteq Fresh
<1>1. SnapTypes' /\ Last' = Last
  BY FromOn
<1>2. Loadable' \subseteq Loadable
  <2>1. Loadable' = {snaps[j] : j \in k .. Len(snaps)}
    BY FromOn
  <2> QED
    BY <2>1 DEF Loadable, SnapTypes
<1>3. Fresh' \subseteq Fresh
  <2>1. Fresh' = {snaps[j] : j \in (IF rel < k THEN k ELSE rel) .. Len(snaps)}
    BY FromOn
  <2> QED
    BY <2>1 DEF Fresh, SnapTypes
<1> QED
  BY <1>1, <1>2, <1>3

\* Leaving m_mutex orders the worker after the newest.
LEMMA ReleaseSnaps ==
  ASSUME SnapTypes, Release
  PROVE  SnapTypes' /\ Last' = Last /\ Loadable' = Loadable /\ Fresh' = {Last}
BY DEF SnapTypes, Release, Last, Loadable, Fresh

\* A Publish adds one.
LEMMA PublishSnaps ==
  ASSUME SnapTypes, NEW h \in SnapType, Publish(h)
  PROVE  SnapTypes' /\ Last' = h /\ Loadable' = Loadable \cup {h} /\ Fresh' = Fresh \cup {h}
<1> USE DEF SnapTypes
<1>1. /\ snaps' \in Seq(SnapType) /\ Len(snaps') = Len(snaps) + 1 /\ rel' = rel
      /\ \A j \in 1 .. Len(snaps) : snaps'[j] = snaps[j]
      /\ snaps'[Len(snaps) + 1] = h
  BY DEF Publish
<1>2. SnapTypes' /\ Last' = h
  BY <1>1 DEF Last
<1>3. Loadable' = Loadable \cup {h}
  BY <1>1 DEF Loadable
<1>4. Fresh' = Fresh \cup {h}
  BY <1>1 DEF Fresh
<1> QED
  BY <1>2, <1>3, <1>4

\* Nothing was published and nobody took the lock.
LEMMA SameSnaps ==
  ASSUME SnapTypes, UNCHANGED <<snaps, rel>>
  PROVE  SnapTypes' /\ Last' = Last /\ Loadable' = Loadable /\ Fresh' = Fresh
BY DEF SnapTypes, Last, Loadable, Fresh

-----------------------------------------------------------------------------
(* Complete, of nothing and of one request.                                *)

LEMMA CompleteNone ==
  ASSUME NEW rs \in Seq(RequestType), writesUnsupported \in BOOLEAN, Complete(rs, {})
  PROVE  reqs' = rs /\ UNCHANGED <<ranges, subscriptionId, writesUnsupported>>
<1>1. reqs' = [i \in DOMAIN rs |-> rs[i]]
  BY DEF Complete
<1>2. writesUnsupported' = writesUnsupported
  BY DEF Complete
<1>3. {i \in {} : Installs(rs[i])} = {}
  OBVIOUS
<1> QED
  BY <1>1, <1>2, <1>3 DEF Complete

LEMMA CompleteOne ==
  ASSUME NEW rs \in Seq(RequestType), NEW i \in DOMAIN rs,
         writesUnsupported \in BOOLEAN, Complete(rs, {i})
  PROVE  /\ reqs' = [rs EXCEPT ![i] = IF rs[i].abandoned THEN Settled(rs[i], rs[i].answer)
                                                          ELSE Completed(rs[i])]
         /\ writesUnsupported' \in BOOLEAN
         /\ Installs(rs[i]) => ranges' = rs[i].accepted /\ subscriptionId' = rs[i].sub
         /\ ~Installs(rs[i]) => UNCHANGED <<ranges, subscriptionId>>
<1>1. reqs' = [rs EXCEPT ![i] = IF rs[i].abandoned THEN Settled(rs[i], rs[i].answer)
                                                    ELSE Completed(rs[i])]
  BY DEF Complete
<1>2. writesUnsupported' \in BOOLEAN
  BY DEF Complete
<1>3. ASSUME Installs(rs[i])
      PROVE  ranges' = rs[i].accepted /\ subscriptionId' = rs[i].sub
  <2> DEFINE installed == {j \in {i} : Installs(rs[j])}
             newest == CHOOSE j \in installed : \A m \in installed : rs[m].sub <= rs[j].sub
  <2>1. installed = {i}
    BY <1>3
  <2> HIDE DEF installed
  <2>2. rs[i].sub <= rs[i].sub
    <3>1. rs[i] \in RequestType
      OBVIOUS
    <3>2. rs[i].sub \in Nat
      BY <3>1 DEF RequestType
    <3> QED
      BY <3>2
  <2>3. newest = i
    BY <2>1, <2>2
  <2>4. ranges' = rs[newest].accepted /\ subscriptionId' = rs[newest].sub
    BY <2>1 DEF Complete, installed
  <2> QED
    BY <2>3, <2>4
<1>4. ASSUME ~Installs(rs[i])
      PROVE  UNCHANGED <<ranges, subscriptionId>>
  <2>1. {j \in {i} : Installs(rs[j])} = {}
    BY <1>4
  <2> QED
    BY <2>1 DEF Complete
<1> QED
  BY <1>1, <1>2, <1>3, <1>4

\* The fields of every request.
LEMMA RequestFields ==
  ASSUME NEW rs \in Seq(RequestType), NEW i \in DOMAIN rs
  PROVE  /\ rs[i] \in RequestType /\ i \in Nat \ {0}
         /\ rs[i].kind \in {"subscribe", "read", "write"} /\ rs[i].ranges \in AllRanges
         /\ rs[i].sub \in Nat /\ rs[i].accepted \in AllRanges /\ rs[i].result \in Result
         /\ rs[i].applied \in Nat /\ rs[i].in \in Nat
         /\ rs[i].answer \in Result \cup {"none"}
<1>1. rs[i] \in RequestType /\ i \in Nat \ {0}
  OBVIOUS
<1> QED
  BY <1>1 DEF RequestType, AllRanges

-----------------------------------------------------------------------------
(* The worker begins an answer to the daemon.                              *)

\* A new request, which nobody has seen.
LEMMA MakeKeeps ==
  ASSUME IInv, NEW q \in RequestType, Make(q), Unanswered(q), ~q.abandoned, TrueRequest(q),
         nextSubscriptionId' \in Nat, nextSubscriptionId <= nextSubscriptionId',
         q.sub < nextSubscriptionId',
         q.kind = "subscribe" => q.sub = nextSubscriptionId
  PROVE  IInv'
<1> USE DEF IInv
<1>0. /\ wpc = "idle" /\ wpc' = "submit" /\ gameRunning /\ reqs' = Append(reqs, q)
      /\ cur' = Len(reqs) + 1 /\ running
      /\ UNCHANGED <<apc, work, at, svc, game, mem, running, gameRunning, space, queue, ranges,
                     subscriptionId, snaps, rel, told, poll, began, sub, frames, clears,
                     writesUnsupported>>
  BY DEF Make, api, polling, bounds
<1>1. /\ reqs \in Seq(RequestType) /\ reqs' \in Seq(RequestType) /\ Len(reqs') = Len(reqs) + 1
      /\ DOMAIN reqs' = 1 .. Len(reqs) + 1 /\ DOMAIN reqs = 1 .. Len(reqs)
      /\ \A i \in DOMAIN reqs : reqs'[i] = reqs[i] /\ i \in DOMAIN reqs' /\ i # cur'
      /\ reqs'[cur'] = q /\ cur' \in DOMAIN reqs' /\ cur' # 0
      /\ \A i \in DOMAIN reqs' : i \in DOMAIN reqs \/ i = cur'
  BY <1>0 DEF TypeInv, RequestTypes
<1>2. /\ SnapTypes /\ SnapTypes' /\ Last' = Last /\ Loadable' = Loadable /\ Fresh' = Fresh
      /\ Loadable \subseteq SnapType /\ Fresh \subseteq SnapType
  BY <1>0, SameSnaps, LastLoads DEF TypeInv
<1>3. cur = 0 /\ queue = <<>> /\ work # <<cur>> /\ work # <<cur'>>
      /\ (work # <<>> => work[1] \in DOMAIN reqs)
  <2>1. cur = 0 /\ queue = <<>>
    BY <1>0 DEF Hands, Queued
  <2>2. work = <<>> \/ \E i \in DOMAIN reqs : work = <<i>>
    BY DEF TypeInv, RequestTypes
  <2>3. 0 \notin DOMAIN reqs /\ cur' \notin DOMAIN reqs
    BY <1>0, <1>1
  <2> QED
    BY <2>1, <2>2, <2>3
<1>4. TypeInv'
  <2>1. ApiTypes'
    BY <1>0, <1>1 DEF TypeInv, ApiTypes
  <2>2. RequestTypes'
    BY <1>0, <1>1 DEF TypeInv, RequestTypes
  <2>3. WorkerTypes'
    BY <1>0, <1>1 DEF TypeInv, WorkerTypes
  <2> QED
    BY <1>1, <1>2, <2>1, <2>2, <2>3 DEF TypeInv
<1>5. Hands'
  <2>1. Queued' /\ InWork'
    BY <1>0, <1>1, <1>3 DEF Hands, Queued, InWork
  <2>2. \A i \in DOMAIN reqs' : TrueRequest(reqs'[i]) /\ reqs'[i].in <= game'
    BY <1>0, <1>1 DEF Hands, Unanswered, TypeInv, ApiTypes
  <2> QED
    BY <1>0, <1>1, <1>3, <2>1, <2>2 DEF Hands, Unanswered
<1>6. ~Asking /\ subscriptionId < nextSubscriptionId /\ svc.id < nextSubscriptionId
      /\ (Asking' <=> q.kind = "subscribe") /\ subscriptionId \in Nat /\ nextSubscriptionId \in Nat
      /\ svc.id \in Nat
  BY <1>0, <1>1 DEF Asking, Subscribed, TypeInv, WorkerTypes, ApiTypes, Unanswered
<1>7. Subscribed'
  <2>1. \A i \in DOMAIN reqs' : reqs'[i].sub < nextSubscriptionId'
    <3>1. \A i \in DOMAIN reqs : reqs[i].sub < nextSubscriptionId
      BY DEF Subscribed
    <3>2. \A i \in DOMAIN reqs : reqs[i].sub \in Nat
      BY <1>1, RequestFields
    <3> QED
      BY <1>1, <1>6, <3>1, <3>2
  <2>2. Asking' => subscriptionId' < reqs'[cur'].sub /\ svc'.id # reqs'[cur'].sub
    BY <1>0, <1>1, <1>6
  <2>3. work' # <<>> /\ work' # <<cur'>> =>
          /\ reqs'[work'[1]].sub # subscriptionId' \/ reqs'[work'[1]].kind # "subscribe"
          /\ Asking' => reqs'[work'[1]].sub < reqs'[cur'].sub
    BY <1>0, <1>1, <1>3, <1>6 DEF Subscribed
  <2>4. ranges' = told'
    BY <1>0 DEF Subscribed
  <2> QED
    BY <1>0, <1>1, <1>3, <1>6, <2>1, <2>2, <2>3, <2>4 DEF Subscribed
<1>8. Snapshots'
  <2>1. \A h \in Loadable : h.id < nextSubscriptionId /\ h.id \in Nat
    BY <1>2 DEF Snapshots, SnapType
  <2> QED
    BY <1>0, <1>1, <1>2, <1>6, <2>1 DEF Snapshots
<1>9. Written'
  BY <1>0, <1>1, <1>2 DEF Written, Unanswered, Shows
<1>10. Current' /\ PollInv'
  BY <1>0, <1>2 DEF Current, PollInv
<1> QED
  BY <1>4, <1>5, <1>7, <1>8, <1>9, <1>10

\* What Make adds has its type.
LEMMA RequestKeeps ==
  ASSUME NEW kind \in {"subscribe", "read", "write"}, NEW rs \in AllRanges,
         NEW high \in BOOLEAN, NEW id \in Nat
  PROVE  /\ Request(kind, rs, high, id) \in RequestType
         /\ Unanswered(Request(kind, rs, high, id)) /\ TrueRequest(Request(kind, rs, high, id))
         /\ ~Request(kind, rs, high, id).abandoned
         /\ Request(kind, rs, high, id).sub = id /\ Request(kind, rs, high, id).kind = kind
BY DEF Request, RequestType, Result, AllRanges, Unanswered, TrueRequest

LEMMA SubscribeKeeps == ASSUME IInv, NEW rs \in Sets, Subscribe(rs) PROVE IInv'
<1> DEFINE q == Request("subscribe", rs, FALSE, nextSubscriptionId)
<1>1. rs \in AllRanges /\ nextSubscriptionId \in Nat
  BY DEF IInv, TypeInv, WorkerTypes, AllRanges
<1>2. /\ q \in RequestType /\ Unanswered(q) /\ ~q.abandoned /\ TrueRequest(q)
      /\ q.sub = nextSubscriptionId
  BY <1>1 DEF Request, RequestType, Result, AllRanges, Unanswered, TrueRequest
<1>3. Make(q) /\ nextSubscriptionId' = nextSubscriptionId + 1
  BY DEF Subscribe
<1> HIDE DEF q
<1> QED
  BY <1>1, <1>2, <1>3, MakeKeeps

LEMMA ReadDirectKeeps == ASSUME IInv, ReadDirect PROVE IInv'
<1> DEFINE q == Request("read", {}, FALSE, 0)
<1>1. {} \in AllRanges /\ nextSubscriptionId \in Nat /\ 0 < nextSubscriptionId
  BY DEF IInv, TypeInv, WorkerTypes, AllRanges, Subscribed
<1>2. /\ q \in RequestType /\ Unanswered(q) /\ ~q.abandoned /\ TrueRequest(q)
      /\ q.sub = 0 /\ q.kind = "read"
  BY <1>1 DEF Request, RequestType, Result, AllRanges, Unanswered, TrueRequest
<1>3. Make(q) /\ nextSubscriptionId' = nextSubscriptionId
  BY DEF ReadDirect
<1> HIDE DEF q
<1> QED
  BY <1>1, <1>2, <1>3, MakeKeeps

LEMMA WriteKeeps == ASSUME IInv, NEW high \in BOOLEAN, Write(high) PROVE IInv'
<1> DEFINE q == Request("write", {}, high, 0)
<1>1. {} \in AllRanges /\ nextSubscriptionId \in Nat /\ 0 < nextSubscriptionId
  BY DEF IInv, TypeInv, WorkerTypes, AllRanges, Subscribed
<1>2. /\ q \in RequestType /\ Unanswered(q) /\ ~q.abandoned /\ TrueRequest(q)
      /\ q.sub = 0 /\ q.kind = "write"
  BY <1>1, RequestKeeps
<1>3. Make(q) /\ nextSubscriptionId' = nextSubscriptionId
  BY DEF Write
<1> HIDE DEF q
<1> QED
  BY <1>1, <1>2, <1>3, MakeKeeps

\* A fresh id belongs to no request and no snapshot, and no set is installed with it.
LEMMA ResetKeeps ==
  ASSUME IInv, wpc = "idle", ResetSubscription, Acquire, told' = {}, writesUnsupported' \in BOOLEAN,
         clears' = clears + 1,
         UNCHANGED <<api, running, gameRunning, space, reqs, queue, wpc, cur, polling, frames>>
  PROVE  IInv'
<1> USE DEF IInv
<1>0. /\ ranges' = {} /\ told' = {} /\ wpc' = wpc
      /\ subscriptionId' = nextSubscriptionId /\ nextSubscriptionId' = nextSubscriptionId + 1
      /\ UNCHANGED <<apc, work, at, svc, game, mem, running, gameRunning, space, reqs, queue, cur,
                     poll, began, sub, frames>>
  BY DEF ResetSubscription, api, polling
<1>1. /\ SnapTypes' /\ Last' = Last /\ Loadable' = Fresh /\ Fresh' = Fresh
      /\ Loadable \subseteq SnapType /\ Fresh \subseteq Loadable
  BY AcquireSnaps, LastLoads DEF TypeInv
<1>2. subscriptionId \in Nat /\ nextSubscriptionId \in Nat /\ svc.id \in Nat /\ clears \in Nat
      /\ reqs \in Seq(RequestType)
  BY DEF TypeInv, WorkerTypes, ApiTypes, RequestTypes
<1>3. TypeInv'
  <2>1. ApiTypes' /\ RequestTypes'
    BY <1>0, <1>2 DEF TypeInv, ApiTypes, RequestTypes
  <2>2. WorkerTypes'
    BY <1>0, <1>2 DEF TypeInv, WorkerTypes, AllRanges
  <2> QED
    BY <1>0, <1>1, <2>1, <2>2 DEF TypeInv
<1>4. Hands'
  BY <1>0 DEF Hands, Queued, InWork
<1>5. ~Asking /\ ~Asking'
  BY <1>0 DEF Asking
<1>6. Subscribed'
  <2>1. \A i \in DOMAIN reqs : reqs[i].sub < nextSubscriptionId /\ reqs[i].sub \in Nat
    BY <1>2, RequestFields DEF Subscribed
  <2>2. work # <<>> => work[1] \in DOMAIN reqs
    BY DEF TypeInv, RequestTypes
  <2>3. work # <<>> => reqs[work[1]].sub # nextSubscriptionId
    BY <1>2, <2>1, <2>2
  <2>4. svc.id < nextSubscriptionId
    BY DEF Subscribed
  <2> QED
    BY <1>0, <1>2, <1>5, <2>1, <2>3, <2>4 DEF Subscribed
<1>7. Snapshots'
  <2>1. \A h \in Loadable : h.id < nextSubscriptionId /\ h.id \in Nat /\ h.game <= game
    BY <1>1 DEF Snapshots, SnapType
  <2>2. \A h \in Loadable : h.id < nextSubscriptionId + 1 /\ h.id # nextSubscriptionId
    BY <1>2, <2>1
  <2> QED
    BY <1>0, <1>1, <1>5, <2>1, <2>2 DEF Snapshots
<1>8. Written'
  BY <1>0, <1>1 DEF Written
<1>9. Current' /\ PollInv'
  BY <1>0, <1>1 DEF Current, PollInv
<1> QED
  BY <1>3, <1>4, <1>6, <1>7, <1>8, <1>9

LEMMA SubscribeNothingKeeps == ASSUME IInv, SubscribeNothing PROVE IInv'
<1>1. /\ writesUnsupported' \in BOOLEAN
      /\ UNCHANGED <<api, running, gameRunning, space, reqs, queue, wpc, cur, polling, frames>>
  BY DEF SubscribeNothing, IInv, TypeInv, ApiTypes
<1>2. wpc = "idle" /\ ResetSubscription /\ Acquire /\ told' = {} /\ clears' = clears + 1
  BY DEF SubscribeNothing
<1> QED
  BY <1>1, <1>2, ResetKeeps

LEMMA ClearKeeps == ASSUME IInv, Clear PROVE IInv'
<1>1. /\ writesUnsupported' \in BOOLEAN
      /\ UNCHANGED <<api, running, gameRunning, space, reqs, queue, wpc, cur, polling, frames>>
  BY DEF Clear
<1>2. wpc = "idle" /\ ResetSubscription /\ Acquire /\ told' = {} /\ clears' = clears + 1
  BY DEF Clear
<1> QED
  BY <1>1, <1>2, ResetKeeps

-----------------------------------------------------------------------------
(* A request is handed over, and answered at once when no game runs.       *)

\* The request in flight, and the other one that may be in work.
LEMMA InFlight ==
  ASSUME IInv
  PROVE  /\ reqs \in Seq(RequestType) /\ DOMAIN reqs = 1 .. Len(reqs)
         /\ wpc \in {"submit", "wait"} => cur \in DOMAIN reqs /\ cur # 0
         /\ queue = <<>> \/ queue = <<cur>>
         /\ work = <<>> \/ (work = <<work[1]>> /\ work[1] \in DOMAIN reqs /\ Len(work) = 1)
         /\ at \in {0, 1} /\ (at = 1 => work # <<>>)
<1> USE DEF IInv
<1>1. reqs \in Seq(RequestType) /\ DOMAIN reqs = 1 .. Len(reqs) /\ cur \in 0 .. Len(reqs)
  BY DEF TypeInv, RequestTypes
<1>2. work = <<>> \/ \E i \in DOMAIN reqs : work = <<i>>
  BY DEF TypeInv, RequestTypes
<1>3. work = <<>> \/ (work = <<work[1]>> /\ work[1] \in DOMAIN reqs /\ Len(work) = 1)
  <2>1. ASSUME NEW i \in DOMAIN reqs, work = <<i>>
        PROVE  work = <<work[1]>> /\ work[1] \in DOMAIN reqs /\ Len(work) = 1
    <3>1. Len(work) = 1 /\ work[1] = i
      BY <2>1
    <3> QED
      BY <2>1, <3>1
  <2>2. CASE \E i \in DOMAIN reqs : work = <<i>>
    <3>1. PICK i \in DOMAIN reqs : work = <<i>>
      BY <2>2
    <3> QED
      BY <2>1, <3>1
  <2> QED
    BY <1>2, <2>2
<1>4. wpc \in {"submit", "wait"} => cur \in DOMAIN reqs /\ cur # 0
  <2>1. wpc \in {"submit", "wait"} => cur # 0
    BY DEF Hands
  <2> QED
    BY <1>1, <2>1
<1>5. queue = <<>> \/ queue = <<cur>>
  BY DEF Hands, Queued
<1>6. at \in 0 .. Len(work)
  BY DEF TypeInv, RequestTypes
<1>7. at \in {0, 1} /\ (at = 1 => work # <<>>)
  <2>1. CASE work = <<>>
    <3>1. Len(work) = 0
      BY <2>1
    <3> QED
      BY <1>6, <3>1
  <2>2. CASE Len(work) = 1
    <3>1. work # <<>>
      BY <2>2
    <3> QED
      BY <1>6, <2>2, <3>1
  <2> QED
    BY <1>3, <2>1, <2>2
<1> QED
  BY <1>1, <1>3, <1>4, <1>5, <1>7

LEMMA NoGameKeeps ==
  ASSUME IInv, wpc \in {"submit", "wait"}, Unanswered(reqs[cur]), work # <<cur>>,
         reqs' = [reqs EXCEPT ![cur] = Completed(AnswerNoGame(reqs[cur]))],
         Installs(reqs[cur]) => ranges' = reqs[cur].accepted /\ subscriptionId' = reqs[cur].sub,
         ~Installs(reqs[cur]) => UNCHANGED <<ranges, subscriptionId>>,
         queue' = <<>>, wpc' = "wait", ~gameRunning', space' \in BOOLEAN,
         gameRunning' \in BOOLEAN, writesUnsupported' \in BOOLEAN,
         (apc' = "ended" /\ apc = "idle") \/ (apc' = apc /\ ~gameRunning),
         SnapTypes', Last' = Last, Loadable' \subseteq Loadable, Fresh' \subseteq Fresh,
         UNCHANGED <<running, work, at, svc, game, mem, told, nextSubscriptionId, cur, poll, began, sub,
                     frames, clears>>
  PROVE  IInv'
<1> USE DEF IInv
<1> DEFINE q == reqs'[cur]
<1>1. /\ reqs \in Seq(RequestType) /\ DOMAIN reqs = 1 .. Len(reqs)
      /\ cur \in DOMAIN reqs /\ cur # 0 /\ cur' = cur
      /\ work = <<>> \/ (work = <<work[1]>> /\ work[1] \in DOMAIN reqs /\ work[1] # cur)
  BY InFlight
<1>2. /\ reqs[cur] \in RequestType /\ reqs[cur].kind \in {"subscribe", "read", "write"}
      /\ reqs[cur].sub \in Nat
  BY <1>1, RequestFields
<1>3. ~reqs[cur].abandoned /\ reqs[cur].answer = "none" /\ cur = Len(reqs) /\ TrueRequest(reqs[cur])
  BY <1>1 DEF Hands
<1>4. /\ reqs' \in Seq(RequestType) /\ DOMAIN reqs' = DOMAIN reqs /\ Len(reqs') = Len(reqs)
      /\ \A i \in DOMAIN reqs : i # cur => reqs'[i] = reqs[i]
      /\ q = Completed(AnswerNoGame(reqs[cur])) /\ q \in RequestType
  <2>1. Completed(AnswerNoGame(reqs[cur])) \in RequestType
    BY <1>2 DEF Completed, AnswerNoGame, RequestType, Result
  <2> QED
    BY <1>1, <2>1
<1>5. /\ q.done /\ ~q.abandoned /\ q.answer = "none" /\ q.accepted = {} /\ q.applied = 0 /\ q.in = 0
      /\ q.kind = "write" => q.result # "Ok"
      /\ q.kind = reqs[cur].kind /\ q.sub = reqs[cur].sub
  BY <1>2, <1>3, <1>4 DEF Completed, AnswerNoGame, RequestType, Unanswered
<1>6. TrueRequest(q)
  BY <1>5 DEF TrueRequest, Result
<1> HIDE DEF q
<1>7. /\ Asking <=> reqs[cur].kind = "subscribe"
      /\ ~Asking' /\ (Installs(reqs[cur]) <=> Asking)
  BY <1>1, <1>3, <1>4, <1>5 DEF Asking, Unanswered, Installs, Subscribed, q
<1>8. /\ subscriptionId \in Nat /\ nextSubscriptionId \in Nat /\ svc.id \in Nat
      /\ ranges \in AllRanges /\ game \in Nat
  BY DEF TypeInv, WorkerTypes, ApiTypes
<1>9. /\ Asking => ranges' = {} /\ subscriptionId' = reqs[cur].sub /\ subscriptionId < reqs[cur].sub
      /\ ~Asking => ranges' = ranges /\ subscriptionId' = subscriptionId
      /\ subscriptionId' \in Nat /\ ranges' \in AllRanges /\ subscriptionId <= subscriptionId'
  BY <1>2, <1>7, <1>8 DEF Unanswered, Subscribed, AllRanges
<1>10. TypeInv'
  <2>1. ApiTypes' /\ RequestTypes'
    BY <1>1, <1>4 DEF TypeInv, ApiTypes, RequestTypes
  <2>2. WorkerTypes'
    BY <1>4, <1>9 DEF TypeInv, WorkerTypes
  <2> QED
    BY <1>4, <2>1, <2>2 DEF TypeInv
<1>11. Hands'
  <2>1. Queued'
    BY <1>5 DEF Queued, q
  <2>2. InWork'
    BY <1>1, <1>4 DEF InWork, Hands
  <2>3. \A i \in DOMAIN reqs' : TrueRequest(reqs'[i]) /\ reqs'[i].in <= game'
    <3>1. TrueRequest(reqs'[cur]) /\ reqs'[cur].in <= game
      BY <1>5, <1>6, <1>8 DEF q
    <3> QED
      BY <1>1, <1>4, <3>1 DEF Hands
  <2> QED
    BY <1>1, <1>3, <1>4, <1>5, <2>1, <2>2, <2>3 DEF Hands, q
<1>12. Subscribed'
  <2>1. subscriptionId' < nextSubscriptionId'
    BY <1>1, <1>9 DEF Subscribed
  <2>2. \A i \in DOMAIN reqs' : reqs'[i].sub < nextSubscriptionId'
    <3>1. reqs'[cur].sub < nextSubscriptionId
      BY <1>1, <1>5 DEF Subscribed, q
    <3> QED
      BY <1>1, <1>4, <3>1 DEF Subscribed
  <2>3. ranges' = IF reqs'[cur].kind = "subscribe" THEN reqs'[cur].accepted ELSE told'
    BY <1>1, <1>5, <1>7, <1>9 DEF Subscribed, q, Unanswered
  <2>4. work' # <<>> /\ work' # <<cur'>> =>
           reqs'[work'[1]].sub # subscriptionId' \/ reqs'[work'[1]].kind # "subscribe"
    <3>1. work # <<>> => reqs'[work[1]] = reqs[work[1]] /\ reqs[work[1]].sub \in Nat
      BY <1>1, <1>4, RequestFields
    <3> QED
      BY <3>1, <1>2, <1>9 DEF Subscribed
  <2>5. Asking => svc.id # reqs[cur].sub
    BY DEF Subscribed
  <2>6. apc' \in {"answer", "complete"} =>
           /\ at = 0 => svc.id <= subscriptionId'
           /\ svc.id = subscriptionId' => svc.ranges = ranges'
           /\ ranges' # {} => svc.id >= subscriptionId'
    BY <1>8, <1>9, <2>5 DEF Subscribed
  <2>7. svc'.id < nextSubscriptionId'
    BY DEF Subscribed
  <2> QED
    BY <1>5, <1>7, <2>1, <2>2, <2>3, <2>4, <2>6, <2>7 DEF Subscribed, q
<1>13. Snapshots'
  <2>1. \A h \in Loadable' : h \in SnapType
    BY LastLoads DEF TypeInv
  <2>2. ASSUME NEW h \in Loadable'
        PROVE  /\ h.id < nextSubscriptionId' /\ h.game <= game'
               /\ h.complete /\ h.id = subscriptionId' => h.blocks = ranges'
    <3>1. Asking => h.id # reqs[cur].sub
      BY <2>2 DEF Snapshots
    <3> QED
      BY <2>2, <3>1, <1>9 DEF Snapshots
  <2>3. ranges' # {} => \A h \in Fresh' : h.id = 0 \/ h.id >= subscriptionId'
    BY <1>9 DEF Snapshots
  <2>4. apc' = "complete" => Last'.id = svc'.id /\ Last'.game = game' /\ Last'.mem = mem'
    BY DEF Snapshots
  <2> QED
    BY <1>7, <2>2, <2>3, <2>4 DEF Snapshots
<1>14. Written'
  <2>1. reqs'[cur].applied = 0 /\ reqs'[cur].answer = "none"
    BY <1>5 DEF q
  <2> QED
    BY <1>4, <2>1 DEF Written
<1>15. Current' /\ PollInv'
  BY DEF Current, PollInv
<1> QED
  BY <1>10, <1>11, <1>12, <1>13, <1>14, <1>15

LEMMA SubmitKeeps == ASSUME IInv, Submit PROVE IInv'
<1> USE DEF IInv
<1>0. /\ wpc = "submit" /\ Acquire /\ wpc' = "wait"
      /\ UNCHANGED <<apc, work, at, svc, game, mem, running, gameRunning, space, nextSubscriptionId,
                     cur, told, poll, began, sub, frames, clears>>
  BY DEF Submit, api, polling, bounds
<1>1. /\ SnapTypes' /\ Last' = Last /\ Loadable' = Fresh /\ Fresh' = Fresh
      /\ Fresh \subseteq Loadable
  BY <1>0, AcquireSnaps, LastLoads DEF TypeInv
<1>2. /\ reqs \in Seq(RequestType) /\ cur \in DOMAIN reqs
      /\ Unanswered(reqs[cur]) /\ queue = <<>> /\ work # <<cur>> /\ ~reqs[cur].abandoned
  BY <1>0, InFlight DEF Hands, Queued
<1>3. CASE gameRunning
  <2>1. /\ queue' = <<cur>>
        /\ UNCHANGED <<reqs, ranges, subscriptionId, writesUnsupported>>
    <3>1. queue' = Append(queue, cur) /\ UNCHANGED <<reqs, ranges, subscriptionId, writesUnsupported>>
      BY <1>3 DEF Submit
    <3> QED
      BY <3>1, <1>2
  <2>2. TypeInv'
    <3>1. ApiTypes' /\ RequestTypes'
      BY <1>0, <1>2, <2>1 DEF TypeInv, ApiTypes, RequestTypes
    <3>2. WorkerTypes'
      BY <1>0, <2>1 DEF TypeInv, WorkerTypes
    <3> QED
      BY <1>1, <2>1, <3>1, <3>2 DEF TypeInv
  <2>3. Hands'
    BY <1>0, <1>2, <2>1 DEF Hands, Queued, InWork
  <2>4. (Asking' <=> Asking) /\ ~reqs[cur].done
    BY <1>0, <1>2, <2>1 DEF Asking, Unanswered
  <2>5. Subscribed'
    BY <1>0, <2>1, <2>4 DEF Subscribed
  <2>6. Snapshots'
    BY <1>0, <1>1, <2>1, <2>4 DEF Snapshots
  <2>7. Written' /\ Current' /\ PollInv'
    BY <1>0, <1>1, <2>1 DEF Written, Current, PollInv
  <2> QED
    BY <2>2, <2>3, <2>5, <2>6, <2>7
<1>4. CASE ~gameRunning
  <2> DEFINE rs == [reqs EXCEPT ![cur] = AnswerNoGame(reqs[cur])]
  <2>1. Complete(rs, {cur}) /\ queue' = <<>>
    BY <1>2, <1>4 DEF Submit
  <2>2. reqs[cur] \in RequestType
    BY <1>2, RequestFields
  <2>3. /\ AnswerNoGame(reqs[cur]) \in RequestType /\ ~AnswerNoGame(reqs[cur]).abandoned
        /\ AnswerNoGame(reqs[cur]).accepted = reqs[cur].accepted
        /\ AnswerNoGame(reqs[cur]).sub = reqs[cur].sub
        /\ Installs(AnswerNoGame(reqs[cur])) <=> Installs(reqs[cur])
    BY <1>2, <2>2 DEF AnswerNoGame, RequestType, Result, Installs
  <2>4. rs \in Seq(RequestType) /\ cur \in DOMAIN rs /\ rs[cur] = AnswerNoGame(reqs[cur])
    BY <1>2, <2>3
  <2>5. [rs EXCEPT ![cur] = Completed(AnswerNoGame(reqs[cur]))]
          = [reqs EXCEPT ![cur] = Completed(AnswerNoGame(reqs[cur]))]
    BY <1>2
  <2> HIDE DEF rs
  <2>6. writesUnsupported \in BOOLEAN
    BY DEF TypeInv, ApiTypes
  <2>7. /\ reqs' = [rs EXCEPT ![cur] = Completed(AnswerNoGame(reqs[cur]))]
        /\ writesUnsupported' \in BOOLEAN
        /\ Installs(reqs[cur]) => ranges' = reqs[cur].accepted /\ subscriptionId' = reqs[cur].sub
        /\ ~Installs(reqs[cur]) => UNCHANGED <<ranges, subscriptionId>>
    BY <2>1, <2>3, <2>4, <2>6, CompleteOne
  <2>8. space' \in BOOLEAN /\ gameRunning' \in BOOLEAN
    BY <1>0 DEF TypeInv, ApiTypes
  <2> QED
    BY <1>0, <1>1, <1>2, <1>4, <2>1, <2>5, <2>7, <2>8, NoGameKeeps
<1> QED
  BY <1>3, <1>4

-----------------------------------------------------------------------------
(* The worker's wait ends.                                                 *)

\* The request in flight is q from now on, and the worker lets go of it.
LEMMA LetGo ==
  ASSUME IInv, wpc = "wait", NEW q \in RequestType, reqs' = [reqs EXCEPT ![cur] = q],
         TrueRequest(q), q.in <= game, q.sub < nextSubscriptionId,
         ~reqs[cur].done => ranges = told,
         told' = ranges, queue' = <<>>, wpc' = "idle", cur' = 0, Acquire,
         q.applied = 1 /\ q.in = game /\ game > 0 => cur \in mem,
         q.kind = "write" /\ q.applied = 1 => \A h \in Fresh : Shows(h, cur, q.in),
         work = <<cur>> => /\ ~q.done /\ q.taken /\ q.abandoned
                           /\ q.result = reqs[cur].result /\ q.accepted = reqs[cur].accepted
                           /\ q.applied = reqs[cur].applied
                           /\ q.sub # subscriptionId \/ q.kind # "subscribe",
         UNCHANGED <<apc, work, at, svc, game, mem, running, gameRunning, writesUnsupported, space,
                     ranges, subscriptionId, nextSubscriptionId, poll, began, sub, frames, clears>>
  PROVE  IInv'
<1> USE DEF IInv
<1>1. /\ reqs \in Seq(RequestType) /\ DOMAIN reqs = 1 .. Len(reqs)
      /\ cur \in DOMAIN reqs /\ cur # 0
      /\ work = <<>> \/ (work = <<work[1]>> /\ work[1] \in DOMAIN reqs)
  BY InFlight
<1>2. /\ reqs' \in Seq(RequestType) /\ DOMAIN reqs' = DOMAIN reqs /\ Len(reqs') = Len(reqs)
      /\ \A i \in DOMAIN reqs : i # cur => reqs'[i] = reqs[i]
      /\ reqs'[cur] = q
  BY <1>1
<1>3. /\ SnapTypes' /\ Last' = Last /\ Loadable' = Fresh /\ Fresh' = Fresh
      /\ Fresh \subseteq Loadable
  BY AcquireSnaps, LastLoads DEF TypeInv
<1>4. TypeInv'
  <2>1. ApiTypes' /\ RequestTypes'
    BY <1>1, <1>2 DEF TypeInv, ApiTypes, RequestTypes
  <2>2. WorkerTypes'
    BY <1>2 DEF TypeInv, WorkerTypes
  <2> QED
    BY <1>2, <1>3, <2>1, <2>2 DEF TypeInv
<1>5. work # <<>> => work = <<work[1]>> /\ work[1] \in DOMAIN reqs
                     /\ (work[1] # cur <=> work # <<cur>>) /\ work # <<0>>
  BY <1>1
<1>6. Hands'
  <2>1. InWork'
    BY <1>2, <1>5 DEF Hands, InWork
  <2>2. Queued'
    BY DEF Queued
  <2>3. \A i \in DOMAIN reqs' : TrueRequest(reqs'[i]) /\ reqs'[i].in <= game'
    BY <1>2 DEF Hands
  <2> QED
    BY <2>1, <2>2, <2>3 DEF Hands
<1>7. ~Asking'
  BY DEF Asking
<1>8. Subscribed'
  <2>1. \A i \in DOMAIN reqs' : reqs'[i].sub < nextSubscriptionId'
    BY <1>2 DEF Subscribed
  <2>2. work' # <<>> => reqs'[work'[1]].sub # subscriptionId' \/ reqs'[work'[1]].kind # "subscribe"
    BY <1>2, <1>5 DEF Subscribed
  <2> QED
    BY <1>7, <2>1, <2>2 DEF Subscribed
<1>9. Snapshots'
  BY <1>3, <1>7 DEF Snapshots
<1>10. Written'
  <2>1. TrueRequest(q)
    OBVIOUS
  <2>2. ASSUME NEW i \in DOMAIN reqs'
        PROVE  /\ reqs'[i].applied = 1 /\ reqs'[i].in = game' /\ game' > 0 => i \in mem'
               /\ reqs'[i].kind = "write" =>
                    /\ reqs'[i].answer = "Ok" => \A h \in Loadable' : Shows(h, i, reqs'[i].in)
                    /\ reqs'[i].done /\ reqs'[i].applied = 1 =>
                         \A h \in Fresh' : Shows(h, i, reqs'[i].in)
    <3>1. CASE i = cur
      BY <1>2, <1>3, <2>1, <3>1 DEF TrueRequest
    <3>2. CASE i # cur
      BY <1>2, <1>3, <2>2, <3>2 DEF Written
    <3> QED
      BY <3>1, <3>2
  <2> QED
    BY <2>2 DEF Written
<1>11. Current' /\ PollInv'
  BY <1>3 DEF Current, PollInv
<1> QED
  BY <1>4, <1>6, <1>8, <1>9, <1>10, <1>11

LEMMA EndWaitKeeps == ASSUME IInv, EndWait PROVE IInv'
<1> USE DEF IInv
<1> DEFINE q == reqs[cur]
<1>0. /\ wpc = "wait" /\ Acquire /\ wpc' = "idle" /\ cur' = 0
      /\ UNCHANGED <<apc, work, at, svc, game, mem, running, gameRunning, writesUnsupported, space,
                     ranges, subscriptionId, nextSubscriptionId, poll, began, sub, frames, clears>>
  BY DEF EndWait, api, subscr, polling, bounds
<1>1. /\ cur \in DOMAIN reqs /\ cur # 0 /\ DOMAIN reqs = 1 .. Len(reqs) /\ reqs \in Seq(RequestType)
      /\ queue = <<>> \/ queue = <<cur>>
      /\ work = <<>> \/ (work = <<work[1]>> /\ work[1] \in DOMAIN reqs)
  BY <1>0, InFlight
<1>2. /\ q \in RequestType /\ q.kind \in {"subscribe", "read", "write"} /\ q.sub \in Nat
      /\ q.result \in Result /\ q.applied \in Nat /\ q.in \in Nat
  BY <1>1, RequestFields
<1>3. TrueRequest(q) /\ q.in <= game /\ q.answer = "none" /\ q.sub < nextSubscriptionId
  BY <1>1 DEF Hands, Subscribed
<1>4. game \in Nat /\ nextSubscriptionId \in Nat /\ 0 < nextSubscriptionId
  BY DEF TypeInv, ApiTypes, WorkerTypes, Subscribed
<1>5. ranges = IF q.done /\ q.kind = "subscribe" THEN q.accepted ELSE told
  BY <1>0 DEF Subscribed
<1>6. /\ q.applied = 1 /\ q.in = game /\ game > 0 => cur \in mem
      /\ q.kind = "write" /\ q.done /\ q.applied = 1 => \A h \in Fresh : Shows(h, cur, q.in)
  BY <1>1 DEF Written
<1>7. CASE q.done
  <2> DEFINE n == Settled(q, q.result)
  <2>1. /\ reqs' = [reqs EXCEPT ![cur] = n] /\ queue' = queue
        /\ told' = IF q.kind = "subscribe" THEN q.accepted ELSE told
    BY <1>7 DEF EndWait
  <2>2. queue = <<>> /\ work # <<cur>>
    BY <1>1, <1>7 DEF Hands, Queued, InWork, Unanswered
  <2>3. /\ n \in RequestType /\ n.done /\ n.sub = 0 /\ n.in <= game
        /\ q.kind = "write" => n.kind = "write" /\ n.answer = q.result /\ n.applied = q.applied
                               /\ ~n.abandoned
                               /\ (q.result = "Ok" => n.in = q.in)
        /\ q.kind # "write" => n.kind = "read" /\ n.answer = "none" /\ n.applied = 0 /\ n.in = 0
    <3>1. CASE q.kind = "write"
      <4>1. n = [Request("write", {}, FALSE, 0) EXCEPT !.done = TRUE, !.answer = q.result,
                   !.applied = q.applied, !.in = IF q.result = "Ok" THEN q.in ELSE 0]
        BY <3>1 DEF Settled
      <4> HIDE DEF n
      <4>2. /\ n.done /\ n.sub = 0 /\ n.kind = "write" /\ n.answer = q.result /\ n.result = "Busy"
            /\ n.applied = q.applied /\ ~n.abandoned /\ n.in = IF q.result = "Ok" THEN q.in ELSE 0
        BY <4>1 DEF Request
      <4>3. n \in RequestType
        BY <1>2, <4>1 DEF Request, RequestType, Result
      <4> QED
        BY <1>2, <1>3, <1>4, <3>1, <4>2, <4>3
    <3>2. CASE q.kind # "write"
      <4>1. n = [Request("read", {}, FALSE, 0) EXCEPT !.done = TRUE]
        BY <3>2 DEF Settled
      <4> QED
        <5> HIDE DEF n
        <5>1. /\ n.done /\ n.sub = 0 /\ n.kind = "read" /\ n.answer = "none" /\ n.applied = 0 /\ n.in = 0
          BY <4>1 DEF Request
        <5>2. n \in RequestType
          BY <4>1 DEF Request, RequestType, Result
        <5> QED
          BY <1>4, <3>2, <5>1, <5>2
    <3> QED
      BY <3>1, <3>2
  <2> HIDE DEF n
  <2>4. TrueRequest(n)
    BY <1>2, <1>3, <2>3 DEF TrueRequest, Result
  <2>5. n.applied = 1 => q.kind = "write" /\ n.kind = "write" /\ n.in = q.in /\ q.applied = 1
    BY <1>3, <2>3 DEF TrueRequest
  <2>6. told' = ranges
    BY <1>5, <1>7, <2>1
  <2> QED
    BY <1>0, <1>4, <1>6, <1>7, <2>1, <2>2, <2>3, <2>4, <2>5, <2>6, LetGo
<1>8. CASE ~q.done
  <2>1. told' = told /\ queue' = Erased(queue, cur) /\ ranges = told
        /\ reqs' = [reqs EXCEPT ![cur] = IF cur \in {queue[k] : k \in DOMAIN queue}
                                          THEN Settled(q, "Busy")
                                          ELSE [q EXCEPT !.answer = "Busy", !.abandoned = TRUE]]
    BY <1>5, <1>8 DEF EndWait
  <2>2. queue' = <<>>
    <3>1. CASE queue = <<>>
      BY <2>1, <3>1 DEF Erased
    <3>2. CASE queue = <<cur>>
      <4>1. Len(queue) = 1 /\ DOMAIN queue = {1} /\ queue[1] = cur
        BY <3>2
      <4>2. (CHOOSE k \in DOMAIN queue : queue[k] = cur) = 1
        BY <4>1
      <4>3. Erased(queue, cur) = SubSeq(queue, 1, 0) \o SubSeq(queue, 2, 1)
        BY <4>1, <4>2 DEF Erased
      <4>4. SubSeq(queue, 1, 0) = <<>> /\ SubSeq(queue, 2, 1) = <<>>
        BY <4>1, <3>2
      <4> QED
        BY <2>1, <4>3, <4>4
    <3> QED
      BY <1>1, <3>1, <3>2
  <2>3. CASE queue = <<cur>>
    <3> DEFINE n == Settled(q, "Busy")
    <3>1. reqs' = [reqs EXCEPT ![cur] = n]
      <4>1. 1 \in DOMAIN queue /\ queue[1] = cur
        BY <2>3
      <4>2. cur \in {queue[k] : k \in DOMAIN queue}
        BY <4>1
      <4> QED
        BY <2>1, <4>2
    <3>2. Unanswered(q) /\ work # <<cur>>
      BY <2>3 DEF Hands, Queued
    <3>3. /\ n \in RequestType /\ n.sub = 0 /\ n.in = 0 /\ n.applied = 0
          /\ q.kind = "write" => n.kind = "write" /\ n.answer = "Busy" /\ ~n.abandoned
          /\ q.kind # "write" => n.kind = "read" /\ n.answer = "none"
      BY <1>2, <3>2 DEF Settled, Request, RequestType, Result, Unanswered
    <3> HIDE DEF n
    <3>4. TrueRequest(n)
      BY <1>2, <3>3 DEF TrueRequest
    <3>5. n.in <= game /\ n.sub < nextSubscriptionId /\ ~(n.applied = 1) /\ told' = ranges
      BY <1>4, <2>1, <3>3
    <3> QED
      BY <1>0, <2>1, <2>2, <3>1, <3>2, <3>3, <3>4, <3>5, LetGo
  <2>4. CASE queue = <<>>
    <3> DEFINE n == [q EXCEPT !.answer = "Busy", !.abandoned = TRUE]
    <3>1. reqs' = [reqs EXCEPT ![cur] = n]
      BY <2>1, <2>4
    <3>2. work = <<cur>> /\ q.taken
      <4>1. work = <<cur>>
        BY <1>0, <1>8, <2>4 DEF Hands, Queued
      <4>2. work # <<>> /\ work[1] = cur
        BY <4>1
      <4> QED
        BY <4>1, <4>2 DEF Hands, InWork
    <3>3. running
      BY <3>2 DEF Hands
    <3>4. q.kind # "write"
      BY <1>8, <3>2, <3>3 DEF EndWait, Waiting
    <3>5. /\ n \in RequestType /\ n.answer = "Busy" /\ n.abandoned
          /\ n.done = q.done /\ n.taken = q.taken /\ n.result = q.result /\ n.accepted = q.accepted
          /\ n.applied = q.applied /\ n.sub = q.sub /\ n.kind = q.kind /\ n.in = q.in
      BY <1>2 DEF RequestType, Result
    <3> HIDE DEF n
    <3>6. q.applied = 0
      BY <1>3, <3>4 DEF TrueRequest
    <3>7. TrueRequest(n)
      BY <3>4, <3>5, <3>6 DEF TrueRequest
    <3>8. n.kind = "subscribe" => n.sub # subscriptionId
      <4>1. q.kind = "subscribe" => subscriptionId < q.sub /\ subscriptionId \in Nat
        BY <1>0, <1>8 DEF Asking, Subscribed, TypeInv, WorkerTypes
      <4> QED
        BY <1>2, <3>5, <4>1
    <3>9. /\ n.in <= game /\ n.sub < nextSubscriptionId
          /\ ~(n.applied = 1) /\ told' = ranges
          /\ ~n.done /\ n.taken
      BY <1>3, <1>8, <2>1, <3>2, <3>5, <3>6
    <3> QED
      BY <1>0, <2>1, <2>2, <3>1, <3>5, <3>7, <3>8, <3>9, LetGo
  <2> QED
    BY <1>1, <2>3, <2>4
<1> QED
  BY <1>7, <1>8

-----------------------------------------------------------------------------
(* A Poll.                                                                 *)

\* The worker moves on outside a request, and loads at most what it could.
LEMMA Polls ==
  ASSUME IInv, wpc \notin {"submit", "wait"}, wpc' \in {"idle", "poll", "read", "polled", "done"},
         UNCHANGED <<apc, work, at, svc, game, mem, running, gameRunning, writesUnsupported, space,
                     reqs, queue, ranges, subscriptionId, nextSubscriptionId, cur, told, frames, clears>>,
         SnapTypes', Last' = Last, Loadable' \subseteq Loadable, Fresh' \subseteq Fresh,
         sub' \in [id : Nat, none : BOOLEAN], began' \in Nat,
         poll' \in [blocks : AllRanges, game : Nat, mem : SUBSET Nat],
         poll'.mem \subseteq DOMAIN reqs
  PROVE  TypeInv' /\ Hands' /\ Subscribed' /\ Snapshots' /\ Written'
<1> USE DEF IInv
<1>1. TypeInv'
  <2>1. ApiTypes' /\ RequestTypes' /\ WorkerTypes'
    BY DEF TypeInv, ApiTypes, RequestTypes, WorkerTypes
  <2> QED
    BY <2>1 DEF TypeInv
<1>2. Hands'
  BY DEF Hands, Queued, InWork
<1>3. ~Asking /\ ~Asking'
  BY DEF Asking
<1>4. Subscribed'
  BY <1>3 DEF Subscribed
<1>5. Snapshots'
  BY <1>3 DEF Snapshots
<1>6. Written'
  BY DEF Written
<1> QED
  BY <1>1, <1>2, <1>4, <1>5, <1>6

LEMMA PollBeginKeeps == ASSUME IInv, PollBegin PROVE IInv'
<1> USE DEF IInv
<1>0. /\ wpc = "idle" /\ wpc' = "poll" /\ gameRunning /\ began' = game
      /\ UNCHANGED <<apc, work, at, svc, game, mem, running, gameRunning, writesUnsupported, space,
                     reqs, queue, ranges, subscriptionId, nextSubscriptionId, cur, told, frames, clears>>
      /\ UNCHANGED <<snaps, rel, poll, sub>>
  BY DEF PollBegin, api, subscr, bounds
<1>1. /\ SnapTypes' /\ Last' = Last /\ Loadable' = Loadable /\ Fresh' = Fresh
      /\ Fresh \subseteq SnapType
  BY <1>0, SameSnaps, LastLoads DEF TypeInv
<1>2. /\ sub' \in [id : Nat, none : BOOLEAN] /\ began' \in Nat /\ poll'.mem \subseteq DOMAIN reqs
      /\ poll' \in [blocks : AllRanges, game : Nat, mem : SUBSET Nat] /\ game \in Nat
  BY <1>0 DEF TypeInv, WorkerTypes, ApiTypes
<1>3. TypeInv' /\ Hands' /\ Subscribed' /\ Snapshots' /\ Written'
  BY <1>0, <1>1, <1>2, Polls
<1>4. Current'
  <2>1. \A h \in Fresh : h.complete => h.game >= game
    BY <1>0, <1>2 DEF Current
  <2> QED
    BY <1>0, <1>1, <1>2, <2>1 DEF Current
<1>5. PollInv'
  BY <1>0 DEF PollInv
<1> QED
  BY <1>3, <1>4, <1>5

LEMMA PollSubscriptionKeeps == ASSUME IInv, PollSubscription PROVE IInv'
<1> USE DEF IInv
<1>0. /\ wpc = "poll" /\ wpc' = "read" /\ Acquire
      /\ sub' = [id |-> subscriptionId, none |-> ranges = {}]
      /\ UNCHANGED <<apc, work, at, svc, game, mem, running, gameRunning, writesUnsupported, space,
                     reqs, queue, ranges, subscriptionId, nextSubscriptionId, cur, told, frames, clears>>
      /\ UNCHANGED <<poll, began>>
  BY DEF PollSubscription, api, subscr, bounds
<1>1. /\ SnapTypes' /\ Last' = Last /\ Loadable' = Fresh /\ Fresh' = Fresh
      /\ Fresh \subseteq Loadable
  BY <1>0, AcquireSnaps, LastLoads DEF TypeInv
<1>2. /\ subscriptionId \in Nat /\ began' \in Nat /\ poll'.mem \subseteq DOMAIN reqs
      /\ poll' \in [blocks : AllRanges, game : Nat, mem : SUBSET Nat]
  BY <1>0 DEF TypeInv, WorkerTypes
<1>3. /\ sub' \in [id : Nat, none : BOOLEAN]
      /\ sub'.id = subscriptionId /\ (sub'.none <=> ranges = {})
  BY <1>0, <1>2
<1>4. TypeInv' /\ Hands' /\ Subscribed' /\ Snapshots' /\ Written'
  BY <1>0, <1>1, <1>2, <1>3, Polls
<1>5. Current' /\ PollInv'
  BY <1>0, <1>1, <1>3 DEF Current, PollInv
<1> QED
  BY <1>4, <1>5

LEMMA PollReadKeeps == ASSUME IInv, PollRead PROVE IInv'
<1> USE DEF IInv
<1>0. /\ wpc = "read" /\ sub' = NoSub
      /\ UNCHANGED <<apc, work, at, svc, game, mem, running, gameRunning, writesUnsupported, space,
                     reqs, queue, ranges, subscriptionId, nextSubscriptionId, cur, told, frames, clears>>
  BY DEF PollRead, api, subscr, bounds
<1>1. PICK i \in 1 .. Len(snaps), read \in BOOLEAN :
         /\ snaps' = SubSeq(snaps, i, Len(snaps))
         /\ rel' = IF rel < i THEN 1 ELSE rel - i + 1
         /\ \/ /\ sub.none
               /\ poll' = NoPoll /\ wpc' = "polled" /\ UNCHANGED began
            \/ /\ ~sub.none /\ read /\ Serves(snaps[i])
               /\ poll' = [blocks |-> snaps[i].blocks, game |-> snaps[i].game, mem |-> snaps[i].mem]
               /\ wpc' = "polled" /\ UNCHANGED began
            \/ /\ ~sub.none /\ ~(read /\ Serves(snaps[i]))
               /\ wpc' = "idle" /\ began' = 0 /\ UNCHANGED poll
  BY DEF PollRead
<1> DEFINE h == snaps[i]
<1>2. /\ SnapTypes' /\ Last' = Last /\ Loadable' \subseteq Loadable /\ Fresh' \subseteq Fresh
  BY <1>1, LoadSnaps DEF TypeInv
<1>3. h \in Loadable /\ h \in SnapType /\ h.mem \subseteq DOMAIN reqs
  <2>1. h \in Loadable
    BY <1>1 DEF Loadable, TypeInv, SnapTypes
  <2> QED
    BY <2>1, LastLoads DEF TypeInv
<1> HIDE DEF h
<1>4. /\ began \in Nat /\ poll.mem \subseteq DOMAIN reqs
      /\ poll \in [blocks : AllRanges, game : Nat, mem : SUBSET Nat] /\ sub \in [id : Nat, none : BOOLEAN]
  BY DEF TypeInv, WorkerTypes
<1>5. sub' \in [id : Nat, none : BOOLEAN]
  BY <1>0 DEF NoSub
<1>6. ranges = told /\ sub.id = subscriptionId /\ (sub.none <=> ranges = {})
  BY <1>0 DEF Subscribed, Current
<1>7. began <= game /\ \A s \in Loadable : s.complete => s.game >= began
  BY <1>0 DEF Current
<1>8. CASE sub.none /\ poll' = NoPoll /\ wpc' = "polled" /\ began' = began
  <2>1. /\ poll' \in [blocks : AllRanges, game : Nat, mem : SUBSET Nat]
        /\ poll'.mem = {} /\ poll'.blocks = {}
    BY <1>8 DEF NoPoll, AllRanges
  <2>2. TypeInv' /\ Hands' /\ Subscribed' /\ Snapshots' /\ Written'
    BY <1>0, <1>2, <1>4, <1>5, <1>8, <2>1, Polls
  <2>3. Current'
    BY <1>0, <1>2, <1>8 DEF Current
  <2>4. PollInv'
    BY <1>0, <1>6, <1>8, <2>1 DEF PollInv
  <2> QED
    BY <2>2, <2>3, <2>4
<1>9. CASE /\ ~sub.none /\ Serves(h) /\ wpc' = "polled" /\ began' = began
           /\ poll' = [blocks |-> h.blocks, game |-> h.game, mem |-> h.mem]
  <2>1. h.complete /\ h.id = subscriptionId
    BY <1>6, <1>9 DEF Serves
  <2>2. /\ poll' \in [blocks : AllRanges, game : Nat, mem : SUBSET Nat]
        /\ poll'.mem = h.mem /\ poll'.blocks = h.blocks /\ poll'.game = h.game
    BY <1>3, <1>9 DEF SnapType
  <2>3. TypeInv' /\ Hands' /\ Subscribed' /\ Snapshots' /\ Written'
    BY <1>0, <1>2, <1>3, <1>4, <1>5, <1>9, <2>2, Polls
  <2>4. Current'
    BY <1>0, <1>2, <1>9 DEF Current
  <2>5. h.blocks = told
    BY <1>3, <1>6, <2>1 DEF Snapshots
  <2>6. \A j \in DOMAIN reqs :
           reqs[j].kind = "write" /\ reqs[j].answer = "Ok" /\ reqs[j].in = h.game => j \in h.mem
    BY <1>3, <2>1 DEF Written, Shows
  <2>7. PollInv'
    BY <1>0, <1>3, <1>7, <1>9, <2>1, <2>2, <2>5, <2>6 DEF PollInv
  <2> QED
    BY <2>3, <2>4, <2>7
<1>10. CASE wpc' = "idle" /\ began' = 0 /\ poll' = poll
  <2>1. TypeInv' /\ Hands' /\ Subscribed' /\ Snapshots' /\ Written'
    BY <1>0, <1>2, <1>4, <1>5, <1>10, Polls
  <2>2. game \in Nat
    BY DEF TypeInv, ApiTypes
  <2>3. Current'
    BY <1>0, <1>2, <1>10, <2>2 DEF Current
  <2>4. PollInv'
    BY <1>10 DEF PollInv
  <2> QED
    BY <2>1, <2>3, <2>4
<1> QED
  BY <1>1, <1>8, <1>9, <1>10 DEF h

LEMMA PollReplyKeeps == ASSUME IInv, PollReply PROVE IInv'
<1> USE DEF IInv
<1>0. /\ wpc = "polled" /\ wpc' = "idle" /\ poll' = NoPoll /\ began' = 0
      /\ UNCHANGED <<apc, work, at, svc, game, mem, running, gameRunning, writesUnsupported, space,
                     reqs, queue, ranges, subscriptionId, nextSubscriptionId, cur, told, frames, clears>>
      /\ UNCHANGED <<snaps, rel, sub>>
  BY DEF PollReply, api, subscr, bounds
<1>1. SnapTypes' /\ Last' = Last /\ Loadable' = Loadable /\ Fresh' = Fresh
  BY <1>0, SameSnaps DEF TypeInv
<1>2. /\ sub' \in [id : Nat, none : BOOLEAN] /\ began' \in Nat /\ poll'.mem \subseteq DOMAIN reqs
      /\ poll' \in [blocks : AllRanges, game : Nat, mem : SUBSET Nat] /\ game \in Nat
  BY <1>0 DEF TypeInv, WorkerTypes, ApiTypes, NoPoll, AllRanges
<1>3. TypeInv' /\ Hands' /\ Subscribed' /\ Snapshots' /\ Written'
  BY <1>0, <1>1, <1>2, Polls
<1>4. Current' /\ PollInv'
  BY <1>0, <1>1, <1>2 DEF Current, PollInv
<1> QED
  BY <1>3, <1>4

LEMMA WorkerEndsKeeps == ASSUME IInv, WorkerEnds PROVE IInv'
<1> USE DEF IInv
<1>0. /\ wpc = "idle" /\ wpc' = "done"
      /\ UNCHANGED <<apc, work, at, svc, game, mem, running, gameRunning, writesUnsupported, space,
                     reqs, queue, ranges, subscriptionId, nextSubscriptionId, cur, told, frames, clears>>
      /\ UNCHANGED <<snaps, rel, poll, began, sub>>
  BY DEF WorkerEnds, api, subscr, polling, bounds
<1>1. SnapTypes' /\ Last' = Last /\ Loadable' = Loadable /\ Fresh' = Fresh
  BY <1>0, SameSnaps DEF TypeInv
<1>2. /\ sub' \in [id : Nat, none : BOOLEAN] /\ began' \in Nat /\ poll'.mem \subseteq DOMAIN reqs
      /\ poll' \in [blocks : AllRanges, game : Nat, mem : SUBSET Nat]
  BY <1>0 DEF TypeInv, WorkerTypes
<1>3. TypeInv' /\ Hands' /\ Subscribed' /\ Snapshots' /\ Written'
  BY <1>0, <1>1, <1>2, Polls
<1>4. Current' /\ PollInv'
  BY <1>0, <1>1 DEF Current, PollInv
<1> QED
  BY <1>3, <1>4

-----------------------------------------------------------------------------
(* A game starts and ends.                                                 *)

LEMMA GameStartKeeps == ASSUME IInv, GameStart PROVE IInv'
<1> USE DEF IInv
<1>0. /\ apc = "idle" /\ ~gameRunning /\ gameRunning' = TRUE /\ game' = game + 1 /\ mem' = {}
      /\ space' = FALSE /\ Release
      /\ UNCHANGED <<apc, work, at, svc, running, writesUnsupported, reqs, queue, ranges, subscriptionId,
                     nextSubscriptionId, wpc, cur, told, poll, began, sub, frames, clears>>
  BY DEF GameStart, subscr, polling, bounds
<1>1. /\ SnapTypes' /\ Last' = Last /\ Loadable' = Loadable /\ Fresh' = {Last}
      /\ Last \in Fresh /\ Fresh \subseteq Loadable /\ Loadable \subseteq SnapType
  BY <1>0, ReleaseSnaps, LastLoads DEF TypeInv
<1>2. game \in Nat /\ began \in Nat /\ reqs \in Seq(RequestType)
  BY DEF TypeInv, ApiTypes, WorkerTypes, RequestTypes
<1>3. TypeInv'
  <2>1. ApiTypes'
    <3>1. game' \in Nat /\ mem' \subseteq DOMAIN reqs'
      BY <1>0, <1>2
    <3>2. gameRunning' \in BOOLEAN /\ space' \in BOOLEAN
      BY <1>0
    <3> QED
      BY <1>0, <3>1, <3>2 DEF TypeInv, ApiTypes
  <2>2. RequestTypes' /\ WorkerTypes'
    BY <1>0 DEF TypeInv, RequestTypes, WorkerTypes
  <2> QED
    BY <1>0, <1>1, <2>1, <2>2 DEF TypeInv
<1>4. \A i \in DOMAIN reqs : reqs[i].in <= game /\ reqs[i].in \in Nat
  BY <1>2, RequestFields DEF Hands
<1>5. Hands'
  <2>1. Queued' /\ InWork'
    BY <1>0 DEF Hands, Queued, InWork
  <2>2. \A i \in DOMAIN reqs : reqs[i].in <= game + 1
    BY <1>2, <1>4
  <2> QED
    BY <1>0, <1>2, <2>1, <2>2 DEF Hands
<1>6. Asking' <=> Asking
  BY <1>0 DEF Asking
<1>7. Subscribed'
  BY <1>0, <1>6 DEF Subscribed
<1>8. Snapshots'
  <2>1. \A h \in Loadable : h.game <= game + 1
    <3>1. \A h \in Loadable : h.game <= game /\ h.game \in Nat
      BY <1>1 DEF Snapshots, SnapType
    <3> QED
      BY <1>2, <3>1
  <2> QED
    BY <1>0, <1>1, <1>6, <2>1 DEF Snapshots
<1>9. Written'
  <2>1. \A i \in DOMAIN reqs : reqs[i].in # game + 1
    BY <1>2, <1>4
  <2> QED
    BY <1>0, <1>1, <2>1 DEF Written
<1>10. Current'
  <2>1. ~Last.complete
    BY <1>0 DEF Current
  <2>2. began <= game + 1
    BY <1>2 DEF Current
  <2> QED
    BY <1>0, <1>1, <2>1, <2>2 DEF Current
<1>11. PollInv'
  BY <1>0 DEF PollInv
<1> QED
  BY <1>3, <1>5, <1>7, <1>8, <1>9, <1>10, <1>11

LEMMA GameEndKeeps == ASSUME IInv, GameEnd PROVE IInv'
<1> USE DEF IInv
<1> DEFINE pending == {queue[k] : k \in DOMAIN queue}
           rs == [i \in DOMAIN reqs |-> IF i \in pending THEN AnswerNoGame(reqs[i]) ELSE reqs[i]]
<1>0. /\ apc = "idle" /\ apc' = "ended" /\ gameRunning /\ gameRunning' = FALSE /\ space' = FALSE
      /\ queue' = <<>> /\ Release
      /\ UNCHANGED <<running, work, at, svc, game, mem, told, nextSubscriptionId, cur, poll, began, sub,
                     frames, clears>>
      /\ wpc' = wpc
  BY DEF GameEnd, polling, bounds
<1>1. Complete(rs, pending)
  BY DEF GameEnd
<1>2. /\ SnapTypes' /\ Last' = Last /\ Loadable' = Loadable /\ Fresh' = {Last}
      /\ Last \in Fresh /\ Fresh \subseteq Loadable /\ Loadable \subseteq SnapType
  BY <1>0, ReleaseSnaps, LastLoads DEF TypeInv
<1>3. /\ reqs \in Seq(RequestType) /\ writesUnsupported \in BOOLEAN
      /\ queue = <<>> \/ queue = <<cur>>
      /\ work = <<>>
  BY <1>0, InFlight DEF TypeInv, ApiTypes, Hands
<1>4. CASE queue = <<>>
  <2>1. pending = {}
    BY <1>4
  <2>2. rs = reqs
    <3>1. reqs = [i \in DOMAIN reqs |-> reqs[i]]
      BY <1>3
    <3> QED
      BY <2>1, <3>1
  <2>3. UNCHANGED <<reqs, ranges, subscriptionId, writesUnsupported>>
    <3> HIDE DEF rs, pending
    <3> QED
      BY <1>1, <1>3, <2>1, <2>2, CompleteNone
  <2>4. TypeInv'
    <3>1. ApiTypes' /\ RequestTypes' /\ WorkerTypes'
      BY <1>0, <2>3 DEF TypeInv, ApiTypes, RequestTypes, WorkerTypes
    <3> QED
      BY <1>2, <2>3, <3>1 DEF TypeInv
  <2>5. Hands'
    BY <1>0, <1>3, <1>4, <2>3 DEF Hands, Queued, InWork
  <2>6. Asking' <=> Asking
    BY <1>0, <2>3 DEF Asking
  <2>7. Subscribed'
    BY <1>0, <2>3, <2>6 DEF Subscribed
  <2>8. Snapshots'
    BY <1>0, <1>2, <2>3, <2>6 DEF Snapshots
  <2>9. Written' /\ Current' /\ PollInv'
    BY <1>0, <1>2, <2>3 DEF Written, Current, PollInv
  <2> QED
    BY <2>4, <2>5, <2>7, <2>8, <2>9
<1>5. CASE queue = <<cur>>
  <2>1. /\ wpc = "wait" /\ Unanswered(reqs[cur]) /\ work # <<cur>> /\ cur \in DOMAIN reqs
        /\ ~reqs[cur].abandoned
    <3>1. wpc = "wait" /\ Unanswered(reqs[cur]) /\ work # <<cur>>
      BY <1>5 DEF Hands, Queued
    <3> QED
      BY <3>1, InFlight DEF Hands
  <2>2. pending = {cur}
    BY <1>5
  <2>3. reqs[cur] \in RequestType
    BY <2>1, <1>3, RequestFields
  <2>4. /\ AnswerNoGame(reqs[cur]) \in RequestType /\ ~AnswerNoGame(reqs[cur]).abandoned
        /\ AnswerNoGame(reqs[cur]).accepted = reqs[cur].accepted
        /\ AnswerNoGame(reqs[cur]).sub = reqs[cur].sub
        /\ Installs(AnswerNoGame(reqs[cur])) <=> Installs(reqs[cur])
    BY <2>1, <2>3 DEF AnswerNoGame, RequestType, Result, Installs
  <2>5. rs = [reqs EXCEPT ![cur] = AnswerNoGame(reqs[cur])]
    BY <1>3, <2>1, <2>2
  <2> HIDE DEF rs, pending
  <2>6. rs \in Seq(RequestType) /\ cur \in DOMAIN rs /\ rs[cur] = AnswerNoGame(reqs[cur])
    BY <1>3, <2>1, <2>4, <2>5
  <2>7. [rs EXCEPT ![cur] = Completed(AnswerNoGame(reqs[cur]))]
          = [reqs EXCEPT ![cur] = Completed(AnswerNoGame(reqs[cur]))]
    BY <1>3, <2>1, <2>5
  <2>8. /\ reqs' = [rs EXCEPT ![cur] = Completed(AnswerNoGame(reqs[cur]))]
        /\ writesUnsupported' \in BOOLEAN
        /\ Installs(reqs[cur]) => ranges' = reqs[cur].accepted /\ subscriptionId' = reqs[cur].sub
        /\ ~Installs(reqs[cur]) => UNCHANGED <<ranges, subscriptionId>>
    BY <1>1, <1>3, <2>2, <2>4, <2>6, CompleteOne
  <2>9. space' \in BOOLEAN /\ gameRunning' \in BOOLEAN /\ ~gameRunning' /\ Fresh' \subseteq Fresh
        /\ wpc' = "wait"
    BY <1>0, <1>2, <2>1
  <2> QED
    BY <1>0, <1>2, <2>1, <2>7, <2>8, <2>9, NoGameKeeps
<1> QED
  BY <1>3, <1>4, <1>5

\* Publishing a snapshot, by Service or with the game's end.
LEMMA PublishKeeps ==
  ASSUME IInv, NEW h \in SnapType, Publish(h), h.mem \subseteq DOMAIN reqs,
         h.id < nextSubscriptionId, h.game <= game, h.complete => gameRunning /\ h.game = game /\ h.mem = mem,
         h.id = 0 \/ (h.id = svc.id /\ apc' = "complete"),
         apc' = "complete" => h.id = svc.id /\ h.game = game /\ h.mem = mem /\ h.blocks = svc.ranges
                              /\ apc = "answer" /\ at = Len(work),
         h.complete => apc' = "complete",
         apc' \in {"idle", "complete"}, apc \notin {"complete", "join"}, apc' = "idle" => apc = "ended",
         UNCHANGED <<work, at, svc, game, mem, running, gameRunning, writesUnsupported, space, reqs,
                     queue, ranges, subscriptionId, nextSubscriptionId, wpc, cur, told, poll, began, sub,
                     frames, clears>>
  PROVE  IInv'
<1> USE DEF IInv
<1>1. /\ SnapTypes' /\ Last' = h /\ Loadable' = Loadable \cup {h} /\ Fresh' = Fresh \cup {h}
  BY PublishSnaps DEF TypeInv
<1>2. /\ game \in Nat /\ subscriptionId \in Nat /\ began \in Nat /\ h.id \in Nat /\ h.game \in Nat
      /\ svc.id \in Nat /\ reqs \in Seq(RequestType)
  BY DEF TypeInv, ApiTypes, WorkerTypes, SnapType, RequestTypes
<1>3. TypeInv'
  <2>1. ApiTypes' /\ RequestTypes' /\ WorkerTypes'
    BY DEF TypeInv, ApiTypes, RequestTypes, WorkerTypes
  <2> QED
    BY <1>1, <2>1 DEF TypeInv
<1>4. Hands'
  <2>1. Queued' /\ InWork'
    BY DEF Hands, Queued, InWork
  <2> QED
    BY <2>1 DEF Hands
<1>5. Asking' <=> Asking
  BY DEF Asking
<1>6. Subscribed'
  BY <1>5 DEF Subscribed
<1>7. Snapshots'
  <2>1. Asking => subscriptionId < reqs[cur].sub /\ reqs[cur].sub \in Nat
    BY <1>2, InFlight, RequestFields DEF Subscribed, Asking
  <2>2. Asking /\ h.id = reqs[cur].sub =>
          /\ apc' = "complete" /\ work = <<cur>>
          /\ h.blocks = reqs[cur].accepted
    BY <1>2, <2>1 DEF Subscribed
  <2>3. h.complete /\ h.id = subscriptionId => h.blocks = ranges
    BY DEF Subscribed
  <2>4. ranges # {} => h.id = 0 \/ h.id >= subscriptionId
    BY DEF Subscribed
  <2> QED
    BY <1>1, <1>5, <2>2, <2>3, <2>4 DEF Snapshots
<1>8. Written'
  <2>1. ASSUME NEW i \in DOMAIN reqs, reqs[i].applied = 1
        PROVE  Shows(h, i, reqs[i].in)
    <3>1. h.complete /\ h.game = reqs[i].in => game > 0 /\ reqs[i].in = game /\ h.mem = mem
      BY DEF Hands
    <3> QED
      BY <2>1, <3>1 DEF Written, Shows
  <2>2. \A i \in DOMAIN reqs : reqs[i].answer = "Ok" => reqs[i].applied = 1
    BY DEF Hands, TrueRequest
  <2> QED
    BY <1>1, <2>1, <2>2 DEF Written
<1>9. Current'
  <2>1. h.complete => h.game = game /\ game > 0 /\ h.game >= began
    BY <1>2 DEF Hands, Current
  <2> QED
    BY <1>1, <2>1 DEF Current
<1>10. PollInv'
  BY DEF PollInv
<1> QED
  BY <1>3, <1>4, <1>6, <1>7, <1>8, <1>9, <1>10

LEMMA GameEndedKeeps == ASSUME IInv, GameEnded PROVE IInv'
<1> USE DEF IInv
<1>0. /\ apc = "ended" /\ apc' = "idle" /\ Publish(NoSnapshot)
      /\ UNCHANGED <<work, at, svc, game, mem, running, gameRunning, writesUnsupported, space, reqs,
                     queue, ranges, subscriptionId, nextSubscriptionId, wpc, cur, told, poll, began, sub,
                     frames, clears>>
  BY DEF GameEnded, DropsSnapshot, subscr, polling, bounds
<1>1. game \in Nat /\ 0 < nextSubscriptionId
  BY DEF TypeInv, ApiTypes, WorkerTypes, Subscribed
<1>2. /\ NoSnapshot \in SnapType /\ NoSnapshot.mem \subseteq DOMAIN reqs /\ NoSnapshot.id = 0
      /\ ~NoSnapshot.complete /\ NoSnapshot.game <= game
  BY <1>1 DEF NoSnapshot, SnapType, AllRanges
<1> QED
  BY <1>0, <1>1, <1>2, PublishKeeps

LEMMA ServicePublishKeeps == ASSUME IInv, ServicePublish PROVE IInv'
<1> USE DEF IInv
<1>0. /\ apc = "answer" /\ apc' = "complete" /\ at = Len(work)
      /\ UNCHANGED <<work, at, svc, game, mem, running, gameRunning, writesUnsupported, space, reqs,
                     queue, ranges, subscriptionId, nextSubscriptionId, wpc, cur, told, poll, began, sub,
                     frames, clears>>
  BY DEF ServicePublish, subscr, polling, bounds
<1>1. PICK full \in BOOLEAN :
         Publish([id |-> svc.id, complete |-> full /\ svc.ranges # {} /\ gameRunning,
                  blocks |-> svc.ranges, game |-> game, mem |-> mem])
  BY DEF ServicePublish
<1> DEFINE h == [id |-> svc.id, complete |-> full /\ svc.ranges # {} /\ gameRunning,
                 blocks |-> svc.ranges, game |-> game, mem |-> mem]
<1>2. /\ svc.id \in Nat /\ svc.ranges \in AllRanges /\ game \in Nat /\ mem \subseteq DOMAIN reqs
      /\ mem \in SUBSET Nat /\ gameRunning \in BOOLEAN
  BY DEF TypeInv, ApiTypes, RequestTypes
<1>3. /\ h \in SnapType /\ h.id = svc.id /\ h.blocks = svc.ranges /\ h.game = game /\ h.mem = mem
      /\ h.complete => gameRunning
  BY <1>2 DEF SnapType
<1>4. Publish(h)
  BY <1>1
<1> HIDE DEF h
<1>5. h.game <= game /\ h.id < nextSubscriptionId
  BY <1>2, <1>3 DEF Subscribed
<1> QED
  BY <1>0, <1>2, <1>3, <1>4, <1>5, PublishKeeps

LEMMA StopKeeps == ASSUME IInv, Stop PROVE IInv'
<1> USE DEF IInv
<1>0. /\ apc = "idle" /\ apc' = "join" /\ running' = FALSE
      /\ UNCHANGED <<work, at, svc, game, mem, gameRunning, writesUnsupported, space, reqs, queue,
                     ranges, subscriptionId, nextSubscriptionId, snaps, rel, wpc, cur, told, poll, began,
                     sub, frames, clears>>
  BY DEF Stop, subscr, polling, bounds
<1>1. SnapTypes' /\ Last' = Last /\ Loadable' = Loadable /\ Fresh' = Fresh
  BY <1>0, SameSnaps DEF TypeInv
<1>2. TypeInv'
  <2>1. ApiTypes' /\ RequestTypes' /\ WorkerTypes'
    BY <1>0 DEF TypeInv, ApiTypes, RequestTypes, WorkerTypes
  <2> QED
    BY <1>0, <1>1, <2>1 DEF TypeInv
<1>3. Hands'
  BY <1>0 DEF Hands, Queued, InWork
<1>4. Asking' <=> Asking
  BY <1>0 DEF Asking
<1>5. Subscribed' /\ Snapshots'
  BY <1>0, <1>1, <1>4 DEF Subscribed, Snapshots
<1>6. Written' /\ Current' /\ PollInv'
  BY <1>0, <1>1 DEF Written, Current, PollInv
<1> QED
  BY <1>2, <1>3, <1>5, <1>6

-----------------------------------------------------------------------------
(* A frame's Service.                                                      *)

LEMMA ServiceTakeKeeps == ASSUME IInv, ServiceTake PROVE IInv'
<1> USE DEF IInv
<1>0. /\ apc = "idle" /\ apc' = "answer" /\ work' = queue /\ queue' = <<>> /\ at' = 0
      /\ svc' = [ranges |-> ranges, id |-> subscriptionId] /\ frames' = frames + 1 /\ Release
      /\ UNCHANGED <<game, mem, running, gameRunning, writesUnsupported, ranges, subscriptionId,
                     nextSubscriptionId, wpc, cur, told, poll, began, sub, clears>>
  BY DEF ServiceTake, subscr, polling
<1>1. /\ SnapTypes' /\ Last' = Last /\ Loadable' = Loadable /\ Fresh' = {Last}
      /\ Last \in Fresh /\ Fresh \subseteq Loadable /\ Loadable \subseteq SnapType
  BY <1>0, ReleaseSnaps, LastLoads DEF TypeInv
<1>2. /\ reqs \in Seq(RequestType) /\ DOMAIN reqs = 1 .. Len(reqs) /\ work = <<>>
      /\ queue = <<>> \/ (queue = <<cur>> /\ cur \in DOMAIN reqs /\ wpc = "wait" /\ Unanswered(reqs[cur]))
  BY <1>0, InFlight DEF Hands, Queued
<1>3. /\ reqs' \in Seq(RequestType) /\ DOMAIN reqs' = DOMAIN reqs /\ Len(reqs') = Len(reqs)
      /\ \A i \in DOMAIN reqs :
           /\ reqs'[i].kind = reqs[i].kind /\ reqs'[i].sub = reqs[i].sub
           /\ reqs'[i].accepted = reqs[i].accepted /\ reqs'[i].result = reqs[i].result
           /\ (reqs'[i].done <=> reqs[i].done) /\ (reqs'[i].abandoned <=> reqs[i].abandoned)
           /\ reqs'[i].applied = reqs[i].applied /\ reqs'[i].in = reqs[i].in
           /\ reqs'[i].answer = reqs[i].answer
           /\ (\E k \in DOMAIN queue : queue[k] = i) => reqs'[i].taken
  <2>1. reqs' = [i \in DOMAIN reqs |->
                   [reqs[i] EXCEPT !.taken = @ \/ \E k \in DOMAIN queue : queue[k] = i]]
    BY DEF ServiceTake
  <2>2. ASSUME NEW i \in DOMAIN reqs
        PROVE  /\ reqs'[i] \in RequestType
               /\ reqs'[i].kind = reqs[i].kind /\ reqs'[i].sub = reqs[i].sub
               /\ reqs'[i].accepted = reqs[i].accepted /\ reqs'[i].result = reqs[i].result
               /\ (reqs'[i].done <=> reqs[i].done) /\ (reqs'[i].abandoned <=> reqs[i].abandoned)
               /\ reqs'[i].applied = reqs[i].applied /\ reqs'[i].in = reqs[i].in
               /\ reqs'[i].answer = reqs[i].answer
               /\ (\E k \in DOMAIN queue : queue[k] = i) => reqs'[i].taken
    <3> DEFINE t == reqs[i].taken \/ \E k \in DOMAIN queue : queue[k] = i
    <3>1. reqs'[i] = [reqs[i] EXCEPT !.taken = t]
      BY <2>1
    <3>2. t \in BOOLEAN /\ ((\E k \in DOMAIN queue : queue[k] = i) => t)
      OBVIOUS
    <3>3. reqs[i] \in RequestType
      BY <1>2
    <3> HIDE DEF t
    <3>4. /\ reqs'[i] \in RequestType /\ reqs'[i].taken = t
          /\ reqs'[i].kind = reqs[i].kind /\ reqs'[i].sub = reqs[i].sub
          /\ reqs'[i].accepted = reqs[i].accepted /\ reqs'[i].result = reqs[i].result
          /\ reqs'[i].done = reqs[i].done /\ reqs'[i].abandoned = reqs[i].abandoned
          /\ reqs'[i].applied = reqs[i].applied /\ reqs'[i].in = reqs[i].in
          /\ reqs'[i].answer = reqs[i].answer
      BY <3>1, <3>2, <3>3 DEF RequestType
    <3> QED
      BY <3>2, <3>4
  <2>3. DOMAIN reqs' = 1 .. Len(reqs) /\ Len(reqs) \in Nat
    BY <1>2, <2>1
  <2>4. reqs' \in [1 .. Len(reqs) -> RequestType]
    <3>1. reqs' = [i \in 1 .. Len(reqs) |-> reqs'[i]]
      BY <1>2, <2>1
    <3> QED
      BY <1>2, <2>2, <3>1
  <2>5. reqs' \in Seq(RequestType) /\ Len(reqs') = Len(reqs)
    BY <2>3, <2>4
  <2> QED
    BY <1>2, <2>2, <2>3, <2>5
<1>4. /\ work' # <<>> => work' = <<cur>> /\ work'[1] = cur /\ cur \in DOMAIN reqs /\ reqs'[cur].taken
                         /\ Unanswered(reqs[cur]) /\ wpc = "wait"
  <2>1. queue = <<cur>> => 1 \in DOMAIN queue /\ queue[1] = cur
    OBVIOUS
  <2> QED
    BY <1>0, <1>2, <1>3, <2>1
<1>5. TypeInv'
  <2>1. space' \in BOOLEAN
    BY DEF ServiceTake, TypeInv, ApiTypes
  <2>2. ApiTypes'
    BY <1>0, <1>3, <2>1 DEF TypeInv, ApiTypes, WorkerTypes
  <2>3. RequestTypes'
    BY <1>0, <1>3 DEF TypeInv, RequestTypes
  <2>4. WorkerTypes'
    BY <1>0, <1>3 DEF TypeInv, WorkerTypes
  <2> QED
    BY <1>1, <1>3, <2>2, <2>3, <2>4 DEF TypeInv
<1>6. wpc \in {"submit", "wait"} => cur \in DOMAIN reqs
  BY InFlight
<1>7. Hands'
  <2>1. Queued'
    <3>1. wpc = "submit" => work' # <<cur>> /\ Unanswered(reqs'[cur])
      BY <1>0, <1>3, <1>4, <1>6 DEF Hands, Queued, Unanswered
    <3>2. wpc = "wait" => reqs'[cur].done \/ work' = <<cur>>
      BY <1>0, <1>2, <1>3, <1>6 DEF Hands, Queued
    <3> QED
      BY <1>0, <3>1, <3>2 DEF Queued
  <2>2. InWork'
    BY <1>0, <1>3, <1>4 DEF InWork, Unanswered
  <2>3. \A i \in DOMAIN reqs' : TrueRequest(reqs'[i]) /\ reqs'[i].in <= game'
    BY <1>0, <1>3 DEF Hands, TrueRequest
  <2> QED
    BY <1>0, <1>3, <1>6, <2>1, <2>2, <2>3 DEF Hands
<1>8. Asking' <=> Asking
  BY <1>0, <1>3, <1>6 DEF Asking
<1>9. Asking => reqs[cur].sub \in Nat /\ subscriptionId < reqs[cur].sub /\ cur \in DOMAIN reqs
  BY <1>2, <1>6, RequestFields DEF Asking, Subscribed
<1>10. subscriptionId \in Nat /\ svc'.id = subscriptionId /\ svc'.ranges = ranges
  BY <1>0 DEF TypeInv, WorkerTypes
<1>11. Subscribed'
  <2>1. \A i \in DOMAIN reqs' : reqs'[i].sub < nextSubscriptionId'
    BY <1>0, <1>3 DEF Subscribed
  <2>2. Asking' => subscriptionId' < reqs'[cur'].sub /\ svc'.id # reqs'[cur'].sub
    BY <1>0, <1>3, <1>8, <1>9, <1>10
  <2>3. ranges' = IF wpc' = "wait" /\ reqs'[cur'].done /\ reqs'[cur'].kind = "subscribe"
                  THEN reqs'[cur'].accepted ELSE told'
    BY <1>0, <1>3, <1>6 DEF Subscribed
  <2>4. subscriptionId' < nextSubscriptionId' /\ svc'.id < nextSubscriptionId'
    BY <1>0, <1>10 DEF Subscribed
  <2> QED
    BY <1>0, <1>4, <1>10, <2>1, <2>2, <2>3, <2>4 DEF Subscribed
<1>12. Snapshots'
  BY <1>0, <1>1, <1>3, <1>8, <1>9 DEF Snapshots
<1>13. Written'
  BY <1>0, <1>1, <1>3 DEF Written
<1>14. Current'
  BY <1>0, <1>1 DEF Current
<1>15. PollInv'
  BY <1>0, <1>3 DEF PollInv
<1> QED
  BY <1>5, <1>7, <1>11, <1>12, <1>13, <1>14, <1>15

\* Whatever Answer does, it leaves alone what a request asks and whose it is, and a
\* Write is applied once if it is Ok and not at all if it is not.
LEMMA AnswerFacts ==
  ASSUME NEW r \in RequestType, r.result = "Busy", r.accepted = {}, r.applied = 0,
         game \in Nat, r.in <= game, NEW q \in Answer(r)
  PROVE  /\ q \in RequestType /\ q.kind = r.kind /\ q.sub = r.sub /\ q.answer = r.answer
         /\ (q.done <=> r.done) /\ (q.abandoned <=> r.abandoned) /\ (q.taken <=> r.taken)
         /\ q.in <= game /\ q.applied \in {0, 1}
         /\ q.applied = 1 => q.kind = "write" /\ q.in = game
         /\ q.kind = "write" => q.applied = IF q.result = "Ok" THEN 1 ELSE 0
<1>1. /\ r.kind \in {"subscribe", "read", "write"} /\ r.ranges \in AllRanges /\ r.in \in Nat
      /\ r.answer \in Result \cup {"none"} /\ r.sub \in Nat
  BY DEF RequestType, AllRanges
<1>2. CASE ~gameRunning
  <2>1. q = AnswerNoGame(r)
    BY <1>2 DEF Answer
  <2> QED
    BY <1>1, <2>1 DEF AnswerNoGame, RequestType, Result
<1>3. CASE gameRunning /\ r.kind = "write" /\ r.high /\ space
  <2>1. q = [r EXCEPT !.result = "OutOfRange"]
    BY <1>3 DEF Answer
  <2> QED
    BY <1>1, <1>3, <2>1 DEF RequestType, Result
<1>4. CASE gameRunning /\ r.kind = "write" /\ ~(r.high /\ space)
  <2>1. PICK res \in Handlers :
           q = [r EXCEPT !.result = res, !.in = game, !.applied = IF res = "Ok" THEN @ + 1 ELSE @]
    BY <1>4 DEF Answer
  <2>2. res \in Result
    BY HandlersAssumption DEF Result
  <2>3. q = [r EXCEPT !.result = res, !.in = game, !.applied = IF res = "Ok" THEN 1 ELSE 0]
    BY <2>1
  <2>4. CASE res = "Ok"
    <3>1. q = [r EXCEPT !.result = "Ok", !.in = game, !.applied = 1]
      BY <2>3, <2>4
    <3>2. q \in RequestType
      BY <2>2, <2>4, <3>1 DEF RequestType
    <3>3. /\ q.kind = r.kind /\ q.sub = r.sub /\ q.answer = r.answer
          /\ q.done = r.done /\ q.abandoned = r.abandoned /\ q.taken = r.taken
          /\ q.in = game /\ q.applied = 1 /\ q.result = res
      BY <2>4, <3>1 DEF RequestType
    <3> QED
      BY <1>4, <2>4, <3>2, <3>3
  <2>5. CASE res # "Ok"
    <3>1. q = [r EXCEPT !.result = res, !.in = game, !.applied = 0]
      BY <2>3, <2>5
    <3>2. q \in RequestType
      BY <2>2, <3>1 DEF RequestType
    <3>3. /\ q.kind = r.kind /\ q.sub = r.sub /\ q.answer = r.answer
          /\ q.done = r.done /\ q.abandoned = r.abandoned /\ q.taken = r.taken
          /\ q.in = game /\ q.applied = 0 /\ q.result = res
      BY <2>5, <3>1 DEF RequestType
    <3> QED
      BY <1>4, <2>5, <3>2, <3>3
  <2> QED
    BY <2>4, <2>5
<1>5. CASE gameRunning /\ r.kind = "subscribe"
  <2>1. PICK rs \in SUBSET r.ranges : q = [r EXCEPT !.result = "Ok", !.accepted = rs]
    BY <1>5 DEF Answer
  <2>2. rs \in SUBSET UNION Sets
    BY <1>1 DEF AllRanges
  <2>3. "Ok" \in Result
    BY DEF Result
  <2>4. q \in RequestType
    BY <2>1, <2>2, <2>3 DEF RequestType
  <2>5. /\ q.kind = r.kind /\ q.sub = r.sub /\ q.answer = r.answer
        /\ q.done = r.done /\ q.abandoned = r.abandoned /\ q.taken = r.taken
        /\ q.in = r.in /\ q.applied = r.applied
    BY <2>1 DEF RequestType
  <2> QED
    BY <1>5, <2>4, <2>5
<1>6. CASE gameRunning /\ r.kind = "read"
  <2>1. PICK res \in {"Ok", "OutOfRange"} : q = [r EXCEPT !.result = res]
    BY <1>6 DEF Answer
  <2>2. res \in Result
    BY DEF Result
  <2> QED
    BY <1>1, <1>6, <2>1, <2>2 DEF RequestType
<1> QED
  BY <1>1, <1>2, <1>3, <1>4, <1>5, <1>6

LEMMA ServiceAnswerKeeps == ASSUME IInv, ServiceAnswer PROVE IInv'
<1> USE DEF IInv
<1> DEFINE i == work[1]
<1>0. /\ apc = "answer" /\ at < Len(work) /\ at' = at + 1
      /\ UNCHANGED <<apc, work, game, running, gameRunning, writesUnsupported, space, queue, ranges,
                     subscriptionId, nextSubscriptionId, snaps, rel, wpc, cur, told, poll, began, sub,
                     frames, clears>>
  BY DEF ServiceAnswer, subscr, polling, bounds
<1>1. /\ reqs \in Seq(RequestType) /\ DOMAIN reqs = 1 .. Len(reqs)
      /\ work = <<i>> /\ i \in DOMAIN reqs /\ Len(work) = 1 /\ at = 0 /\ at' = 1 /\ work # <<>>
      /\ wpc \in {"submit", "wait"} => cur \in DOMAIN reqs
  <2>1. work # <<>>
    BY <1>0, InFlight
  <2>2. work = <<i>> /\ i \in DOMAIN reqs /\ Len(work) = 1
    BY <2>1, InFlight
  <2>3. at = 0
    BY <1>0, <2>2, InFlight
  <2> QED
    BY <1>0, <2>1, <2>2, <2>3, InFlight
<1>2. PICK q \in Answer(reqs[i]) :
         /\ reqs' = [reqs EXCEPT ![i] = q]
         /\ mem' = IF q.applied > reqs[i].applied THEN mem \cup {i} ELSE mem
         /\ svc' = NewestSet(q)
  BY <1>1 DEF ServiceAnswer
<1> HIDE DEF i
<1>3. /\ reqs[i] \in RequestType /\ reqs[i].sub \in Nat /\ TrueRequest(reqs[i]) /\ reqs[i].in <= game
      /\ reqs[i].sub < nextSubscriptionId
  BY <1>1, RequestFields DEF Hands, Subscribed
<1>4. /\ ~reqs[i].done /\ reqs[i].taken /\ reqs[i].result = "Busy" /\ reqs[i].accepted = {}
      /\ reqs[i].applied = 0 /\ (i = cur \/ reqs[i].abandoned)
  BY <1>1 DEF Hands, InWork, i
<1>5. /\ game \in Nat /\ subscriptionId \in Nat /\ svc.id \in Nat /\ svc.ranges \in AllRanges
      /\ mem \subseteq DOMAIN reqs /\ svc.id <= subscriptionId /\ svc.id < nextSubscriptionId
  BY <1>0, <1>1 DEF TypeInv, ApiTypes, WorkerTypes, Subscribed
<1>6. /\ q \in RequestType /\ q.kind = reqs[i].kind /\ q.sub = reqs[i].sub /\ q.answer = reqs[i].answer
      /\ (q.done <=> reqs[i].done) /\ (q.abandoned <=> reqs[i].abandoned) /\ (q.taken <=> reqs[i].taken)
      /\ q.in <= game /\ q.applied \in {0, 1}
      /\ q.applied = 1 => q.kind = "write" /\ q.in = game
      /\ q.kind = "write" => q.applied = IF q.result = "Ok" THEN 1 ELSE 0
  BY <1>2, <1>3, <1>4, <1>5, AnswerFacts
<1>7. /\ reqs' \in Seq(RequestType) /\ DOMAIN reqs' = DOMAIN reqs /\ Len(reqs') = Len(reqs)
      /\ \A j \in DOMAIN reqs : j # i => reqs'[j] = reqs[j]
      /\ reqs'[i] = q
  BY <1>1, <1>2, <1>6
<1>8. q.answer = "Ok" => q.kind = "write" /\ FALSE
  BY <1>3, <1>4, <1>6 DEF TrueRequest
<1>9. /\ mem' \subseteq DOMAIN reqs /\ mem \subseteq mem' /\ (q.applied = 1 => i \in mem')
  BY <1>1, <1>2, <1>4, <1>5
<1>10. q.answer # "none" => reqs[i].kind # "write"
  <2>1. q.answer # "none" => i # cur
    BY <1>1, <1>6 DEF Hands
  <2> QED
    BY <1>3, <1>4, <2>1 DEF TrueRequest
<1>11. TrueRequest(q)
  BY <1>3, <1>6, <1>8, <1>10 DEF TrueRequest, Result
<1>12. /\ SnapTypes' /\ Last' = Last /\ Loadable' = Loadable /\ Fresh' = Fresh
  BY <1>0, SameSnaps DEF TypeInv
<1>13. /\ svc'.id \in Nat /\ svc'.ranges \in AllRanges /\ svc' \in [ranges : AllRanges, id : Nat]
       /\ q.kind = "subscribe" /\ q.sub > svc.id => svc'.id = q.sub /\ svc'.ranges = q.accepted
       /\ ~(q.kind = "subscribe" /\ q.sub > svc.id) => svc' = svc
       /\ svc'.id >= svc.id /\ svc'.id < nextSubscriptionId
  <2>1. q.sub \in Nat /\ q.accepted \in AllRanges /\ svc \in [ranges : AllRanges, id : Nat]
    BY <1>6 DEF RequestType, AllRanges, TypeInv, ApiTypes
  <2>2. CASE q.kind = "subscribe" /\ q.sub > svc.id
    <3>1. svc' = [ranges |-> q.accepted, id |-> q.sub]
      BY <1>2, <2>2 DEF NewestSet
    <3> QED
      BY <1>3, <1>5, <1>6, <2>1, <2>2, <3>1
  <2>3. CASE ~(q.kind = "subscribe" /\ q.sub > svc.id)
    <3>1. svc' = svc
      BY <1>2, <2>3 DEF NewestSet
    <3> QED
      BY <1>5, <2>1, <2>3, <3>1
  <2> QED
    BY <2>2, <2>3
<1>14. TypeInv'
  <2>1. ApiTypes'
    BY <1>0, <1>7, <1>9, <1>13 DEF TypeInv, ApiTypes
  <2>2. RequestTypes'
    BY <1>0, <1>1, <1>7 DEF TypeInv, RequestTypes
  <2>3. WorkerTypes'
    BY <1>0, <1>7 DEF TypeInv, WorkerTypes
  <2> QED
    BY <1>7, <1>12, <2>1, <2>2, <2>3 DEF TypeInv
<1>15. work[1] = i /\ (work = <<cur>> <=> i = cur)
  BY <1>1
<1>16. Hands'
  <2>1. Queued'
    <3>1. queue # <<>> \/ wpc = "submit" => work # <<cur>>
      BY DEF Hands, Queued
    <3>2. queue # <<>> \/ wpc = "submit" => cur \in DOMAIN reqs /\ reqs'[cur] = reqs[cur]
      BY <1>1, <1>7, <1>15, <3>1 DEF Hands, Queued
    <3>3. wpc = "wait" => (reqs'[cur].done <=> reqs[cur].done)
      BY <1>1, <1>6, <1>7
    <3> QED
      BY <1>0, <3>1, <3>2, <3>3 DEF Hands, Queued
  <2>2. InWork'
    BY <1>0, <1>1, <1>4, <1>6, <1>7, <1>15 DEF InWork
  <2>3. \A j \in DOMAIN reqs' : TrueRequest(reqs'[j]) /\ reqs'[j].in <= game'
    BY <1>0, <1>6, <1>7, <1>11 DEF Hands
  <2>4. cur # 0 => cur = Len(reqs') /\ ~reqs'[cur].abandoned /\ reqs'[cur].answer = "none"
    BY <1>1, <1>6, <1>7 DEF Hands
  <2> QED
    BY <1>0, <1>7, <2>1, <2>2, <2>3, <2>4 DEF Hands
<1>17. /\ Asking' <=> Asking
       /\ Asking => reqs'[cur].sub = reqs[cur].sub /\ reqs[cur].sub \in Nat
                    /\ subscriptionId < reqs[cur].sub /\ cur \in DOMAIN reqs
                    /\ svc.id # reqs[cur].sub
       /\ ~(wpc = "wait" /\ reqs[cur].done /\ cur = i)
  <2>1. wpc \in {"submit", "wait"} => /\ reqs'[cur].sub = reqs[cur].sub /\ reqs'[cur].kind = reqs[cur].kind
                                      /\ (reqs'[cur].done <=> reqs[cur].done) /\ reqs[cur].sub \in Nat
    BY <1>1, <1>6, <1>7, RequestFields
  <2>2. Asking => subscriptionId < reqs[cur].sub /\ svc.id # reqs[cur].sub
    BY <1>1 DEF Subscribed
  <2> QED
    BY <1>0, <1>1, <1>4, <2>1, <2>2 DEF Asking
<1>18. Subscribed'
  <2>1. \A j \in DOMAIN reqs' : reqs'[j].sub < nextSubscriptionId'
    BY <1>0, <1>3, <1>6, <1>7 DEF Subscribed
  <2>2. i # cur => /\ q.kind = "subscribe" => q.sub # subscriptionId
                   /\ Asking => q.sub < reqs[cur].sub
    BY <1>1, <1>6, <1>15 DEF Subscribed
  <2>3. Asking /\ i = cur => svc'.id = reqs'[cur].sub /\ svc'.ranges = reqs'[cur].accepted
    BY <1>5, <1>6, <1>7, <1>13, <1>17 DEF Asking
  <2>4. Asking /\ i # cur => svc'.id # reqs[cur].sub
    BY <1>3, <1>6, <1>13, <1>17, <2>2
  <2>5. svc'.id = subscriptionId => svc'.ranges = ranges
    <3>1. q.kind = "subscribe" => q.sub # subscriptionId
      <4>1. CASE i = cur
        <5>1. q.kind = "subscribe" => Asking
          BY <1>1, <1>4, <1>6, <4>1 DEF Hands, Asking, TypeInv, RequestTypes
        <5> QED
          BY <1>5, <1>6, <1>17, <4>1, <5>1
      <4> QED
        BY <2>2, <4>1
    <3> QED
      BY <1>0, <1>13, <3>1 DEF Subscribed
  <2>6. ranges # {} => svc'.id >= subscriptionId
    BY <1>0, <1>5, <1>13 DEF Subscribed
  <2>7. ranges = IF wpc = "wait" /\ reqs'[cur].done /\ reqs'[cur].kind = "subscribe"
                 THEN reqs'[cur].accepted ELSE told
    BY <1>1, <1>4, <1>6, <1>7 DEF Subscribed
  <2> QED
    BY <1>0, <1>1, <1>5, <1>6, <1>7, <1>13, <1>15, <1>17, <2>1, <2>2, <2>3, <2>4, <2>5, <2>6, <2>7
    DEF Subscribed
<1>19. Snapshots'
  <2>1. \A h \in Loadable : Asking => h.id # reqs[cur].sub
    BY <1>0 DEF Snapshots
  <2> QED
    BY <1>0, <1>12, <1>17, <2>1 DEF Snapshots
<1>20. Written'
  <2>1. ASSUME NEW j \in DOMAIN reqs'
        PROVE  /\ reqs'[j].applied = 1 /\ reqs'[j].in = game' /\ game' > 0 => j \in mem'
               /\ reqs'[j].kind = "write" =>
                    /\ reqs'[j].answer = "Ok" => \A h \in Loadable' : Shows(h, j, reqs'[j].in)
                    /\ reqs'[j].done /\ reqs'[j].applied = 1 =>
                         \A h \in Fresh' : Shows(h, j, reqs'[j].in)
    <3>1. CASE j = i
      BY <1>4, <1>6, <1>7, <1>8, <1>9, <3>1
    <3>2. CASE j # i
      BY <1>0, <1>7, <1>9, <1>12, <2>1, <3>2 DEF Written
    <3> QED
      BY <3>1, <3>2
  <2> QED
    BY <2>1 DEF Written
<1>21. Current'
  BY <1>0, <1>12 DEF Current
<1>22. PollInv'
  <2>1. \A j \in DOMAIN reqs' : reqs'[j].kind = "write" /\ reqs'[j].answer = "Ok" => reqs'[j] = reqs[j]
    BY <1>7, <1>8
  <2> QED
    BY <1>0, <1>7, <2>1 DEF PollInv
<1> QED
  BY <1>14, <1>16, <1>18, <1>19, <1>20, <1>21, <1>22

\* The batch is completed: a Subscribe that the worker still waits for is installed
\* together with the snapshot that Service published for it.
LEMMA ServiceCompleteKeeps == ASSUME IInv, ServiceComplete PROVE IInv'
<1> USE DEF IInv
<1>0. /\ apc = "complete" /\ apc' = "idle" /\ work' = <<>> /\ at' = 0 /\ svc' = NoSet /\ Release
      /\ UNCHANGED <<game, mem, running, gameRunning, space, queue, nextSubscriptionId, wpc, cur, told,
                     poll, began, sub, frames, clears>>
  BY DEF ServiceComplete, polling, bounds
<1>1. Complete(reqs, {work[k] : k \in DOMAIN work})
  BY DEF ServiceComplete
<1>2. /\ SnapTypes' /\ Last' = Last /\ Loadable' = Loadable /\ Fresh' = {Last}
      /\ Last \in Fresh /\ Fresh \subseteq Loadable /\ Loadable \subseteq SnapType
  BY <1>0, ReleaseSnaps, LastLoads DEF TypeInv
<1>3. /\ reqs \in Seq(RequestType) /\ DOMAIN reqs = 1 .. Len(reqs) /\ writesUnsupported \in BOOLEAN
      /\ work = <<>> \/ (work = <<work[1]>> /\ work[1] \in DOMAIN reqs /\ Len(work) = 1)
      /\ wpc \in {"submit", "wait"} => cur \in DOMAIN reqs
  BY InFlight DEF TypeInv, ApiTypes
<1>4. /\ subscriptionId \in Nat /\ svc.id \in Nat /\ game \in Nat /\ ranges \in AllRanges
      /\ svc'.id = 0 /\ svc'.ranges = {} /\ svc' \in [ranges : AllRanges, id : Nat]
      /\ 0 < nextSubscriptionId
  BY <1>0 DEF TypeInv, ApiTypes, WorkerTypes, NoSet, AllRanges, Subscribed
<1>5. /\ Last.id = svc.id /\ Last.game = game /\ Last.mem = mem
      /\ ~gameRunning => ~Last.complete
  BY <1>0 DEF Snapshots, Current
<1>6. ASSUME NEW i \in DOMAIN reqs, reqs[i].applied = 1
      PROVE  Shows(Last, i, reqs[i].in)
  <2>1. Last.complete => game > 0
    BY <1>5 DEF Hands
  <2> QED
    BY <1>5, <1>6, <2>1 DEF Written, Shows
<1>7. CASE work = <<>>
  <2>1. {work[k] : k \in DOMAIN work} = {}
    BY <1>7
  <2>2. UNCHANGED <<reqs, ranges, subscriptionId, writesUnsupported>>
    BY <1>1, <1>3, <2>1, CompleteNone
  <2>3. TypeInv'
    <3>1. ApiTypes'
      BY <1>0, <1>4, <2>2 DEF TypeInv, ApiTypes
    <3>2. RequestTypes' /\ WorkerTypes'
      BY <1>0, <1>7, <2>2 DEF TypeInv, RequestTypes, WorkerTypes
    <3> QED
      BY <1>2, <2>2, <3>1, <3>2 DEF TypeInv
  <2>4. Hands'
    BY <1>0, <1>7, <2>2 DEF Hands, Queued, InWork
  <2>5. Asking' <=> Asking
    BY <1>0, <2>2 DEF Asking
  <2>6. Asking => reqs[cur].sub # 0 /\ \A h \in Loadable : h.id # reqs[cur].sub
    <3>1. Asking => reqs[cur].sub # 0
      BY <1>3, <1>4, RequestFields DEF Subscribed, Asking
    <3> QED
      BY <1>7, <3>1 DEF Snapshots
  <2>7. Subscribed'
    BY <1>0, <1>4, <1>7, <2>2, <2>5, <2>6 DEF Subscribed
  <2>8. Snapshots'
    BY <1>0, <1>2, <2>2, <2>5, <2>6 DEF Snapshots
  <2>9. Written'
    BY <1>0, <1>2, <2>2 DEF Written
  <2>10. Current' /\ PollInv'
    BY <1>0, <1>2, <1>5, <2>2 DEF Current, PollInv
  <2> QED
    BY <2>3, <2>4, <2>7, <2>8, <2>9, <2>10
<1>8. CASE work # <<>>
  <2> DEFINE i == work[1]
             n == reqs'[i]
  <2>1. /\ i \in DOMAIN reqs /\ work = <<i>> /\ Len(work) = 1 /\ at = 1
        /\ {work[k] : k \in DOMAIN work} = {i}
    <3>1. i \in DOMAIN reqs /\ work = <<i>> /\ Len(work) = 1
      BY <1>3, <1>8
    <3>2. at = 1
      BY <1>0, <3>1 DEF Hands
    <3> QED
      BY <3>1, <3>2
  <2>2. /\ ~reqs[i].done /\ (i = cur \/ reqs[i].abandoned)
    BY <1>8, <2>1 DEF Hands, InWork
  <2> HIDE DEF i
  <2>3. /\ reqs' = [reqs EXCEPT ![i] = IF reqs[i].abandoned THEN Settled(reqs[i], reqs[i].answer)
                                                            ELSE Completed(reqs[i])]
        /\ writesUnsupported' \in BOOLEAN
        /\ Installs(reqs[i]) => ranges' = reqs[i].accepted /\ subscriptionId' = reqs[i].sub
        /\ ~Installs(reqs[i]) => UNCHANGED <<ranges, subscriptionId>>
    BY <1>1, <1>3, <2>1, CompleteOne
  <2>4. /\ reqs[i] \in RequestType /\ reqs[i].kind \in {"subscribe", "read", "write"}
        /\ reqs[i].sub \in Nat /\ reqs[i].in \in Nat
        /\ TrueRequest(reqs[i]) /\ reqs[i].in <= game /\ reqs[i].sub < nextSubscriptionId
        /\ reqs[i].accepted \in AllRanges
    BY <1>3, <2>1, RequestFields DEF Hands, Subscribed
  <2>5. cur # 0 /\ i = cur => ~reqs[i].abandoned
    BY DEF Hands
  <2>6. i = cur => cur # 0 /\ wpc = "wait"
    BY <1>3, <2>1 DEF Hands, Queued
  <2>7. ASSUME reqs[i].abandoned
        PROVE  /\ i # cur /\ n \in RequestType /\ n.kind = "read" /\ n.done /\ n.sub = 0 /\ n.applied = 0
               /\ n.in = 0 /\ n.answer = "none" /\ ~n.abandoned /\ reqs[i].kind # "write"
    <3>1. reqs[i].kind # "write" /\ i # cur
      BY <2>4, <2>5, <2>6, <2>7 DEF TrueRequest
    <3>2. n = [Request("read", {}, FALSE, 0) EXCEPT !.done = TRUE]
      BY <2>1, <2>3, <2>7, <3>1 DEF Settled
    <3> HIDE DEF n
    <3>3. n \in RequestType
      BY <3>2 DEF Request, RequestType, Result
    <3>4. /\ n.kind = "read" /\ n.done /\ n.sub = 0 /\ n.applied = 0
          /\ n.in = 0 /\ n.answer = "none" /\ ~n.abandoned
      BY <3>2 DEF Request
    <3> QED
      BY <3>1, <3>3, <3>4
  <2>8. ASSUME ~reqs[i].abandoned
        PROVE  /\ i = cur /\ n \in RequestType /\ n.kind = reqs[i].kind /\ n.done /\ n.sub = reqs[i].sub
               /\ n.applied = reqs[i].applied /\ n.in = reqs[i].in /\ n.answer = reqs[i].answer
               /\ n.answer = "none" /\ n.accepted = reqs[i].accepted /\ n.result = reqs[i].result
               /\ ~n.abandoned
    <3>1. i = cur /\ reqs[i].answer = "none"
      BY <2>2, <2>6, <2>8 DEF Hands
    <3>2. n = [reqs[i] EXCEPT !.done = TRUE]
      BY <2>1, <2>3, <2>8 DEF Completed
    <3> HIDE DEF n
    <3> QED
      BY <2>4, <2>8, <3>1, <3>2 DEF RequestType
  <2>9. /\ reqs' \in Seq(RequestType) /\ DOMAIN reqs' = DOMAIN reqs /\ Len(reqs') = Len(reqs)
        /\ \A j \in DOMAIN reqs : j # i => reqs'[j] = reqs[j]
        /\ n \in RequestType
    <3>1. n \in RequestType
      BY <2>7, <2>8
    <3> HIDE DEF n
    <3>2. reqs' = [reqs EXCEPT ![i] = n]
      BY <1>3, <2>1, <2>3 DEF n
    <3> QED
      BY <1>3, <2>1, <3>1, <3>2
  <2>10. TrueRequest(n) /\ n.in <= game /\ n.sub < nextSubscriptionId /\ n.done
    <3>1. CASE reqs[i].abandoned
      BY <1>4, <2>7, <3>1 DEF TrueRequest, Result
    <3>2. CASE ~reqs[i].abandoned
      BY <2>4, <2>8, <3>2 DEF TrueRequest
    <3> QED
      BY <3>1, <3>2
  <2> HIDE DEF n
  <2>11. /\ Asking /\ i = cur => /\ ranges' = reqs[i].accepted /\ subscriptionId' = reqs[i].sub
                                 /\ subscriptionId < reqs[i].sub /\ svc.id = reqs[i].sub
                                 /\ n.kind = "subscribe" /\ n.accepted = reqs[i].accepted
         /\ ~(Asking /\ i = cur) => ranges' = ranges /\ subscriptionId' = subscriptionId
    <3>1. CASE Asking /\ i = cur
      <4>1. subscriptionId < reqs[i].sub /\ svc.id = reqs[i].sub /\ reqs[i].kind = "subscribe"
        BY <1>0, <2>1, <3>1 DEF Subscribed, Asking
      <4>2. ~reqs[i].abandoned
        BY <2>5, <2>6, <3>1
      <4>3. Installs(reqs[i])
        BY <1>4, <2>4, <4>1, <4>2 DEF Installs
      <4> QED
        BY <2>3, <2>8, <3>1, <4>1, <4>2, <4>3
    <3>2. CASE ~(Asking /\ i = cur)
      <4>1. ~Installs(reqs[i])
        BY <2>2, <2>6, <3>2 DEF Installs, Asking
      <4> QED
        BY <2>3, <3>2, <4>1
    <3> QED
      BY <3>1, <3>2
  <2>12. /\ subscriptionId' \in Nat /\ ranges' \in AllRanges /\ subscriptionId' < nextSubscriptionId
    BY <1>4, <2>4, <2>11 DEF Subscribed
  <2>13. TypeInv'
    <3>1. ApiTypes'
      BY <1>0, <1>4, <2>3, <2>9 DEF TypeInv, ApiTypes
    <3>2. RequestTypes'
      <4>1. Len(<<>>) = 0
        OBVIOUS
      <4> QED
        BY <1>0, <2>9, <4>1 DEF TypeInv, RequestTypes
    <3>3. WorkerTypes'
      BY <1>0, <2>9, <2>12 DEF TypeInv, WorkerTypes
    <3> QED
      BY <1>2, <2>9, <3>1, <3>2, <3>3 DEF TypeInv
  <2>14. Hands'
    <3>1. queue # <<>> \/ wpc = "submit" => i # cur /\ cur \in DOMAIN reqs
      <4>1. queue # <<>> \/ wpc = "submit" => work # <<cur>> /\ wpc \in {"submit", "wait"}
        BY DEF Hands, Queued
      <4> QED
        BY <1>3, <2>1, <4>1
    <3>2. wpc = "wait" => reqs'[cur].done \/ queue = <<cur>>
      BY <1>3, <2>1, <2>9, <2>10 DEF Hands, Queued, n
    <3>3. Queued'
      <4>1. queue # <<>> \/ wpc = "submit" => reqs'[cur] = reqs[cur]
        BY <2>9, <3>1
      <4> QED
        BY <1>0, <3>2, <4>1 DEF Hands, Queued
    <3>4. InWork'
      BY <1>0 DEF InWork
    <3>5. \A j \in DOMAIN reqs' : TrueRequest(reqs'[j]) /\ reqs'[j].in <= game'
      BY <1>0, <2>9, <2>10 DEF Hands, n
    <3>6. cur # 0 => cur = Len(reqs') /\ ~reqs'[cur].abandoned /\ reqs'[cur].answer = "none"
      <4>1. cur # 0 => cur \in DOMAIN reqs /\ cur = Len(reqs) /\ ~reqs[cur].abandoned
                       /\ reqs[cur].answer = "none"
        BY <1>3 DEF Hands
      <4> QED
        BY <2>8, <2>9, <4>1 DEF n
    <3> QED
      BY <1>0, <2>9, <3>3, <3>4, <3>5, <3>6 DEF Hands
  <2>15. Asking' <=> Asking /\ i # cur
    BY <1>0, <1>3, <2>1, <2>9, <2>10 DEF Asking, n
  <2>16. Asking' => /\ reqs'[cur].sub = reqs[cur].sub /\ reqs[cur].sub # 0
                    /\ subscriptionId' < reqs[cur].sub /\ \A h \in Loadable : h.id # reqs[cur].sub
    <3>1. Asking => cur \in DOMAIN reqs /\ reqs[cur].sub \in Nat /\ subscriptionId < reqs[cur].sub
      BY <1>3, RequestFields DEF Asking, Subscribed
    <3>2. Asking /\ i # cur => \A h \in Loadable : h.id # reqs[cur].sub
      BY <2>1 DEF Snapshots
    <3> QED
      BY <1>4, <2>9, <2>11, <2>15, <3>1, <3>2
  <2>17. Subscribed'
    <3>1. \A j \in DOMAIN reqs' : reqs'[j].sub < nextSubscriptionId'
      BY <1>0, <2>9, <2>10 DEF Subscribed, n
    <3>2. ranges' = IF wpc = "wait" /\ reqs'[cur].done /\ reqs'[cur].kind = "subscribe"
                    THEN reqs'[cur].accepted ELSE told
      <4>1. CASE i = cur
        <5>1. ~reqs[i].done /\ ranges = told /\ wpc = "wait" /\ ~reqs[i].abandoned
          BY <2>2, <2>5, <2>6, <4>1 DEF Subscribed
        <5>2. n.kind = reqs[i].kind /\ n.done
          BY <2>8, <5>1
        <5>3. Asking <=> n.kind = "subscribe"
          BY <2>2, <4>1, <5>1, <5>2 DEF Asking
        <5> QED
          BY <2>11, <4>1, <5>1, <5>2, <5>3 DEF n
      <4>2. CASE i # cur
        <5>1. wpc = "wait" => reqs'[cur] = reqs[cur]
          BY <1>3, <2>9, <4>2
        <5> QED
          BY <2>11, <4>2, <5>1 DEF Subscribed
      <4> QED
        BY <4>1, <4>2
    <3> QED
      BY <1>0, <1>4, <2>12, <2>16, <3>1, <3>2 DEF Subscribed
  <2>18. Snapshots'
    <3>1. ASSUME NEW h \in Loadable
          PROVE  h.complete /\ h.id = subscriptionId' => h.blocks = ranges'
      BY <2>11, <3>1 DEF Snapshots
    <3>2. ranges' # {} => Last.id = 0 \/ Last.id >= subscriptionId'
      BY <1>2, <1>4, <1>5, <2>11 DEF Snapshots
    <3> QED
      BY <1>0, <1>2, <2>15, <2>16, <3>1, <3>2 DEF Snapshots
  <2>19. Written'
    <3>1. ASSUME NEW j \in DOMAIN reqs'
          PROVE  /\ reqs'[j].applied = 1 /\ reqs'[j].in = game' /\ game' > 0 => j \in mem'
                 /\ reqs'[j].kind = "write" =>
                      /\ reqs'[j].answer = "Ok" => \A h \in Loadable' : Shows(h, j, reqs'[j].in)
                      /\ reqs'[j].done /\ reqs'[j].applied = 1 =>
                           \A h \in Fresh' : Shows(h, j, reqs'[j].in)
      <4>1. CASE j # i
        BY <1>0, <1>2, <2>9, <3>1, <4>1 DEF Written
      <4>2. CASE j = i /\ reqs[i].abandoned
        BY <2>7, <4>2 DEF n
      <4>3. CASE j = i /\ ~reqs[i].abandoned
        <5>1. /\ n.applied = reqs[i].applied /\ n.in = reqs[i].in /\ n.answer = "none"
          BY <2>8, <4>3
        <5>2. n.applied = 1 => Shows(Last, i, n.in)
          BY <1>6, <2>1, <5>1
        <5>3. n.applied = 1 /\ n.in = game /\ game > 0 => i \in mem
          BY <2>1, <5>1 DEF Written
        <5> QED
          BY <1>0, <1>2, <4>3, <5>1, <5>2, <5>3 DEF n
      <4> QED
        BY <4>1, <4>2, <4>3
    <3> QED
      BY <3>1 DEF Written
  <2>20. Current'
    <3>1. wpc = "read" => subscriptionId' = subscriptionId /\ ranges' = ranges
      BY <2>11 DEF Asking
    <3> QED
      BY <1>0, <1>2, <1>5, <3>1 DEF Current
  <2>21. PollInv'
    <3>1. \A j \in DOMAIN reqs' : reqs'[j].kind = "write" /\ reqs'[j].answer = "Ok" => reqs'[j] = reqs[j]
      BY <2>7, <2>8, <2>9 DEF n
    <3> QED
      BY <1>0, <2>9, <3>1 DEF PollInv
  <2> QED
    BY <2>13, <2>14, <2>17, <2>18, <2>19, <2>20, <2>21
<1> QED
  BY <1>7, <1>8

-----------------------------------------------------------------------------
(* The theorems.                                                           *)

LEMMA InitInv == Init => IInv
<1> SUFFICES ASSUME Init PROVE IInv
  OBVIOUS
<1> USE DEF Init
<1>1. /\ reqs = <<>> /\ DOMAIN reqs = {} /\ Len(reqs) = 0 /\ Len(work) = 0 /\ work = <<>> /\ queue = <<>>
      /\ reqs \in Seq(RequestType)
  OBVIOUS
<1>2. /\ NoSnapshot \in SnapType /\ NoSnapshot.mem = {} /\ NoSnapshot.id = 0 /\ NoSnapshot.game = 0
      /\ ~NoSnapshot.complete
  BY DEF NoSnapshot, SnapType, AllRanges
<1>3. snaps \in Seq(SnapType) /\ Len(snaps) = 1 /\ rel = 1 /\ DOMAIN snaps = {1} /\ snaps[1] = NoSnapshot
  BY <1>2
<1>4. SnapTypes /\ Loadable = {NoSnapshot} /\ Fresh = {NoSnapshot} /\ Last = NoSnapshot
  BY <1>3 DEF SnapTypes, Loadable, Fresh, Last
<1>5. TypeInv
  <2>1. ApiTypes
    BY DEF ApiTypes, NoSet, AllRanges
  <2>2. RequestTypes
    BY <1>1 DEF RequestTypes
  <2>3. WorkerTypes
    BY DEF WorkerTypes, NoPoll, NoSub, AllRanges
  <2> QED
    BY <1>2, <1>4, <2>1, <2>2, <2>3 DEF TypeInv
<1>6. Hands
  BY <1>1 DEF Hands, Queued, InWork
<1>7. ~Asking
  BY DEF Asking
<1>8. Subscribed /\ Snapshots
  BY <1>1, <1>2, <1>4, <1>7 DEF Subscribed, Snapshots, NoSet
<1>9. Written /\ Current /\ PollInv
  BY <1>1, <1>2, <1>4 DEF Written, Current, PollInv
<1> QED
  BY <1>5, <1>6, <1>8, <1>9 DEF IInv

LEMMA StepInv == IInv /\ [Next]_vars => IInv'
<1> SUFFICES ASSUME IInv, [Next]_vars PROVE IInv'
  OBVIOUS
<1>1. CASE Worker
  BY <1>1, SubmitKeeps, EndWaitKeeps, PollSubscriptionKeeps, PollReadKeeps, PollReplyKeeps,
     WorkerEndsKeeps DEF Worker
<1>2. CASE Daemon
  BY <1>2, SubscribeKeeps, SubscribeNothingKeeps, ClearKeeps, ReadDirectKeeps, PollBeginKeeps,
     WriteKeeps DEF Daemon
<1>3. CASE Servicing
  BY <1>3, GameEndedKeeps, ServiceAnswerKeeps, ServicePublishKeeps, ServiceCompleteKeeps DEF Servicing
<1>4. CASE GameStart \/ GameEnd \/ ServiceTake \/ Stop
  BY <1>4, GameStartKeeps, GameEndKeeps, ServiceTakeKeeps, StopKeeps
<1>5. CASE UNCHANGED vars
  <2>1. UNCHANGED <<apc, work, at, svc, game, mem, running, gameRunning, writesUnsupported, space, reqs,
                    queue, ranges, subscriptionId, nextSubscriptionId, snaps, rel, wpc, cur, told, poll,
                    began, sub, frames, clears>>
    BY <1>5 DEF vars, api, subscr, polling, bounds
  <2>2. SnapTypes' /\ Last' = Last /\ Loadable' = Loadable /\ Fresh' = Fresh
    BY <2>1, SameSnaps DEF IInv, TypeInv
  <2>3. TypeInv'
    BY <2>1, <2>2 DEF IInv, TypeInv, ApiTypes, RequestTypes, WorkerTypes
  <2>4. Hands'
    BY <2>1 DEF IInv, Hands, Queued, InWork
  <2>5. Asking' <=> Asking
    BY <2>1 DEF Asking
  <2>6. Subscribed' /\ Snapshots'
    BY <2>1, <2>2, <2>5 DEF IInv, Subscribed, Snapshots
  <2>7. Written' /\ Current' /\ PollInv'
    BY <2>1, <2>2 DEF IInv, Written, Current, PollInv
  <2> QED
    BY <2>3, <2>4, <2>6, <2>7 DEF IInv
<1> QED
  BY <1>1, <1>2, <1>3, <1>4, <1>5 DEF Next

\* Who holds a request and what its answer says, which set is installed, told and
\* published, and which snapshots a Poll may load, for any number of requests, frames,
\* games and Clears (MemoryBridge::Submit, Service, SetGameRunning and Poll).
THEOREM BridgeInvariant == Spec => []IInv
BY InitInv, StepInv, PTL DEF Spec

\* Every variable keeps its type, and at most one request is queued or in work, so that
\* QUEUE_LIMIT is never reached (MemoryBridge::Submit waits for each).
THEOREM TypeCorrect == Spec => []TypeOK
<1>1. ASSUME IInv
      PROVE  TypeOK
  <2> USE <1>1 DEF IInv, TypeInv
  <2>1. snaps \in Seq(Snapshot) /\ rel \in 1 .. Len(snaps)
    <3>1. snaps \in Seq(SnapType) /\ rel \in 1 .. Len(snaps)
      BY DEF SnapTypes
    <3>2. ASSUME NEW j \in 1 .. Len(snaps)
          PROVE  snaps[j] \in Snapshot
      <4>1. snaps[j] \in SnapType /\ snaps[j] \in Loadable
        BY <3>1, <3>2 DEF Loadable
      <4>2. snaps[j].mem \in SUBSET DOMAIN reqs
        BY <4>1
      <4> QED
        BY <4>1, <4>2 DEF SnapType, Snapshot, AllRanges
    <3>3. snaps \in [1 .. Len(snaps) -> Snapshot]
      <4>1. snaps = [j \in 1 .. Len(snaps) |-> snaps[j]]
        BY <3>1
      <4> QED
        BY <3>2, <4>1
    <3> QED
      BY <3>1, <3>3
  <2>2. poll \in [blocks : SUBSET UNION Sets, game : Nat, mem : SUBSET DOMAIN reqs]
    BY DEF WorkerTypes, AllRanges
  <2> QED
    BY <2>1, <2>2 DEF TypeOK, ApiTypes, RequestTypes, WorkerTypes, AllRanges
<1> QED
  BY <1>1, BridgeInvariant, PTL

\* What the daemon is told is true: Ok for a Write that was applied once and anything
\* else for one that never was and will not be; a Poll's set is the one the daemon was
\* told of, its bytes are of the game it saw running or a later one and show what was
\* written in it; an installed subscription is the oldest that can be read
\* (MemoryBridge::Submit, Service, Complete and Poll).
THEOREM ToldTruly == Spec => []AnsweredTruly
<1>1. ASSUME IInv
      PROVE  AnsweredTruly
  <2> USE <1>1 DEF IInv
  <2>1. WriteTruly
    BY DEF WriteTruly, Hands, TrueRequest
  <2>2. PollIsSubscription /\ PollIsCurrent
    BY DEF PollIsSubscription, PollIsCurrent, PollInv
  <2>3. SubscribedIsServed
    BY DEF SubscribedIsServed, Snapshots, Fresh
  <2> QED
    BY <2>1, <2>2, <2>3 DEF AnsweredTruly
<1> QED
  BY <1>1, BridgeInvariant, PTL
=============================================================================
