------------------------ MODULE TransLockQueue_proofs ------------------------
(***************************************************************************)
(* Proofs about the wait lists of the transaction lock manager, for any    *)
(* number of EDUs and locks: the linked list goes through exactly the EDUs *)
(* that wait, the first of them never misses a wake-up, and the whole      *)
(* implements the lock table.                                              *)
(*                                                                         *)
(* The links of a lock are related to a sequence of EDUs.  A new waiter is *)
(* appended to it, and who leaves is taken out of it; what the walk over   *)
(* the links finds is this sequence.                                       *)
(***************************************************************************)
EXTENDS TransLock_proofs, Sequences, FiniteSetTheorems, SetBounds

-----------------------------------------------------------------------------
(* Links and sequences. *)

(* What follows the i-th of q. *)
Follow(q, i) == IF i < Len(q) THEN q[i + 1] ELSE NULL

(* From first, the links of lock l go through q. *)
Chain(q, first, infos, l) ==
  /\ q \in Seq(EDUs)
  /\ \A i, j \in 1 .. Len(q) : q[i] = q[j] => i = j
  /\ first = Follow(q, 0)
  /\ \A i \in 1 .. Len(q) : /\ infos[q[i]][l] # NoInfo
                            /\ infos[q[i]][l].next = Follow(q, i)

(* The waiters of l in their order. *)
Queue(q, l) ==
  /\ Chain(q, waitCB[l], lockInfo, l)
  /\ \A e \in EDUs : InWait(e, l) <=> \E i \in 1 .. Len(q) : q[i] = e

Queues == \A l \in LockIds : \E q : Queue(q, l)

(* A list without repetition is no longer than there are EDUs. *)
LEMMA ChainShort ==
  ASSUME NEW q \in Seq(EDUs), \A i, j \in 1 .. Len(q) : q[i] = q[j] => i = j
  PROVE Len(q) \in 0 .. Cardinality(EDUs) /\ Cardinality(EDUs) \in Nat
<1>1. Len(q) \in Nat /\ q \in [1 .. Len(q) -> EDUs]
  OBVIOUS
<1>2. q \in Injection(1 .. Len(q), EDUs)
  BY <1>1 DEF Injection, IsInjective
<1>3. Cardinality(1 .. Len(q)) = Len(q)
  BY <1>1, FS_Interval
<1>4. IsFiniteSet(EDUs) /\ Cardinality(EDUs) \in Nat
  BY EDUAssumption, FS_CardinalityType
<1>5. Cardinality(1 .. Len(q)) <= Cardinality(EDUs)
  BY <1>2, <1>4, FS_Injection
<1> QED BY <1>1, <1>3, <1>4, <1>5

(* The walk over the links finds the sequence, and then the end. *)
LEMMA NodeIs ==
  ASSUME NEW l, NEW q, Chain(q, waitCB[l], lockInfo, l)
  PROVE /\ WaitNode(l) = [n \in 0 .. Cardinality(EDUs) |-> Follow(q, n)]
        /\ Cardinality(EDUs) \in Nat /\ Len(q) \in 0 .. Cardinality(EDUs)
        /\ q \in Seq(EDUs)
<1> DEFINE N == Cardinality(EDUs)
           g == [n \in 0 .. N |-> Follow(q, n)]
<1>0. N \in Nat /\ Len(q) \in 0 .. N /\ q \in Seq(EDUs)
  BY ChainShort DEF Chain
<1>1. ASSUME NEW n \in 1 .. N
      PROVE Follow(q, n) = IF Follow(q, n - 1) = NULL \/ lockInfo[Follow(q, n - 1)][l] = NoInfo
                           THEN NULL ELSE lockInfo[Follow(q, n - 1)][l].next
  <2>1. CASE n - 1 < Len(q)
    <3>1. n \in 1 .. Len(q) /\ Follow(q, n - 1) = q[n] /\ q[n] \in EDUs
      BY <1>0, <2>1 DEF Follow
    <3>2. lockInfo[q[n]][l] # NoInfo /\ lockInfo[q[n]][l].next = Follow(q, n)
      BY <3>1 DEF Chain
    <3> QED BY <3>1, <3>2, NullAssumption
  <2>2. CASE ~(n - 1 < Len(q))
    BY <1>0, <2>2 DEF Follow
  <2> QED BY <2>1, <2>2
<1> HIDE DEF N
<1>2. g = [n \in 0 .. N |-> IF n = 0 THEN waitCB[l]
             ELSE IF g[n - 1] = NULL \/ lockInfo[g[n - 1]][l] = NoInfo
                  THEN NULL ELSE lockInfo[g[n - 1]][l].next]
  <2>1. \A n \in 0 .. N : g[n] = IF n = 0 THEN waitCB[l]
             ELSE IF g[n - 1] = NULL \/ lockInfo[g[n - 1]][l] = NoInfo
                  THEN NULL ELSE lockInfo[g[n - 1]][l].next
    <3> TAKE n \in 0 .. N
    <3>1. CASE n = 0
      BY <1>0, <3>1 DEF Chain
    <3>2. CASE n # 0
      <4>1. n \in 1 .. N /\ n - 1 \in 0 .. N
        BY <1>0, <3>2
      <4>2. g[n] = Follow(q, n) /\ g[n - 1] = Follow(q, n - 1)
        BY <4>1
      <4> HIDE DEF g
      <4> QED BY <1>1, <3>2, <4>1, <4>2
    <3> QED BY <3>1, <3>2
  <2>2. g = [n \in 0 .. N |-> g[n]]
    OBVIOUS
  <2> HIDE DEF g
  <2> QED BY <2>1, <2>2
<1>a. \A n \in 0 .. N : g[n] = Follow(q, n)
  OBVIOUS
<1>b. g = [n \in 0 .. N |-> Follow(q, n)]
  OBVIOUS
<1> HIDE DEF g
<1>3. PICK f : /\ f = [n \in 0 .. N |-> IF n = 0 THEN waitCB[l]
                    ELSE IF f[n - 1] = NULL \/ lockInfo[f[n - 1]][l] = NoInfo
                         THEN NULL ELSE lockInfo[f[n - 1]][l].next]
               /\ WaitNode(l) = f
  BY <1>2 DEF WaitNode, N
<1>4. f[0] = waitCB[l] /\ g[0] = waitCB[l]
  <2>1. 0 \in 0 .. N
    BY <1>0
  <2>2. f[0] = waitCB[l]
    BY <1>3, <2>1
  <2>3. g[0] = waitCB[l]
    BY <1>2, <2>1
  <2> QED BY <2>2, <2>3
<1>5. ASSUME NEW n \in 1 .. N, f[n - 1] = g[n - 1] PROVE f[n] = g[n]
  <2>1. n \in 0 .. N /\ n # 0
    BY <1>0
  <2>2. f[n] = IF f[n - 1] = NULL \/ lockInfo[f[n - 1]][l] = NoInfo
               THEN NULL ELSE lockInfo[f[n - 1]][l].next
    BY <1>3, <2>1
  <2>3. g[n] = IF g[n - 1] = NULL \/ lockInfo[g[n - 1]][l] = NoInfo
               THEN NULL ELSE lockInfo[g[n - 1]][l].next
    BY <1>2, <2>1
  <2> QED BY <1>5, <2>2, <2>3
<1>6. \A n \in 0 .. N : f[n] = g[n]
  <2> TAKE n \in 0 .. N
  <2>1. n \in Nat /\ \A i \in 1 .. n : i \in 1 .. N
    BY <1>0
  <2> QED BY <1>4, <1>5, <2>1, SameFromStart
<1>7. f = g
  <2>1. f = [n \in 0 .. N |-> f[n]]
    BY <1>3
  <2>2. g = [n \in 0 .. N |-> g[n]]
    BY <1>b, <1>a
  <2> QED BY <1>6, <2>1, <2>2
<1> QED BY <1>0, <1>3, <1>7, <1>b DEF N

(* The EDUs the walk passes. *)
LEMMA InQueueIs ==
  ASSUME NEW l, NEW q, Chain(q, waitCB[l], lockInfo, l)
  PROVE \A e : e \in InQueue(l) <=> \E i \in 1 .. Len(q) : q[i] = e
<1>1. /\ WaitNode(l) = [n \in 0 .. Cardinality(EDUs) |-> Follow(q, n)]
      /\ Cardinality(EDUs) \in Nat /\ Len(q) \in 0 .. Cardinality(EDUs)
      /\ q \in Seq(EDUs)
  BY NodeIs
<1>2. InQueue(l) = {Follow(q, n) : n \in 0 .. Cardinality(EDUs)} \ {NULL}
  BY <1>1 DEF InQueue
<1>3. \A i \in 1 .. Len(q) : q[i] \in InQueue(l)
  <2> TAKE i \in 1 .. Len(q)
  <2>1. i - 1 \in 0 .. Cardinality(EDUs) /\ q[i] = Follow(q, i - 1)
    BY <1>1 DEF Follow
  <2>2. q[i] \in EDUs
    BY <1>1
  <2> QED BY <1>2, <2>1, <2>2, NullAssumption
<1>4. \A e \in InQueue(l) : \E i \in 1 .. Len(q) : q[i] = e
  <2> TAKE e \in InQueue(l)
  <2>1. PICK n \in 0 .. Cardinality(EDUs) : e = Follow(q, n) /\ e # NULL
    BY <1>2
  <2>2. n < Len(q) /\ e = q[n + 1] /\ n + 1 \in 1 .. Len(q)
    BY <1>1, <2>1 DEF Follow
  <2> QED BY <2>2
<1> QED BY <1>3, <1>4

(* What Relink does to one link. *)
LEMMA RelinkNext ==
  ASSUME NEW infos \in InfoLists, NEW l \in LockIds, NEW old,
         NEW new \in EDUs \cup {NULL}, NEW w \in EDUs, NEW m \in LockIds,
         infos[w][m] # NoInfo
  PROVE LET r == Relink(infos, l, old, new)[w][m]
        IN /\ r # NoInfo
           /\ m = l /\ w \in InQueue(l) /\ infos[w][l].next = old => r.next = new
           /\ ~(m = l /\ w \in InQueue(l) /\ infos[w][l].next = old)
                => r.next = infos[w][m].next
<1> DEFINE R == Relink(infos, l, old, new)
           Hit == w \in InQueue(l) /\ infos[w][l] # NoInfo /\ infos[w][l].next = old
<1>1. R[w] = IF Hit THEN [infos[w] EXCEPT ![l].next = new] ELSE infos[w]
  BY Zenon DEF Relink
<1>2. R[w][m] # NoInfo
  BY RelinkType
<1> HIDE DEF R
<1>3. infos[w] \in [LockIds -> LockInfo \cup {NoInfo}] /\ infos[w][m] \in LockInfo
  BY DEF InfoLists
<1>4. CASE Hit /\ m = l
  <2>1. R[w][m] = [infos[w][l] EXCEPT !.next = new]
    BY <1>1, <1>3, <1>4
  <2> QED BY <1>2, <1>3, <1>4, <2>1 DEF LockInfo, R
<1>5. CASE ~(Hit /\ m = l)
  <2>1. R[w][m] = infos[w][m]
    BY <1>1, <1>3, <1>5
  <2> QED BY <1>2, <1>5, <2>1 DEF R
<1> QED BY <1>4, <1>5

-----------------------------------------------------------------------------
(* Steps and queues. *)

(* A lock whose links and waiters stay the same keeps its queue. *)
LEMMA QueueSame ==
  ASSUME NEW l \in LockIds, NEW q, Queue(q, l),
         waitCB'[l] = waitCB[l],
         \A w \in EDUs : InWait(w, l)' <=> InWait(w, l),
         \A w \in EDUs : InWait(w, l)
           => lockInfo'[w][l] # NoInfo /\ lockInfo'[w][l].next = lockInfo[w][l].next
  PROVE Queue(q, l)'
<1>1. Chain(q, waitCB[l], lockInfo, l) /\ q \in Seq(EDUs)
  BY DEF Queue, Chain
<1>2. \A e \in EDUs : InWait(e, l) <=> \E i \in 1 .. Len(q) : q[i] = e
  BY DEF Queue
<1>3. ASSUME NEW i \in 1 .. Len(q)
      PROVE /\ lockInfo'[q[i]][l] # NoInfo
            /\ lockInfo'[q[i]][l].next = Follow(q, i)
  <2>1. q[i] \in EDUs
    BY <1>1
  <2>2. InWait(q[i], l)
    BY <1>2, <2>1
  <2> QED BY <1>1, <2>1, <2>2 DEF Chain
<1>4. Chain(q, waitCB'[l], lockInfo', l)
  BY <1>1, <1>3 DEF Chain
<1>5. \A e \in EDUs : InWait(e, l)' <=> \E i \in 1 .. Len(q) : q[i] = e
  BY <1>2
<1> QED BY <1>4, <1>5 DEF Queue

(* appendToWait: the new waiter is behind all others. *)
LEMMA QueueJoins ==
  ASSUME TypeInv, NEW e \in EDUs, AcquireAppend(e), NEW q, Queue(q, At(e))
  PROVE /\ Chain(Append(q, e), waitCB'[At(e)], lockInfo', At(e))
        /\ ~InWait(e, At(e)) /\ ~\E i \in 1 .. Len(q) : q[i] = e
<1> DEFINE l == At(e)
<1>0. /\ pc[e] = "acquire" /\ Info(e) = NoInfo /\ l \in LockIds
      /\ NewInfo(e) \in InfoLists
      /\ NewInfo(e)[e][l] # NoInfo /\ NewInfo(e)[e][l].next = NULL
      /\ \A f \in EDUs, m \in LockIds :
           f # e \/ m # l => NewInfo(e)[f][m] = lockInfo[f][m]
  <2>1. pc[e] = "acquire" /\ Info(e) = NoInfo
    BY DEF AcquireAppend
  <2>2. l \in LockIds
    BY <2>1, AcquireFacts DEF BusyPCs
  <2>3. NewInfo(e)[e][l].next = NULL
    BY <2>2 DEF NewInfo, TypeInv, TypeOK, InfoLists
  <2> QED BY <2>1, <2>2, <2>3, NewInfoType
<1>1. ~InWait(e, l)
  BY <1>0 DEF InWait
<1>2. /\ Chain(q, waitCB[l], lockInfo, l) /\ q \in Seq(EDUs) /\ Len(q) \in Nat
      /\ \A i, j \in 1 .. Len(q) : q[i] = q[j] => i = j
  BY DEF Queue, Chain
<1>3. \A i \in 1 .. Len(q) : q[i] \in EDUs /\ q[i] # e
  BY <1>1, <1>2 DEF Queue
<1> DEFINE r == Append(q, e)
<1>4. /\ r \in Seq(EDUs) /\ Len(r) = Len(q) + 1 /\ r[Len(q) + 1] = e
      /\ \A i \in 1 .. Len(q) : r[i] = q[i]
  BY <1>2
<1> HIDE DEF r
<1>5. \A i, j \in 1 .. Len(r) : r[i] = r[j] => i = j
  <2> SUFFICES ASSUME NEW i \in 1 .. Len(r), NEW j \in 1 .. Len(r), r[i] = r[j]
               PROVE i = j
    OBVIOUS
  <2>1. \A k \in 1 .. Len(r) : k \in 1 .. Len(q) \/ k = Len(q) + 1
    BY <1>2, <1>4
  <2> QED BY <1>2, <1>3, <1>4, <2>1
<1>6. \A i \in 1 .. Len(q) : NewInfo(e)[q[i]][l] = lockInfo[q[i]][l]
  BY <1>0, <1>3
<1>7. CASE waitCB[l] = NULL
  <2>1. waitCB' = [waitCB EXCEPT ![l] = e] /\ lockInfo' = NewInfo(e)
    BY <1>7 DEF AcquireAppend, hasWait
  <2>2. waitCB'[l] = e
    BY <1>0, <2>1 DEF TypeInv, TypeOK
  <2>3. Len(q) = 0
    <3>1. ASSUME Len(q) # 0 PROVE FALSE
      <4>1. 0 < Len(q) /\ 1 \in 1 .. Len(q)
        BY <1>2, <3>1
      <4>2. waitCB[l] = q[1]
        BY <1>2, <4>1 DEF Chain, Follow
      <4> QED BY <1>3, <1>7, <4>1, <4>2, NullAssumption
    <3> QED BY <3>1
  <2>4. Follow(r, 0) = e /\ Follow(r, 1) = NULL
    BY <1>4, <2>3 DEF Follow
  <2>5. Chain(r, waitCB'[l], lockInfo', l)
    BY <1>0, <1>4, <1>5, <2>1, <2>2, <2>3, <2>4 DEF Chain
  <2> QED BY <1>1, <1>3, <2>5 DEF r
<1>8. CASE waitCB[l] # NULL
  <2>1. waitCB' = waitCB /\ lockInfo' = Relink(NewInfo(e), l, NULL, e)
    BY <1>8 DEF AcquireAppend, hasWait
  <2>2. Len(q) # 0
    BY <1>2, <1>8 DEF Chain, Follow
  <2>3. Follow(r, 0) = waitCB'[l]
    BY <1>2, <1>4, <2>1, <2>2 DEF Chain, Follow
  <2>4. \A w : w \in InQueue(l) <=> \E i \in 1 .. Len(q) : q[i] = w
    BY <1>2, InQueueIs
  <2>5. ASSUME NEW i \in 1 .. Len(r)
        PROVE /\ lockInfo'[r[i]][l] # NoInfo
              /\ lockInfo'[r[i]][l].next = Follow(r, i)
    <3>1. CASE i = Len(q) + 1
      <4>1. r[i] = e /\ Follow(r, i) = NULL /\ e \notin InQueue(l)
        BY <1>3, <1>4, <2>4, <3>1 DEF Follow
      <4>2. /\ lockInfo'[e][l] # NoInfo
            /\ lockInfo'[e][l].next = NewInfo(e)[e][l].next
        BY <1>0, <2>1, <4>1, RelinkNext
      <4> QED BY <1>0, <4>1, <4>2
    <3>2. CASE i # Len(q) + 1
      <4>1. i \in 1 .. Len(q) /\ r[i] = q[i]
        BY <1>2, <1>4, <3>2
      <4>2. /\ q[i] \in EDUs /\ q[i] \in InQueue(l)
            /\ NewInfo(e)[q[i]][l] # NoInfo
            /\ NewInfo(e)[q[i]][l].next = Follow(q, i)
        BY <1>2, <1>3, <1>6, <2>4, <4>1 DEF Chain
      <4>3. CASE i = Len(q)
        <5>1. Follow(q, i) = NULL /\ Follow(r, i) = e
          BY <1>2, <1>4, <4>3 DEF Follow
        <5> QED BY <1>0, <2>1, <4>1, <4>2, <5>1, RelinkNext
      <4>4. CASE i # Len(q)
        <5>1. i + 1 \in 1 .. Len(q) /\ i < Len(q) /\ i < Len(r)
          BY <1>2, <1>4, <4>1, <4>4
        <5>2. Follow(q, i) = q[i + 1] /\ Follow(r, i) = q[i + 1]
          BY <1>4, <5>1 DEF Follow
        <5>3. Follow(q, i) # NULL
          BY <1>3, <5>1, <5>2, NullAssumption
        <5> QED BY <1>0, <2>1, <4>1, <4>2, <5>2, <5>3, RelinkNext
      <4> QED BY <4>3, <4>4
    <3> QED BY <3>1, <3>2
  <2>6. Chain(r, waitCB'[l], lockInfo', l)
    BY <1>4, <1>5, <2>3, <2>5 DEF Chain
  <2> QED BY <1>1, <1>3, <2>6 DEF r
<1> QED BY <1>7, <1>8

(* q without its k-th. *)
Removed(q, k) == [i \in 1 .. Len(q) - 1 |-> IF i < k THEN q[i] ELSE q[i + 1]]

LEMMA RemovedIs ==
  ASSUME NEW q \in Seq(EDUs), NEW k \in 1 .. Len(q),
         \A i, j \in 1 .. Len(q) : q[i] = q[j] => i = j
  PROVE LET r == Removed(q, k)
        IN /\ r \in Seq(EDUs) /\ Len(r) = Len(q) - 1
           /\ \A i \in 1 .. Len(r) : r[i] = IF i < k THEN q[i] ELSE q[i + 1]
           /\ \A i, j \in 1 .. Len(r) : r[i] = r[j] => i = j
           /\ \A i \in 0 .. Len(r) :
                Follow(r, i) = IF i < k - 1 THEN Follow(q, i) ELSE Follow(q, i + 1)
           /\ \A e \in EDUs : (\E i \in 1 .. Len(r) : r[i] = e)
                <=> e # q[k] /\ \E i \in 1 .. Len(q) : q[i] = e
<1> DEFINE r == Removed(q, k)
<1>0. Len(q) \in Nat /\ Len(q) >= 1 /\ k \in Nat /\ Len(q) - 1 \in Nat
  OBVIOUS
<1>1. r \in [1 .. Len(q) - 1 -> EDUs]
  <2>1. ASSUME NEW i \in 1 .. Len(q) - 1
        PROVE (IF i < k THEN q[i] ELSE q[i + 1]) \in EDUs
    BY <1>0
  <2> QED BY <2>1 DEF Removed
<1>2. r \in Seq(EDUs) /\ Len(r) = Len(q) - 1
  BY <1>0, <1>1
<1>3. \A i \in 1 .. Len(q) - 1 : r[i] = IF i < k THEN q[i] ELSE q[i + 1]
  BY DEF Removed
<1> HIDE DEF r
<1>4. \A i, j \in 1 .. Len(r) : r[i] = r[j] => i = j
  <2> SUFFICES ASSUME NEW i \in 1 .. Len(r), NEW j \in 1 .. Len(r), r[i] = r[j]
               PROVE i = j
    OBVIOUS
  <2>1. /\ i \in 1 .. Len(q) /\ i + 1 \in 1 .. Len(q)
        /\ j \in 1 .. Len(q) /\ j + 1 \in 1 .. Len(q)
        /\ i \in Nat /\ j \in Nat
    BY <1>0, <1>2
  <2>2. /\ r[i] = IF i < k THEN q[i] ELSE q[i + 1]
        /\ r[j] = IF j < k THEN q[j] ELSE q[j + 1]
    BY <1>2, <1>3
  <2>3. CASE i < k /\ j < k
    BY <2>1, <2>2, <2>3
  <2>4. CASE i < k /\ ~(j < k)
    <3>1. q[i] = q[j + 1]
      BY <2>2, <2>4
    <3>2. i = j + 1
      BY <2>1, <3>1
    <3> QED BY <1>0, <2>1, <2>4, <3>2
  <2>5. CASE ~(i < k) /\ j < k
    <3>1. q[i + 1] = q[j]
      BY <2>2, <2>5
    <3>2. i + 1 = j
      BY <2>1, <3>1
    <3> QED BY <1>0, <2>1, <2>5, <3>2
  <2>6. CASE ~(i < k) /\ ~(j < k)
    <3>1. i + 1 = j + 1
      BY <2>1, <2>2, <2>6
    <3> QED BY <2>1, <3>1
  <2> QED BY <2>3, <2>4, <2>5, <2>6
<1>5. ASSUME NEW i \in 0 .. Len(r)
      PROVE Follow(r, i) = IF i < k - 1 THEN Follow(q, i) ELSE Follow(q, i + 1)
  <2>0. i \in Nat
    BY <1>0, <1>2
  <2>1. CASE i < Len(r)
    <3>1. i + 1 \in 1 .. Len(q) - 1 /\ i < Len(q) /\ i + 1 < Len(q)
      BY <1>0, <1>2, <2>0, <2>1
    <3>2. Follow(r, i) = IF i + 1 < k THEN q[i + 1] ELSE q[i + 1 + 1]
      BY <1>3, <2>1, <3>1 DEF Follow
    <3> QED BY <1>0, <2>0, <3>1, <3>2 DEF Follow
  <2>2. CASE ~(i < Len(r))
    <3>1. ~(i < k - 1) /\ ~(i + 1 < Len(q))
      BY <1>0, <1>2, <2>0, <2>2
    <3> QED BY <2>2, <3>1 DEF Follow
  <2> QED BY <2>1, <2>2
<1>6. ASSUME NEW e \in EDUs
      PROVE (\E i \in 1 .. Len(r) : r[i] = e)
              <=> e # q[k] /\ \E i \in 1 .. Len(q) : q[i] = e
  <2>1. ASSUME NEW i \in 1 .. Len(r), r[i] = e
        PROVE e # q[k] /\ \E j \in 1 .. Len(q) : q[j] = e
    <3>1. i \in 1 .. Len(q) /\ i + 1 \in 1 .. Len(q) /\ i \in Nat
      BY <1>0, <1>2
    <3>2. CASE i < k
      BY <1>0, <1>2, <1>3, <2>1, <3>1, <3>2
    <3>3. CASE ~(i < k)
      <4>1. q[i + 1] = e /\ i + 1 # k
        BY <1>0, <1>2, <1>3, <2>1, <3>1, <3>3
      <4> QED BY <3>1, <4>1
    <3> QED BY <3>2, <3>3
  <2>2. ASSUME NEW i \in 1 .. Len(q), q[i] = e, e # q[k]
        PROVE \E j \in 1 .. Len(r) : r[j] = e
    <3>0. i # k /\ i \in Nat
      BY <2>2
    <3>1. CASE i < k
      <4>1. i \in 1 .. Len(q) - 1
        BY <1>0, <3>0, <3>1
      <4> QED BY <1>2, <1>3, <2>2, <3>1, <4>1
    <3>2. CASE ~(i < k)
      <4>1. i - 1 \in 1 .. Len(q) - 1 /\ ~(i - 1 < k) /\ (i - 1) + 1 = i
        BY <1>0, <3>0, <3>2
      <4>2. r[i - 1] = e
        BY <1>3, <2>2, <4>1
      <4> QED BY <1>2, <4>1, <4>2
    <3> QED BY <3>1, <3>2
  <2> QED BY <2>1, <2>2
<1> QED BY <1>2, <1>3, <1>4, <1>5, <1>6 DEF r

(* removeFromWait takes its caller out of the queue, wherever it is. *)
LEMMA QueueLeaves ==
  ASSUME TypeInv, NEW e \in EDUs, pc[e] \in WaitPCs, removeFromWait(e, At(e)),
         NEW q, Queue(q, At(e))
  PROVE \E k \in 1 .. Len(q) :
          /\ q[k] = e /\ Chain(Removed(q, k), waitCB'[At(e)], lockInfo', At(e))
          /\ waitCB[At(e)] = e <=> k = 1
<1> DEFINE l == At(e)
           next == lockInfo[e][l].next
<1>0. l \in LockIds /\ lockInfo \in InfoLists /\ waitCB \in [LockIds -> EDUs \cup {NULL}]
  BY AcquireFacts DEF BusyPCs, TypeInv, TypeOK
<1>1. /\ Chain(q, waitCB[l], lockInfo, l) /\ q \in Seq(EDUs) /\ Len(q) \in Nat
      /\ \A i, j \in 1 .. Len(q) : q[i] = q[j] => i = j
  BY DEF Queue, Chain
<1>2. PICK k \in 1 .. Len(q) : q[k] = e
  BY DEF Queue, InWait, WaitPCs
<1>3. k \in Nat /\ k >= 1 /\ k <= Len(q)
  BY <1>1
<1>4. next = Follow(q, k) /\ next \in EDUs \cup {NULL}
  <2>1. next = Follow(q, k) /\ lockInfo[e][l] # NoInfo
    BY <1>2 DEF Queue, Chain
  <2> QED BY <1>0, <2>1 DEF InfoLists, LockInfo
<1> DEFINE r == Removed(q, k)
<1>5. /\ r \in Seq(EDUs) /\ Len(r) = Len(q) - 1
      /\ \A i \in 1 .. Len(r) : r[i] = IF i < k THEN q[i] ELSE q[i + 1]
      /\ \A i, j \in 1 .. Len(r) : r[i] = r[j] => i = j
      /\ \A i \in 0 .. Len(r) :
           Follow(r, i) = IF i < k - 1 THEN Follow(q, i) ELSE Follow(q, i + 1)
  BY <1>1, RemovedIs
<1> HIDE DEF r
<1>6. waitCB[l] = e <=> k = 1
  <2>1. waitCB[l] = q[1] /\ 1 \in 1 .. Len(q)
    BY <1>1, <1>3 DEF Chain, Follow
  <2> QED BY <1>1, <1>2, <2>1
<1>7. \A i \in 1 .. Len(q) : /\ q[i] \in EDUs /\ lockInfo[q[i]][l] # NoInfo
                             /\ lockInfo[q[i]][l].next = Follow(q, i)
  BY <1>1 DEF Chain
<1>8. CASE waitCB[l] = e
  <2>1. /\ waitCB' = [waitCB EXCEPT ![l] = next] /\ lockInfo' = lockInfo /\ k = 1
    BY <1>6, <1>8 DEF removeFromWait
  <2>2. waitCB'[l] = Follow(q, 1)
    BY <1>0, <1>4, <2>1
  <2>3. Follow(r, 0) = Follow(q, 1)
    BY <1>1, <1>3, <1>5, <2>1
  <2>4. ASSUME NEW i \in 1 .. Len(r)
        PROVE lockInfo'[r[i]][l] # NoInfo /\ lockInfo'[r[i]][l].next = Follow(r, i)
    <3>1. i + 1 \in 1 .. Len(q) /\ ~(i < 1) /\ i \in 0 .. Len(r) /\ ~(i < 1 - 1)
      BY <1>1, <1>3, <1>5
    <3>2. r[i] = q[i + 1] /\ Follow(r, i) = Follow(q, i + 1)
      BY <1>5, <2>1, <3>1
    <3> QED BY <1>7, <2>1, <3>1, <3>2
  <2>5. Chain(r, waitCB'[l], lockInfo', l)
    BY <1>5, <2>2, <2>3, <2>4 DEF Chain
  <2> QED BY <1>2, <1>6, <2>5 DEF r
<1>9. CASE waitCB[l] # e
  <2>1. waitCB' = waitCB /\ lockInfo' = Relink(lockInfo, l, e, next) /\ k # 1
    BY <1>6, <1>9 DEF removeFromWait
  <2>2. waitCB'[l] = Follow(r, 0)
    <3>1. 0 < k - 1 /\ 0 \in 0 .. Len(r)
      BY <1>1, <1>3, <1>5, <2>1
    <3> QED BY <1>1, <1>5, <2>1, <3>1 DEF Chain
  <2>3. \A w : w \in InQueue(l) <=> \E i \in 1 .. Len(q) : q[i] = w
    BY <1>1, InQueueIs
  <2>4. ASSUME NEW i \in 1 .. Len(q)
        PROVE /\ lockInfo'[q[i]][l] # NoInfo
              /\ lockInfo'[q[i]][l].next
                   = IF i = k - 1 THEN Follow(q, k) ELSE Follow(q, i)
    <3>1. q[i] \in InQueue(l)
      BY <2>3
    <3>2. Follow(q, i) = e <=> i = k - 1
      <4>1. CASE i < Len(q)
        <5>1. i + 1 \in 1 .. Len(q) /\ Follow(q, i) = q[i + 1]
          BY <1>1, <4>1 DEF Follow
        <5>2. q[i + 1] = e <=> i + 1 = k
          BY <1>1, <1>2, <5>1
        <5> QED BY <1>3, <5>1, <5>2
      <4>2. CASE ~(i < Len(q))
        <5>1. Follow(q, i) = NULL /\ i # k - 1
          BY <1>1, <1>3, <4>2 DEF Follow
        <5> QED BY <5>1, NullAssumption
      <4> QED BY <4>1, <4>2
    <3> QED BY <1>0, <1>4, <1>7, <2>1, <3>1, <3>2, RelinkNext
  <2>5. ASSUME NEW i \in 1 .. Len(r)
        PROVE lockInfo'[r[i]][l] # NoInfo /\ lockInfo'[r[i]][l].next = Follow(r, i)
    <3>0. /\ i \in 1 .. Len(q) /\ i + 1 \in 1 .. Len(q) /\ i \in Nat
          /\ i \in 0 .. Len(r)
      BY <1>1, <1>3, <1>5
    <3>1. CASE i < k - 1
      <4>1. r[i] = q[i] /\ Follow(r, i) = Follow(q, i) /\ i # k - 1
        BY <1>3, <1>5, <3>0, <3>1
      <4> QED BY <2>4, <3>0, <4>1
    <3>2. CASE i = k - 1
      <4>1. i < k /\ ~(i < k - 1) /\ i + 1 = k
        BY <1>3, <3>0, <3>2
      <4>2. r[i] = q[i] /\ Follow(r, i) = Follow(q, k)
        BY <1>5, <3>0, <4>1
      <4> QED BY <2>4, <3>0, <3>2, <4>2
    <3>3. CASE i > k - 1
      <4>1. ~(i < k) /\ ~(i < k - 1) /\ i + 1 # k - 1
        BY <1>3, <3>0, <3>3
      <4>2. r[i] = q[i + 1] /\ Follow(r, i) = Follow(q, i + 1)
        BY <1>5, <3>0, <4>1
      <4> QED BY <2>4, <3>0, <4>1, <4>2
    <3> QED BY <1>3, <3>0, <3>1, <3>2, <3>3
  <2>6. Chain(r, waitCB'[l], lockInfo', l)
    BY <1>5, <2>2, <2>5 DEF Chain
  <2> QED BY <1>2, <1>6, <2>6 DEF r
<1> QED BY <1>8, <1>9

(* Nobody joins or leaves a queue. *)
Quiet ==
  /\ waitCB' = waitCB
  /\ \A f \in EDUs :
       /\ pc'[f] \in WaitPCs <=> pc[f] \in WaitPCs
       /\ pc[f] \in WaitPCs
            => call'[f] = call[f] /\ \A l \in LockIds : lockInfo'[f][l] = lockInfo[f][l]

LEMMA InWaitIs == \A e, l : InWait(e, l) <=> pc[e] \in WaitPCs /\ call[e].at = l
BY DEF InWait, WaitPCs, At

LEMMA QuietQueue ==
  ASSUME TypeInv, Quiet, NEW l \in LockIds, NEW q, Queue(q, l)
  PROVE Queue(q, l)'
<1>1. \A w \in EDUs : InWait(w, l)' <=> InWait(w, l)
  BY DEF Quiet, InWait, WaitPCs, At
<1>2. ASSUME NEW w \in EDUs, InWait(w, l)
      PROVE lockInfo'[w][l] # NoInfo /\ lockInfo'[w][l].next = lockInfo[w][l].next
  <2>1. pc[w] \in WaitPCs /\ call[w].at = l
    BY <1>2, InWaitIs
  <2> QED BY <2>1 DEF TypeInv, CallOK, Quiet
<1> QED BY <1>1, <1>2, QueueSame DEF Quiet

(* The steps of a thread that is not in the wait, and of one that stays. *)
LEMMA QuietBy ==
  ASSUME TypeInv, NEW e \in EDUs,
         \/ StartCall(e) \/ StartRelease(e) \/ StartReleaseAll(e) \/ DrainEvent(e)
         \/ AcquireMatch(e) \/ AcquireUpgrade(e) \/ AcquireNew(e) \/ AcquireRefused(e)
         \/ WakeUp(e) \/ Timeout(e) \/ Interrupt(e) \/ WaitRetry(e)
         \/ ReleaseStep(e) \/ ReleaseAllStep(e) \/ ReleaseAllDone(e)
  PROVE Quiet
<1>0. /\ pc \in [EDUs -> PCs] /\ call \in [EDUs -> CallRecords] /\ lockInfo \in InfoLists
  BY DEF TypeInv, TypeOK
<1>a. ASSUME waitCB' = waitCB, pc[e] \notin WaitPCs, pc'[e] \notin WaitPCs,
             \A f \in EDUs \ {e} : /\ pc'[f] = pc[f] /\ call'[f] = call[f]
                                   /\ \A l \in LockIds : lockInfo'[f][l] = lockInfo[f][l]
      PROVE Quiet
  BY <1>a DEF Quiet
<1>1. CASE StartCall(e) \/ StartRelease(e)
  <2>1. /\ \E to \in {"acquire", "release"} : pc' = [pc EXCEPT ![e] = to]
        /\ \E c : call' = [call EXCEPT ![e] = c]
        /\ pc[e] = "idle" /\ waitCB' = waitCB /\ lockInfo' = lockInfo
    BY <1>1 DEF StartCall, StartRelease
  <2> QED BY <1>0, <1>a, <2>1 DEF WaitPCs
<1>2. CASE StartReleaseAll(e) \/ DrainEvent(e)
  <2>1. /\ pc' = [pc EXCEPT ![e] = "releaseAll"] \/ pc' = pc
        /\ pc[e] \in {"idle", "rollback"} /\ waitCB' = waitCB /\ lockInfo' = lockInfo
        /\ call' = call
    BY <1>2 DEF StartReleaseAll, DrainEvent
  <2> QED BY <1>0, <1>a, <2>1 DEF WaitPCs
<1>3. CASE AcquireMatch(e)
  <2>1. /\ pc[e] = "acquire" /\ Advance(e) /\ waitCB' = waitCB
        /\ lockInfo' = [lockInfo EXCEPT ![e][At(e)].ref = @ + 1]
    BY <1>3 DEF AcquireMatch
  <2>2. \A f \in EDUs \ {e} : lockInfo'[f] = lockInfo[f]
    BY <1>0, <2>1 DEF InfoLists
  <2> QED BY <1>a, <2>1, <2>2, AdvanceType DEF WaitPCs
<1>4. CASE AcquireUpgrade(e)
  <2>1. pc[e] = "acquire" /\ Info(e) # NoInfo /\ waitCB' = waitCB
    BY <1>4 DEF AcquireUpgrade
  <2>2. \/ lockInfo' = UpgradedInfo(e) /\ Advance(e)
        \/ Fail(e) /\ lockInfo' = lockInfo
    BY <1>4 DEF AcquireUpgrade
  <2>3. \A f \in EDUs \ {e}, l \in LockIds : lockInfo'[f][l] = lockInfo[f][l]
    BY <2>1, <2>2, UpgradedInfoType
  <2> QED BY <1>a, <2>1, <2>2, <2>3, AdvanceType, FailType DEF WaitPCs
<1>5. CASE AcquireNew(e)
  <2>1. /\ pc[e] = "acquire" /\ Advance(e) /\ waitCB' = waitCB
        /\ lockInfo' = NewInfo(e)
    BY <1>5 DEF AcquireNew
  <2>2. \A f \in EDUs \ {e}, l \in LockIds : lockInfo'[f][l] = lockInfo[f][l]
    BY <2>1, NewInfoType
  <2> QED BY <1>a, <2>1, <2>2, AdvanceType DEF WaitPCs
<1>6. CASE AcquireRefused(e)
  <2>1. pc[e] = "acquire" /\ Fail(e) /\ UNCHANGED <<waitCB, lockInfo>>
    BY <1>6 DEF AcquireRefused
  <2> QED BY <1>a, <2>1, FailType DEF WaitPCs
<1>7. CASE WakeUp(e) \/ Timeout(e) \/ Interrupt(e) \/ WaitRetry(e)
  <2>1. /\ pc[e] \in WaitPCs /\ \E to \in WaitPCs : pc' = [pc EXCEPT ![e] = to]
        /\ UNCHANGED <<waitCB, lockInfo, call>>
    BY <1>7 DEF WakeUp, Timeout, Interrupt, WaitRetry, WaitPCs
  <2> QED BY <1>0, <2>1 DEF Quiet
<1>8. CASE ReleaseStep(e)
  <2>1. /\ pc[e] \in {"release", "unwind"} /\ waitCB' = waitCB
        /\ pc' = pc \/ pc' = [pc EXCEPT ![e] = AfterRelease(e)]
        /\ \/ call' = [call EXCEPT ![e] = NoCall]
           \/ call' = [call EXCEPT ![e].at = Parent(At(e))]
    BY <1>8 DEF ReleaseStep
  <2>2. \A f \in EDUs \ {e} : lockInfo'[f] = lockInfo[f]
    BY <1>8, ReleaseStepType
  <2>3. pc'[e] \notin WaitPCs /\ \A f \in EDUs \ {e} : pc'[f] = pc[f]
    BY <1>0, <2>1 DEF AfterRelease, AfterError, WaitPCs
  <2>4. \A f \in EDUs \ {e} : call'[f] = call[f]
    BY <1>0, <2>1
  <2> QED BY <1>a, <2>1, <2>2, <2>3, <2>4 DEF WaitPCs
<1>9. CASE ReleaseAllStep(e) \/ ReleaseAllDone(e)
  <2>1. /\ pc[e] = "releaseAll" /\ waitCB' = waitCB /\ call' = call
        /\ pc' = pc \/ pc' = [pc EXCEPT ![e] = "idle"]
        /\ \/ lockInfo' = lockInfo
           \/ lockInfo' = [lockInfo EXCEPT ![e] = [l \in LockIds |-> NoInfo]]
    BY <1>9 DEF ReleaseAllStep, ReleaseAllDone
  <2>2. \A f \in EDUs \ {e} : lockInfo'[f] = lockInfo[f]
    BY <1>0, <2>1 DEF InfoLists
  <2> QED BY <1>0, <1>a, <2>1, <2>2 DEF WaitPCs
<1> QED BY <1>1, <1>2, <1>3, <1>4, <1>5, <1>6, <1>7, <1>8, <1>9

(* A waiter joins the queue it asked for, and no other. *)
LEMMA JoinEffect ==
  ASSUME TypeInv, NEW e \in EDUs, AcquireAppend(e), NEW l, l = At(e)
  PROVE /\ \A q : Queue(q, l) => Queue(Append(q, e), l)'
        /\ \A m \in LockIds \ {l} : \A q : Queue(q, m) => Queue(q, m)'
<1>0. /\ pc \in [EDUs -> PCs] /\ call' = call /\ pc[e] = "acquire"
      /\ pc' = [pc EXCEPT ![e] = "waiting"] /\ At(e) \in LockIds
      /\ call[e].at = At(e) /\ Info(e) = NoInfo
      /\ waitCB \in [LockIds -> EDUs \cup {NULL}]
  <2>1. pc[e] = "acquire" /\ call' = call /\ pc' = [pc EXCEPT ![e] = "waiting"]
        /\ Info(e) = NoInfo
    BY DEF AcquireAppend
  <2> QED BY <2>1, AcquireFacts DEF TypeInv, TypeOK, BusyPCs, At
<1>1. \A f \in EDUs : \A m : InWait(f, m)' <=> InWait(f, m) \/ (f = e /\ m = l)
  <2>1. \A f \in EDUs : pc'[f] \in WaitPCs <=> pc[f] \in WaitPCs \/ f = e
    BY <1>0 DEF WaitPCs
  <2>2. \A f, m : InWait(f, m)' <=> pc'[f] \in WaitPCs /\ call'[f].at = m
    BY DEF InWait, WaitPCs, At
  <2>3. pc[e] \notin WaitPCs
    BY <1>0 DEF WaitPCs
  <2> QED BY <1>0, <2>1, <2>2, <2>3, InWaitIs
<1>2. ASSUME NEW q, Queue(q, l) PROVE Queue(Append(q, e), l)'
  <2>1. Chain(Append(q, e), waitCB'[l], lockInfo', l)
    BY <1>2, QueueJoins
  <2>2. q \in Seq(EDUs) /\ Len(q) \in Nat
    BY <1>2 DEF Queue, Chain
  <2>3. /\ Len(Append(q, e)) = Len(q) + 1 /\ Append(q, e)[Len(q) + 1] = e
        /\ \A i \in 1 .. Len(q) : Append(q, e)[i] = q[i]
    BY <2>2
  <2>4. ASSUME NEW f \in EDUs
        PROVE InWait(f, l)' <=> \E i \in 1 .. Len(Append(q, e)) : Append(q, e)[i] = f
    <3>1. InWait(f, l) <=> \E i \in 1 .. Len(q) : q[i] = f
      BY <1>2 DEF Queue
    <3>2. InWait(f, l)' <=> InWait(f, l) \/ f = e
      BY <1>1
    <3>3. (\E i \in 1 .. Len(q) + 1 : Append(q, e)[i] = f)
            <=> f = e \/ \E i \in 1 .. Len(q) : q[i] = f
      <4>1. \A i \in 1 .. Len(q) + 1 : i \in 1 .. Len(q) \/ i = Len(q) + 1
        BY <2>2
      <4>2. Len(q) + 1 \in 1 .. Len(q) + 1 /\ \A i \in 1 .. Len(q) : i \in 1 .. Len(q) + 1
        BY <2>2
      <4> QED BY <2>3, <4>1, <4>2
    <3> QED BY <2>3, <3>1, <3>2, <3>3
  <2> QED BY <2>1, <2>4 DEF Queue
<1>3. ASSUME NEW m \in LockIds \ {l}, NEW q, Queue(q, m) PROVE Queue(q, m)'
  <2>1. waitCB'[m] = waitCB[m]
    <3>1. waitCB' = [waitCB EXCEPT ![At(e)] = e] \/ waitCB' = waitCB
      BY DEF AcquireAppend
    <3> QED BY <1>0, <3>1
  <2>2. \A w \in EDUs : InWait(w, m)' <=> InWait(w, m)
    BY <1>1
  <2>3. ASSUME NEW w \in EDUs, InWait(w, m)
        PROVE lockInfo'[w][m] # NoInfo /\ lockInfo'[w][m].next = lockInfo[w][m].next
    <3>1. lockInfo[w][m] # NoInfo /\ NewInfo(e) \in InfoLists /\ NewInfo(e)[w][m] = lockInfo[w][m]
      BY <1>0, <2>3, NewInfoType, InWaitIs DEF TypeInv, CallOK
    <3>2. lockInfo' = NewInfo(e) \/ lockInfo' = Relink(NewInfo(e), At(e), NULL, e)
      BY DEF AcquireAppend
    <3> QED BY <1>0, <3>1, <3>2, RelinkNext
  <2> QED BY <1>3, <2>1, <2>2, <2>3, QueueSame
<1> QED BY <1>2, <1>3

(* Who leaves is out of its queue, and the other queues stay. *)
LEMMA LeaveEffect ==
  ASSUME TypeInv, NEW e \in EDUs, GrantAfterWait(e) \/ GiveUp(e), NEW l, l = At(e)
  PROVE /\ \A q : Queue(q, l)
             => \E k \in 1 .. Len(q) : /\ q[k] = e /\ Queue(Removed(q, k), l)'
                                       /\ waitCB[l] = e <=> k = 1
        /\ \A m \in LockIds \ {l} : \A q : Queue(q, m) => Queue(q, m)'
<1>0. /\ pc \in [EDUs -> PCs] /\ call \in [EDUs -> CallRecords]
      /\ lockInfo \in InfoLists /\ waitCB \in [LockIds -> EDUs \cup {NULL}]
  BY DEF TypeInv, TypeOK
<1>1. /\ pc[e] \in WaitPCs /\ removeFromWait(e, At(e))
      /\ \E to \in {"idle", "rollback"} : pc' = [pc EXCEPT ![e] = to]
      /\ call' = [call EXCEPT ![e] = NoCall]
  BY DEF GrantAfterWait, GiveUp, WaitPCs, AfterError
<1>2. l \in LockIds /\ call[e].at = l
  BY <1>1, AcquireFacts DEF BusyPCs, At
<1>3. \A f \in EDUs : \A m : InWait(f, m)' <=> InWait(f, m) /\ f # e
  <2>1. /\ pc'[e] \notin WaitPCs
        /\ \A f \in EDUs \ {e} : pc'[f] = pc[f] /\ call'[f] = call[f]
    BY <1>0, <1>1 DEF WaitPCs
  <2>2. \A f, m : InWait(f, m)' <=> pc'[f] \in WaitPCs /\ call'[f].at = m
    BY DEF InWait, WaitPCs, At
  <2> QED BY <2>1, <2>2, InWaitIs
<1>4. ASSUME NEW q, Queue(q, l)
      PROVE \E k \in 1 .. Len(q) : /\ q[k] = e /\ Queue(Removed(q, k), l)'
                                   /\ waitCB[l] = e <=> k = 1
  <2>1. PICK k \in 1 .. Len(q) :
          /\ q[k] = e /\ Chain(Removed(q, k), waitCB'[l], lockInfo', l)
          /\ waitCB[l] = e <=> k = 1
    BY <1>1, <1>4, QueueLeaves
  <2>2. q \in Seq(EDUs) /\ \A i, j \in 1 .. Len(q) : q[i] = q[j] => i = j
    BY <1>4 DEF Queue, Chain
  <2>3. \A f \in EDUs : (\E i \in 1 .. Len(Removed(q, k)) : Removed(q, k)[i] = f)
                           <=> f # e /\ \E i \in 1 .. Len(q) : q[i] = f
    BY <2>1, <2>2, RemovedIs
  <2>4. \A f \in EDUs : InWait(f, l) <=> \E i \in 1 .. Len(q) : q[i] = f
    BY <1>4 DEF Queue
  <2>5. \A f \in EDUs : InWait(f, l)'
          <=> \E i \in 1 .. Len(Removed(q, k)) : Removed(q, k)[i] = f
    BY <1>3, <2>3, <2>4
  <2>6. Queue(Removed(q, k), l)'
    BY <2>1, <2>5 DEF Queue
  <2> QED BY <2>1, <2>6
<1>5. ASSUME NEW m \in LockIds \ {l}, NEW q, Queue(q, m) PROVE Queue(q, m)'
  <2>1. waitCB'[m] = waitCB[m]
    <3>1. \/ waitCB' = [waitCB EXCEPT ![l] = lockInfo[e][l].next]
          \/ waitCB' = waitCB
      BY <1>1 DEF removeFromWait
    <3> QED BY <1>0, <3>1
  <2>2. \A w \in EDUs : InWait(w, m)' <=> InWait(w, m)
    <3>1. ~InWait(e, m)
      BY <1>2, InWaitIs
    <3> QED BY <1>3, <3>1
  <2>3. ASSUME NEW w \in EDUs, InWait(w, m)
        PROVE lockInfo'[w][m] # NoInfo /\ lockInfo'[w][m].next = lockInfo[w][m].next
    <3>1. lockInfo[w][m] # NoInfo
      BY <2>3, InWaitIs DEF TypeInv, CallOK
    <3>2. lockInfo' = lockInfo \/ lockInfo' = Relink(lockInfo, l, e, lockInfo[e][l].next)
      BY <1>1 DEF removeFromWait
    <3>3. lockInfo[e][l].next \in EDUs \cup {NULL}
      BY <1>0, <1>1, <1>2 DEF TypeInv, CallOK, InfoLists, LockInfo
    <3> QED BY <1>0, <1>2, <3>1, <3>2, <3>3, RelinkNext
  <2> QED BY <1>5, <2>1, <2>2, <2>3, QueueSame
<1> QED BY <1>4, <1>5

-----------------------------------------------------------------------------
(* The inductive invariant. *)

QueueInv == GrantInv /\ Queues /\ NoLostWakeup

(* The first in line waits. *)
LEMMA FirstWaits ==
  ASSUME TypeInv, Queues, NEW l \in LockIds, waitCB[l] # NULL
  PROVE /\ waitCB[l] \in EDUs /\ InWait(waitCB[l], l)
        /\ pc[waitCB[l]] \in WaitPCs /\ call[waitCB[l]].at = l
<1>1. waitCB[l] \in EDUs
  BY DEF TypeInv, TypeOK
<1>2. PICK q : Queue(q, l)
  BY DEF Queues
<1>3. q \in Seq(EDUs) /\ waitCB[l] = Follow(q, 0)
  BY <1>2 DEF Queue, Chain
<1>4. 1 \in 1 .. Len(q) /\ waitCB[l] = q[1]
  BY <1>3 DEF Follow
<1>5. InWait(waitCB[l], l)
  BY <1>1, <1>2, <1>4 DEF Queue
<1> QED BY <1>1, <1>5, InWaitIs

(* X can be had when nobody else has anything. *)
LEMMA FreeForX ==
  ASSUME TypeOK, NEW e \in EDUs, NEW l \in LockIds
  PROVE checkCompatible(e, X, l) <=> \A f \in EDUs \ {e} : runList[l][f] = NoType
<1>1. \A f \in EDUs : runList[l][f] \in Types \cup {NoType}
  BY DEF TypeOK
<1>2. \A a \in Types : ~isLockCompatible(a, X)
  BY CompatibleTable DEF Types
<1> QED BY <1>1, <1>2 DEF checkCompatible, Holders

(* No lost wake-up, lock by lock. *)
Alert(f) == events[f] > 0 \/ pc[f] \in {"woken", "failed"}
Served(l) ==
  waitCB[l] # NULL /\ (\A f \in EDUs \ {waitCB[l]} : runList[l][f] = NoType)
    => Alert(waitCB[l])

LEMMA ServedIs ==
  ASSUME TypeOK
  PROVE NoLostWakeup <=> \A l \in LockIds : Served(l)
<1>1. \A l \in LockIds : waitCB[l] # NULL =>
        (checkCompatible(waitCB[l], X, l)
           <=> \A f \in EDUs \ {waitCB[l]} : runList[l][f] = NoType)
  <2> TAKE l \in LockIds
  <2>1. waitCB[l] \in EDUs \cup {NULL}
    BY DEF TypeOK
  <2> QED BY <2>1, FreeForX
<1> QED BY <1>1 DEF NoLostWakeup, Served, Alert

(* The first of an unchanged queue stays alert while the lock is not given
   back. *)
LEMMA ServedSame ==
  ASSUME TypeInv, Queues, NEW l \in LockIds, Served(l), waitCB'[l] = waitCB[l],
         \A f \in EDUs : runList[l][f] # NoType => runList'[l][f] # NoType,
         \A f \in EDUs : pc[f] \in WaitPCs /\ Alert(f) => Alert(f)'
  PROVE Served(l)'
<1> SUFFICES ASSUME waitCB[l] # NULL,
                    \A f \in EDUs \ {waitCB[l]} : runList'[l][f] = NoType
             PROVE Alert(waitCB[l])'
  BY DEF Served
<1>1. PICK w \in EDUs : w = waitCB[l] /\ w = waitCB'[l]
  BY FirstWaits
<1>2. Alert(w) /\ pc[w] \in WaitPCs
  BY <1>1, FirstWaits DEF Served
<1>3. Alert(w)'
  BY <1>2
<1> QED BY <1>1, <1>3 DEF Alert

LEMMA ServedNext ==
  ASSUME TypeOK', \A l \in LockIds : Served(l)'
  PROVE NoLostWakeup'
<1>0. \A a \in Types : ~isLockCompatible(a, X)
  BY CompatibleTable DEF Types
<1> SUFFICES ASSUME NEW l \in LockIds, waitCB'[l] # NULL,
                    checkCompatible(waitCB[l], X, l)'
             PROVE Alert(waitCB[l])'
  BY DEF NoLostWakeup, Alert
<1>1. \A f \in EDUs : runList'[l][f] \in Types \cup {NoType}
  BY DEF TypeOK
<1>2. \A f \in EDUs \ {waitCB'[l]} : runList'[l][f] = NoType
  BY <1>0, <1>1 DEF checkCompatible, Holders
<1> QED BY <1>2 DEF Served

(* postEvent makes its receiver alert, and nobody less so. *)
LEMMA PostAlerts ==
  ASSUME TypeInv, NEW w \in EDUs, events' = Posted(w)
  PROVE events'[w] > 0 /\ \A f \in EDUs : events[f] > 0 => events'[f] > 0
<1>1. events \in [EDUs -> 0 .. MaxEvents] /\ MaxEvents \in Nat \ {0}
  BY BoundAssumption DEF TypeInv, TypeOK
<1>2. \A f \in EDUs : events'[f] = IF f = w /\ events[f] < MaxEvents THEN events[f] + 1
                                   ELSE events[f]
  BY <1>1 DEF Posted
<1>3. \A f \in EDUs : events[f] \in Int /\ events[f] >= 0
  BY <1>1
<1> QED BY <1>1, <1>2, <1>3

(* removeFromRun wakes the first in line. *)
LEMMA RemoveServes ==
  ASSUME TypeInv, Queues, \A l \in LockIds : Served(l), NEW e \in EDUs,
         NEW m \in LockIds, removeFromRun(e, m), waitCB' = waitCB,
         \A f \in EDUs : pc[f] \in WaitPCs => pc'[f] = pc[f]
  PROVE \A l \in LockIds : Served(l)'
<1> SUFFICES ASSUME NEW l \in LockIds PROVE Served(l)'
  OBVIOUS
<1>0. runList \in [LockIds -> [EDUs -> Types \cup {NoType}]]
  BY DEF TypeInv, TypeOK
<1>1. \A f \in EDUs : events[f] > 0 => events'[f] > 0
  <2>1. CASE waitCB[m] = NULL
    BY <2>1 DEF removeFromRun
  <2>2. CASE waitCB[m] # NULL
    <3>1. waitCB[m] \in EDUs /\ events' = Posted(waitCB[m])
      BY <2>2, FirstWaits DEF removeFromRun
    <3> QED BY <3>1, PostAlerts
  <2> QED BY <2>1, <2>2
<1>2. \A f \in EDUs : pc[f] \in WaitPCs /\ Alert(f) => Alert(f)'
  BY <1>1 DEF Alert
<1>3. CASE l # m
  <2>1. \A f \in EDUs : runList'[l][f] = runList[l][f]
    BY <1>0, <1>3 DEF removeFromRun
  <2> QED BY <1>2, <2>1, ServedSame
<1>4. CASE l = m /\ waitCB[l] = NULL
  BY <1>4 DEF Served
<1>5. CASE l = m /\ waitCB[l] # NULL
  <2>1. PICK w \in EDUs : w = waitCB[l] /\ w = waitCB'[l]
    BY <1>5, FirstWaits
  <2>2. events' = Posted(w)
    BY <1>5, <2>1 DEF removeFromRun
  <2>3. Alert(w)'
    BY <2>2, PostAlerts DEF Alert
  <2> QED BY <2>1, <2>3 DEF Served, Alert
<1> QED BY <1>3, <1>4, <1>5

(* The queues are kept by every step. *)
LEMMA QueuesNext ==
  ASSUME TypeInv, Queues, NEW e \in EDUs,
         \/ Caller(e) \/ Acquire(e) \/ Wait(e) \/ Release(e)
         \/ Timeout(e) \/ Interrupt(e)
  PROVE Queues'
<1> SUFFICES ASSUME NEW l \in LockIds PROVE \E q : Queue(q, l)'
  BY DEF Queues
<1>1. PICK q : Queue(q, l)
  BY DEF Queues
<1>2. CASE AcquireAppend(e)
  <2>1. PICK m : m = At(e)
    OBVIOUS
  <2>2. CASE l = m
    BY <1>1, <1>2, <2>1, <2>2, JoinEffect
  <2>3. CASE l # m
    BY <1>1, <1>2, <2>1, <2>3, JoinEffect
  <2> QED BY <2>2, <2>3
<1>3. CASE GrantAfterWait(e) \/ GiveUp(e)
  <2>1. PICK m : m = At(e)
    OBVIOUS
  <2>2. CASE l = m
    BY <1>1, <1>3, <2>1, <2>2, LeaveEffect
  <2>3. CASE l # m
    BY <1>1, <1>3, <2>1, <2>3, LeaveEffect
  <2> QED BY <2>2, <2>3
<1>4. CASE ~(AcquireAppend(e) \/ GrantAfterWait(e) \/ GiveUp(e))
  <2>1. Quiet
    BY <1>4, QuietBy DEF Caller, Acquire, Wait, Release
  <2> QED BY <1>1, <2>1, QuietQueue
<1> QED BY <1>2, <1>3, <1>4

(* Every step keeps the first waiter of every free lock alert. *)
LEMMA ServedStep ==
  ASSUME GrantInv, Queues, \A l \in LockIds : Served(l), NEW e \in EDUs,
         \/ Caller(e) \/ Acquire(e) \/ Wait(e) \/ Release(e)
         \/ Timeout(e) \/ Interrupt(e)
  PROVE \A l \in LockIds : Served(l)'
<1>0. /\ TypeInv /\ pc \in [EDUs -> PCs] /\ call \in [EDUs -> CallRecords]
      /\ runList \in [LockIds -> [EDUs -> Types \cup {NoType}]]
      /\ waitCB \in [LockIds -> EDUs \cup {NULL}]
      /\ events \in [EDUs -> 0 .. MaxEvents]
  BY DEF GrantInv, TypeInv, TypeOK
<1>a. ASSUME waitCB' = waitCB,
             \A l \in LockIds, f \in EDUs : runList[l][f] # NoType => runList'[l][f] # NoType,
             \A f \in EDUs : pc[f] \in WaitPCs /\ Alert(f) => Alert(f)'
      PROVE \A l \in LockIds : Served(l)'
  BY <1>0, <1>a, ServedSame
<1>b. ASSUME waitCB' = waitCB, events' = events,
             \A l \in LockIds, f \in EDUs : runList[l][f] # NoType => runList'[l][f] # NoType,
             pc[e] \notin WaitPCs, \A f \in EDUs \ {e} : pc'[f] = pc[f]
      PROVE \A l \in LockIds : Served(l)'
  BY <1>a, <1>b DEF Alert
<1>1. CASE StartCall(e) \/ StartRelease(e) \/ StartReleaseAll(e)
  <2>1. /\ \E to \in PCs : pc' = [pc EXCEPT ![e] = to]
        /\ pc[e] \in {"idle", "rollback"} /\ UNCHANGED <<waitCB, events, runList>>
    BY <1>1 DEF StartCall, StartRelease, StartReleaseAll, PCs
  <2> QED BY <1>0, <1>b, <2>1 DEF WaitPCs
<1>2. CASE DrainEvent(e)
  <2>1. /\ pc[e] = "idle" /\ UNCHANGED <<waitCB, pc, runList>>
        /\ events' = [events EXCEPT ![e] = @ - 1]
    BY <1>2 DEF DrainEvent
  <2>2. \A f \in EDUs : pc[f] \in WaitPCs => events'[f] = events[f]
    BY <1>0, <2>1 DEF WaitPCs
  <2> QED BY <1>a, <2>1, <2>2 DEF Alert
<1>3. CASE AcquireMatch(e) \/ AcquireUpgrade(e) \/ AcquireNew(e) \/ AcquireRefused(e)
  <2>1. pc[e] = "acquire" /\ UNCHANGED <<waitCB, events>>
    BY <1>3 DEF AcquireMatch, AcquireUpgrade, AcquireNew, AcquireRefused
  <2>2. Advance(e) \/ Fail(e)
    BY <1>3 DEF AcquireMatch, AcquireUpgrade, AcquireNew, AcquireRefused
  <2>3. runList' = runList \/ runList' = [runList EXCEPT ![At(e)][e] = Want(e)]
    BY <1>3 DEF AcquireMatch, AcquireUpgrade, AcquireNew, AcquireRefused
  <2>4. At(e) \in LockIds /\ Want(e) # NoType
    BY <1>0, <2>1, AcquireFacts DEF BusyPCs, Types, NoType, IS, IX, S, X
  <2>5. \A l \in LockIds, f \in EDUs : runList[l][f] # NoType => runList'[l][f] # NoType
    BY <1>0, <2>3, <2>4
  <2>6. \A f \in EDUs \ {e} : pc'[f] = pc[f]
    BY <1>0, <2>1, <2>2, AdvanceType, FailType
  <2> QED BY <1>b, <2>1, <2>5, <2>6 DEF WaitPCs
<1>4. CASE AcquireAppend(e)
  <2>1. /\ pc[e] = "acquire" /\ pc' = [pc EXCEPT ![e] = "waiting"]
        /\ UNCHANGED <<runList, events>> /\ ~checkCompatible(e, Want(e), At(e))
        /\ Appends(e)
        /\ \/ waitCB' = waitCB
           \/ waitCB' = [waitCB EXCEPT ![At(e)] = e]
    BY <1>4 DEF AcquireAppend
  <2>2. At(e) \in LockIds /\ Want(e) = X
    BY <1>0, <2>1, AcquireFacts DEF BusyPCs, Appends, Want, WantType
  <2>3. ~\A f \in EDUs \ {e} : runList[At(e)][f] = NoType
    BY <1>0, <2>1, <2>2, FreeForX DEF TypeInv
  <2>4. \A f \in EDUs : pc[f] \in WaitPCs /\ Alert(f) => Alert(f)'
    BY <1>0, <2>1 DEF Alert, WaitPCs
  <2> SUFFICES ASSUME NEW l \in LockIds PROVE Served(l)'
    OBVIOUS
  <2>5. CASE waitCB'[l] = waitCB[l]
    BY <1>0, <2>1, <2>4, <2>5, ServedSame
  <2>6. CASE waitCB'[l] # waitCB[l]
    <3>1. l = At(e) /\ waitCB'[l] = e
      BY <1>0, <2>1, <2>2, <2>6
    <3> QED BY <2>1, <2>3, <3>1 DEF Served
  <2> QED BY <2>5, <2>6
<1>5. CASE WakeUp(e) \/ Timeout(e) \/ Interrupt(e)
  <2>1. /\ \E to \in {"woken", "failed"} : pc' = [pc EXCEPT ![e] = to]
        /\ UNCHANGED <<waitCB, runList>>
        /\ events' = events \/ events' = [events EXCEPT ![e] = @ - 1]
    BY <1>5 DEF WakeUp, Timeout, Interrupt
  <2>2. pc'[e] \in {"woken", "failed"}
    BY <1>0, <2>1
  <2>3. \A f \in EDUs \ {e} : pc'[f] = pc[f] /\ events'[f] = events[f]
    BY <1>0, <2>1
  <2> QED BY <1>a, <2>1, <2>2, <2>3 DEF Alert
<1>6. CASE WaitRetry(e)
  <2>1. /\ pc[e] = "woken" /\ ~checkCompatible(e, X, At(e))
        /\ pc' = [pc EXCEPT ![e] = "waiting"] /\ UNCHANGED <<waitCB, runList, events>>
    BY <1>6 DEF WaitRetry
  <2>2. At(e) \in LockIds /\ At(e) = call[e].at
    BY <1>0, <2>1, AcquireFacts DEF BusyPCs, WaitPCs, At
  <2>3. ~\A f \in EDUs \ {e} : runList[At(e)][f] = NoType
    BY <1>0, <2>1, <2>2, FreeForX DEF TypeInv
  <2> SUFFICES ASSUME NEW l \in LockIds, waitCB[l] # NULL,
                      \A f \in EDUs \ {waitCB[l]} : runList[l][f] = NoType
               PROVE Alert(waitCB[l])'
    BY <2>1 DEF Served
  <2>4. PICK w \in EDUs : w = waitCB[l] /\ w = waitCB'[l] /\ call[w].at = l
    BY <1>0, <2>1, FirstWaits
  <2>5. w # e
    BY <2>2, <2>3, <2>4
  <2>6. Alert(w)
    BY <2>4 DEF Served
  <2>7. Alert(w)'
    BY <1>0, <2>1, <2>5, <2>6 DEF Alert
  <2> QED BY <2>4, <2>7 DEF Alert
<1>7. CASE GrantAfterWait(e) \/ GiveUp(e)
  <2>1. /\ pc[e] \in WaitPCs /\ removeFromWait(e, At(e))
        /\ \E to : pc' = [pc EXCEPT ![e] = to]
        /\ runList' = runList \/ runList' = [runList EXCEPT ![At(e)][e] = X]
    BY <1>7 DEF GrantAfterWait, GiveUp, WaitPCs
  <2>2. PICK m \in LockIds : m = At(e) /\ call[e].at = m
    BY <1>0, <2>1, AcquireFacts DEF BusyPCs, At
  <2>3. /\ \A l \in LockIds, f \in EDUs : runList[l][f] # NoType => runList'[l][f] # NoType
        /\ \A l \in LockIds, f \in EDUs : l # m => runList'[l][f] = runList[l][f]
        /\ \A f \in EDUs \ {e} : pc'[f] = pc[f]
    BY <1>0, <2>1, <2>2 DEF X, NoType
  <2>4. \A f \in EDUs : events[f] > 0 => events'[f] > 0
    <3>1. CASE events' = events
      BY <3>1
    <3>2. CASE events' # events
      <4>1. /\ events' = Posted(lockInfo[e][m].next) /\ lockInfo[e][m].next # NULL
        BY <2>1, <2>2, <3>2 DEF removeFromWait
      <4>2. lockInfo[e][m].next \in EDUs
        BY <1>0, <2>1, <2>2, <4>1 DEF TypeInv, TypeOK, CallOK, InfoLists, LockInfo
      <4> QED BY <1>0, <4>1, <4>2, PostAlerts
    <3> QED BY <3>1, <3>2
  <2> SUFFICES ASSUME NEW l \in LockIds PROVE Served(l)'
    OBVIOUS
  <2>5. CASE l = m /\ waitCB[m] = e
    <3>1. /\ waitCB' = [waitCB EXCEPT ![m] = lockInfo[e][m].next]
          /\ events' = IF lockInfo[e][m].next = NULL THEN events
                       ELSE Posted(lockInfo[e][m].next)
      BY <2>1, <2>2, <2>5 DEF removeFromWait
    <3>2. CASE lockInfo[e][m].next = NULL
      BY <1>0, <2>5, <3>1, <3>2 DEF Served
    <3>3. CASE lockInfo[e][m].next # NULL
      <4>1. PICK w \in EDUs : w = lockInfo[e][m].next
        BY <1>0, <2>1, <2>2, <3>3 DEF TypeInv, TypeOK, CallOK, InfoLists, LockInfo
      <4>2. waitCB'[l] = w /\ events' = Posted(w)
        BY <1>0, <2>5, <3>1, <3>3, <4>1
      <4>3. Alert(w)'
        BY <1>0, <4>2, PostAlerts DEF Alert
      <4> QED BY <4>2, <4>3 DEF Served, Alert
    <3> QED BY <3>2, <3>3
  <2>6. CASE l = m /\ waitCB[m] # e
    <3>1. waitCB' = waitCB /\ events' = events
      BY <2>1, <2>2, <2>6 DEF removeFromWait
    <3> SUFFICES ASSUME waitCB[l] # NULL,
                        \A f \in EDUs \ {waitCB[l]} : runList'[l][f] = NoType
                 PROVE Alert(waitCB[l])'
      BY <3>1 DEF Served
    <3>2. PICK w \in EDUs : w = waitCB[l] /\ w = waitCB'[l] /\ w # e
      BY <1>0, <2>6, <3>1, FirstWaits
    <3>3. Alert(w)
      BY <2>3, <3>2 DEF Served
    <3>4. Alert(w)'
      BY <2>3, <3>1, <3>2, <3>3 DEF Alert
    <3> QED BY <3>2, <3>4 DEF Alert
  <2>7. CASE l # m
    <3>1. waitCB'[l] = waitCB[l]
      <4>1. waitCB' = [waitCB EXCEPT ![m] = lockInfo[e][m].next] \/ waitCB' = waitCB
        BY <2>1, <2>2 DEF removeFromWait
      <4> QED BY <1>0, <2>7, <4>1
    <3> SUFFICES ASSUME waitCB[l] # NULL,
                        \A f \in EDUs \ {waitCB[l]} : runList'[l][f] = NoType
                 PROVE Alert(waitCB[l])'
      BY <3>1 DEF Served
    <3>2. PICK w \in EDUs : w = waitCB[l] /\ w = waitCB'[l] /\ w # e
      BY <1>0, <2>2, <2>7, <3>1, FirstWaits
    <3>3. Alert(w)
      BY <2>3, <3>2 DEF Served
    <3>4. Alert(w)'
      BY <2>3, <2>4, <3>2, <3>3 DEF Alert
    <3> QED BY <3>2, <3>4 DEF Alert
  <2> QED BY <2>5, <2>6, <2>7
<1>8. CASE ReleaseStep(e)
  <2>1. /\ pc[e] \in {"release", "unwind"} /\ waitCB' = waitCB
        /\ \/ UNCHANGED <<runList, events>>
           \/ removeFromRun(e, At(e))
        /\ pc' = pc \/ pc' = [pc EXCEPT ![e] = AfterRelease(e)]
    BY <1>8 DEF ReleaseStep
  <2>2. At(e) \in LockIds /\ pc[e] \notin WaitPCs /\ \A f \in EDUs \ {e} : pc'[f] = pc[f]
    BY <1>0, <2>1, AcquireFacts DEF BusyPCs, WaitPCs
  <2>3. CASE UNCHANGED <<runList, events>>
    BY <1>b, <2>1, <2>2, <2>3
  <2>4. CASE removeFromRun(e, At(e))
    BY <1>0, <2>1, <2>2, <2>4, RemoveServes
  <2> QED BY <2>1, <2>3, <2>4
<1>9. CASE ReleaseAllStep(e)
  <2>1. PICK l \in todo[e] : removeFromRun(e, l)
    BY <1>9 DEF ReleaseAllStep
  <2>2. l \in LockIds /\ UNCHANGED <<waitCB, pc>>
    BY <1>9 DEF ReleaseAllStep, GrantInv, TypeInv, TypeOK
  <2> QED BY <1>0, <2>1, <2>2, RemoveServes
<1>10. CASE ReleaseAllDone(e)
  <2>1. /\ pc[e] = "releaseAll" /\ UNCHANGED <<waitCB, events, runList>>
        /\ pc' = [pc EXCEPT ![e] = "idle"]
    BY <1>10 DEF ReleaseAllDone
  <2> QED BY <1>0, <1>b, <2>1 DEF WaitPCs
<1> QED
  BY <1>1, <1>2, <1>3, <1>4, <1>5, <1>6, <1>7, <1>8, <1>9, <1>10
     DEF Caller, Acquire, Wait, Release

(* Initially nobody waits. *)
LEMMA QueueInvInit == Init => QueueInv
<1> SUFFICES ASSUME Init PROVE QueueInv
  OBVIOUS
<1>1. \A l \in LockIds : waitCB[l] = NULL
  BY DEF Init
<1>2. \A e \in EDUs, l \in LockIds : ~InWait(e, l)
  BY DEF Init, InWait
<1>3. ASSUME NEW l \in LockIds PROVE Queue(<<>>, l)
  BY <1>1, <1>2 DEF Queue, Chain, Follow
<1> QED BY <1>1, <1>3, GrantInvInit DEF QueueInv, Queues, NoLostWakeup

LEMMA QueueInvNext == QueueInv /\ [Next]_vars => QueueInv'
<1> SUFFICES ASSUME QueueInv, [Next]_vars PROVE QueueInv'
  OBVIOUS
<1>0. GrantInv /\ TypeInv /\ Queues /\ NoLostWakeup
  BY DEF QueueInv, GrantInv
<1>1. GrantInv' /\ TypeOK'
  BY <1>0, GrantInvNext DEF GrantInv, TypeInv
<1>2. CASE UNCHANGED vars
  <2>1. UNCHANGED <<runList, waitCB, lockInfo, events, pc, call>>
    BY <1>2 DEF vars
  <2>2. Quiet
    BY <2>1 DEF Quiet
  <2>3. Queues'
    BY <1>0, <2>2, QuietQueue DEF Queues
  <2>4. NoLostWakeup'
    BY <1>0, <2>1 DEF NoLostWakeup, checkCompatible, Holders
  <2> QED BY <1>1, <2>3, <2>4 DEF QueueInv
<1>3. CASE Next
  <2>1. PICK e \in EDUs : \/ Caller(e) \/ Acquire(e) \/ Wait(e) \/ Release(e)
                          \/ Timeout(e) \/ Interrupt(e)
    BY <1>3 DEF Next
  <2>2. Queues'
    BY <1>0, <2>1, QueuesNext
  <2>3. \A l \in LockIds : Served(l)
    BY <1>0, ServedIs DEF TypeInv
  <2>4. \A l \in LockIds : Served(l)'
    BY <1>0, <2>1, <2>3, ServedStep
  <2>5. NoLostWakeup'
    BY <1>1, <2>4, ServedNext
  <2> QED BY <1>1, <2>2, <2>5 DEF QueueInv
<1> QED BY <1>2, <1>3

(* The walk of appendToWait and removeFromWait over the links of a lock ends,
   and passes exactly the EDUs that wait for the lock, whatever order they
   came and left in. *)
THEOREM LinksAreWaiters == Spec => []QueueIsWaiters
<1>1. QueueInv => QueueIsWaiters
  <2> SUFFICES ASSUME QueueInv, NEW l \in LockIds
               PROVE /\ WaitNode(l)[Cardinality(EDUs)] = NULL
                     /\ InQueue(l) = {e \in EDUs : InWait(e, l)}
    BY DEF QueueIsWaiters
  <2>1. PICK q : Queue(q, l)
    BY DEF QueueInv, Queues
  <2>2. Chain(q, waitCB[l], lockInfo, l)
    BY <2>1 DEF Queue
  <2>3. /\ WaitNode(l) = [n \in 0 .. Cardinality(EDUs) |-> Follow(q, n)]
        /\ Cardinality(EDUs) \in Nat /\ Len(q) \in 0 .. Cardinality(EDUs)
        /\ q \in Seq(EDUs)
    BY <2>2, NodeIs
  <2>4. WaitNode(l)[Cardinality(EDUs)] = NULL
    BY <2>3 DEF Follow
  <2>5. \A e : e \in InQueue(l) <=> \E i \in 1 .. Len(q) : q[i] = e
    BY <2>2, InQueueIs
  <2>6. \A e \in InQueue(l) : e \in EDUs
    BY <2>3, <2>5
  <2>7. InQueue(l) = {e \in EDUs : InWait(e, l)}
    BY <2>1, <2>5, <2>6 DEF Queue
  <2> QED BY <2>4, <2>7
<1> QED BY QueueInvInit, QueueInvNext, <1>1, PTL DEF Spec

(* Whenever the first waiter of a lock could have it, a LOCKWAKEUP is in its
   event queue or it is on its way to look again or to leave: no order of
   release, removeFromWait, time-outs and stale wake-ups loses a wake-up. *)
THEOREM WakeupsKept == Spec => []NoLostWakeup
<1>1. QueueInv => NoLostWakeup
  BY DEF QueueInv
<1> QED BY QueueInvInit, QueueInvNext, <1>1, PTL DEF Spec

-----------------------------------------------------------------------------
(* The refinement. *)

(* The abstract queue of a lock is the sequence of its waiters. *)
LEMMA QueueSeqIs == \A l \in LockIds : \A q : Queue(q, l) => QueueSeq(l) = q
<1> SUFFICES ASSUME NEW l \in LockIds, NEW q, Queue(q, l) PROVE QueueSeq(l) = q
  OBVIOUS
<1>1. Chain(q, waitCB[l], lockInfo, l)
  BY DEF Queue
<1>2. /\ WaitNode(l) = [n \in 0 .. Cardinality(EDUs) |-> Follow(q, n)]
      /\ Cardinality(EDUs) \in Nat /\ Len(q) \in 0 .. Cardinality(EDUs)
      /\ q \in Seq(EDUs)
  BY <1>1, NodeIs
<1>3. Cardinality(InQueue(l)) = Len(q)
  <2>1. \A e : e \in InQueue(l) <=> \E i \in 1 .. Len(q) : q[i] = e
    BY <1>1, InQueueIs
  <2>2. q \in [1 .. Len(q) -> InQueue(l)]
    BY <1>2, <2>1
  <2>3. q \in Injection(1 .. Len(q), InQueue(l))
    BY <1>1, <2>2 DEF Injection, IsInjective, Chain
  <2>4. q \in Surjection(1 .. Len(q), InQueue(l))
    BY <2>1, <2>2 DEF Surjection
  <2>5. IsFiniteSet(1 .. Len(q)) /\ Cardinality(1 .. Len(q)) = Len(q)
    <3>1. Len(q) \in Nat
      BY <1>2
    <3> QED BY <3>1, FS_Interval
  <2>6. Cardinality(InQueue(l)) = Cardinality(1 .. Len(q))
    BY <2>3, <2>4, <2>5, FS_Surjection
  <2> QED BY <2>5, <2>6
<1>4. WaitNode(l)[0] = Follow(q, 0)
  BY <1>2
<1>5. CASE Len(q) = 0
  <2>1. WaitNode(l)[0] = NULL /\ q = <<>>
    BY <1>2, <1>4, <1>5 DEF Follow
  <2> QED BY <2>1 DEF QueueSeq
<1>6. CASE Len(q) # 0
  <2>1. WaitNode(l)[0] = q[1] /\ q[1] \in EDUs
    BY <1>2, <1>4, <1>6 DEF Follow
  <2>2. QueueSeq(l) = [i \in 1 .. Len(q) |-> WaitNode(l)[i - 1]]
    BY <1>3, <2>1, NullAssumption DEF QueueSeq
  <2>3. \A i \in 1 .. Len(q) : WaitNode(l)[i - 1] = q[i]
    BY <1>2 DEF Follow
  <2>4. q = [i \in 1 .. Len(q) |-> q[i]]
    BY <1>2
  <2> QED BY <2>2, <2>3, <2>4
<1> QED BY <1>5, <1>6

LEMMA QueueSeqNext == (\A l \in LockIds : \A q : Queue(q, l) => QueueSeq(l) = q)'
BY QueueSeqIs, PTL

(* Whom the table has waiting. *)
LEMMA TableWaiting ==
  ASSUME Queues, NEW e \in EDUs, NEW l \in LockIds
  PROVE Table!Waiting(e, l) <=> InWait(e, l)
<1>1. PICK q : Queue(q, l)
  BY DEF Queues
<1>2. QueueSeq(l) = q
  BY <1>1, QueueSeqIs
<1>3. Table!Waiting(e, l) <=> \E i \in 1 .. Len(QueueSeq(l)) : QueueSeq(l)[i] = e
  BY DEF Table!Waiting
<1> QED BY <1>1, <1>2, <1>3 DEF Queue

(* Who passes checkCompatible conflicts with nobody. *)
LEMMA TableFree ==
  ASSUME GrantInv, NEW e \in EDUs, NEW t \in Types, NEW l \in LockIds
  PROVE /\ checkCompatible(e, t, l) => Table!Free(e, l, t)
        /\ t = X /\ Table!Free(e, l, t) => checkCompatible(e, t, l)
<1>0. TypeOK /\ \A f \in EDUs : runList[l][f] \in Types \cup {NoType}
  BY DEF GrantInv, TypeInv, TypeOK
<1>1. Table!Free(e, l, t) <=> \A f \in EDUs \ {e} :
        runList[l][f] # NoType => ~TypeConflict(runList[l][f], t)
  BY DEF Table!Free
<1>2. ASSUME checkCompatible(e, t, l) PROVE Table!Free(e, l, t)
  BY <1>0, <1>1, <1>2, CheckedCompatible, MatrixTable DEF Holders
<1>3. ASSUME t = X, Table!Free(e, l, t) PROVE checkCompatible(e, t, l)
  <2>1. \A a \in Types : TypeConflict(a, X)
    BY DEF TypeConflict, Types
  <2> QED BY <1>0, <1>1, <1>3, <2>1, FreeForX
<1> QED BY <1>2, <1>3

LEMMA QuietSeq ==
  ASSUME TypeInv, Queues, Quiet
  PROVE [l \in LockIds |-> QueueSeq(l)]' = [l \in LockIds |-> QueueSeq(l)]
<1> SUFFICES ASSUME NEW l \in LockIds PROVE QueueSeq(l)' = QueueSeq(l)
  OBVIOUS
<1>1. PICK q : Queue(q, l)
  BY DEF Queues
<1>2. Queue(q, l)'
  BY <1>1, QuietQueue
<1> QED BY <1>1, <1>2, QueueSeqIs, QueueSeqNext

(* A step that changes no queue and grants, drops or leaves a lock. *)
LEMMA QuietTable ==
  ASSUME GrantInv, Queues, Quiet, NEW e \in EDUs, NEW l \in LockIds,
         \/ runList' = runList
         \/ runList' = [runList EXCEPT ![l][e] = NoType]
         \/ /\ ~InWait(e, l)
            /\ \E t \in Types : /\ checkCompatible(e, t, l)
                                /\ runList' = [runList EXCEPT ![l][e] = t]
  PROVE [Table!TableNext]_(Table!tableVars)
<1>0. /\ TypeInv /\ runList \in [LockIds -> [EDUs -> Types \cup {NoType}]]
  BY DEF GrantInv, TypeInv, TypeOK
<1>1. [m \in LockIds |-> QueueSeq(m)]' = [m \in LockIds |-> QueueSeq(m)]
  BY <1>0, QuietSeq
<1>2. CASE runList' = runList
  BY <1>1, <1>2 DEF Table!tableVars
<1>3. CASE runList' = [runList EXCEPT ![l][e] = NoType] /\ runList[l][e] = NoType
  <2>1. runList' = runList
    BY <1>0, <1>3
  <2> QED BY <1>2, <2>1
<1>4. CASE runList' = [runList EXCEPT ![l][e] = NoType] /\ runList[l][e] # NoType
  <2>1. Table!Drop(e, l)
    BY <1>1, <1>4 DEF Table!Drop
  <2> QED BY <2>1 DEF Table!TableNext
<1>5. ASSUME ~InWait(e, l), NEW t \in Types, checkCompatible(e, t, l),
             runList' = [runList EXCEPT ![l][e] = t]
      PROVE Table!TableNext
  <2>1. ~Table!Waiting(e, l) /\ Table!Free(e, l, t)
    BY <1>5, TableWaiting, TableFree
  <2>2. Table!Take(e, l, t)
    BY <1>1, <1>5, <2>1 DEF Table!Take
  <2> QED BY <2>2 DEF Table!TableNext
<1> QED BY <1>2, <1>3, <1>4, <1>5

(* tryAcquireOrAppend joins the table's queue. *)
LEMMA JoinTable ==
  ASSUME GrantInv, Queues, NEW e \in EDUs, AcquireAppend(e)
  PROVE Table!TableNext
<1>0. TypeInv
  BY DEF GrantInv
<1>1. /\ pc[e] = "acquire" /\ Info(e) = NoInfo /\ runList' = runList
      /\ ~checkCompatible(e, Want(e), At(e)) /\ Appends(e)
  BY DEF AcquireAppend
<1>2. PICK l \in LockIds : l = At(e)
  BY <1>0, <1>1, AcquireFacts DEF BusyPCs
<1>3. Want(e) = X /\ X \in Types /\ lockInfo[e][l] = NoInfo
  BY <1>1, <1>2 DEF Appends, Want, WantType, Types, Info
<1>4. ~InWait(e, l)
  BY <1>1 DEF InWait
<1>5. runList[l][e] = NoType
  BY <1>3 DEF GrantInv, RunListInLockList
<1>6. ~Table!Waiting(e, l) /\ ~Table!Free(e, l, X)
  BY <1>1, <1>2, <1>3, <1>4, TableWaiting, TableFree
<1> DEFINE Q == [m \in LockIds |-> QueueSeq(m)]
<1>7. ASSUME NEW m \in LockIds
      PROVE QueueSeq(m)' = IF m = l THEN Append(QueueSeq(l), e) ELSE QueueSeq(m)
  <2>1. PICK q : Queue(q, m)
    BY DEF Queues
  <2>2. QueueSeq(m) = q
    BY <2>1, QueueSeqIs
  <2>3. CASE m = l
    <3>1. Queue(Append(q, e), m)'
      BY <1>0, <1>2, <2>1, <2>3, JoinEffect
    <3>2. QueueSeq(m)' = Append(q, e)
      BY <3>1, QueueSeqNext
    <3> QED BY <2>2, <2>3, <3>2
  <2>4. CASE m # l
    <3>1. Queue(q, m)'
      BY <1>0, <1>2, <2>1, <2>4, JoinEffect
    <3>2. QueueSeq(m)' = q
      BY <3>1, QueueSeqNext
    <3> QED BY <2>2, <2>4, <3>2
  <2> QED BY <2>3, <2>4
<1>8. Q' = [Q EXCEPT ![l] = Append(@, e)]
  BY <1>7
<1>9. Table!Join(e, l, X)
  BY <1>1, <1>5, <1>6, <1>8 DEF Table!Join
<1> QED BY <1>3, <1>9 DEF Table!TableNext

(* removeFromWait leaves the table's queue. *)
LEMMA LeaveTable ==
  ASSUME GrantInv, Queues, NEW e \in EDUs, GrantAfterWait(e) \/ GiveUp(e)
  PROVE Table!TableNext
<1>0. TypeInv
  BY DEF GrantInv
<1>1. pc[e] \in WaitPCs
  BY DEF GrantAfterWait, GiveUp, WaitPCs
<1>2. PICK l \in LockIds : l = At(e)
  BY <1>0, <1>1, AcquireFacts DEF BusyPCs
<1>3. Table!Waiting(e, l)
  BY <1>1, <1>2, TableWaiting DEF InWait, WaitPCs
<1> DEFINE Q == [m \in LockIds |-> QueueSeq(m)]
<1>4. ASSUME NEW m \in LockIds
      PROVE QueueSeq(m)' = IF m = l THEN Table!Without(QueueSeq(l), e) ELSE QueueSeq(m)
  <2>1. PICK q : Queue(q, m)
    BY DEF Queues
  <2>2. /\ QueueSeq(m) = q /\ q \in Seq(EDUs)
        /\ \A i, j \in 1 .. Len(q) : q[i] = q[j] => i = j
    BY <2>1, QueueSeqIs DEF Queue, Chain
  <2>3. CASE m = l
    <3>1. PICK k \in 1 .. Len(q) : q[k] = e /\ Queue(Removed(q, k), m)'
      BY <1>0, <1>2, <2>1, <2>3, LeaveEffect
    <3>2. QueueSeq(m)' = Removed(q, k)
      BY <3>1, QueueSeqNext
    <3>3. Removed(q, k) = Table!Without(q, e)
      <4>1. ASSUME NEW i \in 1 .. Len(q) - 1
            PROVE (IF i < k THEN q[i] ELSE q[i + 1])
                     = (IF \E j \in 1 .. i : q[j] = e THEN q[i + 1] ELSE q[i])
        <5>1. (\E j \in 1 .. i : q[j] = e) <=> ~(i < k)
          <6>0. i \in Nat /\ k \in Nat /\ k >= 1 /\ Len(q) \in Nat /\ i <= Len(q)
            BY <2>2
          <6>1. ASSUME NEW j \in 1 .. i, q[j] = e PROVE ~(i < k)
            <7>1. j \in 1 .. Len(q)
              BY <6>0
            <7>2. j = k
              BY <2>2, <3>1, <6>1, <7>1
            <7> QED BY <6>0, <7>2
          <6>2. ASSUME ~(i < k) PROVE \E j \in 1 .. i : q[j] = e
            <7>1. k \in 1 .. i
              BY <6>0, <6>2
            <7> QED BY <3>1, <7>1
          <6> QED BY <6>1, <6>2
        <5> QED BY <5>1
      <4> QED BY <4>1 DEF Removed, Table!Without
    <3> QED BY <2>2, <2>3, <3>2, <3>3
  <2>4. CASE m # l
    <3>1. Queue(q, m)'
      BY <1>0, <1>2, <2>1, <2>4, LeaveEffect
    <3>2. QueueSeq(m)' = q
      BY <3>1, QueueSeqNext
    <3> QED BY <2>2, <2>4, <3>2
  <2> QED BY <2>3, <2>4
<1>5. Q' = [Q EXCEPT ![l] = Table!Without(@, e)]
  BY <1>4
<1>6. CASE GiveUp(e)
  <2>1. runList' = runList
    BY <1>6 DEF GiveUp
  <2>2. Table!Quit(e, l)
    BY <1>3, <1>5, <2>1 DEF Table!Quit
  <2> QED BY <2>2 DEF Table!TableNext
<1>7. CASE GrantAfterWait(e)
  <2>1. runList' = [runList EXCEPT ![l][e] = X] /\ checkCompatible(e, X, l) /\ X \in Types
    BY <1>2, <1>7 DEF GrantAfterWait, Types
  <2>2. Table!Free(e, l, X)
    BY <2>1, TableFree
  <2>3. Table!TakeQueued(e, l, X)
    BY <1>3, <1>5, <2>1, <2>2 DEF Table!TakeQueued
  <2> QED BY <2>1, <2>3 DEF Table!TableNext
<1> QED BY <1>6, <1>7

(* Every step of the lock manager is a step of the table, or none. *)
LEMMA TableStep == QueueInv /\ [Next]_vars => [Table!TableNext]_(Table!tableVars)
<1> SUFFICES ASSUME QueueInv, [Next]_vars PROVE [Table!TableNext]_(Table!tableVars)
  OBVIOUS
<1>0. GrantInv /\ Queues /\ TypeInv
  BY DEF QueueInv, GrantInv
<1>1. CASE UNCHANGED vars
  <2>1. UNCHANGED <<runList, waitCB, lockInfo, pc, call>>
    BY <1>1 DEF vars
  <2>2. Quiet
    BY <2>1 DEF Quiet
  <2>3. [l \in LockIds |-> QueueSeq(l)]' = [l \in LockIds |-> QueueSeq(l)]
    BY <1>0, <2>2, QuietSeq
  <2> QED BY <2>1, <2>3 DEF Table!tableVars
<1>2. CASE Next
  <2>1. PICK e \in EDUs : \/ Caller(e) \/ Acquire(e) \/ Wait(e) \/ Release(e)
                          \/ Timeout(e) \/ Interrupt(e)
    BY <1>2 DEF Next
  <2>2. CASE AcquireAppend(e)
    BY <1>0, <2>2, JoinTable
  <2>3. CASE GrantAfterWait(e) \/ GiveUp(e)
    BY <1>0, <2>3, LeaveTable
  <2>4. CASE \/ StartCall(e) \/ StartRelease(e) \/ StartReleaseAll(e) \/ DrainEvent(e)
             \/ AcquireMatch(e) \/ AcquireRefused(e) \/ ReleaseAllDone(e)
             \/ WakeUp(e) \/ Timeout(e) \/ Interrupt(e) \/ WaitRetry(e)
    <3>1. Quiet
      BY <1>0, <2>4, QuietBy
    <3>2. runList' = runList
      BY <2>4 DEF StartCall, StartRelease, StartReleaseAll, DrainEvent, AcquireMatch,
                  AcquireRefused, ReleaseAllDone, WakeUp, Timeout, Interrupt, WaitRetry
    <3>3. [l \in LockIds |-> QueueSeq(l)]' = [l \in LockIds |-> QueueSeq(l)]
      BY <1>0, <3>1, QuietSeq
    <3> QED BY <3>2, <3>3 DEF Table!tableVars
  <2>5. CASE AcquireUpgrade(e) \/ AcquireNew(e)
    <3>1. /\ pc[e] = "acquire"
          /\ \/ runList' = runList
             \/ /\ checkCompatible(e, Want(e), At(e))
                /\ runList' = [runList EXCEPT ![At(e)][e] = Want(e)]
      BY <2>5 DEF AcquireUpgrade, AcquireNew
    <3>2. At(e) \in LockIds /\ Want(e) \in Types
      BY <1>0, <3>1, AcquireFacts DEF BusyPCs
    <3>3. Quiet
      BY <1>0, <2>5, QuietBy
    <3>4. ~InWait(e, At(e))
      BY <3>1 DEF InWait
    <3> QED BY <1>0, <3>1, <3>2, <3>3, <3>4, QuietTable
  <2>6. CASE ReleaseStep(e)
    <3>1. /\ pc[e] \in {"release", "unwind"}
          /\ runList' = runList \/ runList' = [runList EXCEPT ![At(e)][e] = NoType]
      BY <2>6 DEF ReleaseStep, removeFromRun
    <3>2. At(e) \in LockIds
      BY <1>0, <3>1, AcquireFacts DEF BusyPCs
    <3>3. Quiet
      BY <1>0, <2>6, QuietBy
    <3> QED BY <1>0, <3>1, <3>2, <3>3, QuietTable
  <2>7. CASE ReleaseAllStep(e)
    <3>1. PICK l \in todo[e] : runList' = [runList EXCEPT ![l][e] = NoType]
      BY <2>7 DEF ReleaseAllStep, removeFromRun
    <3>2. l \in LockIds
      BY <1>0 DEF TypeInv, TypeOK
    <3>3. Quiet
      BY <1>0, <2>7, QuietBy
    <3> QED BY <1>0, <3>1, <3>2, <3>3, QuietTable
  <2> QED BY <2>1, <2>2, <2>3, <2>4, <2>5, <2>6, <2>7 DEF Caller, Acquire, Wait, Release
<1> QED BY <1>1, <1>2

(* The table is empty when the lock manager starts. *)
LEMMA TableStart == Init => Table!TableInit
<1> SUFFICES ASSUME Init PROVE Table!TableInit
  OBVIOUS
<1>1. \A l \in LockIds : waitCB[l] = NULL
  BY DEF Init
<1>2. \A e \in EDUs, l \in LockIds : ~InWait(e, l)
  BY DEF Init, InWait
<1>3. ASSUME NEW l \in LockIds PROVE QueueSeq(l) = <<>>
  <2>1. Queue(<<>>, l)
    BY <1>1, <1>2 DEF Queue, Chain, Follow
  <2> QED BY <2>1, QueueSeqIs
<1>4. [l \in LockIds |-> QueueSeq(l)] = [l \in LockIds |-> <<>>]
  BY <1>3
<1> QED BY <1>4 DEF Init, Table!TableInit

(* The lock manager implements the lock table: every mutex section of
   dpsTransLockBucket is a grant without conflict, a place at the end of the
   queue, a departure that leaves the order of the others, a lock given back,
   or nothing the table sees. *)
THEOREM ManagerIsTable == Spec => ImplementsTable
<1>1. Init => Table!TableInit
  BY TableStart
<1>2. QueueInv /\ [Next]_vars => [Table!TableNext]_(Table!tableVars)
  BY TableStep
<1> QED BY QueueInvInit, QueueInvNext, <1>1, <1>2, PTL
        DEF Spec, ImplementsTable, Table!TableSpec
=============================================================================
