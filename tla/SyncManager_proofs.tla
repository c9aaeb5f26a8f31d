------------------------- MODULE SyncManager_proofs -------------------------
(***************************************************************************)
(* Theorems about SyncManager, for any group, any agents and sources and   *)
(* any bounds: the types, that the lists hold exactly the sessions that    *)
(* wait and were not yet signalled, that no session waits in vain for      *)
(* nodes that are gone, and that an answer means copies.                   *)
(***************************************************************************)
EXTENDS SyncManager, FiniteSetTheorems, SetBounds, TLAPS

----------------------------------------------------------------------------
(* Numbers and sets.                                                       *)

\* The sizes of the group.
Sizes ==
    /\ Cardinality(Peer) \in Nat
    /\ Cardinality(members) \in 0 .. Cardinality(Peer)
    /\ Cardinality(alive) \in 0 .. Cardinality(members)
    /\ members # {} => Cardinality(members) > 0

LEMMA PartSize ==
    ASSUME NEW S \in SUBSET Peer
    PROVE  /\ IsFiniteSet(S)
           /\ Cardinality(S) \in 0 .. Cardinality(Peer)
           /\ Cardinality(Peer) \in Nat
           /\ S # {} => Cardinality(S) > 0
           /\ \A T \in SUBSET S : Cardinality(T) \in 0 .. Cardinality(S)
  <1>1. IsFiniteSet(Peer)
    BY SyncAssumption
  <1>2. Cardinality(Peer) \in Nat
    BY <1>1, FS_CardinalityType
  <1>3. IsFiniteSet(S) /\ Cardinality(S) <= Cardinality(Peer)
    BY <1>1, FS_Subset
  <1>4. Cardinality(S) \in Nat
    BY <1>3, FS_CardinalityType
  <1>5. S # {} => Cardinality(S) > 0
    BY <1>3, <1>4, FS_EmptySet
  <1>6. ASSUME NEW T \in SUBSET S PROVE Cardinality(T) \in 0 .. Cardinality(S)
    <2>1. IsFiniteSet(T) /\ Cardinality(T) <= Cardinality(S)
      BY <1>3, FS_Subset
    <2>2. Cardinality(T) \in Nat
      BY <2>1, FS_CardinalityType
    <2> QED BY <2>1, <2>2, <1>4
  <1> QED BY <1>2, <1>3, <1>4, <1>5, <1>6

LEMMA GroupSizes ==
    ASSUME members \subseteq Peer, alive \subseteq members
    PROVE  Sizes
  <1>1. members \in SUBSET Peer /\ alive \in SUBSET members
    OBVIOUS
  <1> QED BY <1>1, PartSize DEF Sizes

\* The entry of a wake plan (_createWakePlan): the least offset is reached by
\* all nodes, so there is a largest one that s + 1 of them have reached.
LEMMA PlanEntry ==
    ASSUME NEW m \in SUBSET Peer, NEW o \in [Peer -> Lsn \cup {Invalid}],
           NEW s \in Sub, s < Cardinality(m)
    PROVE  Max({x \in Lsn \cup {Huge} :
                  Cardinality({p \in m : Rank(o[p]) >= x}) > s})
           \in {x \in Lsn \cup {Huge} :
                  Cardinality({p \in m : Rank(o[p]) >= x}) > s}
  <1>1. MaxLsn \in Nat
    BY SyncAssumption
  <1> DEFINE S == {x \in Lsn \cup {Huge} :
                     Cardinality({p \in m : Rank(o[p]) >= x}) > s}
  <1>2. S \in SUBSET (0 .. MaxLsn + 1)
    BY <1>1 DEF Lsn, Huge
  <1>3. \A p \in m : Rank(o[p]) >= 0
    BY <1>1 DEF Rank, Lsn, Huge, Invalid
  <1>4. {p \in m : Rank(o[p]) >= 0} = m
    BY <1>3
  <1>5. 0 \in S
    BY <1>1, <1>4 DEF Lsn
  <1>6. Max(S) \in S
    <2> HIDE DEF S
    <2>1. S # {} /\ MaxLsn + 1 \in Nat
      BY <1>1, <1>5
    <2> QED BY <1>2, <2>1, MaxIn
  <1> QED BY <1>6

LEMMA PlanType ==
    ASSUME NEW m \in SUBSET Peer, NEW o \in [Peer -> Lsn \cup {Invalid}]
    PROVE  [s \in Sub |->
              IF s < Cardinality(m)
              THEN Max({x \in Lsn \cup {Huge} :
                     Cardinality({p \in m : Rank(o[p]) >= x}) > s})
              ELSE 0] \in [Sub -> Lsn \cup {Huge}]
  <1>1. MaxLsn \in Nat
    BY SyncAssumption
  <1> SUFFICES ASSUME NEW s \in Sub, s < Cardinality(m)
               PROVE  Max({x \in Lsn \cup {Huge} :
                         Cardinality({p \in m : Rank(o[p]) >= x}) > s})
                      \in Lsn \cup {Huge}
    BY <1>1 DEF Lsn
  <1>2. Max({x \in Lsn \cup {Huge} :
               Cardinality({p \in m : Rank(o[p]) >= x}) > s})
        \in {x \in Lsn \cup {Huge} :
               Cardinality({p \in m : Rank(o[p]) >= x}) > s}
    BY PlanEntry
  <1> QED BY <1>2

\* The list a session joins exists, and as many nodes as it waits for are
\* alive (the checks of sync).
LEMMA SubRange ==
    ASSUME Sizes, members # {}, NEW w \in 1 .. Cardinality(Peer) + 2, w > 1
    PROVE  /\ SubOf(w) \in Sub
           /\ ~TooFewAlive(w) => SubOf(w) < Cardinality(alive)
  <1>1. SubOf(w) = (IF w <= Cardinality(members) + 1 THEN w
                    ELSE Cardinality(members) + 1) - 2
    BY MinOfTwo DEF SubOf, Sizes
  <1> QED BY <1>1 DEF Sizes, Sub, TooFewAlive

----------------------------------------------------------------------------
(* Types.                                                                  *)

\* The number of live nodes left after one was taken out is that of a list.
LEMMA EndIsList ==
    ASSUME Sizes, members \subseteq Peer, alive \subseteq members,
           NEW p \in members
    PROVE  /\ Cardinality(alive \ {p}) \in Sub
           /\ Cardinality(alive \ {p}) < Cardinality(members)
  <1>1. members \in SUBSET Peer /\ members \ {p} \in SUBSET Peer
        /\ alive \ {p} \in SUBSET (members \ {p})
    OBVIOUS
  <1>2. /\ IsFiniteSet(members) /\ Cardinality(members) > 0
        /\ Cardinality(alive \ {p}) \in 0 .. Cardinality(members \ {p})
    BY <1>1, PartSize
  <1>3. Cardinality(members \ {p}) = Cardinality(members) - 1
    BY <1>2, FS_RemoveElement
  <1> QED BY <1>2, <1>3 DEF Sizes, Sub

\* What _clearSyncList does to the lists, the answers left aside.
Cleared(end) ==
    \E moved \in SUBSET syncList[end] :
        /\ syncList' =
            [s \in Sub |-> CASE s \in end .. Cardinality(members) - 1 -> {}
                            [] s = end - 1 -> syncList[s] \cup moved
                            [] OTHER -> syncList[s]]
        /\ outside' = IF end = 0 THEN outside \cup moved ELSE outside

LEMMA ClearSyncListClears ==
    ASSUME NEW end, NEW last, ClearSyncList(end, last) PROVE Cleared(end)
  BY Zenon DEF ClearSyncList, Cleared

\* A cut is a pair of list numbers at all times.
TypeInv == TypeOK /\ cut \in [at : Sub \cup {-1}, to : Nat]

LEMMA TypeSizes ==
    ASSUME TypeInv PROVE Sizes
  BY GroupSizes DEF TypeInv, TypeOK

\* Who returns from sync is typed as before.
LEMMA ReturnType ==
    ASSUME session \in [Edu -> Session], NEW e \in Edu,
           NEW sub \in Sub \cup {-1}, NEW rc \in {"none", "ok", "failed", "left"},
           Return(e, sub, rc)
    PROVE  session' \in [Edu -> Session]
  BY DEF Session, Return

\* Who begins to wait, too.
LEMMA BeginWaitType ==
    ASSUME NEW f \in [Edu -> Session], NEW e \in Edu, NEW sub \in Sub
    PROVE  [f EXCEPT ![e] = [@ EXCEPT !.pc = "waiting", !.sub = sub]]
                \in [Edu -> Session]
  <1> DEFINE r == [f[e] EXCEPT !.pc = "waiting", !.sub = sub]
  <1>1. r \in Session
    BY DEF Session
  <1> HIDE DEF r
  <1>2. [f EXCEPT ![e] = r] \in [Edu -> Session]
    BY <1>1
  <1> QED BY <1>2 DEF r

\* A session that has not synchronised anything.
LEMMA NoSyncType == NoSync \in Session
  BY SyncAssumption DEF NoSync, Session, Lsn

\* A signal is one of the answers.
LEMMA SignalType ==
    ASSUME event \in [Edu -> {"none", "ok", "failed"}], NEW S,
           NEW rc \in {"ok", "failed"}
    PROVE  Signal(S, rc) \in [Edu -> {"none", "ok", "failed"}]
  BY DEF Signal

LEMMA InitType == Init => TypeInv
  <1>1. MaxLsn \in Nat
    BY SyncAssumption
  <1> SUFFICES ASSUME Init PROVE TypeInv
    OBVIOUS
  <1>2. waker \in [Waker -> {Idle} \cup Plan]
    BY DEF Init
  <1>3. session \in [Edu -> Session]
    BY NoSyncType DEF Init
  <1>4. offset \in [Peer -> Lsn \cup {Invalid}] /\ holds \in [Peer -> Lsn]
    BY <1>1 DEF Init, Lsn
  <1>5. syncList \in [Sub -> SUBSET Entry] /\ outside \subseteq Entry
    BY DEF Init
  <1>6. checkList \in [Sub -> Lsn \cup {Invalid, Huge}]
    BY DEF Init
  <1> QED BY <1>1, <1>2, <1>3, <1>4, <1>5, <1>6 DEF Init, TypeInv, TypeOK, Lsn

LEMMA WriteType ==
    ASSUME TypeInv, NEW e \in Edu, Write(e) PROVE TypeInv'
  <1>1. MaxLsn \in Nat
    BY SyncAssumption
  <1>2. logEnd' \in Lsn /\ logEnd \in Lsn
    BY <1>1 DEF Write, TypeInv, TypeOK, Lsn
  <1>3. session' \in [Edu -> Session]
    BY <1>2 DEF Write, TypeInv, TypeOK, Session
  <1> QED BY <1>2, <1>3 DEF Write, TypeInv, TypeOK

LEMMA SyncType ==
    ASSUME TypeInv, NEW e \in Edu, Sync(e) PROVE TypeInv'
  <1> USE DEF TypeInv, TypeOK
  <1>0. Sizes /\ session[e].lsn \in Lsn
    BY TypeSizes DEF Session
  <1>1. PICK w \in 1 .. Cardinality(Peer) + 2 :
          \/ /\ w = 1 \/ members = {}
             /\ Return(e, -1, "ok")
             /\ event' = [event EXCEPT ![e] = IF w = 1 THEN @ ELSE "none"]
             /\ UNCHANGED syncList
          \/ /\ w > 1 /\ members # {}
             /\ event' = [event EXCEPT ![e] = "none"]
             /\ \/ /\ Return(e, -1, "failed")
                   /\ UNCHANGED syncList
                \/ /\ Return(e, SubOf(w), "ok")
                   /\ UNCHANGED syncList
                \/ /\ session' = [session EXCEPT ![e] =
                          [@ EXCEPT !.pc = "waiting", !.sub = SubOf(w)]]
                   /\ syncList' = [syncList EXCEPT ![SubOf(w)] = @ \cup
                          {[edu |-> e, endLsn |-> session[e].lsn]}]
    BY Zenon DEF Sync
  <1>2. event' \in [Edu -> {"none", "ok", "failed"}]
    BY <1>1
  <1>3. w > 1 /\ members # {} => SubOf(w) \in Sub
    BY <1>0, SubRange
  <1>4. session' \in [Edu -> Session] /\ syncList' \in [Sub -> SUBSET Entry]
    <2>1. CASE \/ Return(e, -1, "ok") /\ UNCHANGED syncList
               \/ Return(e, -1, "failed") /\ UNCHANGED syncList
      BY <2>1, ReturnType
    <2>2. CASE /\ w > 1 /\ members # {}
               /\ Return(e, SubOf(w), "ok") /\ UNCHANGED syncList
      BY <2>2, <1>3, ReturnType
    <2>3. CASE /\ w > 1 /\ members # {}
               /\ session' = [session EXCEPT ![e] =
                      [@ EXCEPT !.pc = "waiting", !.sub = SubOf(w)]]
               /\ syncList' = [syncList EXCEPT ![SubOf(w)] = @ \cup
                      {[edu |-> e, endLsn |-> session[e].lsn]}]
      <3>1. SubOf(w) \in Sub
        BY <2>3, <1>3
      <3>2. session' \in [Edu -> Session]
        BY <2>3, <3>1, BeginWaitType
      <3>3. [edu |-> e, endLsn |-> session[e].lsn] \in Entry
        BY <1>0 DEF Entry
      <3>4. syncList' \in [Sub -> SUBSET Entry]
        BY <2>3, <3>1, <3>3
      <3> QED BY <3>2, <3>4
    <2> QED BY <1>1, <2>1, <2>2, <2>3
  <1> QED BY <1>2, <1>4 DEF Sync

LEMMA WaitType ==
    ASSUME TypeInv, NEW e \in Edu, Answered(e) \/ GiveUp(e) \/ Leave(e)
    PROVE  TypeInv'
  <1> USE DEF TypeInv, TypeOK
  <1>0. session[e].sub \in Sub \cup {-1}
        /\ event[e] \in {"none", "ok", "failed", "left"}
    BY DEF Session
  <1>1. CASE Answered(e)
    <2>1. session' \in [Edu -> Session]
      BY <1>0, <1>1, ReturnType DEF Answered
    <2> QED BY <1>1, <2>1 DEF Answered
  <1>2. CASE GiveUp(e)
    <2>1. session' \in [Edu -> Session]
      BY <1>2 DEF GiveUp, Session
    <2> QED BY <1>2, <2>1 DEF GiveUp
  <1>3. CASE Leave(e)
    <2>1. session' \in [Edu -> Session]
      BY <1>0, <1>3, ReturnType DEF Leave
    <2>2. syncList' \in [Sub -> SUBSET Entry]
      BY <1>3 DEF Leave
    <2> QED BY <1>3, <2>1, <2>2 DEF Leave
  <1> QED BY <1>1, <1>2, <1>3

\* A wake begins at the first list with a plan for every list.
LEMMA StartWakeType ==
    ASSUME NEW t \in Waker, waker \in [Waker -> {Idle} \cup Plan],
           members \subseteq Peer, members' = members,
           offset' \in [Peer -> Lsn \cup {Invalid}], StartWake(t)
    PROVE  waker' \in [Waker -> {Idle} \cup Plan]
  <1>1. CASE members = {}
    BY <1>1 DEF StartWake
  <1>2. CASE members # {}
    <2>1. PlanOf' \in [Sub -> Lsn \cup {Huge}]
      BY PlanType DEF PlanOf, Reached
    <2>2. Cardinality(members) \in 1 .. Cardinality(Peer)
      BY <1>2, PartSize
    <2>3. 0 \in Sub
      BY <2>2, PartSize DEF Sub
    <2>4. [pc |-> "waking", plan |-> PlanOf', at |-> 0,
           subs |-> Cardinality(members)] \in Plan
      BY <2>1, <2>2, <2>3 DEF Plan
    <2> QED BY <1>2, <2>4 DEF StartWake
  <1> QED BY <1>1, <1>2

LEMMA CompleteType ==
    ASSUME TypeInv, NEW t \in Source, NEW p \in Peer, Complete(t, p)
    PROVE  TypeInv'
  <1> USE DEF TypeInv, TypeOK
  <1>0. MaxLsn \in Nat
    BY SyncAssumption
  <1>1. PICK l \in 0 .. logEnd :
          /\ offset' = IF p \in members /\ l > offset[p]
                       THEN [offset EXCEPT ![p] = l] ELSE offset
          /\ holds' = [holds EXCEPT ![p] = Max({@, l})]
    BY DEF Complete
  <1>2. l \in Lsn
    BY <1>0 DEF Lsn
  <1>3. offset' \in [Peer -> Lsn \cup {Invalid}]
    BY <1>1, <1>2
  <1>4. Max({holds[p], l}) \in Lsn
    <2>1. holds[p] \in Lsn /\ holds[p] \in Int /\ l \in Int
      BY <1>0, <1>2 DEF Lsn
    <2>2. Max({holds[p], l}) \in {holds[p], l}
      BY <2>1, MaxOfTwo, Zenon
    <2> QED BY <1>2, <2>1, <2>2
  <1>5. holds' \in [Peer -> Lsn]
    BY <1>1, <1>4
  <1>6. waker' \in [Waker -> {Idle} \cup Plan]
    BY <1>3, StartWakeType DEF Complete, Waker
  <1> QED BY <1>3, <1>5, <1>6 DEF Complete

LEMMA HandleTimeoutType ==
    ASSUME TypeInv, HandleTimeout PROVE TypeInv'
  <1> USE DEF TypeInv, TypeOK
  <1>1. waker' \in [Waker -> {Idle} \cup Plan]
    BY StartWakeType DEF HandleTimeout, Waker
  <1> QED BY <1>1 DEF HandleTimeout

LEMMA WakeType ==
    ASSUME TypeInv, NEW t \in Waker, Wake(t) PROVE TypeInv'
  <1> USE DEF TypeInv, TypeOK
  <1> DEFINE s == waker[t].at
             v == waker[t].plan[s]
             done == {x \in syncList[s] : x.endLsn < v}
             next == [waker[t] EXCEPT !.at = s + 1, !.plan[s] = 0]
  <1>0. MaxLsn \in Nat /\ Cardinality(Peer) \in Nat
    BY SyncAssumption, FS_CardinalityType
  <1>1. waker[t] \in Plan
    BY DEF Wake, Idle
  <1>2. s \in Sub /\ v \in Lsn \cup {Huge}
    BY <1>1 DEF Plan
  <1>3. s + 1 < waker[t].subs => next \in Plan
    <2>1. [waker[t].plan EXCEPT ![s] = 0] \in [Sub -> Lsn \cup {Huge}]
      BY <1>0, <1>1, <1>2 DEF Plan, Lsn
    <2>2. s + 1 < waker[t].subs => s + 1 \in Sub
      BY <1>0, <1>1, <1>2 DEF Plan, Sub
    <2>3. next = [[waker[t] EXCEPT !.at = s + 1]
                    EXCEPT !.plan = [waker[t].plan EXCEPT ![s] = 0]]
      BY <1>1 DEF Plan
    <2> HIDE DEF next
    <2> QED BY <1>1, <2>1, <2>2, <2>3 DEF Plan
  <1>4. waker' \in [Waker -> {Idle} \cup Plan]
    <2>1. waker' = [waker EXCEPT ![t] =
                      IF s + 1 < waker[t].subs THEN next ELSE Idle]
      BY DEF Wake
    <2> HIDE DEF next, s
    <2> QED BY <1>3, <2>1
  <1>5. checkList' \in [Sub -> Lsn \cup {Invalid, Huge}]
    BY <1>2 DEF Wake
  <1>6. syncList' \in [Sub -> SUBSET Entry]
    BY <1>2 DEF Wake
  <1>7. event' \in [Edu -> {"none", "ok", "failed"}]
    BY SignalType DEF Wake
  <1> HIDE DEF s, v, done, next
  <1> QED BY <1>4, <1>5, <1>6, <1>7 DEF Wake

LEMMA NotifyFullSyncType ==
    ASSUME TypeInv, NEW p \in Peer, NotifyFullSync(p) PROVE TypeInv'
  BY DEF TypeInv, TypeOK, NotifyFullSync

LEMMA CutType ==
    ASSUME TypeInv, Cut PROVE TypeInv'
  <1> USE DEF TypeInv, TypeOK
  <1>1. cut.at \in Sub
    BY DEF Cut, NoCut
  <1>2. cut' \in [at : Sub \cup {-1}, to : Nat]
    BY <1>1, SyncAssumption, FS_CardinalityType DEF Cut, Sub
  <1>3. syncList' \in [Sub -> SUBSET Entry]
    BY DEF Cut
  <1>4. event' \in [Edu -> {"none", "ok", "failed"}]
    BY SignalType DEF Cut
  <1> QED BY <1>2, <1>3, <1>4 DEF Cut

\* A cut begins with a list that exists, if there is one.
LEMMA StartCutType ==
    ASSUME Sizes, NEW n \in Nat, StartCut(n)
    PROVE  cut' \in [at : Sub \cup {-1}, to : Nat]
  BY DEF Sizes, StartCut, Sub

LEMMA BreakType ==
    ASSUME TypeInv, NEW p \in Peer, Break(p) PROVE TypeInv'
  <1>1. Sizes
    BY TypeSizes
  <1>2. Cardinality(alive') \in Nat
    <2>1. alive' \in SUBSET Peer
      BY DEF TypeInv, TypeOK, Break
    <2> QED BY <2>1, PartSize
  <1>3. cut' \in [at : Sub \cup {-1}, to : Nat]
    BY <1>1, <1>2, StartCutType DEF Break, TypeInv
  <1> QED BY <1>3 DEF TypeInv, TypeOK, Break

LEMMA RoleType ==
    ASSUME TypeInv, LosePrimary \/ GainPrimary PROVE TypeInv'
  <1>1. CASE LosePrimary
    <2>1. cut' \in [at : Sub \cup {-1}, to : Nat]
      BY <1>1, TypeSizes, StartCutType DEF LosePrimary
    <2> QED BY <1>1, <2>1 DEF TypeInv, TypeOK, LosePrimary
  <1>2. CASE GainPrimary
    BY <1>2 DEF TypeInv, TypeOK, GainPrimary
  <1> QED BY <1>1, <1>2

LEMMA RemoveNodeType ==
    ASSUME TypeInv, NEW p \in Peer, RemoveNode(p) PROVE TypeInv'
  <1> DEFINE end == Cardinality(alive \ {p})
  <1>1. PICK last \in members : ClearSyncList(end, last)
    BY DEF RemoveNode
  <1>2. end \in Sub
    BY TypeSizes, EndIsList DEF RemoveNode, TypeInv, TypeOK
  <1>3. /\ syncList' \in [Sub -> SUBSET Entry]
        /\ outside' \subseteq Entry
    <2> HIDE DEF end
    <2>1. PICK moved \in SUBSET syncList[end] :
            /\ syncList' =
                [s \in Sub |-> CASE s \in end .. Cardinality(members) - 1 -> {}
                                [] s = end - 1 -> syncList[s] \cup moved
                                [] OTHER -> syncList[s]]
            /\ outside' = IF end = 0 THEN outside \cup moved ELSE outside
      BY <1>1, ClearSyncListClears DEF Cleared
    <2>2. moved \subseteq Entry
      BY <1>2 DEF TypeInv, TypeOK
    <2> QED BY <2>1, <2>2 DEF TypeInv, TypeOK
  <1>4. event' \in [Edu -> {"none", "ok", "failed"}]
    <2>1. PICK ok, failed : SignalBoth(ok, failed)
      BY <1>1 DEF ClearSyncList
    <2> QED BY <2>1 DEF SignalBoth, Signal, TypeInv, TypeOK
  <1> QED BY <1>3, <1>4 DEF RemoveNode, TypeInv, TypeOK

LEMMA GroupType ==
    ASSUME TypeInv, NEW p \in Peer, Alive(p) \/ RemoveNode(p) \/ AddNode(p)
    PROVE  TypeInv'
  <1>0. 0 \in Lsn
    BY SyncAssumption DEF Lsn
  <1>1. CASE Alive(p)
    BY <1>1 DEF TypeInv, TypeOK, Alive
  <1>2. CASE RemoveNode(p)
    BY <1>2, RemoveNodeType
  <1>3. CASE AddNode(p)
    BY <1>0, <1>3 DEF TypeInv, TypeOK, AddNode
  <1> QED BY <1>1, <1>2, <1>3

LEMMA RollBackLogType ==
    ASSUME TypeInv, NEW n \in Lsn, RollBackLog(n) PROVE TypeInv'
  <1>0. MaxLsn \in Nat
    BY SyncAssumption
  <1>1. holds' \in [Peer -> Lsn]
    <2>1. \A p \in Peer : Min({holds[p], n}) \in Lsn
      BY <1>0, MinOfTwo DEF TypeInv, TypeOK, Lsn
    <2> QED BY <2>1 DEF RollBackLog
  <1>2. session' \in [Edu -> Session]
    BY NoSyncType DEF RollBackLog
  <1> QED BY <1>1, <1>2 DEF TypeInv, TypeOK, RollBackLog

LEMMA NextType == TypeInv /\ [Next]_vars => TypeInv'
  <1> SUFFICES ASSUME TypeInv, [Next]_vars PROVE TypeInv'
    OBVIOUS
  <1>1. CASE Next
    BY <1>1, WriteType, SyncType, WaitType, CompleteType, HandleTimeoutType,
       WakeType, CutType, RoleType, NotifyFullSyncType, BreakType, GroupType,
       RollBackLogType DEF Next
  <1>2. CASE UNCHANGED vars
    BY <1>2 DEF vars, TypeInv, TypeOK
  <1> QED BY <1>1, <1>2

\* The types of the manager's state, the numbers of lists included, whichever
\* nodes are taken out of the group: sync, wake and cut reach only what is in
\* _syncList and _checkList.  _clearSyncList may push before the first list,
\* and what it pushes there is an entry (outside).
THEOREM TypeCorrect == Spec => []TypeOK
  <1>1. TypeInv => TypeOK
    BY DEF TypeInv
  <1> QED BY InitType, NextType, <1>1, PTL DEF Spec

----------------------------------------------------------------------------
(* Lists without hope, whichever nodes are taken out of the group.         *)

\* A list without hope is empty or will be cut.
CutCovers ==
    \A s \in Sub : ~primary \/ s >= Cardinality(alive) =>
        syncList[s] = {} \/ (cut.to <= s /\ s <= cut.at)

HopeInv == TypeInv /\ CutCovers

\* Lists that only shrink stay covered, as long as hope does.
LEMMA ShrinkCovers ==
    ASSUME CutCovers, \A s \in Sub : syncList'[s] \subseteq syncList[s],
           UNCHANGED <<primary, alive, cut>>
    PROVE  CutCovers'
  BY DEF CutCovers

\* Between cuts the lists without hope are empty.
LEMMA HopelessEmpty ==
    ASSUME HopeInv, NoCut
    PROVE  \A s \in Sub : ~primary \/ s >= Cardinality(alive) => syncList[s] = {}
  BY DEF HopeInv, NoCut, CutCovers, TypeInv, TypeOK, Sub

\* What sync pushes is on a list that has hope.
LEMMA SyncCovers ==
    ASSUME HopeInv, NEW e \in Edu, Sync(e) PROVE CutCovers'
  <1> USE DEF HopeInv
  <1>1. PICK w \in 1 .. Cardinality(Peer) + 2 :
          \/ UNCHANGED syncList
          \/ /\ w > 1 /\ members # {} /\ primary /\ ~TooFewAlive(w)
             /\ syncList' = [syncList EXCEPT ![SubOf(w)] = @ \cup
                    {[edu |-> e, endLsn |-> session[e].lsn]}]
    BY Zenon DEF Sync
  <1>2. UNCHANGED <<primary, alive, cut>>
    BY DEF Sync
  <1>3. CASE UNCHANGED syncList
    BY <1>2, <1>3, ShrinkCovers
  <1>4. CASE /\ w > 1 /\ members # {} /\ primary /\ ~TooFewAlive(w)
             /\ syncList' = [syncList EXCEPT ![SubOf(w)] = @ \cup
                    {[edu |-> e, endLsn |-> session[e].lsn]}]
    <2>1. SubOf(w) \in Sub /\ SubOf(w) < Cardinality(alive) /\ Sizes
      BY <1>4, TypeSizes, SubRange
    <2>2. \A s \in Sub \ {SubOf(w)} : syncList'[s] = syncList[s]
      BY <1>4, <2>1 DEF TypeInv, TypeOK
    <2> SUFFICES ASSUME NEW s \in Sub, ~primary \/ s >= Cardinality(alive)
                 PROVE  syncList'[s] = {} \/ (cut.to <= s /\ s <= cut.at)
      BY <1>2 DEF CutCovers
    <2>3. s # SubOf(w)
      BY <1>4, <2>1 DEF Sizes, Sub
    <2> QED BY <2>2, <2>3 DEF CutCovers
  <1> QED BY <1>1, <1>3, <1>4

LEMMA LeaveCovers ==
    ASSUME HopeInv, NEW e \in Edu, Leave(e) PROVE CutCovers'
  <1>1. \A s \in Sub : syncList'[s] \subseteq syncList[s]
    BY DEF HopeInv, TypeInv, TypeOK, Leave
  <1> QED BY <1>1, ShrinkCovers DEF HopeInv, Leave

LEMMA WakeCovers ==
    ASSUME HopeInv, NEW t \in Waker, Wake(t) PROVE CutCovers'
  <1>1. PICK done : syncList' = [syncList EXCEPT ![waker[t].at] = @ \ done]
    BY DEF Wake
  <1>2. \A s \in Sub : syncList'[s] \subseteq syncList[s]
    BY <1>1 DEF HopeInv, TypeInv, TypeOK
  <1> QED BY <1>2, ShrinkCovers DEF HopeInv, Wake

LEMMA CutCoversRest ==
    ASSUME HopeInv, Cut PROVE CutCovers'
  <1> USE DEF HopeInv
  <1>1. cut.at \in Sub
    BY DEF Cut, NoCut, TypeInv, TypeOK
  <1>2. cut'.at = cut.at - 1 /\ cut'.to = cut.to
    BY DEF Cut, TypeInv
  <1> SUFFICES ASSUME NEW s \in Sub, ~primary \/ s >= Cardinality(alive)
               PROVE  syncList'[s] = {} \/ (cut.to <= s /\ s <= cut.at - 1)
    BY <1>2 DEF CutCovers, Cut
  <1>3. CASE s = cut.at
    BY <1>3 DEF Cut, TypeInv, TypeOK
  <1>4. CASE s # cut.at
    <2>1. syncList'[s] = syncList[s]
      BY <1>4 DEF Cut, TypeInv, TypeOK
    <2>2. syncList[s] = {} \/ (cut.to <= s /\ s <= cut.at)
      BY DEF CutCovers
    <2> QED BY <1>1, <1>4, <2>1, <2>2 DEF Sub
  <1> QED BY <1>3, <1>4

\* A break begins a cut of every list that loses hope.
LEMMA BreakCovers ==
    ASSUME HopeInv, NEW p \in Peer, Break(p) PROVE CutCovers'
  <1>0. Sizes
    BY TypeSizes DEF HopeInv
  <1>1. \A s \in Sub : ~primary \/ s >= Cardinality(alive) => syncList[s] = {}
    BY HopelessEmpty DEF Break, ClusterFree
  <1>2. CASE primary
    <2>1. cut' = [at |-> Cardinality(members) - 1, to |-> Cardinality(alive')]
          /\ UNCHANGED <<primary, syncList>>
      BY <1>2 DEF Break, StartCut
    <2>2. Cardinality(alive') \in Nat
      BY PartSize DEF Break, HopeInv, TypeInv, TypeOK
    <2> SUFFICES ASSUME NEW s \in Sub, s >= Cardinality(alive'),
                        s > Cardinality(members) - 1
                 PROVE  syncList[s] = {}
      BY <1>0, <1>2, <2>1, <2>2 DEF CutCovers, Sizes, Sub
    <2> QED BY <1>0, <1>1 DEF Sizes, Sub
  <1>3. CASE ~primary
    BY <1>1, <1>3 DEF Break, CutCovers
  <1> QED BY <1>2, <1>3

\* The loss of the role begins a cut of every list.
LEMMA RoleCovers ==
    ASSUME HopeInv, LosePrimary \/ GainPrimary PROVE CutCovers'
  <1>1. CASE LosePrimary
    <2>0. Sizes
      BY TypeSizes DEF HopeInv
    <2>1. \A s \in Sub : s >= Cardinality(alive) => syncList[s] = {}
      BY <1>1, HopelessEmpty DEF LosePrimary, ClusterFree
    <2>2. cut' = [at |-> Cardinality(members) - 1, to |-> 0]
          /\ UNCHANGED syncList
      BY <1>1 DEF LosePrimary, StartCut
    <2> SUFFICES ASSUME NEW s \in Sub, s > Cardinality(members) - 1
                 PROVE  syncList[s] = {}
      BY <2>0, <2>2 DEF CutCovers, Sub, Sizes
    <2> QED BY <2>0, <2>1 DEF Sizes, Sub
  <1>2. CASE GainPrimary
    BY <1>2 DEF GainPrimary, HopeInv, CutCovers
  <1> QED BY <1>1, <1>2

\* With more nodes alive no list loses hope.
LEMMA GroupCovers ==
    ASSUME HopeInv, TypeInv', NEW p \in Peer, Alive(p) \/ AddNode(p)
    PROVE  CutCovers'
  <1>1. alive' = alive \cup {p} /\ UNCHANGED <<syncList, primary, cut>>
    BY DEF Alive, AddNode
  <1>2. /\ Cardinality(alive) <= Cardinality(alive')
        /\ Cardinality(alive) \in Nat /\ Cardinality(alive') \in Nat
    <2>1. alive \in SUBSET alive' /\ alive' \in SUBSET Peer /\ alive \in SUBSET Peer
      BY <1>1 DEF HopeInv, TypeInv, TypeOK
    <2> QED BY <2>1, PartSize
  <1> SUFFICES ASSUME NEW s \in Sub, ~primary \/ s >= Cardinality(alive')
               PROVE  syncList[s] = {} \/ (cut.to <= s /\ s <= cut.at)
    BY <1>1 DEF CutCovers
  <1>3. ~primary \/ s >= Cardinality(alive)
    BY <1>2 DEF Sub
  <1> QED BY <1>3 DEF HopeInv, CutCovers

\* With a node less, _clearSyncList empties every list that loses hope, and
\* what it moves goes to one that has hope or, outside the array, to none.
LEMMA RemoveNodeCovers ==
    ASSUME HopeInv, NEW p \in Peer, RemoveNode(p) PROVE CutCovers'
  <1> DEFINE end == Cardinality(alive \ {p})
  <1>0. Sizes /\ end \in Sub /\ UNCHANGED <<primary, cut>> /\ alive' = alive \ {p}
    BY TypeSizes, EndIsList DEF HopeInv, RemoveNode, TypeInv, TypeOK
  <1>1. \A s \in Sub : ~primary \/ s >= Cardinality(alive) => syncList[s] = {}
    BY HopelessEmpty DEF RemoveNode, ClusterFree
  <1> HIDE DEF end
  <1>2. PICK moved \in SUBSET syncList[end] :
            syncList' =
                [s \in Sub |-> CASE s \in end .. Cardinality(members) - 1 -> {}
                                [] s = end - 1 -> syncList[s] \cup moved
                                [] OTHER -> syncList[s]]
    BY ClearSyncListClears DEF RemoveNode, Cleared, end
  <1> SUFFICES ASSUME NEW s \in Sub, ~primary \/ s >= end PROVE syncList'[s] = {}
    BY <1>0 DEF CutCovers, end
  <1>3. CASE s \in end .. Cardinality(members) - 1
    BY <1>0, <1>2, <1>3 DEF Sub
  <1>4. CASE s \notin end .. Cardinality(members) - 1
    <2>1. syncList[s] = {}
      BY <1>0, <1>1, <1>4 DEF Sizes, Sub
    <2>2. s = end - 1 => moved = {}
      BY <1>0, <1>1 DEF Sub
    <2> QED BY <1>2, <1>4, <2>1, <2>2
  <1> QED BY <1>3, <1>4

LEMMA NextHope == HopeInv /\ [Next]_vars => HopeInv'
  <1> SUFFICES ASSUME HopeInv, [Next]_vars PROVE CutCovers'
    BY NextType DEF HopeInv
  <1>0. TypeInv'
    BY NextType DEF HopeInv
  <1>1. ASSUME UNCHANGED <<syncList, primary, alive, cut>> PROVE CutCovers'
    BY <1>1 DEF HopeInv, CutCovers
  <1>2. ASSUME NEW e \in Edu, Write(e) \/ Answered(e) \/ GiveUp(e)
        PROVE  CutCovers'
    BY <1>1, <1>2 DEF Write, Answered, GiveUp
  <1>3. ASSUME NEW t \in Source, NEW p \in Peer, Complete(t, p) PROVE CutCovers'
    BY <1>1, <1>3 DEF Complete
  <1>4. ASSUME NEW p \in Peer, NotifyFullSync(p) PROVE CutCovers'
    BY <1>1, <1>4 DEF NotifyFullSync
  <1>5. ASSUME NEW n \in Lsn, RollBackLog(n) PROVE CutCovers'
    BY <1>1, <1>5 DEF RollBackLog
  <1>6. ASSUME HandleTimeout \/ UNCHANGED vars PROVE CutCovers'
    BY <1>1, <1>6 DEF HandleTimeout, vars
  <1> QED BY <1>0, <1>2, <1>3, <1>4, <1>5, <1>6, SyncCovers, LeaveCovers,
             WakeCovers, CutCoversRest, BreakCovers, RoleCovers, GroupCovers,
             RemoveNodeCovers DEF Next

LEMMA HopeAlways == Spec => []HopeInv
  <1>1. Init => HopeInv
    <2>1. Init => \A s \in Sub : syncList[s] = {}
      BY DEF Init
    <2> QED BY <2>1, InitType DEF HopeInv, CutCovers
  <1> QED BY <1>1, NextHope, PTL DEF Spec

\* After a cut nobody waits for more nodes than are alive, nor on a node that
\* lost the role: the checks of sync, the cuts of _checkBreak and
\* ntyPrimaryChange and the lists _clearSyncList empties for a node taken out
\* of the group, alive or not, leave no gap between them.
THEOREM NobodyHopeless == Spec => []NoHopelessWaiter
  <1>1. HopeInv => NoHopelessWaiter
    BY HopelessEmpty DEF NoHopelessWaiter
  <1> QED BY <1>1, HopeAlways, PTL

----------------------------------------------------------------------------
(* The lists, as long as only nodes that are down are taken out.           *)

\* The session of an entry is inside _wait on this list, with this record,
\* and has not been signalled: a signal takes the entry away.
EntryOf(s, x) ==
    /\ session[x.edu].pc \in {"waiting", "leaving"}
    /\ session[x.edu].sub = s
    /\ session[x.edu].lsn = x.endLsn
    /\ event[x.edu] = "none"

\* A session that waits was signalled or is on its list.
Listed(e) ==
    session[e].pc = "waiting" =>
        \/ event[e] # "none"
        \/ [edu |-> e, endLsn |-> session[e].lsn] \in syncList[session[e].sub]

ListInv ==
    /\ \A e \in Edu : Listed(e)
    /\ \A s \in Sub : \A x \in syncList[s] : EntryOf(s, x)

Inv == HopeInv /\ ListInv /\ outside = {}

\* Entries are determined by their EDU, over all lists: an EDU waits once.
LEMMA EntryUnique ==
    ASSUME TypeInv, ListInv, NEW s \in Sub, NEW t \in Sub,
           NEW x \in syncList[s], NEW y \in syncList[t], x.edu = y.edu
    PROVE  s = t /\ x = y
  <1>1. x \in Entry /\ y \in Entry
    BY DEF TypeInv, TypeOK
  <1>2. s = t /\ x.endLsn = y.endLsn
    BY DEF ListInv, EntryOf
  <1> QED BY <1>1, <1>2 DEF Entry

\* A step that takes a set of entries off one list and signals exactly their
\* EDUs keeps the lists in order (_wake, cut).
LEMMA SignalKeepsLists ==
    ASSUME TypeInv, ListInv, NEW s \in Sub, NEW done \in SUBSET syncList[s],
           NEW rc \in {"ok", "failed"},
           syncList' = [syncList EXCEPT ![s] = @ \ done],
           event' = Signal(Edus(done), rc), UNCHANGED session
    PROVE  ListInv'
  <1> USE DEF TypeInv, TypeOK
  <1>0. \A e \in Edu : event'[e] = IF e \in Edus(done) THEN rc ELSE event[e]
    BY DEF Signal
  <1>1. ASSUME NEW e \in Edu PROVE Listed(e)'
    <2> DEFINE en == [edu |-> e, endLsn |-> session[e].lsn]
    <2> SUFFICES ASSUME session[e].pc = "waiting", event'[e] = "none"
                 PROVE  en \in syncList'[session[e].sub]
      BY DEF Listed
    <2>1. e \notin Edus(done) /\ event[e] = "none"
      BY <1>0
    <2>2. en \in syncList[session[e].sub]
      BY <2>1 DEF ListInv, Listed
    <2>3. en \notin done
      BY <2>1 DEF Edus
    <2> HIDE DEF en
    <2> QED BY <2>2, <2>3
  <1>2. ASSUME NEW q \in Sub, NEW x \in syncList'[q] PROVE EntryOf(q, x)'
    <2>1. x \in syncList[q] /\ ~(q = s /\ x \in done)
      OBVIOUS
    <2>2. EntryOf(q, x) /\ x.edu \in Edu
      BY <2>1 DEF ListInv, Entry
    <2>3. x.edu \notin Edus(done)
      BY <2>1, EntryUnique DEF Edus
    <2> QED BY <1>0, <2>2, <2>3 DEF EntryOf
  <1> QED BY <1>1, <1>2 DEF ListInv

\* A step of one session that is on no list before and after it.
LEMMA OffListKeeps ==
    ASSUME TypeInv, ListInv, NEW e \in Edu,
           \A s \in Sub : \A x \in syncList[s] : x.edu # e,
           \A d \in Edu \ {e} : session'[d] = session[d] /\ event'[d] = event[d],
           UNCHANGED syncList, session'[e].pc # "waiting"
    PROVE  ListInv'
  <1>1. ASSUME NEW d \in Edu PROVE Listed(d)'
    BY DEF ListInv, Listed
  <1>2. ASSUME NEW s \in Sub, NEW x \in syncList'[s] PROVE EntryOf(s, x)'
    <2>1. x \in syncList[s] /\ x.edu \in Edu \ {e} /\ EntryOf(s, x)
      BY DEF TypeInv, TypeOK, Entry, ListInv
    <2> QED BY <2>1 DEF EntryOf
  <1> QED BY <1>1, <1>2 DEF ListInv

\* Who is not inside _wait, or was signalled, is on no list.
LEMMA NotOnList ==
    ASSUME ListInv, NEW e \in Edu,
           session[e].pc \notin {"waiting", "leaving"} \/ event[e] # "none"
    PROVE  \A s \in Sub : \A x \in syncList[s] : x.edu # e
  BY DEF ListInv, EntryOf

LEMMA InitInv == Init => Inv
  <1> SUFFICES ASSUME Init PROVE Inv
    OBVIOUS
  <1>1. TypeInv /\ outside = {}
    BY InitType DEF Init
  <1>2. \A s \in Sub : syncList[s] = {}
    BY DEF Init
  <1>3. \A e \in Edu : Listed(e)
    BY DEF Init, Listed, NoSync
  <1> QED BY <1>1, <1>2, <1>3 DEF Inv, HopeInv, ListInv, CutCovers

\* Write, Answered and the returns of sync: the session is on no list.
LEMMA WriteLists ==
    ASSUME TypeInv, ListInv, NEW e \in Edu, Write(e) PROVE ListInv'
  <1>1. \A s \in Sub : \A x \in syncList[s] : x.edu # e
    BY NotOnList DEF Write
  <1>2. /\ \A d \in Edu \ {e} : session'[d] = session[d] /\ event'[d] = event[d]
        /\ session'[e].pc # "waiting" /\ UNCHANGED syncList
    BY DEF TypeInv, TypeOK, Write
  <1> QED BY <1>1, <1>2, OffListKeeps

LEMMA ReturnLists ==
    ASSUME TypeInv, ListInv, NEW e \in Edu, NEW sub, NEW rc, NEW v,
           \A s \in Sub : \A x \in syncList[s] : x.edu # e,
           Return(e, sub, rc), event' = [event EXCEPT ![e] = v],
           UNCHANGED syncList
    PROVE  ListInv'
  <1>1. /\ \A d \in Edu \ {e} : session'[d] = session[d] /\ event'[d] = event[d]
        /\ session'[e].pc # "waiting"
    BY DEF TypeInv, TypeOK, Return, Session
  <1> QED BY <1>1, OffListKeeps

\* sync puts its entry on the list that its session then waits for.
LEMMA PushLists ==
    ASSUME TypeInv, ListInv, NEW e \in Edu, NEW sub \in Sub,
           session[e].pc = "written",
           event' = [event EXCEPT ![e] = "none"],
           session' = [session EXCEPT ![e] =
                         [@ EXCEPT !.pc = "waiting", !.sub = sub]],
           syncList' = [syncList EXCEPT ![sub] = @ \cup
                          {[edu |-> e, endLsn |-> session[e].lsn]}]
    PROVE  ListInv'
  <1> USE DEF TypeInv, TypeOK
  <1> DEFINE en == [edu |-> e, endLsn |-> session[e].lsn]
  <1>0. \A s \in Sub : \A x \in syncList[s] : x.edu # e
    BY NotOnList
  <1>1. /\ session'[e].pc = "waiting" /\ session'[e].sub = sub
        /\ session'[e].lsn = session[e].lsn /\ event'[e] = "none"
    BY DEF Session
  <1>2. \A d \in Edu \ {e} : session'[d] = session[d] /\ event'[d] = event[d]
    OBVIOUS
  <1>3. \A s \in Sub : syncList'[s] = IF s = sub THEN syncList[s] \cup {en}
                                    ELSE syncList[s]
    OBVIOUS
  <1>4. /\ en \in syncList'[sub]
        /\ \A s \in Sub : \A x \in syncList'[s] :
                x \in syncList[s] \/ (x = en /\ s = sub)
    <2> HIDE DEF en
    <2> QED BY <1>3
  <1>5. ASSUME NEW d \in Edu PROVE Listed(d)'
    <2>1. CASE d = e
      BY <2>1, <1>1, <1>4 DEF Listed
    <2>2. CASE d # e
      <3> DEFINE dn == [edu |-> d, endLsn |-> session[d].lsn]
      <3> SUFFICES ASSUME session[d].pc = "waiting", event[d] = "none"
                   PROVE  dn \in syncList'[session[d].sub]
        BY <2>2, <1>2 DEF Listed
      <3>1. dn \in syncList[session[d].sub]
        BY DEF ListInv, Listed
      <3> HIDE DEF dn, en
      <3> QED BY <3>1
    <2> QED BY <2>1, <2>2
  <1>6. ASSUME NEW s \in Sub, NEW x \in syncList'[s] PROVE EntryOf(s, x)'
    <2>1. CASE x \in syncList[s]
      <3>1. x.edu \in Edu \ {e} /\ EntryOf(s, x)
        BY <2>1, <1>0 DEF Entry, ListInv
      <3> QED BY <3>1, <1>2 DEF EntryOf
    <2>2. CASE x = en /\ s = sub
      <3>1. x.edu = e /\ x.endLsn = session[e].lsn
        BY <2>2
      <3> QED BY <2>2, <3>1, <1>1 DEF EntryOf
    <2> QED BY <2>1, <2>2, <1>4
  <1> QED BY <1>5, <1>6 DEF ListInv

LEMMA SyncLists ==
    ASSUME Inv, NEW e \in Edu, Sync(e) PROVE ListInv'
  <1> USE DEF Inv, HopeInv
  <1>1. PICK w \in 1 .. Cardinality(Peer) + 2 :
          \/ \E v : /\ event' = [event EXCEPT ![e] = v]
                    /\ \E sub, rc : Return(e, sub, rc)
                    /\ UNCHANGED syncList
          \/ /\ w > 1 /\ members # {} /\ primary /\ ~TooFewAlive(w)
             /\ event' = [event EXCEPT ![e] = "none"]
             /\ session' = [session EXCEPT ![e] =
                             [@ EXCEPT !.pc = "waiting", !.sub = SubOf(w)]]
             /\ syncList' = [syncList EXCEPT ![SubOf(w)] = @ \cup
                    {[edu |-> e, endLsn |-> session[e].lsn]}]
    BY Zenon DEF Sync
  <1>2. session[e].pc = "written"
    BY DEF Sync
  <1>3. CASE \E v : /\ event' = [event EXCEPT ![e] = v]
                    /\ \E sub, rc : Return(e, sub, rc)
                    /\ UNCHANGED syncList
    <2>1. \A s \in Sub : \A x \in syncList[s] : x.edu # e
      BY <1>2, NotOnList
    <2> QED BY <1>3, <2>1, ReturnLists
  <1>4. CASE /\ w > 1 /\ members # {} /\ primary /\ ~TooFewAlive(w)
             /\ event' = [event EXCEPT ![e] = "none"]
             /\ session' = [session EXCEPT ![e] =
                             [@ EXCEPT !.pc = "waiting", !.sub = SubOf(w)]]
             /\ syncList' = [syncList EXCEPT ![SubOf(w)] = @ \cup
                    {[edu |-> e, endLsn |-> session[e].lsn]}]
    <2>1. SubOf(w) \in Sub
      BY <1>4, TypeSizes, SubRange
    <2> QED BY <1>2, <1>4, <2>1, PushLists
  <1> QED BY <1>1, <1>3, <1>4

LEMMA AnsweredLists ==
    ASSUME Inv, NEW e \in Edu, Answered(e) PROVE ListInv'
  <1> USE DEF Inv, HopeInv
  <1>1. \A s \in Sub : \A x \in syncList[s] : x.edu # e
    BY NotOnList DEF Answered
  <1>2. event' = [event EXCEPT ![e] = event[e]]
    BY DEF Answered, TypeInv, TypeOK
  <1> QED BY <1>1, <1>2, ReturnLists DEF Answered

LEMMA GiveUpLists ==
    ASSUME Inv, NEW e \in Edu, GiveUp(e) PROVE ListInv'
  <1> USE DEF Inv, HopeInv
  <1>1. /\ session'[e].pc = "leaving" /\ session[e].pc = "waiting"
        /\ session'[e].sub = session[e].sub /\ session'[e].lsn = session[e].lsn
        /\ \A d \in Edu \ {e} : session'[d] = session[d]
        /\ UNCHANGED <<syncList, event>>
    BY DEF GiveUp, TypeInv, TypeOK, Session
  <1>2. \A d \in Edu : Listed(d)'
    BY <1>1 DEF ListInv, Listed
  <1>3. ASSUME NEW s \in Sub, NEW x \in syncList'[s] PROVE EntryOf(s, x)'
    <2>1. x.edu \in Edu /\ EntryOf(s, x)
      BY <1>1 DEF TypeInv, TypeOK, Entry, ListInv
    <2> QED BY <2>1, <1>1 DEF EntryOf
  <1> QED BY <1>2, <1>3 DEF ListInv

\* Who leaves takes its only entry along.
LEMMA LeaveLists ==
    ASSUME Inv, NEW e \in Edu, Leave(e) PROVE ListInv'
  <1> USE DEF Inv, HopeInv
  <1>1. /\ session'[e].pc = "idle"
        /\ \A d \in Edu \ {e} : session'[d] = session[d]
        /\ UNCHANGED event
    BY DEF Leave, Return, TypeInv, TypeOK, Session
  <1>2. \A s \in Sub : syncList'[s] =
           IF s = session[e].sub THEN {x \in syncList[s] : x.edu # e}
           ELSE syncList[s]
    BY DEF Leave, TypeInv, TypeOK
  <1>3. ASSUME NEW d \in Edu PROVE Listed(d)'
    <2>1. CASE d = e
      BY <2>1, <1>1 DEF Listed
    <2>2. CASE d # e
      <3> DEFINE dn == [edu |-> d, endLsn |-> session[d].lsn]
      <3> SUFFICES ASSUME session[d].pc = "waiting", event[d] = "none"
                   PROVE  dn \in syncList'[session[d].sub]
        BY <2>2, <1>1 DEF Listed
      <3>1. dn \in syncList[session[d].sub] /\ dn.edu # e
        BY <2>2 DEF ListInv, Listed
      <3> HIDE DEF dn
      <3> QED BY <3>1 DEF Leave, TypeInv, TypeOK
    <2> QED BY <2>1, <2>2
  <1>4. ASSUME NEW s \in Sub, NEW x \in syncList'[s] PROVE EntryOf(s, x)'
    <2>1. x \in syncList[s]
      BY <1>2
    <2>2. x.edu \in Edu /\ EntryOf(s, x)
      BY <2>1 DEF TypeInv, TypeOK, Entry, ListInv
    <2>3. x.edu # e
      BY <1>2, <2>2 DEF EntryOf
    <2> QED BY <2>2, <2>3, <1>1 DEF EntryOf
  <1> QED BY <1>3, <1>4 DEF ListInv

LEMMA WakeLists ==
    ASSUME Inv, NEW t \in Waker, Wake(t) PROVE ListInv'
  <1> USE DEF Inv, HopeInv
  <1> DEFINE s == waker[t].at
             v == waker[t].plan[s]
             done == {x \in syncList[s] : x.endLsn < v}
  <1>1. s \in Sub
    BY DEF Wake, TypeInv, TypeOK, Idle, Plan
  <1>2. /\ syncList' = [syncList EXCEPT ![s] = @ \ done]
        /\ event' = Signal(Edus(done), "ok")
        /\ UNCHANGED session
    BY DEF Wake
  <1>3. done \in SUBSET syncList[s]
    OBVIOUS
  <1> HIDE DEF s, v, done
  <1> QED BY <1>1, <1>2, <1>3, SignalKeepsLists

LEMMA CutLists ==
    ASSUME Inv, Cut PROVE ListInv'
  <1> USE DEF Inv, HopeInv
  <1>1. cut.at \in Sub
    BY DEF Cut, NoCut, TypeInv, TypeOK
  <1>2. syncList' = [syncList EXCEPT ![cut.at] = @ \ syncList[cut.at]]
    BY <1>1 DEF Cut, TypeInv, TypeOK
  <1> QED BY <1>1, <1>2, SignalKeepsLists DEF Cut

\* Steps that touch neither sessions nor lists.
LEMMA SameLists ==
    ASSUME ListInv, UNCHANGED <<session, event, syncList>> PROVE ListInv'
  BY DEF ListInv, Listed, EntryOf

\* A node that is down leaves nothing to clear: the lists from the number of
\* live nodes on are empty.
LEMMA RemoveDownNode ==
    ASSUME HopeInv, NEW p \in Peer, RemoveNode(p), OnlyDownRemoved
    PROVE  UNCHANGED <<syncList, event, outside, alive>>
  <1>0. /\ p \notin alive /\ p \in members /\ TypeInv /\ Sizes
        /\ alive \ {p} = alive /\ alive' = alive
    BY TypeSizes DEF RemoveNode, OnlyDownRemoved, HopeInv
  <1> DEFINE end == Cardinality(alive)
  <1>1. end \in Sub
    BY <1>0, EndIsList DEF TypeInv, TypeOK
  <1>2. \A s \in Sub : s >= end => syncList[s] = {}
    BY HopelessEmpty DEF RemoveNode, ClusterFree
  <1>3. PICK last \in members : ClearSyncList(end, last)
    BY <1>0 DEF RemoveNode
  <1> HIDE DEF end
  <1>4. PICK moved \in SUBSET syncList[end] :
            /\ syncList' =
                [s \in Sub |-> CASE s \in end .. Cardinality(members) - 1 -> {}
                                [] s = end - 1 -> syncList[s] \cup moved
                                [] OTHER -> syncList[s]]
            /\ outside' = IF end = 0 THEN outside \cup moved ELSE outside
    BY <1>3, ClearSyncListClears DEF Cleared
  <1>5. moved = {} /\ outside' = outside
    BY <1>1, <1>2, <1>4 DEF Sub
  <1>6. syncList' = syncList
    <2>1. ASSUME NEW s \in Sub PROVE syncList'[s] = syncList[s]
      <3>1. s \in end .. Cardinality(members) - 1 => syncList[s] = {}
        BY <1>1, <1>2 DEF Sub
      <3> QED BY <1>1, <1>4, <1>5, <3>1 DEF Sub
    <2> QED BY <1>0, <1>4, <2>1 DEF TypeInv, TypeOK
  <1>7. event' = event
    <2> DEFINE cleared == end .. Cardinality(members) - 1
               complete(x) ==
                  {q \in members \ {last} : x.endLsn < Rank(offset[q])}
               ok(s) == {x \in syncList[s] :
                          Cardinality(members) - 1 <= Cardinality(complete(x))}
               A == UNION {ok(s) : s \in cleared}
               B == UNION {syncList[s] \ ok(s) : s \in cleared \ {end}}
    <2>1. SignalBoth(Edus(A), Edus(B))
      BY <1>3 DEF ClearSyncList
    <2>2. \A s \in cleared : syncList[s] = {}
      BY <1>0, <1>1, <1>2 DEF Sub, Sizes
    <2>3. A = {} /\ B = {}
      <3> HIDE DEF cleared, complete
      <3> QED BY <2>2
    <2> HIDE DEF A, B
    <2>4. Edus(A) = {} /\ Edus(B) = {}
      BY <2>3 DEF Edus
    <2> QED BY <1>0, <2>1, <2>4 DEF SignalBoth, Signal, TypeInv, TypeOK
  <1> QED BY <1>0, <1>5, <1>6, <1>7

LEMMA RollBackLogLists ==
    ASSUME Inv, NEW n \in Lsn, RollBackLog(n) PROVE ListInv'
  <1> USE DEF Inv, HopeInv
  <1>1. \A s \in Sub : syncList[s] = {}
    <2> SUFFICES ASSUME NEW s \in Sub, NEW x \in syncList[s] PROVE FALSE
      OBVIOUS
    <2>1. EntryOf(s, x) /\ x.edu \in Edu
      BY DEF TypeInv, TypeOK, Entry, ListInv
    <2> QED BY <2>1 DEF RollBackLog, EntryOf
  <1>2. \A e \in Edu : session'[e].pc = "idle"
    BY DEF RollBackLog, NoSync
  <1>3. UNCHANGED syncList
    BY DEF RollBackLog
  <1> QED BY <1>1, <1>2, <1>3 DEF ListInv, Listed

\* The steps of OrderlySpec.
OrderlyStep == Next /\ OnlyDownRemoved

LEMMA OutsideEmpty ==
    ASSUME Inv, Next, OnlyDownRemoved PROVE outside' = {}
  <1> USE DEF Inv
  <1>1. ASSUME NEW e \in Edu,
               Write(e) \/ Sync(e) \/ Answered(e) \/ GiveUp(e) \/ Leave(e)
        PROVE  outside' = {}
    <2>1. CASE Sync(e)
      BY <2>1 DEF Sync
    <2> QED BY <1>1, <2>1 DEF Write, Answered, GiveUp, Leave
  <1>2. ASSUME NEW t \in Source, NEW p \in Peer, Complete(t, p)
        PROVE  outside' = {}
    BY <1>2 DEF Complete
  <1>3. ASSUME NEW t \in Waker, Wake(t) PROVE outside' = {}
    BY <1>3 DEF Wake
  <1>4. ASSUME HandleTimeout \/ Cut \/ LosePrimary \/ GainPrimary
        PROVE  outside' = {}
    BY <1>4 DEF HandleTimeout, Cut, LosePrimary, GainPrimary
  <1>5. ASSUME NEW p \in Peer,
               NotifyFullSync(p) \/ Break(p) \/ Alive(p) \/ AddNode(p)
        PROVE  outside' = {}
    BY <1>5 DEF NotifyFullSync, Break, Alive, AddNode
  <1>6. ASSUME NEW n \in Lsn, RollBackLog(n) PROVE outside' = {}
    BY <1>6 DEF RollBackLog
  <1>7. ASSUME NEW p \in Peer, RemoveNode(p) PROVE outside' = {}
    BY <1>7, RemoveDownNode
  <1> QED BY <1>1, <1>2, <1>3, <1>4, <1>5, <1>6, <1>7 DEF Next

LEMMA NextInv == Inv /\ [OrderlyStep]_vars => Inv'
  <1> SUFFICES ASSUME Inv, [OrderlyStep]_vars PROVE Inv'
    OBVIOUS
  <1>0. HopeInv' /\ TypeInv
    BY NextHope DEF Inv, HopeInv, OrderlyStep
  <1>1. CASE UNCHANGED vars
    BY <1>0, <1>1, SameLists DEF Inv, vars
  <1>2. CASE Next /\ OnlyDownRemoved
    <2>1. ASSUME NEW t \in Source, NEW p \in Peer, Complete(t, p) PROVE ListInv'
      BY <2>1, SameLists DEF Inv, Complete
    <2>2. ASSUME HandleTimeout \/ LosePrimary \/ GainPrimary PROVE ListInv'
      BY <2>2, SameLists DEF Inv, HandleTimeout, LosePrimary, GainPrimary
    <2>3. ASSUME NEW p \in Peer,
                 NotifyFullSync(p) \/ Break(p) \/ Alive(p) \/ AddNode(p)
          PROVE  ListInv'
      BY <2>3, SameLists DEF Inv, NotifyFullSync, Break, Alive, AddNode
    <2>4. ASSUME NEW p \in Peer, RemoveNode(p) PROVE ListInv'
      BY <1>2, <2>4, RemoveDownNode, SameLists DEF Inv, RemoveNode
    <2>5. ASSUME NEW e \in Edu, Write(e) PROVE ListInv'
      BY <1>0, <2>5, WriteLists DEF Inv
    <2>6. ListInv'
      BY <1>2, <2>1, <2>2, <2>3, <2>4, <2>5, SyncLists, AnsweredLists,
         GiveUpLists, LeaveLists, WakeLists, CutLists, RollBackLogLists DEF Next
    <2> QED BY <1>0, <1>2, <2>6, OutsideEmpty DEF Inv
  <1> QED BY <1>1, <1>2 DEF OrderlyStep

LEMMA InvAlways == OrderlySpec => []Inv
  BY InitInv, NextInv, PTL DEF OrderlySpec, OrderlyStep

\* As long as only nodes that are down are taken out of the group, lists and
\* waiters agree: an entry of _syncList is that of a session inside _wait on
\* this list, and a waiting session is on its list or was signalled.  Hence
\* no wake, cut, time-out or late signal loses a waiter or answers a later
\* sync of the same EDU.
THEOREM ListsHoldWaiters == OrderlySpec => []ListsAreWaiters
  <1>1. Inv => ListsAreWaiters
    BY DEF Inv, ListInv, Listed, EntryOf, ListsAreWaiters, NoEntryLeftBehind
  <1> QED BY <1>1, InvAlways, PTL

----------------------------------------------------------------------------
(* Answers.                                                                *)

\* Where the nodes hold the records below h[p] and those of r have been in
\* full synchronisation: the nodes that hold all records below x, or count as
\* if, and whether they are more than s.
Have(h, r, x) == {p \in Peer : h[p] >= x} \cup r
Enough(h, r, x, s) == Cardinality(Have(h, r, x)) > s

\* No step takes away what another node holds.
NothingTakenBack == \A p \in Peer : holds[p] <= holds'[p]

\* What was reported is held.
OffsetsHeld ==
    \A p \in Peer : /\ offset[p] <= holds[p]
                    /\ offset[p] = Invalid => p \in resynced

\* What a list was last checked against, and what a wake that is going on
\* will check it against, is held by as many nodes as the list waits for,
\* however old the plan is.
ChecksHeld == \A s \in Sub : Enough(holds, resynced, checkList[s], s)
PlansHeld ==
    \A t \in Waker : waker[t] # Idle =>
        \A s \in Sub : Enough(holds, resynced, waker[t].plan[s], s)

\* A session that is told so, or has returned with it, is right.
ToldOK(e) ==
    \/ session[e].pc = "waiting" /\ event[e] = "ok"
    \/ session[e].pc = "idle" /\ session[e].rc = "ok"
RightlyOK(e) ==
    ToldOK(e) => Enough(holds, resynced, session[e].lsn + 1, session[e].sub)

AckInv ==
    OffsetsHeld /\ ChecksHeld /\ PlansHeld /\ \A e \in Edu : RightlyOK(e)

\* Holders are counted.
LEMMA HaveSize ==
    ASSUME NEW h, NEW r \in SUBSET Peer, NEW x
    PROVE  /\ Have(h, r, x) \in SUBSET Peer
           /\ Cardinality(Have(h, r, x)) \in Nat
  <1>1. Have(h, r, x) \in SUBSET Peer
    BY DEF Have
  <1>2. /\ Cardinality(Have(h, r, x)) \in 0 .. Cardinality(Peer)
        /\ Cardinality(Peer) \in Nat
    BY <1>1, PartSize
  <1> QED BY <1>1, <1>2

\* An older record is held by no fewer nodes, and with time every record is,
\* as long as nothing is taken back.
LEMMA EnoughStays ==
    ASSUME NEW h \in [Peer -> Lsn], NEW g \in [Peer -> Lsn],
           \A p \in Peer : h[p] <= g[p],
           NEW q \in SUBSET Peer, NEW r \in SUBSET q,
           NEW x \in Int, NEW y \in Int, y <= x, NEW s \in Int,
           Enough(h, r, x, s)
    PROVE  Enough(g, q, y, s)
  <1>1. Have(h, r, x) \in SUBSET Have(g, q, y)
    BY SyncAssumption DEF Have, Lsn
  <1>2. /\ Have(g, q, y) \in SUBSET Peer
        /\ Cardinality(Have(h, r, x)) \in Nat
        /\ Cardinality(Have(g, q, y)) \in Nat
    BY HaveSize
  <1>3. Cardinality(Have(h, r, x)) \in 0 .. Cardinality(Have(g, q, y))
    BY <1>1, <1>2, PartSize
  <1> QED BY <1>2, <1>3 DEF Enough

\* Everybody holds the records below the first, and nobody is asked of a
\* session that waits for no other node.
LEMMA EnoughOfNone ==
    ASSUME NEW h \in [Peer -> Lsn], NEW r \in SUBSET Peer, NEW s \in Sub,
           NEW x \in {0, Invalid}
    PROVE  Enough(h, r, x, s)
  <1>1. Have(h, r, x) = Peer
    BY SyncAssumption DEF Have, Lsn, Invalid
  <1>2. Cardinality(Peer) \in Nat
    BY PartSize
  <1> QED BY <1>1, <1>2 DEF Enough, Sub

LEMMA EnoughForNobody ==
    ASSUME NEW h, NEW r \in SUBSET Peer, NEW x PROVE Enough(h, r, x, -1)
  BY HaveSize DEF Enough

\* What a step may count on that takes nothing back.
Grows ==
    /\ TypeInv /\ TypeInv'
    /\ NothingTakenBack /\ resynced \subseteq resynced'

LEMMA StillEnough ==
    ASSUME Grows, NEW x \in Int, NEW y \in Int, y <= x, NEW s \in Int,
           Enough(holds, resynced, x, s)
    PROVE  Enough(holds', resynced', y, s)
  <1>1. /\ holds \in [Peer -> Lsn] /\ holds' \in [Peer -> Lsn]
        /\ \A p \in Peer : holds[p] <= holds'[p]
        /\ resynced' \in SUBSET Peer /\ resynced \in SUBSET resynced'
    BY DEF Grows, NothingTakenBack, TypeInv, TypeOK
  <1> QED BY <1>1, EnoughStays

\* Offsets are numbers.
LEMMA Numbers ==
    /\ Lsn \subseteq Int /\ Huge \in Int /\ Invalid \in Int /\ Sub \subseteq Int
    /\ -1 \in Int
  BY SyncAssumption, PartSize DEF Lsn, Huge, Invalid, Sub

LEMMA SessionNumbers ==
    ASSUME TypeInv, NEW e \in Edu
    PROVE  /\ session[e] \in Session
           /\ session[e].lsn \in Int /\ session[e].lsn + 1 \in Int
           /\ session[e].sub \in Int
  <1>1. session[e] \in Session
    BY DEF TypeInv, TypeOK
  <1>2. session[e].lsn \in Lsn /\ session[e].sub \in Sub \cup {-1}
    BY <1>1 DEF Session
  <1>3. session[e].lsn \in Int
    BY <1>2, Numbers
  <1>4. session[e].sub \in Int
    BY <1>2, Numbers
  <1> QED BY <1>1, <1>3, <1>4

\* What a step does not touch stays right.
LEMMA OffsetsStay ==
    ASSUME Grows, OffsetsHeld, UNCHANGED offset PROVE OffsetsHeld'
  BY SyncAssumption DEF Grows, OffsetsHeld, NothingTakenBack, TypeInv, TypeOK,
                        Lsn, Invalid

LEMMA ChecksStay ==
    ASSUME Grows, ChecksHeld, UNCHANGED checkList PROVE ChecksHeld'
  <1> SUFFICES ASSUME NEW s \in Sub
               PROVE  Enough(holds', resynced', checkList[s], s)
    BY DEF ChecksHeld
  <1>1. checkList[s] \in Int /\ s \in Int
    BY Numbers DEF Grows, TypeInv, TypeOK
  <1>2. Enough(holds, resynced, checkList[s], s)
    BY DEF ChecksHeld
  <1> QED BY <1>1, <1>2, StillEnough

\* A plan that is still being carried out.
LEMMA PlanStays ==
    ASSUME Grows, PlansHeld, NEW t \in Waker, waker[t] # Idle
    PROVE  \A s \in Sub : Enough(holds', resynced', waker[t].plan[s], s)
  <1> SUFFICES ASSUME NEW s \in Sub
               PROVE  Enough(holds', resynced', waker[t].plan[s], s)
    OBVIOUS
  <1>1. waker[t] \in Plan
    BY DEF Grows, TypeInv, TypeOK
  <1>2. waker[t].plan[s] \in Int /\ s \in Int
    BY <1>1, Numbers DEF Plan
  <1>3. Enough(holds, resynced, waker[t].plan[s], s)
    BY DEF PlansHeld
  <1> QED BY <1>2, <1>3, StillEnough

LEMMA PlansStay ==
    ASSUME Grows, PlansHeld, UNCHANGED waker PROVE PlansHeld'
  BY PlanStays DEF PlansHeld

LEMMA AnswerStays ==
    ASSUME Grows, NEW e \in Edu, RightlyOK(e), ToldOK(e),
           session'[e].lsn = session[e].lsn, session'[e].sub = session[e].sub
    PROVE  RightlyOK(e)'
  <1>1. session[e].lsn + 1 \in Int /\ session[e].sub \in Int
    BY SessionNumbers DEF Grows
  <1>2. Enough(holds, resynced, session[e].lsn + 1, session[e].sub)
    BY DEF RightlyOK
  <1>3. Enough(holds', resynced', session[e].lsn + 1, session[e].sub)
    BY <1>1, <1>2, StillEnough
  <1> QED BY <1>3 DEF RightlyOK

LEMMA OthersStay ==
    ASSUME Grows, NEW e \in Edu, RightlyOK(e),
           session'[e] = session[e], event'[e] = event[e]
    PROVE  RightlyOK(e)'
  <1>1. ToldOK(e)' => ToldOK(e)
    BY DEF ToldOK
  <1>2. CASE ToldOK(e)
    BY <1>2, AnswerStays
  <1>3. CASE ~ToldOK(e)
    BY <1>1, <1>3 DEF RightlyOK
  <1> QED BY <1>2, <1>3

LEMMA AnswersStay ==
    ASSUME Grows, \A e \in Edu : RightlyOK(e), UNCHANGED <<session, event>>
    PROVE  \A e \in Edu : RightlyOK(e)'
  BY OthersStay

LEMMA InitAck == Init => AckInv
  <1> SUFFICES ASSUME Init PROVE AckInv
    OBVIOUS
  <1>1. TypeInv
    BY InitType
  <1>2. OffsetsHeld
    BY DEF Init, OffsetsHeld, Invalid
  <1>3. ChecksHeld
    BY <1>1, EnoughOfNone DEF Init, ChecksHeld, TypeInv, TypeOK
  <1>4. PlansHeld
    BY DEF Init, PlansHeld
  <1>5. \A e \in Edu : RightlyOK(e)
    BY DEF Init, RightlyOK, ToldOK, NoSync
  <1> QED BY <1>2, <1>3, <1>4, <1>5 DEF AckInv

\* A session goes on: it is told nothing new, or what it is told is right.
LEMMA SessionAck ==
    ASSUME Grows, AckInv, NEW e \in Edu,
           UNCHANGED <<offset, checkList, waker>>,
           \A d \in Edu \ {e} : session'[d] = session[d] /\ event'[d] = event[d],
           RightlyOK(e)'
    PROVE  AckInv'
  <1>1. OffsetsHeld' /\ ChecksHeld' /\ PlansHeld'
    BY OffsetsStay, ChecksStay, PlansStay DEF AckInv
  <1>2. ASSUME NEW d \in Edu PROVE RightlyOK(d)'
    BY OthersStay DEF AckInv
  <1> QED BY <1>1, <1>2 DEF AckInv

LEMMA WriteAck ==
    ASSUME Grows, AckInv, NEW e \in Edu, Write(e) PROVE AckInv'
  <1>1. /\ \A d \in Edu \ {e} : session'[d] = session[d] /\ event'[d] = event[d]
        /\ session'[e].pc = "written" /\ UNCHANGED <<offset, checkList, waker>>
    BY DEF Grows, TypeInv, TypeOK, Write
  <1>2. RightlyOK(e)'
    BY <1>1 DEF RightlyOK, ToldOK
  <1> QED BY <1>1, <1>2, SessionAck

\* Who returns with an answer keeps its record.
LEMMA Returned ==
    ASSUME TypeInv, NEW e \in Edu, NEW sub, NEW rc, Return(e, sub, rc)
    PROVE  /\ session'[e].pc = "idle" /\ session'[e].rc = rc
           /\ session'[e].sub = sub /\ session'[e].lsn = session[e].lsn
           /\ \A d \in Edu \ {e} : session'[d] = session[d]
  BY DEF Return, TypeInv, TypeOK, Session

\* sync answers at once only if the check value of its list is past the
\* record.
LEMMA SyncAck ==
    ASSUME Grows, AckInv, NEW e \in Edu, Sync(e) PROVE AckInv'
  <1>0. TypeInv /\ Sizes /\ UNCHANGED <<offset, checkList, waker, holds, resynced>>
    BY TypeSizes DEF Grows, Sync
  <1>1. PICK w \in 1 .. Cardinality(Peer) + 2 :
          \/ /\ \E v : event' = [event EXCEPT ![e] = v]
             /\ \E rc \in {"ok", "failed"} : Return(e, -1, rc)
          \/ /\ w > 1 /\ members # {}
             /\ event' = [event EXCEPT ![e] = "none"]
             /\ session[e].lsn < checkList[SubOf(w)]
             /\ Return(e, SubOf(w), "ok")
          \/ /\ event' = [event EXCEPT ![e] = "none"]
             /\ session' = [session EXCEPT ![e] =
                             [@ EXCEPT !.pc = "waiting", !.sub = SubOf(w)]]
    BY Zenon DEF Sync
  <1>2. \A d \in Edu \ {e} : session'[d] = session[d] /\ event'[d] = event[d]
    BY <1>0, <1>1 DEF Return, TypeInv, TypeOK
  <1>3. RightlyOK(e)'
    <2>1. ASSUME NEW rc \in {"ok", "failed"}, Return(e, -1, rc)
          PROVE  RightlyOK(e)'
      <3>1. session'[e].sub = -1 /\ resynced' \in SUBSET Peer
        BY <2>1, <1>0, Returned DEF TypeInv, TypeOK
      <3> QED BY <3>1, EnoughForNobody DEF RightlyOK
    <2>2. CASE /\ w > 1 /\ members # {}
               /\ session[e].lsn < checkList[SubOf(w)]
               /\ Return(e, SubOf(w), "ok")
      <3>1. SubOf(w) \in Sub
        BY <2>2, <1>0, SubRange
      <3>2. /\ session'[e].sub = SubOf(w) /\ session'[e].lsn = session[e].lsn
        BY <2>2, <1>0, Returned
      <3>3. Enough(holds, resynced, checkList[SubOf(w)], SubOf(w))
        BY <3>1 DEF AckInv, ChecksHeld
      <3>4. /\ checkList[SubOf(w)] \in Int /\ SubOf(w) \in Int
            /\ session[e].lsn + 1 \in Int /\ session[e].lsn \in Int
        BY <3>1, <1>0, Numbers, SessionNumbers DEF TypeInv, TypeOK
      <3>5. session[e].lsn + 1 <= checkList[SubOf(w)]
        BY <2>2, <3>4
      <3>6. Enough(holds', resynced', session[e].lsn + 1, SubOf(w))
        BY <3>3, <3>4, <3>5, StillEnough
      <3> QED BY <3>2, <3>6 DEF RightlyOK
    <2>3. CASE /\ event' = [event EXCEPT ![e] = "none"]
               /\ session' = [session EXCEPT ![e] =
                               [@ EXCEPT !.pc = "waiting", !.sub = SubOf(w)]]
      <3>1. event'[e] = "none" /\ session'[e].pc = "waiting"
        BY <2>3, <1>0 DEF TypeInv, TypeOK, Session
      <3> QED BY <3>1 DEF RightlyOK, ToldOK
    <2> QED BY <1>1, <2>1, <2>2, <2>3
  <1> QED BY <1>0, <1>2, <1>3, SessionAck

\* _wait returns what it was told, or leaves without an answer.
LEMMA WaitAck ==
    ASSUME Grows, AckInv, NEW e \in Edu, Answered(e) \/ GiveUp(e) \/ Leave(e)
    PROVE  AckInv'
  <1>0. TypeInv /\ UNCHANGED <<offset, checkList, waker, event>>
    BY DEF Grows, Answered, GiveUp, Leave
  <1>1. CASE Answered(e)
    <2>1. /\ session'[e].rc = event[e] /\ session'[e].pc = "idle"
          /\ session'[e].sub = session[e].sub /\ session'[e].lsn = session[e].lsn
          /\ \A d \in Edu \ {e} : session'[d] = session[d]
      BY <1>0, <1>1, Returned DEF Answered
    <2>2. CASE event[e] = "ok"
      <3>1. ToldOK(e) /\ RightlyOK(e)
        BY <1>1, <2>2 DEF Answered, ToldOK, AckInv
      <3>2. RightlyOK(e)'
        BY <2>1, <3>1, AnswerStays
      <3> QED BY <1>0, <2>1, <3>2, SessionAck
    <2>3. CASE event[e] # "ok"
      <3>1. RightlyOK(e)'
        BY <2>1, <2>3 DEF RightlyOK, ToldOK
      <3> QED BY <1>0, <2>1, <3>1, SessionAck
    <2> QED BY <2>2, <2>3
  <1>2. CASE GiveUp(e)
    <2>1. /\ session'[e].pc = "leaving"
          /\ \A d \in Edu \ {e} : session'[d] = session[d]
      BY <1>0, <1>2 DEF GiveUp, TypeInv, TypeOK, Session
    <2>2. RightlyOK(e)'
      BY <2>1 DEF RightlyOK, ToldOK
    <2> QED BY <1>0, <2>1, <2>2, SessionAck
  <1>3. CASE Leave(e)
    <2>1. /\ session'[e].rc = "left" /\ session'[e].pc = "idle"
          /\ \A d \in Edu \ {e} : session'[d] = session[d]
      BY <1>0, <1>3, Returned DEF Leave
    <2>2. RightlyOK(e)'
      BY <2>1 DEF RightlyOK, ToldOK
    <2> QED BY <1>0, <2>1, <2>2, SessionAck
  <1> QED BY <1>1, <1>2, <1>3

\* What s + 1 nodes have reported, s + 1 nodes hold: a plan is right when it
\* is made.
LEMMA PlanHeld ==
    ASSUME NEW m \in SUBSET Peer, NEW o \in [Peer -> Lsn \cup {Invalid}],
           NEW h \in [Peer -> Lsn], NEW r \in SUBSET Peer,
           \A p \in Peer : o[p] <= h[p] /\ (o[p] = Invalid => p \in r),
           NEW s \in Sub
    PROVE  Enough(h, r, IF s < Cardinality(m)
                        THEN Max({x \in Lsn \cup {Huge} :
                               Cardinality({p \in m : Rank(o[p]) >= x}) > s})
                        ELSE 0, s)
  <1>1. CASE ~(s < Cardinality(m))
    BY <1>1, EnoughOfNone
  <1>2. CASE s < Cardinality(m)
    <2> DEFINE S == {x \in Lsn \cup {Huge} :
                       Cardinality({p \in m : Rank(o[p]) >= x}) > s}
               v == Max(S)
    <2>1. v \in S
      BY <1>2, PlanEntry
    <2>2. v \in Int /\ Cardinality({p \in m : Rank(o[p]) >= v}) > s
      BY <2>1, Numbers
    <2> HIDE DEF v
    <2>3. {p \in m : Rank(o[p]) >= v} \in SUBSET Have(h, r, v)
      <3> SUFFICES ASSUME NEW p \in m, Rank(o[p]) >= v, p \notin r
                   PROVE  h[p] >= v
        BY DEF Have
      <3>1. o[p] # Invalid /\ o[p] <= h[p]
        OBVIOUS
      <3>2. Rank(o[p]) = o[p] /\ o[p] \in Int /\ h[p] \in Int
        BY <3>1, Numbers DEF Rank
      <3> QED BY <2>2, <3>1, <3>2
    <2>4. /\ Have(h, r, v) \in SUBSET Peer
          /\ Cardinality(Have(h, r, v)) \in Nat
      BY HaveSize
    <2>5. Cardinality({p \in m : Rank(o[p]) >= v})
            \in 0 .. Cardinality(Have(h, r, v))
      BY <2>3, <2>4, PartSize
    <2>6. s \in Int
      BY Numbers
    <2>7. Enough(h, r, v, s)
      BY <2>2, <2>4, <2>5, <2>6 DEF Enough
    <2> QED BY <1>2, <2>7 DEF v
  <1> QED BY <1>1, <1>2

LEMMA StartWakePlans ==
    ASSUME Grows, PlansHeld, OffsetsHeld', NEW t \in Waker, StartWake(t)
    PROVE  PlansHeld'
  <1> SUFFICES ASSUME NEW u \in Waker, waker'[u] # Idle, NEW s \in Sub
               PROVE  Enough(holds', resynced', waker'[u].plan[s], s)
    BY DEF PlansHeld
  <1>1. CASE u # t
    <2>1. waker'[u] = waker[u]
      BY <1>1 DEF StartWake, Grows, TypeInv, TypeOK
    <2> QED BY <2>1, PlanStays
  <1>2. CASE u = t
    <2>1. waker'[u].plan = PlanOf'
      BY <1>2 DEF StartWake, Grows, TypeInv, TypeOK
    <2>2. /\ members' \in SUBSET Peer /\ offset' \in [Peer -> Lsn \cup {Invalid}]
          /\ holds' \in [Peer -> Lsn] /\ resynced' \in SUBSET Peer
          /\ \A p \in Peer : /\ offset'[p] <= holds'[p]
                             /\ offset'[p] = Invalid => p \in resynced'
      BY DEF Grows, TypeInv, TypeOK, OffsetsHeld
    <2>3. PlanOf'[s] = IF s < Cardinality(members')
                       THEN Max({x \in Lsn \cup {Huge} :
                              Cardinality({p \in members' :
                                             Rank(offset'[p]) >= x}) > s})
                       ELSE 0
      BY DEF PlanOf, Reached
    <2>4. Enough(holds', resynced',
                 IF s < Cardinality(members')
                 THEN Max({x \in Lsn \cup {Huge} :
                        Cardinality({p \in members' :
                                       Rank(offset'[p]) >= x}) > s})
                 ELSE 0, s)
      BY <2>2, PlanHeld
    <2> QED BY <2>1, <2>3, <2>4
  <1> QED BY <1>1, <1>2

\* A report raises the offset of a node that holds as much.
LEMMA CompleteAck ==
    ASSUME Grows, AckInv, NEW t \in Source, NEW p \in Peer, Complete(t, p)
    PROVE  AckInv'
  <1>1. PICK l \in 0 .. logEnd :
          /\ offset' = IF p \in members /\ l > offset[p]
                       THEN [offset EXCEPT ![p] = l] ELSE offset
          /\ holds' = [holds EXCEPT ![p] = Max({@, l})]
    BY DEF Complete
  <1>2. /\ l \in Nat /\ holds[p] \in Nat
        /\ holds \in [Peer -> Lsn] /\ offset \in [Peer -> Lsn \cup {Invalid}]
    BY SyncAssumption DEF Grows, TypeInv, TypeOK, Lsn
  <1>3. holds'[p] = Max({holds[p], l})
    BY <1>1, <1>2
  <1>4. l <= holds'[p]
    BY <1>2, <1>3, MaxOfTwo
  <1>5. OffsetsHeld'
    <2> SUFFICES ASSUME NEW q \in Peer
                 PROVE  /\ offset'[q] <= holds'[q]
                        /\ offset'[q] = Invalid => q \in resynced'
      BY DEF OffsetsHeld
    <2>1. CASE offset'[q] = offset[q]
      <3>1. offset[q] <= holds[q] /\ (offset[q] = Invalid => q \in resynced)
        BY DEF AckInv, OffsetsHeld
      <3>2. holds[q] <= holds'[q] /\ resynced' = resynced
        BY DEF Grows, NothingTakenBack, Complete
      <3>3. offset[q] \in Int /\ holds[q] \in Int /\ holds'[q] \in Int
        BY Numbers DEF Grows, TypeInv, TypeOK
      <3> QED BY <2>1, <3>1, <3>2, <3>3
    <2>2. CASE q = p /\ offset'[q] = l
      BY <2>2, <1>2, <1>4 DEF Invalid
    <2> QED BY <1>1, <1>2, <2>1, <2>2
  <1>6. PlansHeld'
    BY <1>5, StartWakePlans DEF Complete, AckInv, Waker
  <1>7. ChecksHeld' /\ \A e \in Edu : RightlyOK(e)'
    BY ChecksStay, AnswersStay DEF Complete, AckInv
  <1> QED BY <1>5, <1>6, <1>7 DEF AckInv

LEMMA HandleTimeoutAck ==
    ASSUME Grows, AckInv, HandleTimeout PROVE AckInv'
  <1>1. OffsetsHeld'
    BY OffsetsStay DEF HandleTimeout, AckInv
  <1>2. PlansHeld'
    BY <1>1, StartWakePlans DEF HandleTimeout, AckInv, Waker
  <1>3. ChecksHeld' /\ \A e \in Edu : RightlyOK(e)'
    BY ChecksStay, AnswersStay DEF HandleTimeout, AckInv
  <1> QED BY <1>1, <1>2, <1>3 DEF AckInv

\* One turn of _wake: the list takes over its entry of the plan, and whoever
\* is told so waits for no more nodes than that entry stands for.
LEMMA WakeAck ==
    ASSUME Inv, Grows, AckInv, NEW t \in Waker, Wake(t) PROVE AckInv'
  <1> DEFINE s == waker[t].at
             v == waker[t].plan[s]
             done == {x \in syncList[s] : x.endLsn < v}
  <1>0. waker[t] \in Plan /\ waker[t] # Idle
    BY DEF Wake, Grows, TypeInv, TypeOK, Idle
  <1>1. s \in Sub /\ v \in Int /\ s \in Int
    BY <1>0, Numbers DEF Plan
  <1>2. Enough(holds, resynced, v, s) /\ Enough(holds', resynced', v, s)
    BY <1>0, <1>1, PlanStays DEF AckInv, PlansHeld
  <1>3. /\ checkList' = [checkList EXCEPT ![s] = v]
        /\ event' = Signal(Edus(done), "ok")
        /\ waker' = [waker EXCEPT ![t] =
                       IF s + 1 < waker[t].subs
                       THEN [@ EXCEPT !.at = s + 1, !.plan[s] = 0] ELSE Idle]
        /\ UNCHANGED <<session, offset>>
    BY DEF Wake
  <1>4. OffsetsHeld'
    BY <1>3, OffsetsStay DEF AckInv
  <1>5. ChecksHeld'
    <2> SUFFICES ASSUME NEW q \in Sub
                 PROVE  Enough(holds', resynced', checkList'[q], q)
      BY DEF ChecksHeld
    <2>1. CASE q = s
      <3>1. checkList'[q] = v
        BY <2>1, <1>1, <1>3 DEF Grows, TypeInv, TypeOK
      <3> QED BY <2>1, <3>1, <1>2
    <2>2. CASE q # s
      <3>1. checkList'[q] = checkList[q]
        BY <2>2, <1>3 DEF Grows, TypeInv, TypeOK
      <3>2. checkList[q] \in Int /\ q \in Int
        BY Numbers DEF Grows, TypeInv, TypeOK
      <3>3. Enough(holds, resynced, checkList[q], q)
        BY DEF AckInv, ChecksHeld
      <3>4. Enough(holds', resynced', checkList[q], q)
        BY <3>2, <3>3, StillEnough
      <3> QED BY <3>1, <3>4
    <2> QED BY <2>1, <2>2
  <1>6. PlansHeld'
    <2> SUFFICES ASSUME NEW u \in Waker, waker'[u] # Idle, NEW q \in Sub
                 PROVE  Enough(holds', resynced', waker'[u].plan[q], q)
      BY DEF PlansHeld
    <2>1. CASE u # t
      <3>1. waker'[u] = waker[u]
        BY <2>1, <1>3 DEF Grows, TypeInv, TypeOK
      <3> QED BY <3>1, PlanStays DEF AckInv
    <2>2. CASE u = t
      <3>1. waker'[u] = [waker[t] EXCEPT !.at = s + 1, !.plan[s] = 0]
        BY <2>2, <1>3 DEF Grows, TypeInv, TypeOK
      <3>2. waker'[u].plan = [waker[t].plan EXCEPT ![s] = 0]
        BY <3>1, <1>0 DEF Plan
      <3>3. CASE q = s
        <4>1. waker'[u].plan[q] = 0
          BY <3>2, <3>3, <1>0 DEF Plan
        <4>2. Enough(holds', resynced', 0, q)
          BY EnoughOfNone DEF Grows, TypeInv, TypeOK
        <4> QED BY <4>1, <4>2
      <3>4. CASE q # s
        <4>1. waker'[u].plan[q] = waker[t].plan[q]
          BY <3>2, <3>4, <1>0 DEF Plan
        <4> QED BY <4>1, <1>0, PlanStays DEF AckInv
      <3> QED BY <3>3, <3>4
    <2> QED BY <2>1, <2>2
  <1>7. ASSUME NEW e \in Edu PROVE RightlyOK(e)'
    <2>1. event'[e] = IF e \in Edus(done) THEN "ok" ELSE event[e]
      BY <1>3 DEF Signal
    <2>2. CASE e \notin Edus(done)
      BY <1>3, <2>1, <2>2, OthersStay DEF AckInv
    <2>3. CASE e \in Edus(done)
      <3>1. PICK x \in done : x.edu = e
        BY <2>3 DEF Edus
      <3>2. session[e].sub = s /\ session[e].lsn < v
        BY <3>1, <1>1 DEF Inv, ListInv, EntryOf
      <3>3. session[e].lsn \in Int /\ session[e].lsn + 1 \in Int
        BY SessionNumbers DEF Grows
      <3>4. session[e].lsn + 1 <= v
        BY <1>1, <3>2, <3>3
      <3>5. Enough(holds', resynced', session[e].lsn + 1, s)
        BY <1>1, <1>2, <3>3, <3>4, StillEnough
      <3> QED BY <1>3, <3>2, <3>5 DEF RightlyOK
    <2> QED BY <2>2, <2>3
  <1> QED BY <1>4, <1>5, <1>6, <1>7 DEF AckInv

\* A cut tells nobody so.
LEMMA CutAck ==
    ASSUME Grows, AckInv, Cut PROVE AckInv'
  <1>1. OffsetsHeld' /\ ChecksHeld' /\ PlansHeld'
    BY OffsetsStay, ChecksStay, PlansStay DEF Cut, AckInv
  <1>2. ASSUME NEW e \in Edu PROVE RightlyOK(e)'
    <2>1. event'[e] \in {"failed", event[e]} /\ session'[e] = session[e]
      BY DEF Cut, Signal
    <2>2. CASE ToldOK(e)
      BY <2>1, <2>2, AnswerStays DEF AckInv
    <2>3. CASE ~ToldOK(e)
      BY <2>1, <2>3 DEF RightlyOK, ToldOK
    <2> QED BY <2>2, <2>3
  <1> QED BY <1>1, <1>2 DEF AckInv

\* A node that begins a full synchronisation counts from now on, one that is
\* added has reported nothing.
LEMMA OffsetAck ==
    ASSUME Grows, AckInv, NEW p \in Peer, NotifyFullSync(p) \/ AddNode(p)
    PROVE  AckInv'
  <1>1. OffsetsHeld'
    <2> SUFFICES ASSUME NEW q \in Peer
                 PROVE  /\ offset'[q] <= holds'[q]
                        /\ offset'[q] = Invalid => q \in resynced'
      BY DEF OffsetsHeld
    <2>1. /\ offset[q] <= holds[q] /\ (offset[q] = Invalid => q \in resynced)
          /\ offset[q] \in Int /\ holds[q] \in Nat
      BY SyncAssumption DEF AckInv, OffsetsHeld, Grows, TypeInv, TypeOK, Lsn, Invalid
    <2>2. CASE NotifyFullSync(p)
      BY <2>1, <2>2 DEF NotifyFullSync, Grows, TypeInv, TypeOK, Invalid
    <2>3. CASE AddNode(p)
      BY <2>1, <2>3 DEF AddNode, Grows, TypeInv, TypeOK, Invalid
    <2> QED BY <2>2, <2>3
  <1>2. UNCHANGED <<checkList, waker, session, event>>
    BY DEF NotifyFullSync, AddNode
  <1>3. ChecksHeld' /\ PlansHeld' /\ \A e \in Edu : RightlyOK(e)'
    BY <1>2, ChecksStay, PlansStay, AnswersStay DEF AckInv
  <1> QED BY <1>1, <1>3 DEF AckInv

\* A rollback leaves no answer.
LEMMA RollBackLogAck ==
    ASSUME Grows, AckInv, NEW n \in Lsn, RollBackLog(n) PROVE AckInv'
  <1>1. OffsetsHeld' /\ ChecksHeld' /\ PlansHeld'
    BY OffsetsStay, ChecksStay, PlansStay DEF RollBackLog, AckInv
  <1>2. \A e \in Edu : RightlyOK(e)'
    BY DEF RollBackLog, NoSync, RightlyOK, ToldOK
  <1> QED BY <1>1, <1>2 DEF AckInv

LEMMA QuietAck ==
    ASSUME Grows, AckInv, UNCHANGED <<offset, checkList, waker, session, event>>
    PROVE  AckInv'
  BY OffsetsStay, ChecksStay, PlansStay, AnswersStay DEF AckInv

\* The steps that change what other nodes hold, or count as holding.
LEMMA HoldersTouched ==
    ASSUME [Next]_vars
    PROVE  \/ UNCHANGED <<holds, resynced>>
           \/ \E n \in Lsn : RollBackLog(n)
           \/ \E t \in Source : \E p \in Peer : Complete(t, p)
           \/ \E p \in Peer : NotifyFullSync(p)
  <1>1. ASSUME NEW e \in Edu,
               Write(e) \/ Sync(e) \/ Answered(e) \/ GiveUp(e) \/ Leave(e)
        PROVE  UNCHANGED <<holds, resynced>>
    <2>1. CASE Sync(e)
      BY <2>1 DEF Sync
    <2> QED BY <1>1, <2>1 DEF Write, Answered, GiveUp, Leave
  <1>2. ASSUME NEW t \in Waker, Wake(t) PROVE UNCHANGED <<holds, resynced>>
    BY <1>2 DEF Wake
  <1>3. ASSUME HandleTimeout \/ Cut \/ LosePrimary \/ GainPrimary \/ UNCHANGED vars
        PROVE  UNCHANGED <<holds, resynced>>
    BY <1>3 DEF HandleTimeout, Cut, LosePrimary, GainPrimary, vars
  <1>4. ASSUME NEW p \in Peer,
               Break(p) \/ Alive(p) \/ RemoveNode(p) \/ AddNode(p)
        PROVE  UNCHANGED <<holds, resynced>>
    BY <1>4 DEF Break, Alive, RemoveNode, AddNode
  <1> QED BY <1>1, <1>2, <1>3, <1>4 DEF Next

LEMMA NextAck ==
    ASSUME Inv, AckInv, [OrderlyStep]_vars, NothingTakenBack PROVE AckInv'
  <1>0. [Next]_vars
    BY DEF OrderlyStep
  <1>1. resynced \subseteq resynced'
    BY <1>0, HoldersTouched DEF RollBackLog, Complete, NotifyFullSync
  <1>2. Grows
    BY <1>0, <1>1, NextType DEF Grows, Inv, HopeInv
  <1>3. ASSUME LosePrimary \/ GainPrimary \/ UNCHANGED vars PROVE AckInv'
    BY <1>2, <1>3, QuietAck DEF LosePrimary, GainPrimary, vars
  <1>4. ASSUME NEW p \in Peer, Break(p) \/ Alive(p) PROVE AckInv'
    BY <1>2, <1>4, QuietAck DEF Break, Alive
  <1>5. ASSUME NEW p \in Peer, RemoveNode(p), OnlyDownRemoved PROVE AckInv'
    BY <1>2, <1>5, QuietAck, RemoveDownNode DEF RemoveNode, Inv
  <1> QED BY <1>2, <1>3, <1>4, <1>5, WriteAck, SyncAck, WaitAck, CompleteAck,
             HandleTimeoutAck, WakeAck, CutAck, OffsetAck, RollBackLogAck
             DEF Next, OrderlyStep

LEMMA AckEnough == Inv /\ AckInv => AckedByEnough
  <1> SUFFICES ASSUME Inv, AckInv, NEW e \in Edu,
                      session[e].pc = "idle", session[e].rc = "ok"
               PROVE  Cardinality(Holders(session[e].lsn)) > session[e].sub
    BY DEF AckedByEnough
  <1>1. Enough(holds, resynced, session[e].lsn + 1, session[e].sub)
    BY DEF AckInv, RightlyOK, ToldOK
  <1>2. Holders(session[e].lsn) = Have(holds, resynced, session[e].lsn + 1)
    <2>1. session[e].lsn \in Int /\ \A p \in Peer : holds[p] \in Int
      BY Numbers, SessionNumbers DEF Inv, HopeInv, TypeInv, TypeOK
    <2> QED BY <2>1 DEF Holders, Have
  <1> QED BY <1>1, <1>2 DEF Enough

\* In a group of any size, a write answered as synchronised is on as many other
\* nodes as it asked for, as long as only nodes that are down are taken out of
\* the group and no rollback takes away what another node holds: no order of
\* reports, stale wake plans, cuts, time-outs, breaks, nodes that join and late
\* signals, no loss of the role makes sync answer too soon.
THEOREM AcksAreHeld ==
    OrderlySpec /\ [][NothingTakenBack]_vars => []AckedByEnough
  <1>1. Inv /\ AckInv /\ [OrderlyStep]_vars /\ [NothingTakenBack]_vars => AckInv'
    <2> SUFFICES ASSUME Inv, AckInv, [OrderlyStep]_vars, [NothingTakenBack]_vars
                 PROVE  AckInv'
      OBVIOUS
    <2>1. UNCHANGED vars => NothingTakenBack
      <3>1. \A p \in Peer : holds[p] \in Int
        BY Numbers DEF Inv, HopeInv, TypeInv, TypeOK
      <3> QED BY <3>1 DEF vars, NothingTakenBack
    <2> QED BY <2>1, NextAck
  <1> QED BY <1>1, InvAlways, InitAck, AckEnough, PTL DEF OrderlySpec, OrderlyStep

\* In a group of up to three nodes a majority that lacks a record is everybody
\* else: whoever wins the election without it, no rollback takes it away from
\* a node that holds it.
LEMMA SmallGroupKeeps ==
    ASSUME Cardinality(Peer) <= 2, TypeInv, [Next]_vars PROVE NothingTakenBack
  <1>0. /\ holds \in [Peer -> Lsn] /\ \A p \in Peer : holds[p] \in Nat
        /\ Sizes /\ members \in SUBSET Peer
    BY SyncAssumption, TypeSizes DEF TypeInv, TypeOK, Lsn
  <1>1. ASSUME NEW n \in Lsn, RollBackLog(n) PROVE NothingTakenBack
    <2> DEFINE B == {p \in members : holds[p] <= n}
    <2>1. 2 * Cardinality(B) > Cardinality(members) + 1
      BY <1>1 DEF RollBackLog
    <2>2. B \in SUBSET members /\ B \in SUBSET Peer
      BY <1>0
    <2>3. Cardinality(B) \in 0 .. Cardinality(members)
      BY <1>0, <2>2, PartSize
    <2>4. Cardinality(B) = Cardinality(Peer)
      BY <1>0, <2>1, <2>3 DEF Sizes
    <2>5. B = Peer
      BY <2>2, <2>4, SyncAssumption, FS_Subset
    <2> SUFFICES ASSUME NEW p \in Peer PROVE holds[p] <= holds'[p]
      BY DEF NothingTakenBack
    <2>6. holds[p] <= n /\ n \in Nat /\ holds[p] \in Nat
      BY <1>0, <2>5, SyncAssumption DEF Lsn
    <2>7. Min({holds[p], n}) = IF holds[p] <= n THEN holds[p] ELSE n
      BY <2>6, MinOfTwo
    <2> QED BY <1>1, <2>6, <2>7 DEF RollBackLog
  <1>2. ASSUME NEW t \in Source, NEW q \in Peer, Complete(t, q)
        PROVE  NothingTakenBack
    <2>1. PICK l \in 0 .. logEnd : holds' = [holds EXCEPT ![q] = Max({@, l})]
      BY <1>2 DEF Complete
    <2>2. l \in Nat /\ holds[q] \in Nat
      BY <1>0, SyncAssumption DEF TypeInv, TypeOK, Lsn
    <2>3. holds[q] \in Int /\ l \in Int
      BY <2>2
    <2>4. holds[q] <= Max({holds[q], l})
      BY <2>3, MaxOfTwo, Zenon
    <2> QED BY <1>0, <2>1, <2>2, <2>4 DEF NothingTakenBack
  <1>3. ASSUME UNCHANGED holds PROVE NothingTakenBack
    BY <1>0, <1>3 DEF NothingTakenBack
  <1> QED BY <1>1, <1>2, <1>3, HoldersTouched DEF NotifyFullSync

\* In a group of up to three nodes a write answered as synchronised is on as
\* many other nodes as it asked for, rollbacks under another primary included,
\* as long as only nodes that are down are taken out of the group.  In a
\* larger one it may not be: a rollback leaves the offsets that were reported
\* before it, and the check values, as they were.
THEOREM AcksAreHeldOfThree ==
    Cardinality(Peer) <= 2 => (OrderlySpec => []AckedByEnough)
  <1> SUFFICES ASSUME Cardinality(Peer) <= 2 PROVE OrderlySpec => []AckedByEnough
    OBVIOUS
  <1>1. Inv /\ AckInv /\ [OrderlyStep]_vars => AckInv'
    BY NextAck, SmallGroupKeeps DEF Inv, HopeInv, OrderlyStep
  <1> QED BY <1>1, InvAlways, InitAck, AckEnough, PTL DEF OrderlySpec, OrderlyStep
=============================================================================
