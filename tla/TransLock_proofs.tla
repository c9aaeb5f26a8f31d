-------------------------- MODULE TransLock_proofs --------------------------
(***************************************************************************)
(* Proofs about the transaction lock manager, for any number of EDUs,      *)
(* spaces, collections and records.                                        *)
(***************************************************************************)
EXTENDS TransLock, TLAPS

-----------------------------------------------------------------------------
(* The inductive invariant, in parts. *)

WaitPCs == {"waiting", "woken", "failed"}
BusyPCs == {"acquire", "unwind", "release"} \cup WaitPCs

(* A call in progress names real locks, and whoever waits asked for X. *)
CallOK ==
  \A e \in EDUs :
    /\ pc[e] \in BusyPCs => call[e].leaf \in LockIds /\ call[e].at \in LockIds
    /\ pc[e] = "acquire" => call[e].kind \in Calls
    /\ pc[e] \in WaitPCs => /\ call[e].at = call[e].leaf
                            /\ call[e].kind \in Calls \cap {"scan", "query"}
                            /\ lockInfo[e][call[e].at] # NoInfo
                            /\ lockInfo[e][call[e].at].type = X

(* What releaseAll has visited is gone from the run lists. *)
ReleasedSoFar ==
  \A e \in EDUs, l \in LockIds :
    pc[e] = "releaseAll" /\ l \notin todo[e] => runList[l][e] = NoType

TypeInv == TypeOK /\ CallOK

-----------------------------------------------------------------------------
(* Lock identifiers and lock types. *)

(* The containers of a lock are locks. *)
LEMMA ParentType == \A l \in LockIds : Parent(l) \in LockIds /\ SpaceOf(l) \in LockIds
<1> SUFFICES ASSUME NEW l \in LockIds
             PROVE Parent(l) \in LockIds /\ SpaceOf(l) \in LockIds
  OBVIOUS
<1>1. l[1] \in Spaces /\ SpaceOf(l) \in LockIds
  BY DEF LockIds, SpaceIds, CollectionIds, RecordIds, SpaceOf
<1>2. CASE l \in RecordIds
  <2>1. <<l[1], l[2], INVALID_RID>> \in CollectionIds
    BY <1>2 DEF RecordIds, CollectionIds
  <2> QED BY <1>1, <2>1 DEF LockIds, Parent, SpaceOf
<1>3. CASE l \in SpaceIds \cup CollectionIds
  <2>1. ~IsRecord(l)
    BY <1>3 DEF SpaceIds, CollectionIds, IsRecord
  <2> QED BY <1>1, <2>1 DEF Parent, SpaceOf
<1> QED BY <1>2, <1>3 DEF LockIds

(* Every call asks for a lock. *)
LEMMA TargetType == \A k \in CallKinds : TargetIds(k) \subseteq LockIds
BY DEF TargetIds, LockIds

(* What is asked for is a lock type. *)
LEMMA WantTypeType == \A k, l, m : WantType(k, l, m) \in Types
BY DEF WantType, Types, IS, IX, S, X

(* The bit test of isLockCompatible, as a table. *)
LEMMA CompatibleTable ==
  \A a, b \in Types : isLockCompatible(a, b) <=> 
    ~(a = X \/ b = X \/ (a = IX /\ b = S) \/ (a = S /\ b = IX))
BY DEF isLockCompatible, Types, IS, IX, S, X

(* The bit test agrees with the compatibility matrix. *)
LEMMA MatrixTable ==
  \A a, b \in Types : isLockCompatible(a, b) => ~TypeConflict(a, b)
BY CompatibleTable DEF TypeConflict, Types, IS, IX, S, X

(* Compatibility does not depend on who came first. *)
LEMMA CompatibleSymmetric ==
  \A a, b \in Types : isLockCompatible(a, b) => isLockCompatible(b, a)
BY CompatibleTable

(* Relink changes next pointers and nothing else. *)
LEMMA RelinkType ==
  ASSUME NEW infos \in InfoLists, NEW l \in LockIds, NEW old,
         NEW new \in EDUs \cup {NULL}
  PROVE /\ Relink(infos, l, old, new) \in InfoLists
        /\ \A w \in EDUs, m \in LockIds :
             LET r == Relink(infos, l, old, new)[w][m]
             IN /\ (r = NoInfo) <=> (infos[w][m] = NoInfo)
                /\ r # NoInfo => /\ r.type = infos[w][m].type
                                 /\ r.ref = infos[w][m].ref
<1> DEFINE R == Relink(infos, l, old, new)
           Hit(w) == w \in InQueue(l) /\ infos[w][l] # NoInfo /\ infos[w][l].next = old
<1>1. R = [w \in EDUs |-> IF Hit(w) THEN [infos[w] EXCEPT ![l].next = new] ELSE infos[w]]
  BY Zenon DEF Relink
<1> HIDE DEF R, Hit
<1> SUFFICES ASSUME NEW w \in EDUs
             PROVE /\ R[w] \in [LockIds -> LockInfo \cup {NoInfo}]
                   /\ \A m \in LockIds :
                        /\ (R[w][m] = NoInfo) <=> (infos[w][m] = NoInfo)
                        /\ R[w][m] # NoInfo => /\ R[w][m].type = infos[w][m].type
                                               /\ R[w][m].ref = infos[w][m].ref
  BY <1>1 DEF InfoLists, R
<1>2. CASE ~Hit(w)
  BY <1>1, <1>2 DEF InfoLists
<1>3. CASE Hit(w)
  <2>1. infos[w] \in [LockIds -> LockInfo \cup {NoInfo}] /\ infos[w][l] \in LockInfo
    BY <1>3 DEF Hit, InfoLists
  <2>2. R[w] = [infos[w] EXCEPT ![l] = [infos[w][l] EXCEPT !.next = new]]
    BY <1>1, <1>3
  <2>3. [infos[w][l] EXCEPT !.next = new] \in LockInfo
    BY <2>1 DEF LockInfo
  <2>4. /\ [infos[w][l] EXCEPT !.next = new].type = infos[w][l].type
        /\ [infos[w][l] EXCEPT !.next = new].ref = infos[w][l].ref
    BY <2>1 DEF LockInfo
  <2> QED BY <2>1, <2>2, <2>3, <2>4, <1>3, NoInfoAssumption DEF Hit
<1> QED BY <1>2, <1>3

(* The number of queued wake-ups stays within its bound. *)
LEMMA PostedType ==
  ASSUME TypeOK, NEW e \in EDUs
  PROVE Posted(e) \in [EDUs -> 0 .. MaxEvents]
BY BoundAssumption DEF TypeOK, Posted

-----------------------------------------------------------------------------
(* Type correctness. *)

(* The initial lists and queues are empty. *)
LEMMA TypeInvInit == Init => TypeInv
BY BoundAssumption
   DEF Init, TypeInv, CallRecords, InfoLists, TypeOK, CallOK, NoCall, PCs, BusyPCs, WaitPCs, CallKinds

(* A step of e that ends with well-typed values and leaves the calls of the
   others alone preserves CallOK if it does for e. *)
LEMMA CallOKStep ==
  ASSUME TypeInv, NEW e \in EDUs,
         \A f \in EDUs \ {e} :
           /\ pc'[f] = pc[f] /\ call'[f] = call[f]
           /\ \A l \in LockIds :
                /\ lockInfo[f][l] # NoInfo => /\ lockInfo'[f][l] # NoInfo
                                              /\ lockInfo'[f][l].type = lockInfo[f][l].type,
         pc'[e] \in BusyPCs => call'[e].leaf \in LockIds /\ call'[e].at \in LockIds,
         pc'[e] = "acquire" => call'[e].kind \in Calls,
         pc'[e] \in WaitPCs => /\ call'[e].at = call'[e].leaf
                               /\ call'[e].kind \in Calls \cap {"scan", "query"}
                               /\ lockInfo'[e][call'[e].at] # NoInfo
                               /\ lockInfo'[e][call'[e].at].type = X
  PROVE CallOK'
<1> SUFFICES ASSUME NEW f \in EDUs
             PROVE /\ pc'[f] \in BusyPCs => call'[f].leaf \in LockIds /\ call'[f].at \in LockIds
                   /\ pc'[f] = "acquire" => call'[f].kind \in Calls
                   /\ pc'[f] \in WaitPCs => /\ call'[f].at = call'[f].leaf
                                            /\ call'[f].kind \in Calls \cap {"scan", "query"}
                                            /\ lockInfo'[f][call'[f].at] # NoInfo
                                            /\ lockInfo'[f][call'[f].at].type = X
  BY DEF CallOK
<1>1. CASE f = e
  BY <1>1
<1>2. CASE f # e
  BY <1>2 DEF TypeInv, CallOK, BusyPCs
<1> QED BY <1>1, <1>2

(* The values an acquiring EDU works with. *)
LEMMA AcquireFacts ==
  ASSUME TypeInv, NEW e \in EDUs, pc[e] \in BusyPCs
  PROVE /\ At(e) \in LockIds /\ Parent(At(e)) \in LockIds
        /\ ChildOf(e) \in LockIds /\ Want(e) \in Types
        /\ Info(e) \in LockInfo \cup {NoInfo}
BY ParentType, WantTypeType DEF TypeInv, TypeOK, InfoLists, CallOK, At, ChildOf, Want, Info

(* After a grant the call is over or goes on, one level down, to a lock. *)
LEMMA AdvanceType ==
  ASSUME TypeInv, NEW e \in EDUs, pc[e] = "acquire", Advance(e)
  PROVE /\ pc' \in [EDUs -> PCs]
        /\ call' \in [EDUs -> CallRecords]
        /\ held' \in [EDUs -> [LockIds -> Nat]]
        /\ pc'[e] \in {"idle", "acquire"}
        /\ pc'[e] = "acquire" => /\ call'[e].leaf \in LockIds /\ call'[e].at \in LockIds
                                /\ call'[e].kind \in Calls
        /\ \A f \in EDUs \ {e} : pc'[f] = pc[f] /\ call'[f] = call[f]
<1>1. /\ At(e) \in LockIds /\ ChildOf(e) \in LockIds
  BY AcquireFacts DEF BusyPCs
<1>2. call[e].leaf \in LockIds /\ call[e].kind \in Calls
  BY DEF TypeInv, CallOK, BusyPCs
<1>3. /\ pc \in [EDUs -> PCs] /\ call \in [EDUs -> CallRecords]
      /\ held \in [EDUs -> [LockIds -> Nat]]
  BY DEF TypeInv, TypeOK, CallRecords
<1>4. CASE At(e) = call[e].leaf
  <2>1. /\ pc' = [pc EXCEPT ![e] = "idle"] /\ call' = [call EXCEPT ![e] = NoCall]
        /\ held' = [held EXCEPT ![e][At(e)] = @ + 1]
    BY <1>4 DEF Advance
  <2>2. NoCall \in CallRecords /\ "idle" \in PCs
    BY DEF NoCall, CallRecords, PCs
  <2>3. held' \in [EDUs -> [LockIds -> Nat]]
    BY <1>1, <1>3, <2>1
  <2> QED BY <1>3, <2>1, <2>2, <2>3
<1>5. CASE At(e) # call[e].leaf
  <2>1. /\ pc' = pc /\ held' = held
        /\ call' = [call EXCEPT ![e] = [call[e] EXCEPT !.at = ChildOf(e)]]
    BY <1>5 DEF Advance
  <2>2. [call[e] EXCEPT !.at = ChildOf(e)] \in CallRecords
    BY <1>1, <1>3 DEF CallRecords
  <2>3. /\ [call[e] EXCEPT !.at = ChildOf(e)].leaf = call[e].leaf
        /\ [call[e] EXCEPT !.at = ChildOf(e)].at = ChildOf(e)
        /\ [call[e] EXCEPT !.at = ChildOf(e)].kind = call[e].kind
    BY <1>3 DEF CallRecords
  <2> QED BY <1>1, <1>2, <1>3, <2>1, <2>2, <2>3
<1> QED BY <1>4, <1>5

(* After a refusal the call is over or unwinds to the container. *)
LEMMA FailType ==
  ASSUME TypeInv, NEW e \in EDUs, pc[e] = "acquire", Fail(e)
  PROVE /\ pc' \in [EDUs -> PCs]
        /\ call' \in [EDUs -> CallRecords]
        /\ held' = held
        /\ pc'[e] \in {"idle", "rollback", "unwind"}
        /\ pc'[e] = "unwind" => call'[e].leaf \in LockIds /\ call'[e].at \in LockIds
        /\ \A f \in EDUs \ {e} : pc'[f] = pc[f] /\ call'[f] = call[f]
<1>1. Parent(At(e)) \in LockIds
  BY AcquireFacts DEF BusyPCs
<1>2. call[e].leaf \in LockIds
  BY DEF TypeInv, CallOK, BusyPCs
<1>3. pc \in [EDUs -> PCs] /\ call \in [EDUs -> CallRecords]
  BY DEF TypeInv, TypeOK, CallRecords
<1>4. CASE IsSpace(At(e))
  <2>1. /\ pc' = [pc EXCEPT ![e] = AfterError(call[e].kind)]
        /\ call' = [call EXCEPT ![e] = NoCall] /\ held' = held
    BY <1>4 DEF Fail
  <2>2. /\ NoCall \in CallRecords
        /\ AfterError(call[e].kind) \in {"idle", "rollback"}
        /\ {"idle", "rollback"} \subseteq PCs
    BY DEF NoCall, CallRecords, PCs, AfterError
  <2> QED BY <1>3, <2>1, <2>2
<1>5. CASE ~IsSpace(At(e))
  <2>1. /\ pc' = [pc EXCEPT ![e] = "unwind"] /\ held' = held
        /\ call' = [call EXCEPT ![e] = [call[e] EXCEPT !.at = Parent(At(e))]]
    BY <1>5 DEF Fail
  <2>2. [call[e] EXCEPT !.at = Parent(At(e))] \in CallRecords /\ "unwind" \in PCs
    BY <1>1, <1>3 DEF CallRecords, PCs
  <2>3. /\ [call[e] EXCEPT !.at = Parent(At(e))].leaf = call[e].leaf
        /\ [call[e] EXCEPT !.at = Parent(At(e))].at = Parent(At(e))
    BY <1>3 DEF CallRecords
  <2> QED BY <1>1, <1>2, <1>3, <2>1, <2>2, <2>3
<1> QED BY <1>4, <1>5

(* addLockInfo changes one entry of one lock list. *)
LEMMA NewInfoType ==
  ASSUME TypeInv, NEW e \in EDUs, pc[e] = "acquire"
  PROVE /\ NewInfo(e) \in InfoLists
        /\ NewInfo(e)[e][At(e)] # NoInfo
        /\ NewInfo(e)[e][At(e)].type = Want(e)
        /\ NewInfo(e)[e][At(e)].ref = 0
        /\ \A f \in EDUs, l \in LockIds :
             f # e \/ l # At(e) => NewInfo(e)[f][l] = lockInfo[f][l]
<1>1. At(e) \in LockIds /\ Want(e) \in Types
  BY AcquireFacts DEF BusyPCs
<1>2. [type |-> Want(e), ref |-> 0, next |-> NULL] \in LockInfo
  BY <1>1 DEF LockInfo
<1> QED BY <1>1, <1>2, NoInfoAssumption DEF NewInfo, InfoLists, TypeInv, TypeOK

(* An upgrade changes the type and the count of one entry of one lock list. *)
LEMMA UpgradedInfoType ==
  ASSUME TypeInv, NEW e \in EDUs, pc[e] = "acquire", Info(e) # NoInfo
  PROVE /\ UpgradedInfo(e) \in InfoLists
        /\ UpgradedInfo(e)[e][At(e)] # NoInfo
        /\ UpgradedInfo(e)[e][At(e)].type = Want(e)
        /\ UpgradedInfo(e)[e][At(e)].ref = lockInfo[e][At(e)].ref + 1
        /\ \A f \in EDUs, l \in LockIds :
             f # e \/ l # At(e) => UpgradedInfo(e)[f][l] = lockInfo[f][l]
<1> DEFINE info == [type |-> Want(e), ref |-> lockInfo[e][At(e)].ref + 1,
                    next |-> lockInfo[e][At(e)].next]
<1>1. /\ At(e) \in LockIds /\ Want(e) \in Types /\ lockInfo[e][At(e)] \in LockInfo
  BY AcquireFacts DEF BusyPCs, Info
<1>2. info \in LockInfo /\ info.type = Want(e) /\ info.ref = lockInfo[e][At(e)].ref + 1
  BY <1>1 DEF LockInfo
<1>3. UpgradedInfo(e) = [lockInfo EXCEPT ![e] = [lockInfo[e] EXCEPT ![At(e)] = info]]
  BY DEF UpgradedInfo
<1>4. lockInfo \in InfoLists
  BY DEF TypeInv, TypeOK
<1> HIDE DEF info
<1> QED BY <1>1, <1>2, <1>3, <1>4, NoInfoAssumption DEF InfoLists

(* removeFromWait changes next pointers, and no type or count of a lock list. *)
LEMMA DequeueType ==
  ASSUME TypeInv, NEW e \in EDUs, pc[e] \in WaitPCs, removeFromWait(e, At(e))
  PROVE /\ lockInfo' \in InfoLists
        /\ waitCB' \in [LockIds -> EDUs \cup {NULL}]
        /\ events' \in [EDUs -> 0 .. MaxEvents]
        /\ \A f \in EDUs, l \in LockIds :
             /\ (lockInfo'[f][l] = NoInfo) <=> (lockInfo[f][l] = NoInfo)
             /\ lockInfo[f][l] # NoInfo =>
                  /\ lockInfo'[f][l].type = lockInfo[f][l].type
                  /\ lockInfo'[f][l].ref = lockInfo[f][l].ref
<1> DEFINE next == lockInfo[e][At(e)].next
<1>1. At(e) \in LockIds /\ next \in EDUs \cup {NULL}
  BY DEF TypeInv, TypeOK, CallOK, BusyPCs, At, InfoLists, LockInfo
<1>2. CASE waitCB[At(e)] = e
  <2>1. /\ waitCB' = [waitCB EXCEPT ![At(e)] = next] /\ lockInfo' = lockInfo
        /\ events' = IF next = NULL THEN events ELSE Posted(next)
    BY <1>2 DEF removeFromWait
  <2> QED BY <1>1, <2>1, PostedType DEF TypeInv, TypeOK
<1>3. CASE waitCB[At(e)] # e
  <2>1. lockInfo' = Relink(lockInfo, At(e), e, next) /\ UNCHANGED <<waitCB, events>>
    BY <1>3 DEF removeFromWait
  <2>2. lockInfo \in InfoLists
    BY DEF TypeInv, TypeOK
  <2> QED BY <1>1, <2>1, <2>2, RelinkType DEF TypeInv, TypeOK
<1> QED BY <1>2, <1>3

(* removeFromRun keeps the types. *)
LEMMA RemoveFromRunType ==
  ASSUME TypeOK, NEW e \in EDUs, NEW l \in LockIds, removeFromRun(e, l)
  PROVE /\ runList' \in [LockIds -> [EDUs -> Types \cup {NoType}]]
        /\ events' \in [EDUs -> 0 .. MaxEvents]
<1>1. events' \in [EDUs -> 0 .. MaxEvents]
  <2>1. waitCB[l] \in EDUs \cup {NULL}
    BY DEF TypeOK
  <2> QED BY <2>1, PostedType DEF removeFromRun, TypeOK
<1>2. runList' \in [LockIds -> [EDUs -> Types \cup {NoType}]]
  BY DEF removeFromRun, TypeOK
<1> QED BY <1>1, <1>2

(* release changes one entry of the lock list of its caller. *)
LEMMA ReleaseStepType ==
  ASSUME TypeInv, NEW e \in EDUs, ReleaseStep(e)
  PROVE /\ lockInfo' \in InfoLists
        /\ \A f \in EDUs \ {e} : lockInfo'[f] = lockInfo[f]
        /\ \A l \in LockIds \ {At(e)} : lockInfo'[e][l] = lockInfo[e][l]
        /\ runList' \in [LockIds -> [EDUs -> Types \cup {NoType}]]
        /\ events' \in [EDUs -> 0 .. MaxEvents]
<1>1. At(e) \in LockIds /\ lockInfo[e][At(e)] \in LockInfo \cup {NoInfo} /\ lockInfo \in InfoLists
  BY AcquireFacts DEF ReleaseStep, BusyPCs, Info, TypeInv, TypeOK
<1>2. CASE Info(e) = NoInfo
  BY <1>1, <1>2 DEF ReleaseStep, TypeInv, TypeOK
<1>3. CASE Info(e) # NoInfo /\ Info(e).ref > 0
  <2>1. /\ lockInfo' = [lockInfo EXCEPT ![e][At(e)].ref = @ - 1]
        /\ UNCHANGED <<runList, events>>
    BY <1>3 DEF ReleaseStep
  <2>2. [lockInfo[e][At(e)] EXCEPT !.ref = @ - 1] \in LockInfo
    BY <1>1, <1>3 DEF Info, LockInfo
  <2> QED BY <1>1, <2>1, <2>2 DEF InfoLists, TypeInv, TypeOK
<1>4. CASE ~(Info(e) = NoInfo \/ Info(e).ref > 0)
  <2>1. /\ removeFromRun(e, At(e))
        /\ lockInfo' = [lockInfo EXCEPT ![e][At(e)] = NoInfo]
    BY <1>4 DEF ReleaseStep
  <2>2. TypeOK
    BY DEF TypeInv
  <2> QED BY <1>1, <2>1, <2>2, RemoveFromRunType DEF InfoLists
<1> QED BY <1>2, <1>3, <1>4

(* Every step preserves the types. *)
LEMMA TypeInvNext == TypeInv /\ [Next]_vars => TypeInv'
<1> SUFFICES ASSUME TypeInv, [Next]_vars PROVE TypeInv'
  OBVIOUS
<1> USE DEF TypeInv
<1>0. /\ pc \in [EDUs -> PCs] /\ call \in [EDUs -> CallRecords]
      /\ held \in [EDUs -> [LockIds -> Nat]]
      /\ lockInfo \in InfoLists
      /\ runList \in [LockIds -> [EDUs -> Types \cup {NoType}]]
      /\ events \in [EDUs -> 0 .. MaxEvents]
      /\ waitCB \in [LockIds -> EDUs \cup {NULL}]
      /\ todo \in [EDUs -> SUBSET LockIds]
  BY DEF TypeOK
<1>1. CASE UNCHANGED vars
  BY <1>1 DEF vars, TypeOK, CallOK
<1>2. CASE Next
  <2> SUFFICES ASSUME NEW e \in EDUs,
                      \/ Caller(e) \/ Acquire(e) \/ Wait(e) \/ Release(e)
                      \/ Timeout(e) \/ Interrupt(e)
               PROVE TypeOK' /\ CallOK'
    BY <1>2 DEF Next
  <2> USE DEF BusyPCs, WaitPCs
  <2>1. CASE StartCall(e)
    <3>1. PICK kind \in Calls : \E l \in TargetIds(kind) :
            call' = [call EXCEPT ![e] = [kind |-> kind, leaf |-> l, at |-> SpaceOf(l)]]
      BY <2>1 DEF StartCall
    <3>2. PICK l \in TargetIds(kind) :
            call' = [call EXCEPT ![e] = [kind |-> kind, leaf |-> l, at |-> SpaceOf(l)]]
      BY <3>1
    <3>3. l \in LockIds /\ SpaceOf(l) \in LockIds /\ kind \in CallKinds
      BY ParentType, TargetType, CallAssumption
    <3>4. [kind |-> kind, leaf |-> l, at |-> SpaceOf(l)] \in CallRecords
      BY <3>3 DEF CallRecords
    <3>5. /\ pc' = [pc EXCEPT ![e] = "acquire"]
          /\ UNCHANGED <<runList, waitCB, lockInfo, events, todo, held>>
      BY <2>1 DEF StartCall
    <3>6. TypeOK'
      BY <1>0, <3>2, <3>4, <3>5 DEF TypeOK, PCs
    <3>7. CallOK'
      BY <1>0, <3>2, <3>3, <3>5, CallOKStep
    <3> QED BY <3>6, <3>7
  <2>2. CASE StartRelease(e)
    <3>1. PICK l \in LockIds :
            /\ held[e][l] > 0
            /\ held' = [held EXCEPT ![e][l] = @ - 1]
            /\ call' = [call EXCEPT ![e] = [kind |-> "none", leaf |-> l, at |-> l]]
      BY <2>2 DEF StartRelease
    <3>2. [kind |-> "none", leaf |-> l, at |-> l] \in CallRecords
      BY DEF CallRecords
    <3>3. /\ pc' = [pc EXCEPT ![e] = "release"]
          /\ UNCHANGED <<runList, waitCB, lockInfo, events, todo>>
      BY <2>2 DEF StartRelease
    <3>4. held' \in [EDUs -> [LockIds -> Nat]]
      BY <1>0, <3>1
    <3>5. TypeOK'
      BY <1>0, <3>1, <3>2, <3>3, <3>4 DEF TypeOK, PCs
    <3>6. CallOK'
      BY <1>0, <3>1, <3>3, CallOKStep
    <3> QED BY <3>5, <3>6
  <2>3. CASE StartReleaseAll(e)
    <3>1. TypeOK'
      BY <1>0, <2>3 DEF StartReleaseAll, TypeOK, PCs
    <3>2. CallOK'
      BY <1>0, <2>3, CallOKStep DEF StartReleaseAll
    <3> QED BY <3>1, <3>2
  <2>4. CASE DrainEvent(e)
    <3>1. TypeOK'
      BY <1>0, <2>4, BoundAssumption DEF DrainEvent, TypeOK
    <3>2. CallOK'
      BY <2>4 DEF DrainEvent, CallOK
    <3> QED BY <3>1, <3>2
  <2>5. CASE AcquireMatch(e)
    <3>1. /\ pc[e] = "acquire" /\ Advance(e) /\ Info(e) # NoInfo
          /\ lockInfo' = [lockInfo EXCEPT ![e][At(e)].ref = @ + 1]
          /\ UNCHANGED <<runList, waitCB, events, todo>>
      BY <2>5 DEF AcquireMatch
    <3>2. At(e) \in LockIds /\ lockInfo[e][At(e)] \in LockInfo
      BY <3>1, AcquireFacts DEF Info
    <3>3. lockInfo' \in InfoLists
      <4>1. [lockInfo[e][At(e)] EXCEPT !.ref = @ + 1] \in LockInfo
        BY <3>2 DEF LockInfo
      <4> QED BY <1>0, <3>1, <3>2, <4>1 DEF InfoLists
    <3>4. TypeOK'
      BY <1>0, <3>1, <3>3, AdvanceType DEF TypeOK
    <3>5. CallOK'
      <4>1. \A f \in EDUs \ {e} : lockInfo'[f] = lockInfo[f]
        BY <1>0, <3>1 DEF InfoLists
      <4> QED BY <3>1, <4>1, AdvanceType, CallOKStep
    <3> QED BY <3>4, <3>5
  <2>6. CASE AcquireUpgrade(e)
    <3>0. /\ pc[e] = "acquire" /\ Info(e) # NoInfo
          /\ UNCHANGED <<waitCB, events, todo>>
      BY <2>6 DEF AcquireUpgrade
    <3>1. At(e) \in LockIds /\ lockInfo[e][At(e)] \in LockInfo /\ Want(e) \in Types
      BY <3>0, AcquireFacts DEF Info
    <3>2. CASE upgradeCheck(Info(e).type, Want(e)) /\ checkCompatible(e, Want(e), At(e))
      <4>1. /\ runList' = [runList EXCEPT ![At(e)][e] = Want(e)]
            /\ lockInfo' = UpgradedInfo(e)
            /\ Advance(e)
        BY <2>6, <3>2 DEF AcquireUpgrade
      <4>2. /\ lockInfo' \in InfoLists
            /\ \A f \in EDUs \ {e}, l \in LockIds : lockInfo'[f][l] = lockInfo[f][l]
        BY <3>0, <4>1, UpgradedInfoType
      <4>3. runList' \in [LockIds -> [EDUs -> Types \cup {NoType}]]
        BY <1>0, <3>1, <4>1
      <4>4. TypeOK'
        BY <1>0, <3>0, <4>1, <4>2, <4>3, AdvanceType DEF TypeOK
      <4>5. CallOK'
        BY <3>0, <4>1, <4>2, AdvanceType, CallOKStep
      <4> QED BY <4>4, <4>5
    <3>3. CASE ~(upgradeCheck(Info(e).type, Want(e)) /\ checkCompatible(e, Want(e), At(e)))
      <4>1. Fail(e) /\ UNCHANGED <<runList, lockInfo>>
        BY <2>6, <3>3 DEF AcquireUpgrade
      <4>2. TypeOK'
        BY <1>0, <3>0, <4>1, FailType DEF TypeOK
      <4>3. CallOK'
        BY <3>0, <4>1, FailType, CallOKStep
      <4> QED BY <4>2, <4>3
    <3> QED BY <3>2, <3>3
  <2>7. CASE AcquireNew(e)
    <3>1. /\ pc[e] = "acquire" /\ Advance(e) /\ lockInfo' = NewInfo(e)
          /\ runList' = [runList EXCEPT ![At(e)][e] = Want(e)]
          /\ UNCHANGED <<waitCB, events, todo>>
      BY <2>7 DEF AcquireNew
    <3>2. At(e) \in LockIds /\ Want(e) \in Types
      BY <3>1, AcquireFacts
    <3>3. runList' \in [LockIds -> [EDUs -> Types \cup {NoType}]]
      BY <1>0, <3>1, <3>2
    <3>4. TypeOK'
      BY <1>0, <3>1, <3>3, AdvanceType, NewInfoType DEF TypeOK
    <3>5. CallOK'
      BY <3>1, AdvanceType, NewInfoType, CallOKStep
    <3> QED BY <3>4, <3>5
  <2>8. CASE AcquireRefused(e)
    <3>1. /\ pc[e] = "acquire" /\ Fail(e)
          /\ UNCHANGED <<runList, waitCB, lockInfo, events, todo>>
      BY <2>8 DEF AcquireRefused
    <3>2. TypeOK'
      BY <1>0, <3>1, FailType DEF TypeOK
    <3>3. CallOK'
      BY <3>1, FailType, CallOKStep
    <3> QED BY <3>2, <3>3
  <2>9. CASE AcquireAppend(e)
    <3>1. /\ pc[e] = "acquire" /\ Appends(e) /\ pc' = [pc EXCEPT ![e] = "waiting"]
          /\ UNCHANGED <<runList, events, call, todo, held>>
      BY <2>9 DEF AcquireAppend
    <3>2. At(e) \in LockIds /\ At(e) = call[e].leaf /\ At(e) = call[e].at
      BY <3>1, AcquireFacts DEF Appends, At
    <3>3. /\ waitCB' \in [LockIds -> EDUs \cup {NULL}]
          /\ lockInfo' = NewInfo(e) \/ lockInfo' = Relink(NewInfo(e), At(e), NULL, e)
      BY <1>0, <2>9, <3>2 DEF AcquireAppend
    <3>4. /\ lockInfo' \in InfoLists
          /\ \A f \in EDUs, l \in LockIds :
               NewInfo(e)[f][l] # NoInfo => /\ lockInfo'[f][l] # NoInfo
                                            /\ lockInfo'[f][l].type = NewInfo(e)[f][l].type
      BY <3>1, <3>2, <3>3, NewInfoType, RelinkType
    <3>5. Want(e) = X /\ call[e].kind \in Calls \cap {"scan", "query"}
      BY <3>1, <3>2, AcquireFacts DEF Want, WantType, Appends, CallOK
    <3>6. TypeOK'
      BY <1>0, <3>1, <3>3, <3>4 DEF TypeOK, PCs
    <3>7. /\ lockInfo'[e][At(e)] # NoInfo /\ lockInfo'[e][At(e)].type = X
          /\ \A f \in EDUs \ {e}, l \in LockIds :
               lockInfo[f][l] # NoInfo => /\ lockInfo'[f][l] # NoInfo
                                          /\ lockInfo'[f][l].type = lockInfo[f][l].type
      BY <3>1, <3>2, <3>4, <3>5, NewInfoType
    <3>8. CallOK'
      BY <1>0, <3>1, <3>2, <3>5, <3>7, CallOKStep
    <3> QED BY <3>6, <3>8
  <2>10. CASE WakeUp(e) \/ Timeout(e) \/ Interrupt(e) \/ WaitRetry(e)
    <3>1. /\ pc[e] \in WaitPCs
          /\ \E to \in WaitPCs : pc' = [pc EXCEPT ![e] = to]
          /\ UNCHANGED <<runList, waitCB, lockInfo, call, todo, held>>
          /\ events' = events \/ (events[e] > 0 /\ events' = [events EXCEPT ![e] = @ - 1])
      BY <2>10 DEF WakeUp, Timeout, Interrupt, WaitRetry
    <3>2. events' \in [EDUs -> 0 .. MaxEvents]
      BY <1>0, <3>1, BoundAssumption
    <3>3. TypeOK'
      BY <1>0, <3>1, <3>2 DEF TypeOK, PCs
    <3>4. CallOK'
      BY <1>0, <3>1 DEF CallOK
    <3> QED BY <3>3, <3>4
  <2>11. CASE GrantAfterWait(e)
    <3>1. /\ pc[e] = "woken" /\ removeFromWait(e, At(e))
          /\ runList' = [runList EXCEPT ![At(e)][e] = X]
          /\ pc' = [pc EXCEPT ![e] = "idle"] /\ call' = [call EXCEPT ![e] = NoCall]
          /\ held' = [held EXCEPT ![e][At(e)] = @ + 1] /\ UNCHANGED todo
      BY <2>11 DEF GrantAfterWait
    <3>2. At(e) \in LockIds /\ NoCall \in CallRecords
      BY <3>1, AcquireFacts DEF NoCall, CallRecords
    <3>3. /\ runList' \in [LockIds -> [EDUs -> Types \cup {NoType}]]
          /\ held' \in [EDUs -> [LockIds -> Nat]]
      BY <1>0, <3>1, <3>2 DEF Types, X
    <3>4. TypeOK'
      BY <1>0, <3>1, <3>2, <3>3, DequeueType DEF TypeOK, PCs
    <3>5. pc'[e] = "idle" /\ \A f \in EDUs \ {e} : pc'[f] = pc[f] /\ call'[f] = call[f]
      BY <1>0, <3>1
    <3>6. \A f \in EDUs \ {e}, l \in LockIds :
            lockInfo[f][l] # NoInfo => /\ lockInfo'[f][l] # NoInfo
                                       /\ lockInfo'[f][l].type = lockInfo[f][l].type
      BY <3>1, DequeueType
    <3>7. CallOK'
      BY <3>5, <3>6, CallOKStep
    <3> QED BY <3>4, <3>7
  <2>12. CASE GiveUp(e)
    <3>1. /\ pc[e] = "failed" /\ removeFromWait(e, At(e))
          /\ pc' = [pc EXCEPT ![e] = AfterError(call[e].kind)]
          /\ call' = [call EXCEPT ![e] = NoCall]
          /\ UNCHANGED <<runList, todo, held>>
      BY <2>12 DEF GiveUp
    <3>2. NoCall \in CallRecords /\ AfterError(call[e].kind) \in {"idle", "rollback"}
      BY DEF NoCall, CallRecords, AfterError
    <3>3. TypeOK'
      BY <1>0, <3>1, <3>2, DequeueType DEF TypeOK, PCs
    <3>4. pc'[e] \in {"idle", "rollback"} /\ \A f \in EDUs \ {e} : pc'[f] = pc[f] /\ call'[f] = call[f]
      BY <1>0, <3>1, <3>2
    <3>5. \A f \in EDUs \ {e}, l \in LockIds :
            lockInfo[f][l] # NoInfo => /\ lockInfo'[f][l] # NoInfo
                                       /\ lockInfo'[f][l].type = lockInfo[f][l].type
      BY <3>1, DequeueType
    <3>6. CallOK'
      BY <3>4, <3>5, CallOKStep
    <3> QED BY <3>3, <3>6
  <2>13. CASE ReleaseStep(e)
    <3>1. /\ pc[e] \in {"release", "unwind"} /\ UNCHANGED <<waitCB, todo, held>>
      BY <2>13 DEF ReleaseStep
    <3>2. /\ At(e) \in LockIds /\ Parent(At(e)) \in LockIds
          /\ Info(e) \in LockInfo \cup {NoInfo} /\ call[e].leaf \in LockIds
          /\ call[e] \in CallRecords
      BY <1>0, <3>1, AcquireFacts DEF CallOK
    <3>3. /\ lockInfo' \in InfoLists
          /\ \A f \in EDUs \ {e} : lockInfo'[f] = lockInfo[f]
          /\ runList' \in [LockIds -> [EDUs -> Types \cup {NoType}]]
          /\ events' \in [EDUs -> 0 .. MaxEvents]
      BY <2>13, <3>1, ReleaseStepType
    <3>4. CASE Info(e) = NoInfo \/ IsSpace(At(e))
      <4>1. /\ pc' = [pc EXCEPT ![e] = AfterRelease(e)]
            /\ call' = [call EXCEPT ![e] = NoCall]
        BY <2>13, <3>4 DEF ReleaseStep
      <4>2. NoCall \in CallRecords /\ AfterRelease(e) \in {"idle", "rollback"}
        BY DEF NoCall, CallRecords, AfterRelease, AfterError
      <4>3. TypeOK'
        BY <1>0, <3>1, <3>3, <4>1, <4>2 DEF TypeOK, PCs
      <4>4. pc'[e] \in {"idle", "rollback"} /\ \A f \in EDUs \ {e} : pc'[f] = pc[f] /\ call'[f] = call[f]
        BY <1>0, <4>1, <4>2
      <4>5. CallOK'
        BY <3>3, <4>4, CallOKStep
      <4> QED BY <4>3, <4>5
    <3>5. CASE ~(Info(e) = NoInfo \/ IsSpace(At(e)))
      <4>1. /\ pc' = pc
            /\ call' = [call EXCEPT ![e] = [call[e] EXCEPT !.at = Parent(At(e))]]
        BY <2>13, <3>5 DEF ReleaseStep
      <4>2. [call[e] EXCEPT !.at = Parent(At(e))] \in CallRecords
        BY <3>2 DEF CallRecords
      <4>3. /\ [call[e] EXCEPT !.at = Parent(At(e))].leaf = call[e].leaf
            /\ [call[e] EXCEPT !.at = Parent(At(e))].at = Parent(At(e))
        BY <3>2 DEF CallRecords
      <4>4. TypeOK'
        BY <1>0, <3>1, <3>3, <4>1, <4>2 DEF TypeOK
      <4>5. /\ pc'[e] \in {"release", "unwind"} /\ call'[e].leaf \in LockIds
            /\ call'[e].at \in LockIds
            /\ \A f \in EDUs \ {e} : pc'[f] = pc[f] /\ call'[f] = call[f]
        BY <1>0, <3>1, <3>2, <4>1, <4>3
      <4>6. CallOK'
        BY <3>3, <4>5, CallOKStep
      <4> QED BY <4>4, <4>6
    <3> QED BY <3>4, <3>5
  <2>14. CASE ReleaseAllStep(e)
    <3>1. PICK l \in todo[e] : removeFromRun(e, l) /\ todo' = [todo EXCEPT ![e] = @ \ {l}]
      BY <2>14 DEF ReleaseAllStep
    <3>2. pc' = pc /\ UNCHANGED <<waitCB, lockInfo, call, held>>
      BY <2>14 DEF ReleaseAllStep
    <3>3. l \in LockIds
      BY <1>0
    <3>4. TypeOK'
      BY <1>0, <3>1, <3>2, <3>3, RemoveFromRunType DEF TypeOK
    <3>5. CallOK'
      BY <3>2 DEF CallOK
    <3> QED BY <3>4, <3>5
  <2>15. CASE ReleaseAllDone(e)
    <3>1. TypeOK'
      BY <1>0, <2>15 DEF ReleaseAllDone, TypeOK, InfoLists, PCs
    <3>2. CallOK'
      BY <1>0, <2>15, CallOKStep DEF ReleaseAllDone, InfoLists
    <3> QED BY <3>1, <3>2
  <2> QED
    BY <2>1, <2>2, <2>3, <2>4, <2>5, <2>6, <2>7, <2>8, <2>9, <2>10, <2>11, <2>12,
       <2>13, <2>14, <2>15 DEF Caller, Acquire, Wait, Release
<1> QED BY <1>1, <1>2

(* Type correctness of the lock manager, with the shape of the calls in
   progress that it rests on. *)
THEOREM TypeCorrect == Spec => []TypeOK
<1>1. Init => TypeInv
  BY TypeInvInit
<1>2. TypeInv /\ [Next]_vars => TypeInv'
  BY TypeInvNext
<1>3. TypeInv => TypeOK
  BY DEF TypeInv
<1> QED BY <1>1, <1>2, <1>3, PTL DEF Spec

-----------------------------------------------------------------------------
(* Run lists. *)

(* RunListCompatible in the code's own terms. *)
RunListAgrees ==
  \A l \in LockIds : \A e, f \in Holders(l) :
    e # f => isLockCompatible(runList[l][e], runList[l][f])

GrantInv == TypeInv /\ RunListInLockList /\ RunListAgrees /\ ReleasedSoFar

(* No lock is granted initially. *)
LEMMA GrantInvInit == Init => GrantInv
<1> SUFFICES ASSUME Init PROVE GrantInv
  OBVIOUS
<1>1. \A l \in LockIds, e \in EDUs : runList[l][e] = NoType
  BY DEF Init
<1> QED BY <1>1, TypeInvInit DEF GrantInv, RunListInLockList, RunListAgrees, ReleasedSoFar, Holders

(* Who passes checkCompatible is compatible with every other holder.  When
   the walk stops early, at a holder y of the wanted type, the holders behind
   y are compatible with y, hence with the request. *)
LEMMA CheckedCompatible ==
  ASSUME GrantInv, NEW e \in EDUs, NEW t \in Types, NEW l \in LockIds,
         checkCompatible(e, t, l)
  PROVE \A f \in Holders(l) \ {e} : /\ isLockCompatible(runList[l][f], t)
                                    /\ isLockCompatible(t, runList[l][f])
<1> SUFFICES ASSUME NEW f \in Holders(l) \ {e}
             PROVE /\ isLockCompatible(runList[l][f], t)
                   /\ isLockCompatible(t, runList[l][f])
  OBVIOUS
<1>1. f \in EDUs /\ runList[l][f] \in Types
  BY DEF Holders, GrantInv, TypeInv, TypeOK
<1>2. CASE isLockCompatible(runList[l][f], t)
  BY <1>1, <1>2, CompatibleSymmetric
<1>3. CASE \E y \in Holders(l) : y < f /\ runList[l][y] = t
  <2>1. PICK y \in Holders(l) : y < f /\ runList[l][y] = t
    BY <1>3
  <2>2. y # f
    BY <1>1, <2>1, EDUAssumption DEF Holders
  <2>3. isLockCompatible(t, runList[l][f])
    BY <2>1, <2>2 DEF GrantInv, RunListAgrees
  <2> QED BY <1>1, <2>3, CompatibleSymmetric
<1> QED BY <1>2, <1>3 DEF checkCompatible

(* A grant after checkCompatible keeps the run lists free of conflicts. *)
LEMMA GrantKeepsCompatible ==
  ASSUME GrantInv, NEW e \in EDUs, NEW t \in Types, NEW l \in LockIds,
         checkCompatible(e, t, l),
         runList' = [runList EXCEPT ![l][e] = t]
  PROVE RunListAgrees'
<1>1. /\ runList'[l][e] = t
      /\ \A f \in EDUs \ {e} : runList'[l][f] = runList[l][f]
      /\ \A m \in LockIds \ {l}, f \in EDUs : runList'[m][f] = runList[m][f]
  BY DEF GrantInv, TypeInv, TypeOK
<1> SUFFICES ASSUME NEW m \in LockIds, NEW f \in EDUs, NEW g \in EDUs,
                    runList'[m][f] # NoType, runList'[m][g] # NoType, f # g
             PROVE isLockCompatible(runList'[m][f], runList'[m][g])
  BY DEF RunListAgrees, Holders
<1>2. CASE m # l \/ (f # e /\ g # e)
  BY <1>1, <1>2 DEF GrantInv, RunListAgrees, Holders
<1>3. CASE m = l /\ f = e
  <2>1. g \in Holders(l) \ {e} /\ runList'[m][g] = runList[l][g]
    BY <1>1, <1>3 DEF Holders
  <2> QED BY <1>1, <1>3, <2>1, CheckedCompatible
<1>4. CASE m = l /\ g = e
  <2>1. f \in Holders(l) \ {e} /\ runList'[m][f] = runList[l][f]
    BY <1>1, <1>4 DEF Holders
  <2> QED BY <1>1, <1>4, <2>1, CheckedCompatible
<1> QED BY <1>2, <1>3, <1>4

(* A run list that loses entries stays free of conflicts. *)
LEMMA ShrinkKeepsCompatible ==
  ASSUME RunListAgrees,
         \A l \in LockIds, e \in EDUs : runList'[l][e] \in {runList[l][e], NoType}
  PROVE RunListAgrees'
BY DEF RunListAgrees, Holders

(* Grants agree with the lock lists: a step that keeps the other entries and
   the entries of the other EDUs. *)
LEMMA AgreeStep ==
  ASSUME RunListInLockList, NEW e \in EDUs, NEW l \in LockIds,
         \A f \in EDUs, m \in LockIds :
           f # e \/ m # l =>
             /\ runList'[m][f] = runList[m][f]
             /\ lockInfo[f][m] # NoInfo => /\ lockInfo'[f][m] # NoInfo
                                           /\ lockInfo'[f][m].type = lockInfo[f][m].type,
         runList'[l][e] # NoType => /\ lockInfo'[e][l] # NoInfo
                                    /\ lockInfo'[e][l].type = runList'[l][e]
  PROVE RunListInLockList'
<1> SUFFICES ASSUME NEW f \in EDUs, NEW m \in LockIds, runList'[m][f] # NoType
             PROVE lockInfo'[f][m] # NoInfo /\ lockInfo'[f][m].type = runList'[m][f]
  BY DEF RunListInLockList
<1>1. CASE f = e /\ m = l
  BY <1>1
<1>2. CASE f # e \/ m # l
  BY <1>2 DEF RunListInLockList
<1> QED BY <1>1, <1>2

(* No step outside releaseAll brings an entry back to who is in it. *)
LEMMA ReleasedStep ==
  ASSUME ReleasedSoFar, NEW e \in EDUs, pc'[e] # "releaseAll",
         \A f \in EDUs \ {e} : /\ pc'[f] = pc[f] /\ todo'[f] = todo[f]
                               /\ \A l \in LockIds : runList'[l][f] = runList[l][f]
  PROVE ReleasedSoFar'
BY DEF ReleasedSoFar

(* Every step preserves the agreement and the compatibility of the run lists. *)
LEMMA GrantInvNext == GrantInv /\ [Next]_vars => GrantInv'
<1> SUFFICES ASSUME GrantInv, [Next]_vars
             PROVE RunListInLockList' /\ RunListAgrees' /\ ReleasedSoFar'
  BY TypeInvNext DEF GrantInv
<1>0. /\ TypeInv /\ RunListInLockList /\ RunListAgrees /\ ReleasedSoFar
      /\ pc \in [EDUs -> PCs] /\ todo \in [EDUs -> SUBSET LockIds]
      /\ lockInfo \in InfoLists
      /\ runList \in [LockIds -> [EDUs -> Types \cup {NoType}]]
  BY DEF GrantInv, TypeInv, TypeOK
<1>1. CASE UNCHANGED vars
  BY <1>0, <1>1 DEF vars, RunListInLockList, RunListAgrees, ReleasedSoFar, Holders
<1>2. CASE Next
  <2> SUFFICES ASSUME NEW e \in EDUs,
                      \/ Caller(e) \/ Acquire(e) \/ Wait(e) \/ Release(e)
                      \/ Timeout(e) \/ Interrupt(e)
               PROVE RunListInLockList' /\ RunListAgrees' /\ ReleasedSoFar'
    BY <1>2 DEF Next
  <2> USE DEF BusyPCs, WaitPCs
  (* The steps that touch neither a run list nor the types of a lock list. *)
  <2>1. ASSUME runList' = runList,
               \A f \in EDUs, l \in LockIds :
                 lockInfo[f][l] # NoInfo => /\ lockInfo'[f][l] # NoInfo
                                            /\ lockInfo'[f][l].type = lockInfo[f][l].type,
               pc'[e] # "releaseAll",
               \A f \in EDUs \ {e} : pc'[f] = pc[f] /\ todo'[f] = todo[f]
        PROVE RunListInLockList' /\ RunListAgrees' /\ ReleasedSoFar'
    <3>1. RunListInLockList'
      BY <1>0, <2>1 DEF RunListInLockList
    <3>2. RunListAgrees'
      BY <1>0, <2>1 DEF RunListAgrees, Holders
    <3>3. ReleasedSoFar'
      BY <1>0, <2>1 DEF ReleasedSoFar
    <3> QED BY <3>1, <3>2, <3>3
  (* The steps that grant a lock that was checked. *)
  <2>2. ASSUME NEW l \in LockIds, NEW t \in Types, checkCompatible(e, t, l),
               runList' = [runList EXCEPT ![l][e] = t],
               lockInfo'[e][l] # NoInfo, lockInfo'[e][l].type = t,
               \A f \in EDUs, m \in LockIds :
                 (f # e \/ m # l) /\ lockInfo[f][m] # NoInfo
                   => /\ lockInfo'[f][m] # NoInfo
                      /\ lockInfo'[f][m].type = lockInfo[f][m].type,
               pc'[e] # "releaseAll",
               \A f \in EDUs \ {e} : pc'[f] = pc[f] /\ todo'[f] = todo[f]
        PROVE RunListInLockList' /\ RunListAgrees' /\ ReleasedSoFar'
    <3>0. /\ runList'[l][e] = t
          /\ \A f \in EDUs, m \in LockIds :
               f # e \/ m # l => runList'[m][f] = runList[m][f]
      BY <1>0, <2>2
    <3>1. RunListInLockList'
      BY <1>0, <2>2, <3>0, AgreeStep
    <3>2. RunListAgrees'
      BY <2>2, GrantKeepsCompatible
    <3>3. ReleasedSoFar'
      BY <1>0, <2>2, <3>0, ReleasedStep
    <3> QED BY <3>1, <3>2, <3>3
  <2>3. CASE StartCall(e) \/ StartRelease(e) \/ DrainEvent(e)
    BY <1>0, <2>1, <2>3 DEF StartCall, StartRelease, DrainEvent
  <2>4. CASE StartReleaseAll(e)
    <3>1. /\ pc' = [pc EXCEPT ![e] = "releaseAll"]
          /\ todo' = [todo EXCEPT ![e] = {l \in LockIds : lockInfo[e][l] # NoInfo}]
          /\ runList' = runList /\ lockInfo' = lockInfo
      BY <2>4 DEF StartReleaseAll
    <3>2. \A l \in LockIds : l \notin todo'[e] => runList[l][e] = NoType
      BY <1>0, <3>1 DEF RunListInLockList
    <3>3. ReleasedSoFar'
      BY <1>0, <3>1, <3>2 DEF ReleasedSoFar
    <3> QED BY <1>0, <3>1, <3>3 DEF RunListInLockList, RunListAgrees, Holders
  <2>5. CASE AcquireMatch(e)
    <3>1. /\ pc[e] = "acquire" /\ Advance(e) /\ Info(e) # NoInfo
          /\ lockInfo' = [lockInfo EXCEPT ![e][At(e)].ref = @ + 1]
          /\ runList' = runList /\ todo' = todo
      BY <2>5 DEF AcquireMatch
    <3>2. At(e) \in LockIds /\ lockInfo[e][At(e)] \in LockInfo
      BY <1>0, <3>1, AcquireFacts DEF Info
    <3>3. /\ [lockInfo[e][At(e)] EXCEPT !.ref = @ + 1] \in LockInfo
          /\ [lockInfo[e][At(e)] EXCEPT !.ref = @ + 1].type = lockInfo[e][At(e)].type
      BY <3>2 DEF LockInfo
    <3>4. \A f \in EDUs, l \in LockIds :
            lockInfo[f][l] # NoInfo => /\ lockInfo'[f][l] # NoInfo
                                       /\ lockInfo'[f][l].type = lockInfo[f][l].type
      BY <1>0, <3>1, <3>2, <3>3, NoInfoAssumption DEF InfoLists
    <3>5. pc'[e] # "releaseAll" /\ \A f \in EDUs \ {e} : pc'[f] = pc[f]
      BY <1>0, <3>1, AdvanceType
    <3> QED BY <2>1, <3>1, <3>4, <3>5
  <2>6. CASE AcquireUpgrade(e)
    <3>0. pc[e] = "acquire" /\ Info(e) # NoInfo /\ todo' = todo
      BY <2>6 DEF AcquireUpgrade
    <3>1. At(e) \in LockIds /\ Want(e) \in Types
      BY <1>0, <3>0, AcquireFacts
    <3>2. CASE upgradeCheck(Info(e).type, Want(e)) /\ checkCompatible(e, Want(e), At(e))
      <4>1. /\ runList' = [runList EXCEPT ![At(e)][e] = Want(e)]
            /\ lockInfo' = UpgradedInfo(e) /\ Advance(e)
        BY <2>6, <3>2 DEF AcquireUpgrade
      <4>2. /\ lockInfo'[e][At(e)] # NoInfo /\ lockInfo'[e][At(e)].type = Want(e)
            /\ \A f \in EDUs, m \in LockIds :
                 (f # e \/ m # At(e)) /\ lockInfo[f][m] # NoInfo
                   => /\ lockInfo'[f][m] # NoInfo
                      /\ lockInfo'[f][m].type = lockInfo[f][m].type
        BY <1>0, <3>0, <4>1, UpgradedInfoType
      <4>3. pc'[e] # "releaseAll" /\ \A f \in EDUs \ {e} : pc'[f] = pc[f]
        BY <1>0, <3>0, <4>1, AdvanceType
      <4>4. checkCompatible(e, Want(e), At(e)) /\ \A f \in EDUs \ {e} : todo'[f] = todo[f]
        BY <3>0, <3>2
      <4> QED BY <2>2, <3>1, <4>1, <4>2, <4>3, <4>4
    <3>3. CASE ~(upgradeCheck(Info(e).type, Want(e)) /\ checkCompatible(e, Want(e), At(e)))
      <4>1. Fail(e) /\ UNCHANGED <<runList, lockInfo>>
        BY <2>6, <3>3 DEF AcquireUpgrade
      <4>2. pc'[e] # "releaseAll" /\ \A f \in EDUs \ {e} : pc'[f] = pc[f]
        BY <1>0, <3>0, <4>1, FailType
      <4> QED BY <2>1, <3>0, <4>1, <4>2
    <3> QED BY <3>2, <3>3
  <2>7. CASE AcquireNew(e)
    <3>1. /\ pc[e] = "acquire" /\ Advance(e) /\ lockInfo' = NewInfo(e)
          /\ checkCompatible(e, Want(e), At(e))
          /\ runList' = [runList EXCEPT ![At(e)][e] = Want(e)] /\ todo' = todo
      BY <2>7 DEF AcquireNew
    <3>2. At(e) \in LockIds /\ Want(e) \in Types
      BY <1>0, <3>1, AcquireFacts
    <3>3. /\ lockInfo'[e][At(e)] # NoInfo /\ lockInfo'[e][At(e)].type = Want(e)
          /\ \A f \in EDUs, m \in LockIds :
               (f # e \/ m # At(e)) /\ lockInfo[f][m] # NoInfo
                 => /\ lockInfo'[f][m] # NoInfo
                    /\ lockInfo'[f][m].type = lockInfo[f][m].type
      BY <1>0, <3>1, NewInfoType
    <3>4. pc'[e] # "releaseAll" /\ \A f \in EDUs \ {e} : pc'[f] = pc[f]
      BY <1>0, <3>1, AdvanceType
    <3> QED BY <2>2, <3>1, <3>2, <3>3, <3>4
  <2>8. CASE AcquireRefused(e)
    <3>1. /\ pc[e] = "acquire" /\ Fail(e) /\ UNCHANGED <<runList, lockInfo, todo>>
      BY <2>8 DEF AcquireRefused
    <3>2. pc'[e] # "releaseAll" /\ \A f \in EDUs \ {e} : pc'[f] = pc[f]
      BY <1>0, <3>1, FailType
    <3> QED BY <2>1, <3>1, <3>2
  <2>9. CASE AcquireAppend(e)
    <3>1. /\ pc[e] = "acquire" /\ pc' = [pc EXCEPT ![e] = "waiting"]
          /\ Info(e) = NoInfo /\ UNCHANGED <<runList, todo>>
      BY <2>9 DEF AcquireAppend
    <3>2. At(e) \in LockIds /\ lockInfo[e][At(e)] = NoInfo
      BY <1>0, <3>1, AcquireFacts DEF Info
    <3>3. lockInfo' = NewInfo(e) \/ lockInfo' = Relink(NewInfo(e), At(e), NULL, e)
      BY <2>9 DEF AcquireAppend
    <3>4. \A f \in EDUs, l \in LockIds :
            NewInfo(e)[f][l] # NoInfo => /\ lockInfo'[f][l] # NoInfo
                                         /\ lockInfo'[f][l].type = NewInfo(e)[f][l].type
      BY <1>0, <3>1, <3>2, <3>3, NewInfoType, RelinkType
    <3>5. \A f \in EDUs, l \in LockIds :
            lockInfo[f][l] # NoInfo => /\ lockInfo'[f][l] # NoInfo
                                       /\ lockInfo'[f][l].type = lockInfo[f][l].type
      BY <1>0, <3>1, <3>2, <3>4, NewInfoType
    <3>6. pc'[e] # "releaseAll" /\ \A f \in EDUs \ {e} : pc'[f] = pc[f]
      BY <1>0, <3>1
    <3> QED BY <2>1, <3>1, <3>5, <3>6
  <2>10. CASE WakeUp(e) \/ Timeout(e) \/ Interrupt(e) \/ WaitRetry(e)
    <3>1. /\ \E to \in WaitPCs : pc' = [pc EXCEPT ![e] = to]
          /\ UNCHANGED <<runList, lockInfo, todo>>
      BY <2>10 DEF WakeUp, Timeout, Interrupt, WaitRetry
    <3>2. pc'[e] # "releaseAll" /\ \A f \in EDUs \ {e} : pc'[f] = pc[f]
      BY <1>0, <3>1
    <3> QED BY <2>1, <3>1, <3>2
  <2>11. CASE GrantAfterWait(e)
    <3>1. /\ pc[e] = "woken" /\ removeFromWait(e, At(e))
          /\ checkCompatible(e, X, At(e))
          /\ runList' = [runList EXCEPT ![At(e)][e] = X]
          /\ pc' = [pc EXCEPT ![e] = "idle"] /\ UNCHANGED todo
      BY <2>11 DEF GrantAfterWait
    <3>2. /\ At(e) \in LockIds /\ X \in Types
          /\ lockInfo[e][At(e)] # NoInfo /\ lockInfo[e][At(e)].type = X
      BY <1>0, <3>1, AcquireFacts DEF TypeInv, CallOK, At, Types
    <3>3. \A f \in EDUs, l \in LockIds :
            lockInfo[f][l] # NoInfo => /\ lockInfo'[f][l] # NoInfo
                                       /\ lockInfo'[f][l].type = lockInfo[f][l].type
      BY <1>0, <3>1, DequeueType
    <3>4. pc'[e] # "releaseAll" /\ \A f \in EDUs \ {e} : pc'[f] = pc[f]
      BY <1>0, <3>1
    <3> QED BY <2>2, <3>1, <3>2, <3>3, <3>4
  <2>12. CASE GiveUp(e)
    <3>1. /\ pc[e] = "failed" /\ removeFromWait(e, At(e))
          /\ pc' = [pc EXCEPT ![e] = AfterError(call[e].kind)]
          /\ UNCHANGED <<runList, todo>>
      BY <2>12 DEF GiveUp
    <3>2. \A f \in EDUs, l \in LockIds :
            lockInfo[f][l] # NoInfo => /\ lockInfo'[f][l] # NoInfo
                                       /\ lockInfo'[f][l].type = lockInfo[f][l].type
      BY <1>0, <3>1, DequeueType
    <3>3. pc'[e] # "releaseAll" /\ \A f \in EDUs \ {e} : pc'[f] = pc[f]
      BY <1>0, <3>1 DEF AfterError
    <3> QED BY <2>1, <3>1, <3>2, <3>3
  <2>13. CASE ReleaseStep(e)
    <3>1. /\ pc[e] \in {"release", "unwind"} /\ UNCHANGED todo
          /\ pc' = pc \/ pc' = [pc EXCEPT ![e] = AfterRelease(e)]
      BY <2>13 DEF ReleaseStep
    <3>2. pc'[e] # "releaseAll" /\ \A f \in EDUs \ {e} : pc'[f] = pc[f]
      BY <1>0, <3>1 DEF AfterRelease, AfterError
    <3>3. At(e) \in LockIds /\ Info(e) \in LockInfo \cup {NoInfo} /\ Info(e) = lockInfo[e][At(e)]
      BY <1>0, <3>1, AcquireFacts DEF Info
    <3>4. CASE Info(e) = NoInfo
      <4>1. runList' = runList /\ lockInfo' = lockInfo
        BY <2>13, <3>4 DEF ReleaseStep
      <4> QED BY <2>1, <3>1, <3>2, <4>1
    <3>5. CASE Info(e) # NoInfo /\ Info(e).ref > 0
      <4>1. /\ lockInfo' = [lockInfo EXCEPT ![e][At(e)].ref = @ - 1]
            /\ runList' = runList
        BY <2>13, <3>5 DEF ReleaseStep
      <4>2. /\ [lockInfo[e][At(e)] EXCEPT !.ref = @ - 1] \in LockInfo
            /\ [lockInfo[e][At(e)] EXCEPT !.ref = @ - 1].type = lockInfo[e][At(e)].type
        BY <3>3, <3>5 DEF LockInfo
      <4>3. \A f \in EDUs, l \in LockIds :
              lockInfo[f][l] # NoInfo => /\ lockInfo'[f][l] # NoInfo
                                         /\ lockInfo'[f][l].type = lockInfo[f][l].type
        BY <1>0, <3>3, <4>1, <4>2, NoInfoAssumption DEF InfoLists
      <4> QED BY <2>1, <3>1, <3>2, <4>1, <4>3
    <3>6. CASE ~(Info(e) = NoInfo \/ Info(e).ref > 0)
      <4>1. /\ runList' = [runList EXCEPT ![At(e)][e] = NoType]
            /\ lockInfo' = [lockInfo EXCEPT ![e][At(e)] = NoInfo]
        BY <2>13, <3>6 DEF ReleaseStep, removeFromRun
      <4>2. /\ runList'[At(e)][e] = NoType
            /\ \A f \in EDUs, m \in LockIds :
                 f # e \/ m # At(e) => runList'[m][f] = runList[m][f]
        BY <1>0, <3>3, <4>1
      <4>3. \A f \in EDUs, m \in LockIds :
              f # e \/ m # At(e) => lockInfo'[f][m] = lockInfo[f][m]
        BY <1>0, <3>3, <4>1 DEF InfoLists
      <4>4. RunListInLockList'
        BY <1>0, <3>3, <4>2, <4>3, AgreeStep
      <4>5. RunListAgrees'
        BY <1>0, <4>2, ShrinkKeepsCompatible
      <4>6. ReleasedSoFar'
        BY <1>0, <3>1, <3>2, <4>2, ReleasedStep
      <4> QED BY <4>4, <4>5, <4>6
    <3> QED BY <3>4, <3>5, <3>6
  <2>14. CASE ReleaseAllStep(e)
    <3>1. PICK l \in todo[e] : removeFromRun(e, l) /\ todo' = [todo EXCEPT ![e] = @ \ {l}]
      BY <2>14 DEF ReleaseAllStep
    <3>2. pc' = pc /\ lockInfo' = lockInfo
      BY <2>14 DEF ReleaseAllStep
    <3>3. l \in LockIds
      BY <1>0
    <3>4. runList' = [runList EXCEPT ![l][e] = NoType]
      BY <3>1 DEF removeFromRun
    <3>5. /\ runList'[l][e] = NoType
          /\ \A f \in EDUs, m \in LockIds :
               f # e \/ m # l => runList'[m][f] = runList[m][f]
      BY <1>0, <3>3, <3>4
    <3>6. RunListInLockList'
      BY <1>0, <3>2, <3>3, <3>5, AgreeStep
    <3>7. RunListAgrees'
      BY <1>0, <3>5, ShrinkKeepsCompatible
    <3>8. ReleasedSoFar'
      BY <1>0, <3>1, <3>2, <3>5 DEF ReleasedSoFar
    <3> QED BY <3>6, <3>7, <3>8
  <2>15. CASE ReleaseAllDone(e)
    <3>1. /\ pc[e] = "releaseAll" /\ todo[e] = {} /\ UNCHANGED <<runList, todo>>
          /\ lockInfo' = [lockInfo EXCEPT ![e] = [l \in LockIds |-> NoInfo]]
          /\ pc' = [pc EXCEPT ![e] = "idle"]
      BY <2>15 DEF ReleaseAllDone
    <3>2. \A l \in LockIds : runList[l][e] = NoType
      BY <1>0, <3>1 DEF ReleasedSoFar
    <3>3. \A f \in EDUs \ {e} : lockInfo'[f] = lockInfo[f]
      BY <1>0, <3>1 DEF InfoLists
    <3>4. RunListInLockList'
      BY <1>0, <3>1, <3>2, <3>3 DEF RunListInLockList
    <3>5. RunListAgrees'
      BY <1>0, <3>1 DEF RunListAgrees, Holders
    <3>6. ReleasedSoFar'
      BY <1>0, <3>1 DEF ReleasedSoFar
    <3> QED BY <3>4, <3>5, <3>6
  <2> QED
    BY <2>3, <2>4, <2>5, <2>6, <2>7, <2>8, <2>9, <2>10, <2>11, <2>12,
       <2>13, <2>14, <2>15 DEF Caller, Acquire, Wait, Release
<1> QED BY <1>1, <1>2

(* Every grant is in its owner's lock list with the same type, so release and
   releaseAll find whatever dpsTransLockBucket granted. *)
THEOREM GrantsRecorded == Spec => []RunListInLockList
<1>1. GrantInv => RunListInLockList
  BY DEF GrantInv
<1> QED BY GrantInvInit, GrantInvNext, <1>1, PTL DEF Spec

(* No two EDUs ever have conflicting types in one run list of
   dpsTransLockUnit, whatever the numbers of EDUs and locks: the early exit of
   checkCompatible is sound. *)
THEOREM GrantsCompatible == Spec => []RunListCompatible
<1>1. GrantInv => RunListCompatible
  BY MatrixTable DEF GrantInv, RunListAgrees, RunListCompatible, TypeInv, TypeOK,
                     Holders
<1> QED BY GrantInvInit, GrantInvNext, <1>1, PTL DEF Spec


-----------------------------------------------------------------------------
(* Record locks: what a caller was told it has, it has.  This part assumes
   that no call is a "query": a scanner whose failed wait is not rolled back
   leaves an entry in the lock list that was never granted. *)

Count(e, l) == IF lockInfo[e][l] = NoInfo THEN 0 ELSE lockInfo[e][l].ref + 1

(* A request or a release of the record l that is neither in held nor out of
   the lock list. *)
Pending(e, l) == pc[e] \in WaitPCs \cup {"release"} /\ call[e].at = l

CallOnRecord(e) ==
  /\ pc[e] = "acquire" => /\ call[e].leaf \in TargetIds(call[e].kind)
                          /\ call[e].at \in RecordIds => call[e].at = call[e].leaf
  /\ pc[e] = "unwind" => call[e].at \notin RecordIds

GrantedList(e) ==
  \A l \in LockIds :
    lockInfo[e][l] # NoInfo
      => \/ runList[l][e] # NoType
         \/ pc[e] \in WaitPCs /\ call[e].at = l
         \/ pc[e] \in {"rollback", "releaseAll"}

CountedRecords(e) ==
  \A r \in RecordIds :
    pc[e] \notin {"rollback", "releaseAll"}
      => Count(e, r) = held[e][r] + (IF Pending(e, r) THEN 1 ELSE 0)

HeldRecords(e) ==
  \A r \in RecordIds : held[e][r] > 0 => /\ runList[r][e] = X
                                         /\ pc[e] # "releaseAll"

RecordPart(e) == /\ CallOnRecord(e) /\ GrantedList(e)
                 /\ CountedRecords(e) /\ HeldRecords(e)

RecordInv == GrantInv /\ \A e \in EDUs : RecordPart(e)

(* A step of another EDU as f sees it. *)
Untouched(f) ==
  /\ pc'[f] = pc[f] /\ call'[f] = call[f] /\ held'[f] = held[f]
  /\ \A l \in LockIds : /\ runList'[l][f] = runList[l][f]
                        /\ (lockInfo'[f][l] = NoInfo) <=> (lockInfo[f][l] = NoInfo)
                        /\ lockInfo[f][l] # NoInfo => lockInfo'[f][l].ref = lockInfo[f][l].ref

(* Containers are not records, and records are not spaces. *)
LEMMA RecordIdFacts ==
  /\ RecordIds \subseteq LockIds
  /\ \A l \in LockIds : Parent(l) \notin RecordIds /\ SpaceOf(l) \notin RecordIds
  /\ \A r \in RecordIds : ~IsSpace(r)
<1>1. RecordIds \subseteq LockIds
  BY DEF LockIds
<1>2. \A l, m : <<l, m, INVALID_RID>> \notin RecordIds
  BY RecordAssumption DEF RecordIds, INVALID_RID
<1>3. \A r \in RecordIds : ~IsSpace(r)
  <2> SUFFICES ASSUME NEW r \in RecordIds PROVE ~IsSpace(r)
    OBVIOUS
  <2>1. r[2] \in Collections
    BY DEF RecordIds
  <2>2. INVALID_MBID \in Int
    BY DEF INVALID_MBID
  <2>3. \A c \in Collections : c # INVALID_MBID
    BY <2>2, CollectionAssumption
  <2> QED BY <2>1, <2>3 DEF IsSpace
<1> QED BY <1>1, <1>2, <1>3 DEF Parent, SpaceOf

(* A step of another EDU keeps an EDU's part of the invariant. *)
LEMMA UntouchedPart ==
  ASSUME NEW f \in EDUs, RecordPart(f), Untouched(f)
  PROVE RecordPart(f)'
<1>1. CallOnRecord(f)'
  BY DEF RecordPart, Untouched, CallOnRecord
<1>2. GrantedList(f)'
  BY DEF RecordPart, Untouched, GrantedList
<1>3. CountedRecords(f)'
  BY RecordIdFacts DEF RecordPart, Untouched, CountedRecords, Count, Pending
<1>4. HeldRecords(f)'
  BY RecordIdFacts DEF RecordPart, Untouched, HeldRecords
<1> QED BY <1>1, <1>2, <1>3, <1>4 DEF RecordPart

(* Only X is ever asked for on a record, and only there as the leaf. *)
LEMMA RecordWant ==
  ASSUME TypeInv, NEW e \in EDUs, pc[e] = "acquire", CallOnRecord(e), At(e) \in RecordIds
  PROVE Want(e) = X
<1>1. call[e].leaf \in TargetIds(call[e].kind) /\ call[e].leaf \in RecordIds /\ At(e) = call[e].leaf
  BY DEF CallOnRecord, At
<1>2. call[e].kind # "share"
  <2> SUFFICES ASSUME call[e].kind = "share" PROVE FALSE
    OBVIOUS
  <2>1. call[e].leaf \in SpaceIds \cup CollectionIds
    BY <1>1 DEF TargetIds
  <2>2. call[e].leaf[3] = INVALID_RID
    BY <2>1 DEF SpaceIds, CollectionIds
  <2>3. call[e].leaf[3] \in Nat
    BY <1>1, RecordAssumption DEF RecordIds
  <2> QED BY <2>2, <2>3 DEF INVALID_RID
<1> QED BY <1>1, <1>2 DEF Want, WantType

(* The lock At(e) is now in e's lists, with one more reference. *)
LEMMA AdvancePart ==
  ASSUME RecordInv, NEW e \in EDUs, pc[e] = "acquire", Advance(e),
         runList'[At(e)][e] # NoType,
         At(e) \in RecordIds => runList'[At(e)][e] = X,
         lockInfo'[e][At(e)] # NoInfo,
         lockInfo'[e][At(e)].ref + 1 = Count(e, At(e)) + 1,
         \A l \in LockIds \ {At(e)} : /\ runList'[l][e] = runList[l][e]
                                      /\ lockInfo'[e][l] = lockInfo[e][l]
  PROVE RecordPart(e)'
<1>0. /\ TypeInv /\ CallOnRecord(e) /\ GrantedList(e) /\ CountedRecords(e) /\ HeldRecords(e)
      /\ At(e) \in LockIds /\ call[e].leaf \in LockIds /\ At(e) = call[e].at
  BY AcquireFacts DEF RecordInv, RecordPart, GrantInv, TypeInv, CallOK, BusyPCs, At
<1>1. /\ pc \in [EDUs -> PCs] /\ call \in [EDUs -> CallRecords]
      /\ held \in [EDUs -> [LockIds -> Nat]]
  BY <1>0 DEF TypeInv, TypeOK
<1>2. CASE At(e) = call[e].leaf
  <2>1. /\ pc'[e] = "idle" /\ held'[e][At(e)] = held[e][At(e)] + 1
        /\ \A l \in LockIds \ {At(e)} : held'[e][l] = held[e][l]
    BY <1>0, <1>1, <1>2 DEF Advance
  <2>2. CallOnRecord(e)'
    BY <2>1 DEF CallOnRecord
  <2>3. GrantedList(e)'
    BY <1>0, <2>1 DEF GrantedList, WaitPCs
  <2>4. CountedRecords(e)'
    <3> SUFFICES ASSUME NEW r \in RecordIds PROVE Count(e, r)' = held'[e][r] + 0
      BY <2>1 DEF CountedRecords, Pending, WaitPCs
    <3>1. Count(e, r) = held[e][r] /\ held[e][r] \in Nat
      BY <1>0, <1>1, RecordIdFacts DEF CountedRecords, Pending, WaitPCs
    <3>2. CASE r = At(e)
      BY <2>1, <3>1, <3>2 DEF Count
    <3>3. CASE r # At(e)
      BY <2>1, <3>1, <3>3, RecordIdFacts DEF Count
    <3> QED BY <3>2, <3>3
  <2>5. HeldRecords(e)'
    BY <1>0, <2>1, RecordIdFacts DEF HeldRecords
  <2> QED BY <2>2, <2>3, <2>4, <2>5 DEF RecordPart
<1>3. CASE At(e) # call[e].leaf
  <2>1. /\ pc' = pc /\ held' = held /\ At(e) \notin RecordIds
        /\ call' = [call EXCEPT ![e] = [call[e] EXCEPT !.at = ChildOf(e)]]
    BY <1>0, <1>3 DEF Advance, CallOnRecord
  <2>2. /\ call'[e].leaf = call[e].leaf /\ call'[e].kind = call[e].kind
        /\ call'[e].at = ChildOf(e)
    BY <1>1, <2>1 DEF CallRecords
  <2>3. ChildOf(e) \in RecordIds => ChildOf(e) = call[e].leaf
    BY <1>0, RecordIdFacts DEF ChildOf
  <2>4. CallOnRecord(e)'
    BY <1>0, <2>1, <2>2, <2>3 DEF CallOnRecord
  <2>5. GrantedList(e)'
    BY <1>0, <2>1 DEF GrantedList, WaitPCs
  <2>6. CountedRecords(e)'
    <3> SUFFICES ASSUME NEW r \in RecordIds PROVE Count(e, r)' = held'[e][r] + 0
      BY <2>1 DEF CountedRecords, Pending, WaitPCs
    <3>1. Count(e, r) = held[e][r] + 0
      BY <1>0, RecordIdFacts DEF CountedRecords, Pending, WaitPCs
    <3> QED BY <2>1, <3>1, RecordIdFacts DEF Count
  <2>7. HeldRecords(e)'
    BY <1>0, <2>1, RecordIdFacts DEF HeldRecords
  <2> QED BY <2>4, <2>5, <2>6, <2>7 DEF RecordPart
<1> QED BY <1>2, <1>3

(* A refused request leaves the lists as they are. *)
LEMMA FailPart ==
  ASSUME RecordInv, NEW e \in EDUs, pc[e] = "acquire", Fail(e),
         UNCHANGED <<runList, lockInfo>>
  PROVE RecordPart(e)'
<1>0. /\ TypeInv /\ CallOnRecord(e) /\ GrantedList(e) /\ CountedRecords(e) /\ HeldRecords(e)
      /\ At(e) \in LockIds /\ Parent(At(e)) \notin RecordIds
  BY AcquireFacts, RecordIdFacts DEF RecordInv, RecordPart, GrantInv, BusyPCs
<1>1. /\ pc \in [EDUs -> PCs] /\ call \in [EDUs -> CallRecords]
      /\ held \in [EDUs -> [LockIds -> Nat]]
  BY <1>0 DEF TypeInv, TypeOK
<1>2. /\ pc'[e] \in {"idle", "rollback", "unwind"} /\ held' = held
      /\ pc'[e] = "unwind" => call'[e].at \notin RecordIds
  <2>1. CASE IsSpace(At(e))
    BY <1>1, <2>1 DEF Fail, AfterError
  <2>2. CASE ~IsSpace(At(e))
    <3>1. call'[e] = [call[e] EXCEPT !.at = Parent(At(e))] /\ held' = held /\ pc'[e] = "unwind"
      BY <1>1, <2>2 DEF Fail
    <3>2. [call[e] EXCEPT !.at = Parent(At(e))].at = Parent(At(e))
      BY <1>1 DEF CallRecords
    <3> QED BY <1>0, <3>1, <3>2
  <2> QED BY <2>1, <2>2
<1>3. CallOnRecord(e)'
  BY <1>2 DEF CallOnRecord
<1>4. GrantedList(e)'
  BY <1>0, <1>2 DEF GrantedList, WaitPCs
<1>5. CountedRecords(e)'
  BY <1>0, <1>2 DEF CountedRecords, Pending, Count, WaitPCs
<1>6. HeldRecords(e)'
  BY <1>0, <1>2 DEF HeldRecords
<1> QED BY <1>3, <1>4, <1>5, <1>6 DEF RecordPart

(* No record is locked initially. *)
LEMMA RecordInvInit == Init => RecordInv
<1> SUFFICES ASSUME Init, NEW e \in EDUs PROVE RecordPart(e)
  BY GrantInvInit DEF RecordInv
<1>1. /\ pc[e] = "idle"
      /\ \A l \in LockIds : /\ lockInfo[e][l] = NoInfo /\ held[e][l] = 0
  BY DEF Init
<1> QED BY <1>1, RecordIdFacts
        DEF RecordPart, CallOnRecord, GrantedList, CountedRecords, HeldRecords,
            Count, Pending, WaitPCs


(* Only the EDU's own counters change when its request is granted. *)
LEMMA AdvanceHeld ==
  ASSUME TypeInv, NEW e \in EDUs, pc[e] = "acquire", Advance(e)
  PROVE \A f \in EDUs \ {e} : held'[f] = held[f]
BY AcquireFacts DEF TypeInv, TypeOK, BusyPCs, Advance

(* release gives back one reference of one lock; a record is given back for
   good only when no caller counts on it any more. *)
LEMMA ReleasePart ==
  ASSUME RecordInv, NEW e \in EDUs, ReleaseStep(e)
  PROVE RecordPart(e)' /\ \A f \in EDUs \ {e} : Untouched(f)
<1> USE DEF WaitPCs
<1>0. /\ TypeInv /\ CallOnRecord(e) /\ GrantedList(e) /\ CountedRecords(e) /\ HeldRecords(e)
      /\ pc[e] \in {"release", "unwind"} /\ held' = held
  BY DEF RecordInv, GrantInv, RecordPart, ReleaseStep
<1>1. /\ pc \in [EDUs -> PCs] /\ call \in [EDUs -> CallRecords]
      /\ held \in [EDUs -> [LockIds -> Nat]] /\ lockInfo \in InfoLists
      /\ runList \in [LockIds -> [EDUs -> Types \cup {NoType}]]
  BY <1>0 DEF TypeInv, TypeOK
<1>2. /\ At(e) \in LockIds /\ At(e) = call[e].at /\ Parent(At(e)) \notin RecordIds
      /\ Info(e) = lockInfo[e][At(e)] /\ Info(e) \in LockInfo \cup {NoInfo}
      /\ At(e) \in RecordIds => pc[e] = "release" /\ ~IsSpace(At(e))
  BY <1>0, AcquireFacts, RecordIdFacts DEF BusyPCs, At, Info, CallOnRecord
(* Afterwards the call is over or at a container. *)
<1>3. /\ pc'[e] \in {"idle", "rollback", "release", "unwind"}
      /\ pc'[e] \in {"release", "unwind"} => call'[e].at \notin RecordIds
      /\ \A f \in EDUs \ {e} : pc'[f] = pc[f] /\ call'[f] = call[f]
  <2>1. CASE Info(e) = NoInfo \/ IsSpace(At(e))
    <3>1. /\ pc' = [pc EXCEPT ![e] = AfterRelease(e)]
          /\ call' = [call EXCEPT ![e] = NoCall]
      BY <2>1 DEF ReleaseStep
    <3>2. AfterRelease(e) \in {"idle", "rollback"}
      BY DEF AfterRelease, AfterError
    <3> QED BY <1>1, <3>1, <3>2
  <2>2. CASE ~(Info(e) = NoInfo \/ IsSpace(At(e)))
    <3>1. /\ pc' = pc
          /\ call' = [call EXCEPT ![e] = [call[e] EXCEPT !.at = Parent(At(e))]]
      BY <2>2 DEF ReleaseStep
    <3>2. [call[e] EXCEPT !.at = Parent(At(e))].at = Parent(At(e))
      BY <1>1 DEF CallRecords
    <3> QED BY <1>0, <1>1, <1>2, <3>1, <3>2
  <2> QED BY <2>1, <2>2
(* The reference is given back. *)
<1>4. \A r \in RecordIds :
        /\ Count(e, r) = held[e][r] + (IF r = At(e) THEN 1 ELSE 0)
        /\ held[e][r] \in Nat
  BY <1>0, <1>1, <1>2, RecordIdFacts DEF CountedRecords, Pending
<1>5. /\ \A r \in RecordIds : r = At(e) => Count(e, r)' = Count(e, r) - 1
      /\ \A l \in LockIds \ {At(e)} : /\ lockInfo'[e][l] = lockInfo[e][l]
                                      /\ runList'[l][e] = runList[l][e]
      /\ \/ runList'[At(e)][e] = runList[At(e)][e] /\ (lockInfo'[e][At(e)] # NoInfo => lockInfo[e][At(e)] # NoInfo)
         \/ lockInfo'[e][At(e)] = NoInfo /\ (At(e) \in RecordIds => held[e][At(e)] = 0)
      /\ \A f \in EDUs \ {e} : /\ lockInfo'[f] = lockInfo[f]
                               /\ \A l \in LockIds : runList'[l][f] = runList[l][f]
  <2>1. CASE Info(e) = NoInfo
    <3>1. At(e) \notin RecordIds
      <4> SUFFICES ASSUME At(e) \in RecordIds PROVE FALSE
        OBVIOUS
      <4>1. Count(e, At(e)) = 0
        BY <1>2, <2>1 DEF Count
      <4>2. Count(e, At(e)) = held[e][At(e)] + 1 /\ held[e][At(e)] \in Nat
        BY <1>4
      <4> QED BY <4>1, <4>2
    <3>2. lockInfo' = lockInfo /\ runList' = runList
      BY <2>1 DEF ReleaseStep
    <3> QED BY <3>1, <3>2
  <2>2. CASE Info(e) # NoInfo /\ Info(e).ref > 0
    <3>1. /\ lockInfo' = [lockInfo EXCEPT ![e] = [lockInfo[e] EXCEPT ![At(e)] =
                            [lockInfo[e][At(e)] EXCEPT !.ref = @ - 1]]]
          /\ runList' = runList
      BY <2>2 DEF ReleaseStep
    <3>2. LET info == [lockInfo[e][At(e)] EXCEPT !.ref = @ - 1]
          IN /\ info \in LockInfo /\ info.ref = lockInfo[e][At(e)].ref - 1
             /\ lockInfo[e][At(e)].ref \in Int
      BY <1>2, <2>2 DEF LockInfo
    <3>3. /\ lockInfo'[e][At(e)] \in LockInfo
          /\ lockInfo'[e][At(e)].ref = lockInfo[e][At(e)].ref - 1
          /\ \A l \in LockIds \ {At(e)} : lockInfo'[e][l] = lockInfo[e][l]
          /\ \A f \in EDUs \ {e} : lockInfo'[f] = lockInfo[f]
      BY <1>1, <1>2, <3>1, <3>2 DEF InfoLists
    <3>4. \A r \in RecordIds : r = At(e) => Count(e, r)' = Count(e, r) - 1
      BY <1>2, <2>2, <3>2, <3>3, NoInfoAssumption DEF Count
    <3> QED BY <1>2, <2>2, <3>1, <3>3, <3>4
  <2>3. CASE ~(Info(e) = NoInfo \/ Info(e).ref > 0)
    <3>1. /\ runList' = [runList EXCEPT ![At(e)][e] = NoType]
          /\ lockInfo' = [lockInfo EXCEPT ![e][At(e)] = NoInfo]
      BY <2>3 DEF ReleaseStep, removeFromRun
    <3>2. lockInfo[e][At(e)].ref \in Int /\ lockInfo[e][At(e)].ref <= 0
      BY <1>2, <2>3 DEF LockInfo
    <3>3. At(e) \in RecordIds => Count(e, At(e)) = 1 /\ held[e][At(e)] = 0
      BY <1>2, <1>4, <2>3, <3>2 DEF Count
    <3>4. /\ lockInfo'[e][At(e)] = NoInfo
          /\ \A l \in LockIds \ {At(e)} : /\ lockInfo'[e][l] = lockInfo[e][l]
                                          /\ runList'[l][e] = runList[l][e]
          /\ \A f \in EDUs \ {e} : /\ lockInfo'[f] = lockInfo[f]
                                   /\ \A l \in LockIds : runList'[l][f] = runList[l][f]
      BY <1>1, <1>2, <3>1 DEF InfoLists
    <3>5. \A r \in RecordIds : r = At(e) => Count(e, r)' = 0
      BY <3>4 DEF Count
    <3>6. \A r \in RecordIds : r = At(e) => Count(e, r)' = Count(e, r) - 1
      BY <3>3, <3>5
    <3> QED BY <3>3, <3>4, <3>6
  <2> QED BY <2>1, <2>2, <2>3
<1>6. CallOnRecord(e)'
  BY <1>3 DEF CallOnRecord
<1>7. GrantedList(e)'
  BY <1>0, <1>2, <1>5 DEF GrantedList
<1>8. CountedRecords(e)'
  <2> SUFFICES ASSUME NEW r \in RecordIds PROVE Count(e, r)' = held[e][r] + 0
    BY <1>0, <1>3 DEF CountedRecords, Pending
  <2>1. CASE r = At(e)
    BY <1>4, <1>5, <2>1
  <2>2. CASE r # At(e)
    BY <1>4, <1>5, <2>2, RecordIdFacts DEF Count
  <2> QED BY <2>1, <2>2
<1>9. HeldRecords(e)'
  <2> SUFFICES ASSUME NEW r \in RecordIds, held[e][r] > 0 PROVE runList'[r][e] = X
    BY <1>0, <1>3 DEF HeldRecords
  <2>1. runList[r][e] = X
    BY <1>0 DEF HeldRecords
  <2>2. CASE r # At(e)
    BY <1>5, <2>1, <2>2, RecordIdFacts
  <2>3. CASE r = At(e)
    BY <1>4, <1>5, <2>1, <2>3
  <2> QED BY <2>2, <2>3
<1>10. \A f \in EDUs \ {e} : Untouched(f)
  BY <1>0, <1>3, <1>5 DEF Untouched
<1> QED BY <1>6, <1>7, <1>8, <1>9, <1>10 DEF RecordPart

(* What a granted level of a request changes: one more reference to At(e), of
   a type that answers the request and is no weaker than the one before. *)
Gains(e) ==
  /\ runList'[At(e)][e] \in Types /\ isLockMatch(runList'[At(e)][e], Want(e))
  /\ runList'[At(e)][e] \in {runList[At(e)][e], Want(e)}
  /\ \/ runList[At(e)][e] \in {NoType, IS, runList'[At(e)][e]}
     \/ runList'[At(e)][e] = X
  /\ lockInfo'[e][At(e)] # NoInfo
  /\ lockInfo'[e][At(e)].ref + 1 = Count(e, At(e)) + 1
  /\ \A f \in EDUs, l \in LockIds :
       f # e \/ l # At(e) => /\ runList'[l][f] = runList[l][f]
                            /\ lockInfo'[f][l] = lockInfo[f][l]

(* A level of a request that does not wait is granted or refused. *)
LEMMA GainsOrFails ==
  ASSUME RecordInv, NEW e \in EDUs,
         AcquireMatch(e) \/ AcquireUpgrade(e) \/ AcquireNew(e) \/ AcquireRefused(e)
  PROVE /\ pc[e] = "acquire"
        /\ \/ Advance(e) /\ Gains(e)
           \/ Fail(e) /\ UNCHANGED <<runList, lockInfo>>
<1>0. /\ GrantInv /\ TypeInv /\ RunListInLockList /\ GrantedList(e)
      /\ lockInfo \in InfoLists
      /\ runList \in [LockIds -> [EDUs -> Types \cup {NoType}]]
      /\ pc[e] = "acquire"
  BY DEF RecordInv, RecordPart, GrantInv, TypeInv, TypeOK, AcquireMatch, AcquireUpgrade,
         AcquireNew, AcquireRefused
<1>1. /\ At(e) \in LockIds /\ Want(e) \in Types /\ Info(e) = lockInfo[e][At(e)]
      /\ Info(e) \in LockInfo \cup {NoInfo}
  BY <1>0, AcquireFacts DEF BusyPCs, Info
<1>2. ASSUME Info(e) # NoInfo
      PROVE runList[At(e)][e] = Info(e).type /\ Info(e).type \in Types
  BY <1>0, <1>1, <1>2 DEF GrantedList, RunListInLockList, WaitPCs, LockInfo
<1>3. CASE AcquireMatch(e)
  <2>1. /\ Advance(e) /\ Info(e) # NoInfo /\ isLockMatch(Info(e).type, Want(e))
        /\ lockInfo' = [lockInfo EXCEPT ![e][At(e)].ref = @ + 1]
        /\ runList' = runList
    BY <1>3 DEF AcquireMatch
  <2>2. LET info == [lockInfo[e][At(e)] EXCEPT !.ref = @ + 1]
        IN info \in LockInfo /\ info.ref = lockInfo[e][At(e)].ref + 1
    BY <1>1, <2>1 DEF LockInfo
  <2>3. /\ lockInfo'[e][At(e)] # NoInfo
        /\ lockInfo'[e][At(e)].ref + 1 = Count(e, At(e)) + 1
        /\ \A f \in EDUs, l \in LockIds :
             f # e \/ l # At(e) => lockInfo'[f][l] = lockInfo[f][l]
    BY <1>0, <1>1, <2>1, <2>2, NoInfoAssumption DEF InfoLists, Count
  <2> QED BY <1>0, <1>1, <1>2, <2>1, <2>3 DEF Gains
<1>4. CASE AcquireUpgrade(e)
  <2>0. Info(e) # NoInfo
    BY <1>4 DEF AcquireUpgrade
  <2>1. CASE upgradeCheck(Info(e).type, Want(e)) /\ checkCompatible(e, Want(e), At(e))
    <3>1. /\ runList' = [runList EXCEPT ![At(e)][e] = Want(e)]
          /\ lockInfo' = UpgradedInfo(e) /\ Advance(e)
      BY <1>4, <2>1 DEF AcquireUpgrade
    <3>2. /\ lockInfo'[e][At(e)] # NoInfo
          /\ lockInfo'[e][At(e)].ref = lockInfo[e][At(e)].ref + 1
          /\ \A f \in EDUs, m \in LockIds :
               f # e \/ m # At(e) => lockInfo'[f][m] = lockInfo[f][m]
      BY <1>0, <2>0, <3>1, UpgradedInfoType
    <3>3. /\ runList'[At(e)][e] = Want(e)
          /\ \A f \in EDUs, m \in LockIds :
               f # e \/ m # At(e) => runList'[m][f] = runList[m][f]
      BY <1>0, <1>1, <3>1
    <3>4. Info(e).type = IS \/ Want(e) = X
      BY <1>1, <1>2, <2>0, <2>1 DEF upgradeCheck, Types, IS, IX, S, X
    <3>5. lockInfo'[e][At(e)].ref + 1 = Count(e, At(e)) + 1
      BY <1>1, <2>0, <3>2 DEF Count
    <3> QED BY <1>0, <1>1, <1>2, <2>0, <3>1, <3>2, <3>3, <3>4, <3>5 DEF Gains, isLockMatch
  <2>2. CASE ~(upgradeCheck(Info(e).type, Want(e)) /\ checkCompatible(e, Want(e), At(e)))
    BY <1>0, <1>4, <2>2 DEF AcquireUpgrade
  <2> QED BY <2>1, <2>2
<1>5. CASE AcquireNew(e)
  <2>1. /\ Advance(e) /\ lockInfo' = NewInfo(e) /\ Info(e) = NoInfo
        /\ runList' = [runList EXCEPT ![At(e)][e] = Want(e)]
    BY <1>5 DEF AcquireNew
  <2>2. /\ lockInfo'[e][At(e)] # NoInfo
        /\ lockInfo'[e][At(e)].ref + 1 = Count(e, At(e)) + 1
        /\ \A f \in EDUs, m \in LockIds :
             f # e \/ m # At(e) => lockInfo'[f][m] = lockInfo[f][m]
    BY <1>0, <1>1, <2>1, NewInfoType DEF Count
  <2>3. /\ runList'[At(e)][e] = Want(e)
        /\ \A f \in EDUs, m \in LockIds :
             f # e \/ m # At(e) => runList'[m][f] = runList[m][f]
    BY <1>0, <1>1, <2>1
  <2>4. runList[At(e)][e] = NoType
    BY <1>0, <1>1, <2>1 DEF RunListInLockList
  <2> QED BY <1>0, <1>1, <2>1, <2>2, <2>3, <2>4 DEF Gains, isLockMatch
<1>6. CASE AcquireRefused(e)
  BY <1>0, <1>6 DEF AcquireRefused
<1> QED BY <1>3, <1>4, <1>5, <1>6

(* Every step keeps the part of the EDU that takes it, and leaves the other
   EDUs alone. *)
LEMMA RecordStep ==
  ASSUME "query" \notin Calls, RecordInv, NEW e \in EDUs,
         \/ Caller(e) \/ Acquire(e) \/ Wait(e) \/ Release(e)
         \/ Timeout(e) \/ Interrupt(e)
  PROVE RecordPart(e)' /\ \A f \in EDUs \ {e} : Untouched(f)
<1>0. /\ GrantInv /\ TypeInv /\ RunListInLockList
      /\ \A f \in EDUs : RecordPart(f)
      /\ pc \in [EDUs -> PCs] /\ call \in [EDUs -> CallRecords]
      /\ held \in [EDUs -> [LockIds -> Nat]] /\ lockInfo \in InfoLists
      /\ runList \in [LockIds -> [EDUs -> Types \cup {NoType}]]
      /\ todo \in [EDUs -> SUBSET LockIds]
  BY DEF RecordInv, GrantInv, TypeInv, TypeOK
<1>a. CallOnRecord(e) /\ GrantedList(e) /\ CountedRecords(e) /\ HeldRecords(e)
  BY <1>0 DEF RecordPart
<1> USE DEF BusyPCs, WaitPCs
<1>1. CASE StartCall(e)
  <2>1. PICK kind \in Calls : \E l \in TargetIds(kind) :
          call' = [call EXCEPT ![e] = [kind |-> kind, leaf |-> l, at |-> SpaceOf(l)]]
    BY <1>1 DEF StartCall
  <2>2. PICK l \in TargetIds(kind) :
          call' = [call EXCEPT ![e] = [kind |-> kind, leaf |-> l, at |-> SpaceOf(l)]]
    BY <2>1
  <2>3. SpaceOf(l) \notin RecordIds
    BY TargetType, CallAssumption, RecordIdFacts
  <2>4. /\ pc[e] = "idle" /\ pc' = [pc EXCEPT ![e] = "acquire"]
        /\ UNCHANGED <<runList, lockInfo, held>>
    BY <1>1 DEF StartCall
  <2>5. /\ call'[e].kind = kind /\ call'[e].leaf = l /\ call'[e].at = SpaceOf(l)
        /\ pc'[e] = "acquire"
    BY <1>0, <2>2, <2>4
  <2>6. CallOnRecord(e)'
    BY <2>3, <2>5 DEF CallOnRecord
  <2>7. GrantedList(e)' /\ CountedRecords(e)' /\ HeldRecords(e)'
    BY <1>a, <2>4, <2>5 DEF GrantedList, CountedRecords, HeldRecords, Count, Pending
  <2>8. \A f \in EDUs \ {e} : Untouched(f)
    BY <1>0, <2>2, <2>4 DEF Untouched
  <2> QED BY <2>6, <2>7, <2>8 DEF RecordPart
<1>2. CASE StartRelease(e)
  <2>1. PICK l \in LockIds :
          /\ held[e][l] > 0
          /\ held' = [held EXCEPT ![e][l] = @ - 1]
          /\ call' = [call EXCEPT ![e] = [kind |-> "none", leaf |-> l, at |-> l]]
    BY <1>2 DEF StartRelease
  <2>2. /\ pc[e] = "idle" /\ pc' = [pc EXCEPT ![e] = "release"]
        /\ UNCHANGED <<runList, lockInfo>>
    BY <1>2 DEF StartRelease
  <2>3. /\ pc'[e] = "release" /\ call'[e].at = l
        /\ held'[e][l] = held[e][l] - 1
        /\ \A m \in LockIds \ {l} : held'[e][m] = held[e][m]
    BY <1>0, <2>1, <2>2
  <2>4. CallOnRecord(e)' /\ GrantedList(e)'
    BY <1>a, <2>2, <2>3 DEF CallOnRecord, GrantedList
  <2>5. CountedRecords(e)'
    <3> SUFFICES ASSUME NEW r \in RecordIds
                 PROVE Count(e, r) = held'[e][r] + (IF l = r THEN 1 ELSE 0)
      BY <2>2, <2>3 DEF CountedRecords, Count, Pending
    <3>1. Count(e, r) = held[e][r] + 0 /\ held[e][r] \in Nat
      BY <1>0, <1>a, <2>2, RecordIdFacts DEF CountedRecords, Pending
    <3> QED BY <2>3, <3>1, RecordIdFacts
  <2>6. HeldRecords(e)'
    <3> SUFFICES ASSUME NEW r \in RecordIds, held'[e][r] > 0 PROVE runList[r][e] = X
      BY <2>2, <2>3 DEF HeldRecords
    <3>1. held[e][r] > 0
      BY <2>1, <2>3, RecordIdFacts
    <3> QED BY <1>a, <3>1 DEF HeldRecords
  <2>7. \A f \in EDUs \ {e} : Untouched(f)
    BY <1>0, <2>1, <2>2 DEF Untouched
  <2> QED BY <2>4, <2>5, <2>6, <2>7 DEF RecordPart
<1>3. CASE StartReleaseAll(e)
  <2>1. /\ pc' = [pc EXCEPT ![e] = "releaseAll"]
        /\ held' = [held EXCEPT ![e] = [l \in LockIds |-> 0]]
        /\ UNCHANGED <<runList, lockInfo, call>>
    BY <1>3 DEF StartReleaseAll
  <2>2. pc'[e] = "releaseAll" /\ \A l \in LockIds : held'[e][l] = 0
    BY <1>0, <2>1
  <2>3. RecordPart(e)'
    BY <2>2, RecordIdFacts
       DEF RecordPart, CallOnRecord, GrantedList, CountedRecords, HeldRecords
  <2>4. \A f \in EDUs \ {e} : Untouched(f)
    BY <1>0, <2>1 DEF Untouched
  <2> QED BY <2>3, <2>4
<1>4. CASE DrainEvent(e)
  <2>1. \A f \in EDUs : Untouched(f)
    BY <1>4 DEF DrainEvent, Untouched
  <2> QED BY <1>0, <2>1, UntouchedPart
<1>5. CASE AcquireMatch(e) \/ AcquireUpgrade(e) \/ AcquireNew(e) \/ AcquireRefused(e)
  <2>0. pc[e] = "acquire" /\ At(e) \in LockIds
    BY <1>0, <1>5, GainsOrFails, AcquireFacts
  <2>1. CASE Advance(e) /\ Gains(e)
    <3>1. At(e) \in RecordIds => Want(e) = X
      BY <1>0, <1>a, <2>0, RecordWant
    <3>2. At(e) \in RecordIds => runList'[At(e)][e] = X
      BY <2>1, <3>1 DEF Gains, isLockMatch, IS, X
    <3>3. runList'[At(e)][e] # NoType
      BY <2>1 DEF Gains, Types, IS, IX, S, X, NoType
    <3>4. RecordPart(e)'
      BY <2>0, <2>1, <3>2, <3>3, AdvancePart DEF Gains
    <3>5. \A f \in EDUs \ {e} : Untouched(f)
      BY <1>0, <2>0, <2>1, AdvanceType, AdvanceHeld DEF Untouched, Gains
    <3> QED BY <3>4, <3>5
  <2>2. CASE Fail(e) /\ UNCHANGED <<runList, lockInfo>>
    <3>1. RecordPart(e)'
      BY <2>0, <2>2, FailPart
    <3>2. \A f \in EDUs \ {e} : Untouched(f)
      BY <1>0, <2>0, <2>2, FailType DEF Untouched
    <3> QED BY <3>1, <3>2
  <2> QED BY <1>5, <2>1, <2>2, GainsOrFails
<1>6. CASE AcquireAppend(e)
  <2>1. /\ pc[e] = "acquire" /\ pc' = [pc EXCEPT ![e] = "waiting"]
        /\ Info(e) = NoInfo /\ UNCHANGED <<runList, call, held>>
    BY <1>6 DEF AcquireAppend
  <2>2. /\ At(e) \in LockIds /\ lockInfo[e][At(e)] = NoInfo /\ call[e].at = At(e)
    BY <1>0, <2>1, AcquireFacts DEF Info, At
  <2>3. lockInfo' = NewInfo(e) \/ lockInfo' = Relink(NewInfo(e), At(e), NULL, e)
    BY <1>6 DEF AcquireAppend
  <2>4. \A f \in EDUs, l \in LockIds :
          /\ (lockInfo'[f][l] = NoInfo) <=> (NewInfo(e)[f][l] = NoInfo)
          /\ NewInfo(e)[f][l] # NoInfo => lockInfo'[f][l].ref = NewInfo(e)[f][l].ref
    BY <1>0, <2>1, <2>2, <2>3, NewInfoType, RelinkType
  <2>a. /\ NewInfo(e)[e][At(e)] # NoInfo /\ NewInfo(e)[e][At(e)].ref = 0
        /\ \A f \in EDUs, l \in LockIds :
             f # e \/ l # At(e) => NewInfo(e)[f][l] = lockInfo[f][l]
    BY <1>0, <2>1, NewInfoType
  <2>5. /\ lockInfo'[e][At(e)] # NoInfo /\ lockInfo'[e][At(e)].ref = 0
        /\ \A f \in EDUs, l \in LockIds :
             f # e \/ l # At(e)
               => /\ (lockInfo'[f][l] = NoInfo) <=> (lockInfo[f][l] = NoInfo)
                  /\ lockInfo[f][l] # NoInfo => lockInfo'[f][l].ref = lockInfo[f][l].ref
    BY <2>2, <2>4, <2>a
  <2>6. pc'[e] = "waiting" /\ call'[e].at = At(e)
    BY <1>0, <2>1, <2>2
  <2>7. CallOnRecord(e)' /\ HeldRecords(e)'
    BY <1>a, <2>1, <2>6 DEF CallOnRecord, HeldRecords
  <2>8. GrantedList(e)'
    BY <1>a, <2>1, <2>5, <2>6 DEF GrantedList
  <2>9. CountedRecords(e)'
    <3> SUFFICES ASSUME NEW r \in RecordIds
                 PROVE Count(e, r)' = held[e][r] + (IF At(e) = r THEN 1 ELSE 0)
      BY <2>1, <2>6 DEF CountedRecords, Pending
    <3>1. Count(e, r) = held[e][r] + 0 /\ held[e][r] \in Nat
      BY <1>0, <1>a, <2>1, RecordIdFacts DEF CountedRecords, Pending
    <3>2. CASE r = At(e)
      BY <2>2, <2>5, <3>1, <3>2 DEF Count
    <3>3. CASE r # At(e)
      BY <2>5, <3>1, <3>3, RecordIdFacts DEF Count
    <3> QED BY <3>2, <3>3
  <2>10. \A f \in EDUs \ {e} : Untouched(f)
    BY <1>0, <2>1, <2>5 DEF Untouched
  <2> QED BY <2>7, <2>8, <2>9, <2>10 DEF RecordPart
<1>7. CASE WakeUp(e) \/ Timeout(e) \/ Interrupt(e) \/ WaitRetry(e)
  <2>1. /\ pc[e] \in WaitPCs /\ \E to \in WaitPCs : pc' = [pc EXCEPT ![e] = to]
        /\ UNCHANGED <<runList, lockInfo, call, held>>
    BY <1>7 DEF WakeUp, Timeout, Interrupt, WaitRetry
  <2>2. pc'[e] \in WaitPCs /\ \A f \in EDUs \ {e} : pc'[f] = pc[f]
    BY <1>0, <2>1
  <2>3. CallOnRecord(e)' /\ GrantedList(e)' /\ CountedRecords(e)' /\ HeldRecords(e)'
    BY <1>a, <2>1, <2>2
       DEF CallOnRecord, GrantedList, CountedRecords, HeldRecords, Count, Pending
  <2>4. \A f \in EDUs \ {e} : Untouched(f)
    BY <2>1, <2>2 DEF Untouched
  <2> QED BY <2>3, <2>4 DEF RecordPart
<1>8. CASE GrantAfterWait(e)
  <2>1. /\ pc[e] = "woken" /\ removeFromWait(e, At(e))
        /\ runList' = [runList EXCEPT ![At(e)][e] = X]
        /\ pc' = [pc EXCEPT ![e] = "idle"] /\ call' = [call EXCEPT ![e] = NoCall]
        /\ held' = [held EXCEPT ![e][At(e)] = @ + 1]
    BY <1>8 DEF GrantAfterWait
  <2>2. At(e) \in LockIds /\ At(e) = call[e].at
    BY <1>0, <2>1, AcquireFacts DEF At
  <2>3. \A f \in EDUs, l \in LockIds :
          /\ (lockInfo'[f][l] = NoInfo) <=> (lockInfo[f][l] = NoInfo)
          /\ lockInfo[f][l] # NoInfo => lockInfo'[f][l].ref = lockInfo[f][l].ref
    BY <1>0, <2>1, DequeueType
  <2>4. /\ runList'[At(e)][e] = X
        /\ \A f \in EDUs, m \in LockIds :
             f # e \/ m # At(e) => runList'[m][f] = runList[m][f]
    BY <1>0, <2>1, <2>2
  <2>5. /\ pc'[e] = "idle" /\ held'[e][At(e)] = held[e][At(e)] + 1
        /\ \A m \in LockIds \ {At(e)} : held'[e][m] = held[e][m]
    BY <1>0, <2>1, <2>2
  <2>6. CallOnRecord(e)'
    BY <2>5 DEF CallOnRecord
  <2>7. GrantedList(e)'
    BY <1>a, <2>1, <2>2, <2>3, <2>4 DEF GrantedList, X, NoType
  <2>8. CountedRecords(e)'
    <3> SUFFICES ASSUME NEW r \in RecordIds PROVE Count(e, r)' = held'[e][r] + 0
      BY <2>5 DEF CountedRecords, Pending
    <3>1. /\ Count(e, r) = held[e][r] + (IF At(e) = r THEN 1 ELSE 0)
          /\ held[e][r] \in Nat
      BY <1>0, <1>a, <2>1, <2>2, RecordIdFacts DEF CountedRecords, Pending
    <3>2. Count(e, r)' = Count(e, r)
      BY <2>3, RecordIdFacts DEF Count
    <3> QED BY <2>5, <3>1, <3>2, RecordIdFacts
  <2>9. HeldRecords(e)'
    BY <1>a, <2>4, <2>5, RecordIdFacts DEF HeldRecords
  <2>10. \A f \in EDUs \ {e} : Untouched(f)
    BY <1>0, <2>1, <2>3, <2>4 DEF Untouched
  <2> QED BY <2>6, <2>7, <2>8, <2>9, <2>10 DEF RecordPart
<1>9. CASE GiveUp(e)
  <2>1. /\ pc[e] = "failed" /\ removeFromWait(e, At(e))
        /\ pc' = [pc EXCEPT ![e] = AfterError(call[e].kind)]
        /\ call' = [call EXCEPT ![e] = NoCall]
        /\ UNCHANGED <<runList, held>>
    BY <1>9 DEF GiveUp
  <2>2. AfterError(call[e].kind) = "rollback"
    BY <1>0, <2>1 DEF TypeInv, CallOK, AfterError
  <2>3. \A f \in EDUs, l \in LockIds :
          /\ (lockInfo'[f][l] = NoInfo) <=> (lockInfo[f][l] = NoInfo)
          /\ lockInfo[f][l] # NoInfo => lockInfo'[f][l].ref = lockInfo[f][l].ref
    BY <1>0, <2>1, DequeueType
  <2>4. pc'[e] = "rollback"
    BY <1>0, <2>1, <2>2
  <2>5. CallOnRecord(e)' /\ GrantedList(e)' /\ CountedRecords(e)' /\ HeldRecords(e)'
    BY <1>a, <2>1, <2>4 DEF CallOnRecord, GrantedList, CountedRecords, HeldRecords
  <2>6. \A f \in EDUs \ {e} : Untouched(f)
    BY <1>0, <2>1, <2>3 DEF Untouched
  <2> QED BY <2>5, <2>6 DEF RecordPart
<1>10. CASE ReleaseStep(e)
  BY <1>0, <1>10, ReleasePart
<1>11. CASE ReleaseAllStep(e)
  <2>1. PICK l \in todo[e] : removeFromRun(e, l)
    BY <1>11 DEF ReleaseAllStep
  <2>2. /\ pc[e] = "releaseAll" /\ UNCHANGED <<pc, call, lockInfo, held>>
    BY <1>11 DEF ReleaseAllStep
  <2>3. \A f \in EDUs \ {e}, m \in LockIds : runList'[m][f] = runList[m][f]
    BY <1>0, <2>1 DEF removeFromRun
  <2>4. CallOnRecord(e)' /\ GrantedList(e)' /\ CountedRecords(e)' /\ HeldRecords(e)'
    BY <1>a, <2>2 DEF CallOnRecord, GrantedList, CountedRecords, HeldRecords
  <2>5. \A f \in EDUs \ {e} : Untouched(f)
    BY <2>2, <2>3 DEF Untouched
  <2> QED BY <2>4, <2>5 DEF RecordPart
<1>12. CASE ReleaseAllDone(e)
  <2>1. /\ pc[e] = "releaseAll" /\ UNCHANGED <<runList, call, held>>
        /\ lockInfo' = [lockInfo EXCEPT ![e] = [l \in LockIds |-> NoInfo]]
        /\ pc' = [pc EXCEPT ![e] = "idle"]
    BY <1>12 DEF ReleaseAllDone
  <2>2. /\ pc'[e] = "idle" /\ \A l \in LockIds : lockInfo'[e][l] = NoInfo
        /\ \A f \in EDUs \ {e} : lockInfo'[f] = lockInfo[f] /\ pc'[f] = pc[f]
    BY <1>0, <2>1 DEF InfoLists
  <2>3. \A r \in RecordIds : held[e][r] = 0
    BY <1>0, <1>a, <2>1, RecordIdFacts DEF HeldRecords
  <2>4. CallOnRecord(e)' /\ GrantedList(e)' /\ CountedRecords(e)' /\ HeldRecords(e)'
    BY <2>1, <2>2, <2>3, RecordIdFacts
       DEF CallOnRecord, GrantedList, CountedRecords, HeldRecords, Count, Pending
  <2>5. \A f \in EDUs \ {e} : Untouched(f)
    BY <2>1, <2>2 DEF Untouched
  <2> QED BY <2>4, <2>5 DEF RecordPart
<1> QED
  BY <1>1, <1>2, <1>3, <1>4, <1>5, <1>6, <1>7, <1>8, <1>9, <1>10, <1>11, <1>12
     DEF Caller, Acquire, Wait, Release

(* Every step preserves the invariant about record locks. *)
LEMMA RecordInvNext ==
  ASSUME "query" \notin Calls
  PROVE RecordInv /\ [Next]_vars => RecordInv'
<1> SUFFICES ASSUME RecordInv, [Next]_vars, NEW g \in EDUs PROVE RecordPart(g)'
  BY GrantInvNext DEF RecordInv
<1>1. CASE UNCHANGED vars
  <2>1. Untouched(g)
    BY <1>1 DEF vars, Untouched
  <2> QED BY <2>1, UntouchedPart DEF RecordInv
<1>2. CASE Next
  <2>1. PICK e \in EDUs : \/ Caller(e) \/ Acquire(e) \/ Wait(e) \/ Release(e)
                          \/ Timeout(e) \/ Interrupt(e)
    BY <1>2 DEF Next
  <2> QED BY <2>1, RecordStep, UntouchedPart DEF RecordInv
<1> QED BY <1>1, <1>2

(* An EDU's lock list names no lock that was not granted, outside a wait and
   the rollback of a failed write; without find-and-modify scanners. *)
THEOREM ListsGranted ==
  ASSUME "query" \notin Calls
  PROVE Spec => []LockListGranted
<1>1. RecordInv => LockListGranted
  BY DEF RecordInv, RecordPart, GrantedList, LockListGranted, InWait, WaitPCs, At
<1> QED BY RecordInvInit, RecordInvNext, <1>1, PTL DEF Spec

(* Two EDUs that tryOrAppendX, waitLock or tryX told they have the X lock of
   one record never have it at the same time; without find-and-modify
   scanners. *)
THEOREM RecordsExclusive ==
  ASSUME "query" \notin Calls
  PROVE Spec => []RecordExclusion
<1>1. RecordInv => RecordExclusion
  <2> SUFFICES ASSUME RecordInv, NEW r \in RecordIds, NEW e \in EDUs, NEW f \in EDUs,
                      held[e][r] > 0, held[f][r] > 0, e # f
               PROVE FALSE
    BY DEF RecordExclusion
  <2>1. runList[r][e] = X /\ runList[r][f] = X /\ r \in LockIds
    BY RecordIdFacts DEF RecordInv, RecordPart, HeldRecords
  <2>2. isLockCompatible(X, X)
    BY <2>1 DEF RecordInv, GrantInv, RunListAgrees, Holders, X, NoType
  <2> QED BY <2>2 DEF isLockCompatible, X
<1> QED BY RecordInvInit, RecordInvNext, <1>1, PTL DEF Spec
=============================================================================
