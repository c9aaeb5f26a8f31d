----------------------------- MODULE TransLock -----------------------------
(***************************************************************************)
(* The transaction lock manager of a SequoiaDB data node: dpsTransLock     *)
(* (dps/dpsTransLock.cpp), its buckets of lock units                       *)
(* (dps/dpsTransLockBucket.cpp), the lock list every EDU (worker thread)   *)
(* keeps of its own locks (pmd/pmdEDU.cpp), and the callers in dms/ and    *)
(* rtn/ that take and give back locks.                                     *)
(*                                                                         *)
(* A lock is named by (collection space, collection, record); the last two *)
(* may be invalid, which names the collection or the space itself.  Every  *)
(* request for a lock first takes an intention lock on the container, one  *)
(* bucket-mutex section per level, so other EDUs run between the levels.   *)
(* Only record locks have waiters: they form a linked list that starts in  *)
(* the lock unit and goes through the lock lists of the waiting EDUs.      *)
(***************************************************************************)
EXTENDS Integers, FiniteSets

CONSTANTS
  EDUs,         \* thread ids; a run list is a std::map ordered by thread id
  Spaces,       \* _logicCSID
  Collections,  \* _collectionID
  Records,      \* _recordExtentID and _recordOffset, as one number
  NULL,         \* the null EDU pointer
  NoInfo,       \* no entry in an EDU's lock list
  Calls,        \* the calls of this instance, a subset of CallKinds
  MaxHeld,      \* bound: outstanding acquisitions of one EDU
  MaxEvents     \* bound: wake-ups kept in one event queue

INVALID_MBID == 65535
INVALID_RID == -1

(* scan: update or delete scanner; query: the scanner of a find-and-modify (or
   of a write that fails on a node which is no longer primary); insert;
   ddlCL: drop or truncate of a collection; ddlCS: drop of a space;
   share: rtnTransTryLockCL, rtnTransTryLockCS (exported, not called). *)
CallKinds == {"scan", "query", "insert", "ddlCL", "ddlCS", "share"}

ASSUME EDUAssumption == EDUs \subseteq Nat /\ IsFiniteSet(EDUs)
ASSUME NullAssumption == NULL \notin EDUs
ASSUME SpaceAssumption == Spaces \subseteq Nat
ASSUME CollectionAssumption == Collections \subseteq 0 .. (INVALID_MBID - 1)
ASSUME RecordAssumption == Records \subseteq Nat
ASSUME CallAssumption == Calls \subseteq CallKinds
ASSUME BoundAssumption == MaxHeld \in Nat /\ MaxEvents \in Nat \ {0}

-----------------------------------------------------------------------------
(* Lock identifiers: dpsTransLockId. *)

SpaceIds == Spaces \X {INVALID_MBID} \X {INVALID_RID}
CollectionIds == Spaces \X Collections \X {INVALID_RID}
RecordIds == Spaces \X Collections \X Records
LockIds == SpaceIds \cup CollectionIds \cup RecordIds

IsRecord(l) == l[3] # INVALID_RID
IsSpace(l) == l[2] = INVALID_MBID

(* The container whose intention lock is taken first. *)
Parent(l) == IF IsRecord(l) THEN <<l[1], l[2], INVALID_RID>>
             ELSE <<l[1], INVALID_MBID, INVALID_RID>>

SpaceOf(l) == <<l[1], INVALID_MBID, INVALID_RID>>
CollectionOf(l) == <<l[1], l[2], INVALID_RID>>

(* The locks a request for l passes through, l included. *)
Path(l) == {SpaceOf(l), l} \cup (IF IsSpace(l) THEN {} ELSE {Parent(l)})

(* dpsTransLockId::operator<, the order of an EDU's lock list: a collection
   comes before its records, and the space after everything in it. *)
Less(l, m) == \/ l[1] < m[1]
              \/ l[1] = m[1] /\ l[2] < m[2]
              \/ l[1] = m[1] /\ l[2] = m[2] /\ l[3] < m[3]

-----------------------------------------------------------------------------
(* Lock types: enum DPS_TRANSLOCK_TYPE. *)

IS == 0
IX == 1
S == 2
X == 3
Types == {IS, IX, S, X}
NoType == -1            \* the EDU is not in the run list

(* mutant: only X conflicts *)
onlyXConflicts(a, b) == a # X /\ b # X

(* first | second is X exactly when both bits are set between them. *)
isLockCompatible(a, b) == ~ ( /\ a % 2 = 1 \/ b % 2 = 1
                              /\ a \div 2 = 1 \/ b \div 2 = 1 )

(* mutant: a numerically greater type answers *)
isLockAtLeast(have, want) == have >= want

(* A lock of type have answers a request for type want. *)
isLockMatch(have, want) == have = want \/ want = IS \/ have = X

upgradeCheck(src, dst) == \/ dst - src = 1 /\ src # IX
                          \/ dst - src = 2 /\ dst # X

LockInfo == [type : Types, ref : Nat, next : EDUs \cup {NULL}]

ASSUME NoInfoAssumption == NoInfo \notin LockInfo

(* The type asked for at lock l on the way to leaf. *)
WantType(kind, leaf, l) ==
  LET exclusive == kind # "share"
  IN CASE l = leaf -> IF exclusive THEN X ELSE S
       [] l # leaf /\ l = Parent(leaf) -> IF exclusive THEN IX ELSE IS
       [] OTHER -> IS

-----------------------------------------------------------------------------
VARIABLES
  runList,   \* runList[l][e]: type e holds l with, dpsTransLockUnit::_runList
  waitCB,    \* waitCB[l]: first waiter, dpsTransLockUnit::_pWaitCB
  lockInfo,  \* lockInfo[e][l]: e's lock list, _pmdEDUCB::_transLockLst
  events,    \* events[e]: LOCKWAKEUP events in e's event queue
  pc,        \* pc[e]: where e is in a call
  call,      \* call[e]: the call, its leaf lock and the lock it is at
  todo,      \* todo[e]: locks releaseAll has still to visit
  held       \* held[e][l]: acquisitions of l that returned OK to the caller

vars == <<runList, waitCB, lockInfo, events, pc, call, todo, held>>

PCs == {"idle", "acquire", "waiting", "woken", "failed", "unwind",
        "release", "rollback", "releaseAll"}

CallRecords == [kind : CallKinds \cup {"none"},
                leaf : LockIds \cup {NULL}, at : LockIds \cup {NULL}]

InfoLists == [EDUs -> [LockIds -> LockInfo \cup {NoInfo}]]

NoCall == [kind |-> "none", leaf |-> NULL, at |-> NULL]

Holders(l) == {e \in EDUs : runList[l][e] # NoType}

(* mutant: stops, content, at an entry of type X too *)
checkCompatibleAnyType(e, t, l) ==
  \A x \in Holders(l) \ {e} :
    \/ isLockCompatible(runList[l][x], t)
    \/ \E y \in Holders(l) : y <= x /\ runList[l][y] = t

(* checkCompatible walks the run list in thread-id order.  It stops, content,
   at an entry of the wanted type unless that type is X, skips the caller's
   own entry, and fails at the first incompatible one. *)
checkCompatible(e, t, l) ==
  \A x \in Holders(l) \ {e} :
    \/ isLockCompatible(runList[l][x], t)
    \/ t # X /\ \E y \in Holders(l) : y < x /\ runList[l][y] = t

-----------------------------------------------------------------------------
(* The waiters of l: waitCB[l], then lockInfo[_][l].next. *)

WaitNode(l) ==
  LET node[n \in 0 .. Cardinality(EDUs)] ==
        IF n = 0 THEN waitCB[l]
        ELSE IF node[n - 1] = NULL \/ lockInfo[node[n - 1]][l] = NoInfo
             THEN NULL
             ELSE lockInfo[node[n - 1]][l].next
  IN node

InQueue(l) == LET node == WaitNode(l)
              IN {node[n] : n \in 0 .. Cardinality(EDUs)} \ {NULL}

(* infos with the waiter of l that points to old pointing to new instead. *)
Relink(infos, l, old, new) ==
  LET queued == InQueue(l)
  IN [w \in EDUs |->
        IF w \in queued /\ infos[w][l] # NoInfo /\ infos[w][l].next = old
        THEN [infos[w] EXCEPT ![l].next = new]
        ELSE infos[w]]

(* postEvent(LOCKWAKEUP): the number of queued wake-ups saturates at
   MaxEvents, since one is enough to make a waiter look again. *)
Posted(e) == [events EXCEPT ![e] = IF @ < MaxEvents THEN @ + 1 ELSE @]

(* mutant: nobody is woken *)
removeFromRunSilent(e, l) ==
  /\ runList' = [runList EXCEPT ![l][e] = NoType]
  /\ UNCHANGED events

(* removeFromRun: drop the entry, wake the first waiter. *)
removeFromRun(e, l) ==
  /\ runList' = [runList EXCEPT ![l][e] = NoType]
  /\ events' = IF waitCB[l] = NULL THEN events ELSE Posted(waitCB[l])

(* mutant: the successor of the first waiter is not woken *)
removeFromWaitSilent(e, l) ==
  /\ UNCHANGED events
  /\ IF waitCB[l] = e
     THEN /\ waitCB' = [waitCB EXCEPT ![l] = lockInfo[e][l].next]
          /\ UNCHANGED lockInfo
     ELSE /\ lockInfo' = Relink(lockInfo, l, e, lockInfo[e][l].next)
          /\ UNCHANGED waitCB

(* mutant: only the first waiter is unlinked *)
removeFromWaitFirst(e, l) ==
  /\ UNCHANGED lockInfo
  /\ waitCB' = IF waitCB[l] = e THEN [waitCB EXCEPT ![l] = lockInfo[e][l].next]
               ELSE waitCB
  /\ events' = IF waitCB[l] = e /\ lockInfo[e][l].next # NULL
               THEN Posted(lockInfo[e][l].next) ELSE events

(* removeFromWait with e first: its successor becomes first and is woken.
   Otherwise e is unlinked and nobody is woken.  e's own next pointer keeps
   its value in both cases. *)
removeFromWait(e, l) ==
  LET next == lockInfo[e][l].next
  IN IF waitCB[l] = e
     THEN /\ waitCB' = [waitCB EXCEPT ![l] = next]
          /\ events' = IF next = NULL THEN events ELSE Posted(next)
          /\ UNCHANGED lockInfo
     ELSE /\ lockInfo' = Relink(lockInfo, l, e, next)
          /\ UNCHANGED <<waitCB, events>>

-----------------------------------------------------------------------------
Init ==
  /\ runList = [l \in LockIds |-> [e \in EDUs |-> NoType]]
  /\ waitCB = [l \in LockIds |-> NULL]
  /\ lockInfo = [e \in EDUs |-> [l \in LockIds |-> NoInfo]]
  /\ events = [e \in EDUs |-> 0]
  /\ pc = [e \in EDUs |-> "idle"]
  /\ call = [e \in EDUs |-> NoCall]
  /\ todo = [e \in EDUs |-> {}]
  /\ held = [e \in EDUs |-> [l \in LockIds |-> 0]]

-----------------------------------------------------------------------------
(* The callers. *)

TargetIds(kind) ==
  CASE kind \in {"scan", "query", "insert"} -> RecordIds
    [] kind = "ddlCL" -> CollectionIds
    [] kind = "ddlCS" -> SpaceIds
    [] OTHER -> SpaceIds \cup CollectionIds

(* The callers that ask for a lock with the collection's mb latch held
   EXCLUSIVE; they drop the latch (dmsMBContext::pause) before they wait. *)
LatchedKinds == {"scan", "query", "insert", "ddlCL"}

MbLatched(cl) ==
  \E e \in EDUs : /\ pc[e] \in {"acquire", "unwind"}
                   /\ call[e].kind \in LatchedKinds
                   /\ CollectionOf(call[e].leaf) = cl

hasWait(l) == waitCB[l] # NULL

(* transLockTestX on a record slot, before the allocator hands it out. *)
testX(e, l) ==
  LET ok(m, t) == \/ lockInfo[e][m] # NoInfo /\ isLockMatch(lockInfo[e][m].type, t)
                  \/ /\ lockInfo[e][m] # NoInfo
                           => upgradeCheck(lockInfo[e][m].type, t)
                     /\ checkCompatible(e, t, m)
      matched(m, t) == lockInfo[e][m] # NoInfo /\ isLockMatch(lockInfo[e][m].type, t)
      cl == Parent(l)
  IN \/ matched(l, X)
     \/ /\ matched(cl, IX) \/ (ok(SpaceOf(l), IS) /\ ok(cl, IX))
        /\ ok(l, X)

(* mutant: waiters for the slot are ignored *)
SlotTested(e, l) == testX(e, l)

(* The slot an insert gets: it passes testX, and nobody waits for it, since
   deleteRecord keeps a record with waiters (hasWait) out of the free list. *)
SlotUsable(e, l) == testX(e, l) /\ ~hasWait(l)

(* A call of tryOrAppendX, tryX or tryS begins: the space comes first. *)
StartCall(e) ==
  /\ pc[e] = "idle"
  /\ \E kind \in Calls : \E l \in TargetIds(kind) :
       /\ lockInfo[e][SpaceOf(l)] # NoInfo => lockInfo[e][SpaceOf(l)].ref + 1 < MaxHeld
       /\ kind \in LatchedKinds => ~MbLatched(CollectionOf(l))
       /\ kind = "insert" => SlotUsable(e, l)
       /\ call' = [call EXCEPT ![e] = [kind |-> kind, leaf |-> l, at |-> SpaceOf(l)]]
  /\ pc' = [pc EXCEPT ![e] = "acquire"]
  /\ UNCHANGED <<runList, waitCB, lockInfo, events, todo, held>>

(* transLockRelease by a caller that holds l: a scanner leaving a record, an
   insert outside a transaction, the end of a drop or truncate. *)
StartRelease(e) ==
  /\ pc[e] = "idle"
  /\ \E l \in LockIds :
       /\ held[e][l] > 0
       /\ held' = [held EXCEPT ![e][l] = @ - 1]
       /\ call' = [call EXCEPT ![e] = [kind |-> "none", leaf |-> l, at |-> l]]
  /\ pc' = [pc EXCEPT ![e] = "release"]
  /\ UNCHANGED <<runList, waitCB, lockInfo, events, todo>>

(* mutant: releaseAll forgets the containers *)
StartReleaseRecords(e) ==
  /\ pc[e] \in {"idle", "rollback"}
  /\ pc' = [pc EXCEPT ![e] = "releaseAll"]
  /\ todo' = [todo EXCEPT ![e] = {l \in RecordIds : lockInfo[e][l] # NoInfo}]
  /\ held' = [held EXCEPT ![e] = [l \in LockIds |-> 0]]
  /\ UNCHANGED <<runList, waitCB, lockInfo, events, call>>

(* rtnTransCommit, rtnTransRollback or the end of the session: releaseAll. *)
StartReleaseAll(e) ==
  /\ pc[e] \in {"idle", "rollback"}
  /\ pc' = [pc EXCEPT ![e] = "releaseAll"]
  /\ todo' = [todo EXCEPT ![e] = {l \in LockIds : lockInfo[e][l] # NoInfo}]
  /\ held' = [held EXCEPT ![e] = [l \in LockIds |-> 0]]
  /\ UNCHANGED <<runList, waitCB, lockInfo, events, call>>

-----------------------------------------------------------------------------
(* tryOrAppendX, tryX, tryS and the tryIX, tryIS they call: one lock. *)

At(e) == call[e].at
Want(e) == WantType(call[e].kind, call[e].leaf, At(e))
Info(e) == lockInfo[e][At(e)]

(* mutant: no intention lock on the collection *)
LeafOf(e) == call[e].leaf

(* The lock after At(e) on the way down to the leaf. *)
ChildOf(e) == IF Parent(call[e].leaf) = At(e) THEN call[e].leaf
              ELSE Parent(call[e].leaf)

(* The lock is ours: go down one level, or return OK to the caller. *)
Advance(e) ==
  IF At(e) = call[e].leaf
  THEN /\ pc' = [pc EXCEPT ![e] = "idle"]
       /\ call' = [call EXCEPT ![e] = NoCall]
       /\ held' = [held EXCEPT ![e][At(e)] = @ + 1]
  ELSE /\ call' = [call EXCEPT ![e].at = ChildOf(e)]
       /\ UNCHANGED <<pc, held>>

(* mutant: the session forgets to roll back *)
NoRollback(kind) == "idle"

(* A write that fails on the primary is rolled back by the session
   (clsShardSession, pmdLocalSession); a query or a DDL command is not.  A
   write that fails on a node which is primary no more is not rolled back
   either: it is the kind "query". *)
AfterError(kind) == IF kind \in {"scan", "insert"} THEN "rollback" ELSE "idle"

(* The lock is refused: release the containers already locked. *)
Fail(e) ==
  /\ UNCHANGED held
  /\ IF IsSpace(At(e))
     THEN /\ pc' = [pc EXCEPT ![e] = AfterError(call[e].kind)]
          /\ call' = [call EXCEPT ![e] = NoCall]
     ELSE /\ pc' = [pc EXCEPT ![e] = "unwind"]
          /\ call' = [call EXCEPT ![e].at = Parent(At(e))]

(* mutant: the lock is matched, but not counted *)
AcquireMatchUncounted(e) ==
  /\ pc[e] = "acquire"
  /\ Info(e) # NoInfo /\ isLockMatch(Info(e).type, Want(e))
  /\ Advance(e)
  /\ UNCHANGED <<runList, waitCB, lockInfo, events, todo>>

(* The EDU's own lock answers the request: one more reference. *)
AcquireMatch(e) ==
  /\ pc[e] = "acquire"
  /\ Info(e) # NoInfo /\ isLockMatch(Info(e).type, Want(e))
  /\ lockInfo' = [lockInfo EXCEPT ![e][At(e)].ref = @ + 1]
  /\ Advance(e)
  /\ UNCHANGED <<runList, waitCB, events, todo>>

(* setType, incRef *)
UpgradedInfo(e) == [lockInfo EXCEPT ![e][At(e)] =
                      [type |-> Want(e), ref |-> @.ref + 1, next |-> @.next]]

(* tryUpgrade of a weaker lock of this EDU. *)
AcquireUpgrade(e) ==
  /\ pc[e] = "acquire"
  /\ Info(e) # NoInfo /\ ~isLockMatch(Info(e).type, Want(e))
  /\ IF upgradeCheck(Info(e).type, Want(e)) /\ checkCompatible(e, Want(e), At(e))
     THEN /\ runList' = [runList EXCEPT ![At(e)][e] = Want(e)]
          /\ lockInfo' = UpgradedInfo(e)
          /\ Advance(e)
     ELSE Fail(e) /\ UNCHANGED <<runList, lockInfo>>
  /\ UNCHANGED <<waitCB, events, todo>>

(* mutant: dpsTransCBLockInfo does not set its next pointer *)
NewInfoUnset(e) == [lockInfo EXCEPT ![e][At(e)] =
                      [type |-> Want(e), ref |-> 0, next |-> NoInfo]]

NewInfo(e) == [lockInfo EXCEPT ![e][At(e)] =
                 [type |-> Want(e), ref |-> 0, next |-> NULL]]

(* tryAcquire: addLockInfo, appendToRun. *)
AcquireNew(e) ==
  /\ pc[e] = "acquire"
  /\ Info(e) = NoInfo
  /\ checkCompatible(e, Want(e), At(e))
  /\ lockInfo' = NewInfo(e)
  /\ runList' = [runList EXCEPT ![At(e)][e] = Want(e)]
  /\ Advance(e)
  /\ UNCHANGED <<waitCB, events, todo>>

Appends(e) == call[e].kind \in {"scan", "query"} /\ At(e) = call[e].leaf

(* tryAcquire that fails: delLockInfo, release of the containers. *)
AcquireRefused(e) ==
  /\ pc[e] = "acquire"
  /\ Info(e) = NoInfo
  /\ ~checkCompatible(e, Want(e), At(e))
  /\ ~Appends(e)
  /\ Fail(e)
  /\ UNCHANGED <<runList, waitCB, lockInfo, events, todo>>

(* mutant: the new waiter goes first *)
AcquireAppendHead(e) ==
  /\ pc[e] = "acquire"
  /\ Info(e) = NoInfo
  /\ ~checkCompatible(e, Want(e), At(e))
  /\ Appends(e)
  /\ lockInfo' = [NewInfo(e) EXCEPT ![e][At(e)].next = waitCB[At(e)]]
  /\ waitCB' = [waitCB EXCEPT ![At(e)] = e]
  /\ pc' = [pc EXCEPT ![e] = "waiting"]
  /\ UNCHANGED <<runList, events, call, todo, held>>

(* tryAcquireOrAppend: appendToWait puts the EDU behind the last waiter. *)
AcquireAppend(e) ==
  /\ pc[e] = "acquire"
  /\ Info(e) = NoInfo
  /\ ~checkCompatible(e, Want(e), At(e))
  /\ Appends(e)
  /\ IF hasWait(At(e))
     THEN /\ lockInfo' = Relink(NewInfo(e), At(e), NULL, e)
          /\ UNCHANGED waitCB
     ELSE /\ waitCB' = [waitCB EXCEPT ![At(e)] = e]
          /\ lockInfo' = NewInfo(e)
  /\ pc' = [pc EXCEPT ![e] = "waiting"]
  /\ UNCHANGED <<runList, events, call, todo, held>>

-----------------------------------------------------------------------------
(* waitLock and waitLockX: dpsTransLock::wait. *)

WakeUp(e) ==
  /\ pc[e] = "waiting" /\ events[e] > 0
  /\ events' = [events EXCEPT ![e] = @ - 1]
  /\ pc' = [pc EXCEPT ![e] = "woken"]
  /\ UNCHANGED <<runList, waitCB, lockInfo, call, todo, held>>

(* SDB_TIMEOUT: no event within _lockTimeout. *)
Timeout(e) ==
  /\ pc[e] = "waiting" /\ events[e] = 0
  /\ pc' = [pc EXCEPT ![e] = "failed"]
  /\ UNCHANGED <<runList, waitCB, lockInfo, events, call, todo, held>>

(* SDB_INTERRUPT: some other event came first; it is posted again. *)
Interrupt(e) ==
  /\ pc[e] = "waiting"
  /\ pc' = [pc EXCEPT ![e] = "failed"]
  /\ UNCHANGED <<runList, waitCB, lockInfo, events, call, todo, held>>

(* Under _lstMutex again: take the lock and leave the queue. *)
GrantAfterWait(e) ==
  /\ pc[e] = "woken"
  /\ checkCompatible(e, X, At(e))
  /\ runList' = [runList EXCEPT ![At(e)][e] = X]
  /\ removeFromWait(e, At(e))
  /\ pc' = [pc EXCEPT ![e] = "idle"]
  /\ call' = [call EXCEPT ![e] = NoCall]
  /\ held' = [held EXCEPT ![e][At(e)] = @ + 1]
  /\ UNCHANGED <<todo>>

(* goto waitretry: somebody else holds it again, wait once more. *)
WaitRetry(e) ==
  /\ pc[e] = "woken"
  /\ ~checkCompatible(e, X, At(e))
  /\ pc' = [pc EXCEPT ![e] = "waiting"]
  /\ UNCHANGED <<runList, waitCB, lockInfo, events, call, todo, held>>

(* Timed out or interrupted: leave the queue.  The lock-list entry and the
   intention locks stay; the session rolls a write back. *)
GiveUp(e) ==
  /\ pc[e] = "failed"
  /\ removeFromWait(e, At(e))
  /\ pc' = [pc EXCEPT ![e] = AfterError(call[e].kind)]
  /\ call' = [call EXCEPT ![e] = NoCall]
  /\ UNCHANGED <<runList, todo, held>>

(* The session's main loop takes a late wake-up off its queue. *)
DrainEvent(e) ==
  /\ pc[e] = "idle" /\ events[e] > 0
  /\ events' = [events EXCEPT ![e] = @ - 1]
  /\ UNCHANGED <<runList, waitCB, lockInfo, pc, call, todo, held>>

-----------------------------------------------------------------------------
(* dpsTransLock::release: one lock, then its container. *)

AfterRelease(e) ==
  IF pc[e] = "unwind" THEN AfterError(call[e].kind) ELSE "idle"

ReleaseStep(e) ==
  /\ pc[e] \in {"release", "unwind"}
  /\ IF Info(e) = NoInfo \/ Info(e).ref > 0
     THEN /\ lockInfo' = IF Info(e) = NoInfo THEN lockInfo
                         ELSE [lockInfo EXCEPT ![e][At(e)].ref = @ - 1]
          /\ UNCHANGED <<runList, events>>
     ELSE /\ removeFromRun(e, At(e))
          /\ lockInfo' = [lockInfo EXCEPT ![e][At(e)] = NoInfo]
  /\ IF Info(e) = NoInfo \/ IsSpace(At(e))
     THEN /\ pc' = [pc EXCEPT ![e] = AfterRelease(e)]
          /\ call' = [call EXCEPT ![e] = NoCall]
     ELSE /\ call' = [call EXCEPT ![e].at = Parent(At(e))]
          /\ UNCHANGED pc
  /\ UNCHANGED <<waitCB, todo, held>>

(* dpsTransLock::releaseAll: every lock of the list, in the list's order. *)
ReleaseAllStep(e) ==
  /\ pc[e] = "releaseAll"
  /\ \E l \in todo[e] :
       /\ \A m \in todo[e] \ {l} : Less(l, m)
       /\ removeFromRun(e, l)
       /\ todo' = [todo EXCEPT ![e] = @ \ {l}]
  /\ UNCHANGED <<waitCB, lockInfo, pc, call, held>>

(* clearLockList *)
ReleaseAllDone(e) ==
  /\ pc[e] = "releaseAll" /\ todo[e] = {}
  /\ lockInfo' = [lockInfo EXCEPT ![e] = [l \in LockIds |-> NoInfo]]
  /\ pc' = [pc EXCEPT ![e] = "idle"]
  /\ UNCHANGED <<runList, waitCB, events, call, todo, held>>

-----------------------------------------------------------------------------
Acquire(e) == \/ AcquireMatch(e) \/ AcquireUpgrade(e) \/ AcquireNew(e)
              \/ AcquireRefused(e) \/ AcquireAppend(e)

Wait(e) == WakeUp(e) \/ GrantAfterWait(e) \/ WaitRetry(e) \/ GiveUp(e)

Release(e) == ReleaseStep(e) \/ ReleaseAllStep(e) \/ ReleaseAllDone(e)

Caller(e) == \/ StartCall(e) \/ StartRelease(e)
             \/ StartReleaseAll(e) \/ DrainEvent(e)

Next == \E e \in EDUs : \/ Caller(e) \/ Acquire(e) \/ Wait(e) \/ Release(e)
                        \/ Timeout(e) \/ Interrupt(e)

Spec == Init /\ [][Next]_vars

(* A thread inside the lock manager keeps running, and every client ends its
   transaction at some time. *)
Fairness ==
  \A e \in EDUs : /\ WF_vars(Acquire(e) \/ Wait(e) \/ Release(e))
                  /\ WF_vars(StartReleaseAll(e))

FairSpec == Spec /\ Fairness

-----------------------------------------------------------------------------
(* Properties. *)

InWait(e, l) == pc[e] \in {"waiting", "woken", "failed"} /\ At(e) = l

(* Every variable has its type. *)
TypeOK ==
  /\ runList \in [LockIds -> [EDUs -> Types \cup {NoType}]]
  /\ waitCB \in [LockIds -> EDUs \cup {NULL}]
  /\ lockInfo \in InfoLists
  /\ events \in [EDUs -> 0 .. MaxEvents]
  /\ pc \in [EDUs -> PCs]
  /\ call \in [EDUs -> CallRecords]
  /\ todo \in [EDUs -> SUBSET LockIds]
  /\ held \in [EDUs -> [LockIds -> Nat]]

(* The compatibility matrix of multi-granularity locking. *)
TypeConflict(a, b) == {a, b} \in {{X}, {X, IS}, {X, IX}, {X, S}, {IX, S}}

(* No two EDUs in the run list of one lock conflict by the matrix: the bit test
   of isLockCompatible is the matrix, and the early exit of checkCompatible at
   an entry of the wanted type is sound. *)
RunListCompatible ==
  \A l \in LockIds : \A e, f \in Holders(l) :
    e # f => ~TypeConflict(runList[l][e], runList[l][f])

(* An entry of a run list is in the owner's lock list with the same type, so
   that release and releaseAll find it: no lock outlives its transaction. *)
RunListInLockList ==
  \A e \in EDUs, l \in LockIds :
    runList[l][e] # NoType
      => lockInfo[e][l] # NoInfo /\ lockInfo[e][l].type = runList[l][e]

(* The converse: an EDU's lock list names no lock it was not granted, except
   while it waits for it or while its failed write is being rolled back.
   tryOrAppendX answers OK from the lock list alone. *)
LockListGranted ==
  \A e \in EDUs, l \in LockIds :
    lockInfo[e][l] # NoInfo
      => \/ runList[l][e] # NoType
         \/ InWait(e, l)
         \/ pc[e] \in {"rollback", "releaseAll"}

(* What callers rely on: two EDUs that were told they have the X lock of a
   record never have it at the same time. *)
RecordExclusion ==
  \A r \in RecordIds : \A e, f \in EDUs :
    held[e][r] > 0 /\ held[f][r] > 0 => e = f

(* Another EDU has, on the way to record r, a lock that was asked for without
   the mb latch: X of the space, for a drop, or S of the collection. *)
TakenUnlatched(e, r) ==
  \E f \in EDUs \ {e} : runList[SpaceOf(r)][f] = X \/ runList[Parent(r)][f] = S

(* dmsStorageDataCommon::insertRecord asserts ("Failed to get record-X-LOCK")
   that an insert whose slot passed the test gets every lock on the way to the
   slot.  Nobody can take the slot or lock its collection exclusively in
   between, nor does a waiter have a claim on it; only who asks for a container
   without the mb latch, the drop of a space and rtnTransTryLockCL, can come
   between the test and the request. *)
InsertGetsLock ==
  [][\A e \in EDUs : pc[e] = "acquire" /\ call[e].kind = "insert"
       => pc'[e] \in {"acquire", "idle"} \/ TakenUnlatched(e, call[e].leaf)]_vars

(* The granted lock and its containers are in the run lists for as long as
   the caller counts on them, strong enough for what it asked. *)
ContainersLocked ==
  \A e \in EDUs, l \in LockIds :
    held[e][l] > 0
      => /\ runList[l][e] \in {S, X}
         /\ IsRecord(l) => runList[l][e] = X /\ runList[Parent(l)][e] \in {IX, X}
         /\ \A m \in Path(l) : runList[m][e] # NoType

(* A drop of a collection or space (X on the container) excludes every other
   EDU's record locks inside it. *)
DropExcludesRecords ==
  \A e, f \in EDUs, r \in RecordIds :
    e # f /\ held[f][r] > 0
      => \A m \in {Parent(r), SpaceOf(r)} : held[e][m] = 0 \/ runList[m][e] # X

(* No lost wake-up: when the first waiter could have the lock, a wake-up is
   in its event queue, or it is already on its way to look again or to leave
   (and then wakes its successor). *)
NoLostWakeup ==
  \A l \in LockIds :
    waitCB[l] # NULL /\ checkCompatible(waitCB[l], X, l)
      => events[waitCB[l]] > 0 \/ pc[waitCB[l]] \in {"woken", "failed"}

(* The linked list of waiters ends, and goes through exactly the EDUs that
   wait, although removeFromWait leaves a stale next pointer behind. *)
QueueIsWaiters ==
  \A l \in LockIds :
    /\ WaitNode(l)[Cardinality(EDUs)] = NULL
    /\ InQueue(l) = {e \in EDUs : InWait(e, l)}

(* References in flight: what the call e is in the middle of has counted on
   lock l and not yet handed to the caller or given back. *)
InFlight(e, l) ==
  LET counted == CASE pc[e] = "acquire" -> Path(At(e)) \ {At(e)}
                   [] pc[e] \in {"waiting", "woken", "failed", "release", "unwind"}
                        -> Path(At(e))
                   [] OTHER -> {}
  IN IF l \in counted THEN 1 ELSE 0

(* The acquisitions, of those that h counts, which passed through lock l. *)
Passing(h, l) ==
  UNION {{m} \X (1 .. h[m]) : m \in {n \in LockIds : l \in Path(n)}}

(* The reference count of a lock-list entry is exact: every acquisition that
   passed through the lock is counted once, so that the last release, and no
   earlier one, gives the lock back. *)
RefCountsExact ==
  \A e \in EDUs, l \in LockIds :
    pc[e] \notin {"rollback", "releaseAll"} =>
      (IF lockInfo[e][l] = NoInfo THEN 0 ELSE lockInfo[e][l].ref + 1)
        = Cardinality(Passing(held[e], l)) + InFlight(e, l)

(* Once nobody starts a new request and no wait is cut short, every waiter
   gets the lock: each release or departure passes the wake-up on. *)
Undisturbed ==
  <>[][\A e \in EDUs : ~(StartCall(e) \/ Timeout(e) \/ Interrupt(e))]_vars

WaitersServed ==
  Undisturbed => \A e \in EDUs : pc[e] = "waiting" ~> pc[e] = "idle"

-----------------------------------------------------------------------------
(* Refinement of the abstract lock table. *)

QueueSeq(l) == LET node == WaitNode(l)
               IN IF node[0] = NULL THEN <<>>
                  ELSE [i \in 1 .. Cardinality(InQueue(l)) |-> node[i - 1]]

Table == INSTANCE LockTable WITH
           Owners <- EDUs, Locks <- LockIds, Modes <- Types, None <- NoType,
           Conflict <- TypeConflict,
           grants <- runList, queue <- [l \in LockIds |-> QueueSeq(l)]

(* The lock manager implements the lock table: bit tricks and the early exit
   of checkCompatible amount to the compatibility matrix, and the pointer
   surgery on the wait list never reorders, loses or duplicates a waiter. *)
ImplementsTable == Table!TableSpec
=============================================================================
