---------------------------- MODULE SyncManager ----------------------------
(***************************************************************************)
(* The acknowledgement of writes by replicas: _clsSyncManager on one data  *)
(* node (cls/clsSyncManager.cpp), with its callers in _clsReplicateSet.    *)
(*                                                                         *)
(* A session that wrote the log record lsn and needs w copies calls sync;  *)
(* it waits in syncList[sub], sub = w - 2, until w - 1 other nodes have    *)
(* reported that they hold the record.  Replication source sessions raise  *)
(* the reported offsets (complete) and, like the cluster EDU's timer, make *)
(* a wake plan of them and carry it out list by list.                      *)
(*                                                                         *)
(* info->mtx is a read-write lock.  Source sessions and the timer hold it  *)
(* shared from the plan to the last list they wake, sync holds it shared   *)
(* from its checks to the push; role, liveness and membership change under *)
(* it exclusively, so only while nobody wakes (NobodyWakes).  Each list    *)
(* has a mutex of its own: one list, one step.                             *)
(*                                                                         *)
(* A record has the number of its LSN; a node that reports the offset l    *)
(* holds the records below l.                                              *)
(***************************************************************************)
EXTENDS Integers, FiniteSets, FiniteSetsExt

CONSTANTS Peer,        \* the other nodes of the group
          Edu,         \* agents that write
          Source,      \* replication source sessions, which call complete
          MaxLsn,      \* bound: records ever written
          MaxFaults    \* bound: breaks, lost roles, full synchronisations

ASSUME SyncAssumption ==
    /\ IsFiniteSet(Peer) /\ IsFiniteSet(Edu) /\ IsFiniteSet(Source)
    /\ MaxLsn \in Nat /\ MaxFaults \in Nat

VARIABLES
    primary,   \* info->primary is the local node
    members,   \* the nodes of _notifyList
    alive,     \* those of them that are valid; _aliveCount is their number
    offset,    \* _notifyList[].offset
    checkList, \* _checkList: what sub + 1 nodes have reported
    syncList,  \* _syncList: the waiting sessions, by sub
    outside,   \* what was pushed before the first list, outside the array
    session,   \* per EDU: where it is in sync, its record, list and answer
    event,     \* per EDU: pmdEDUCB::_event, which stays signalled until reset
    waker,     \* per source session and for the timer: the plan it carries out
    cut,       \* the lists a cut has still to empty: [at, to], at downto to
    logEnd,    \* the LSN after the last record of the log
    holds,     \* what the other nodes really hold: records below holds[p]
    resynced,  \* nodes that have been in full synchronisation
    faults     \* breaks, lost roles and full synchronisations so far

vars == <<primary, members, alive, offset, checkList, syncList, outside,
          session, event, waker, cut, logEnd, holds, resynced, faults>>

Invalid == -1                 \* DPS_INVALID_LSN_OFFSET
Huge == MaxLsn + 1            \* DPS_INVALID_LSN_OFFSET - 1, above every LSN
Lsn == 0 .. MaxLsn
Sub == 0 .. Cardinality(Peer) - 1
Timer == "timer"
Waker == Source \cup {Timer}

Idle == [pc |-> "idle"]
Plan == [pc : {"waking"}, plan : [Sub -> Lsn \cup {Huge}], at : Sub,
         subs : 1 .. Cardinality(Peer)]
Entry == [edu : Edu, endLsn : Lsn]
Session == [pc : {"idle", "written", "waiting", "leaving"}, lsn : Lsn,
            sub : Sub \cup {-1}, rc : {"none", "ok", "failed", "left"}]
NoSync == [pc |-> "idle", lsn |-> 0, sub |-> -1, rc |-> "none"]

NobodyWakes == \A t \in Waker : waker[t] = Idle
NoCut == cut.at < cut.to
ClusterFree == NoCut /\ waker[Timer] = Idle   \* the cluster EDU is one thread

----------------------------------------------------------------------------
(* The parts of the operations.                                            *)

\* An offset as it enters a wake plan: a node that is in full
\* synchronisation counts as one that has everything.
Rank(o) == IF o = Invalid THEN Huge ELSE o

Reached(x) == {p \in members : Rank(offset[p]) >= x}

\* Mutant: nodes in full synchronisation are left out of the plan.
PlanOfReported ==
    [s \in Sub |->
        IF s < Cardinality(members)
        THEN Max({0} \cup {x \in Lsn :
                 Cardinality({p \in members : offset[p] >= x}) > s})
        ELSE 0]

\* Mutant: the entry of sub is what sub nodes have reached.
PlanOfFewer ==
    [s \in Sub |->
        IF s < Cardinality(members)
        THEN Max({x \in Lsn \cup {Huge} : Cardinality(Reached(x)) >= s})
        ELSE 0]

\* _createWakePlan: the ranks of all nodes in descending order; the entry of
\* sub is the largest offset that sub + 1 nodes have reached.
PlanOf ==
    [s \in Sub |->
        IF s < Cardinality(members)
        THEN Max({x \in Lsn \cup {Huge} : Cardinality(Reached(x)) > s})
        ELSE 0]

Signal(edus, rc) == [e \in Edu |-> IF e \in edus THEN rc ELSE event[e]]

Edus(entries) == {x.edu : x \in entries}

\* The list that waits for w - 1 other nodes, all of them if they are fewer.
SubOf(w) == Min({w, Cardinality(members) + 1}) - 2

\* Mutant: one node too few is let through.
TooFewAliveByTwo(w) ==
    /\ Cardinality(alive) < Cardinality(members)
    /\ w > Cardinality(alive) + 2

\* w nodes cannot hold the record as long as those that broke stay away.
TooFewAlive(w) ==
    /\ Cardinality(alive) < Cardinality(members)
    /\ w > Cardinality(alive) + 1

----------------------------------------------------------------------------
(* Sessions that write.                                                    *)

\* A record is written to the log; the LSN of its end is kept for sync.
Write(e) ==
    /\ primary /\ session[e].pc = "idle" /\ logEnd < MaxLsn
    /\ logEnd' = logEnd + 1
    /\ session' = [session EXCEPT ![e] =
                    [pc |-> "written", lsn |-> logEnd, sub |-> -1,
                     rc |-> "none"]]
    /\ UNCHANGED <<primary, members, alive, offset, checkList, syncList,
                   outside, event, waker, cut, holds, resynced, faults>>

Return(e, sub, rc) ==
    session' = [session EXCEPT ![e] =
                 [@ EXCEPT !.pc = "idle", !.sub = sub, !.rc = rc]]

\* sync of the replica set and of the manager, up to the wait.
Sync(e) ==
    /\ session[e].pc = "written"
    /\ \E w \in 1 .. Cardinality(Peer) + 2 :
        LET sub == SubOf(w)
        IN  \/ /\ w = 1 \/ members = {}
               /\ Return(e, -1, "ok")
               /\ event' = [event EXCEPT ![e] = IF w = 1 THEN @ ELSE "none"]
               /\ UNCHANGED syncList
            \/ /\ w > 1 /\ members # {}
               /\ event' = [event EXCEPT ![e] = "none"]
               /\ \/ /\ ~primary \/ TooFewAlive(w)
                     /\ Return(e, -1, "failed")
                     /\ UNCHANGED syncList
                  \/ /\ primary /\ ~TooFewAlive(w)
                     /\ session[e].lsn < checkList[sub]
                     /\ Return(e, sub, "ok")
                     /\ UNCHANGED syncList
                  \/ /\ primary /\ ~TooFewAlive(w)
                     /\ session[e].lsn >= checkList[sub]
                     /\ session' = [session EXCEPT ![e] =
                            [@ EXCEPT !.pc = "waiting", !.sub = sub]]
                     /\ syncList' = [syncList EXCEPT ![sub] = @ \cup
                            {[edu |-> e, endLsn |-> session[e].lsn]}]
    /\ UNCHANGED <<primary, members, alive, offset, checkList, outside,
                   waker, cut, logEnd, holds, resynced, faults>>

\* _wait returns what the event was signalled with.
Answered(e) ==
    /\ session[e].pc = "waiting" /\ event[e] # "none"
    /\ Return(e, session[e].sub, event[e])
    /\ UNCHANGED <<primary, members, alive, offset, checkList, syncList,
                   outside, event, waker, cut, logEnd, holds, resynced,
                   faults>>

\* _wait leaves its loop: the time is over and no event came, or the session
\* is interrupted, which is looked at before the event.
GiveUp(e) ==
    /\ session[e].pc = "waiting"
    /\ session' = [session EXCEPT ![e].pc = "leaving"]
    /\ UNCHANGED <<primary, members, alive, offset, checkList, syncList,
                   outside, event, waker, cut, logEnd, holds, resynced,
                   faults>>

\* Mutant: the session leaves its entry behind.
LeaveListed(e) ==
    /\ session[e].pc = "leaving"
    /\ Return(e, session[e].sub, "left")
    /\ UNCHANGED <<primary, members, alive, offset, checkList, syncList,
                   outside, event, waker, cut, logEnd, holds, resynced,
                   faults>>

\* The rest of _wait: the session takes itself off its list, if it is there.
Leave(e) ==
    /\ session[e].pc = "leaving"
    /\ syncList' = [syncList EXCEPT ![session[e].sub] =
                     {x \in @ : x.edu # e}]
    /\ Return(e, session[e].sub, "left")
    /\ UNCHANGED <<primary, members, alive, offset, checkList, outside,
                   event, waker, cut, logEnd, holds, resynced, faults>>

----------------------------------------------------------------------------
(* Replication source sessions and the timer.                              *)

\* _createWakePlan and the entry of _wake.
StartWake(t) ==
    waker' = [waker EXCEPT ![t] =
               IF members = {} THEN Idle
               ELSE [pc |-> "waking", plan |-> PlanOf', at |-> 0,
                     subs |-> Cardinality(members)]]

\* complete: a node reports what it holds; the report may be late or repeated.
\* The offset only ever grows, and that of a node in full synchronisation is
\* the least of all.  complete looks for the role and lets go of the lock
\* before _complete takes it again, so the role may be gone by now.
Complete(t, p) ==
    /\ waker[t] = Idle
    /\ \E l \in 0 .. logEnd :
        /\ offset' = IF p \in members /\ l > offset[p]
                     THEN [offset EXCEPT ![p] = l] ELSE offset
        /\ holds' = [holds EXCEPT ![p] = Max({@, l})]
    /\ UNCHANGED members
    /\ StartWake(t)
    /\ UNCHANGED <<primary, alive, checkList, syncList, outside, session,
                   event, cut, logEnd, resynced, faults>>

\* The manager's handleTimeout, with the same plan.
HandleTimeout ==
    /\ ClusterFree
    /\ UNCHANGED <<offset, members>>
    /\ StartWake(Timer)
    /\ UNCHANGED <<primary, alive, checkList, syncList, outside, session,
                   event, cut, logEnd, holds, resynced, faults>>

\* One turn of _wake: the check value of a list and the sessions below it.
Wake(t) ==
    /\ waker[t].pc = "waking"
    /\ LET s == waker[t].at
           v == waker[t].plan[s]
           done == {x \in syncList[s] : x.endLsn < v}
       IN  /\ checkList' = [checkList EXCEPT ![s] = v]
           /\ syncList' = [syncList EXCEPT ![s] = @ \ done]
           /\ event' = Signal(Edus(done), "ok")
           /\ waker' = [waker EXCEPT ![t] =
                         IF s + 1 < waker[t].subs
                         THEN [@ EXCEPT !.at = s + 1, !.plan[s] = 0] ELSE Idle]
    /\ UNCHANGED <<primary, members, outside, alive, offset, session, cut,
                   logEnd, holds, resynced, faults>>

\* notifyFullSync, from the node's status message or its first request.
NotifyFullSync(p) ==
    /\ faults < MaxFaults
    /\ offset' = IF p \in members THEN [offset EXCEPT ![p] = Invalid]
                 ELSE offset
    /\ resynced' = resynced \cup {p}
    /\ faults' = faults + 1
    /\ UNCHANGED <<primary, members, alive, checkList, syncList, outside,
                   session, event, waker, cut, logEnd, holds>>

----------------------------------------------------------------------------
(* The cluster EDU: liveness, role and membership.                         *)

\* Mutant: the loop begins one past the last list.
StartCutPast(alives) == cut' = [at |-> Cardinality(members), to |-> alives]

\* The loop of cut(alives), which begins with the last list.
StartCut(alives) == cut' = [at |-> Cardinality(members) - 1, to |-> alives]

\* One turn of cut: everybody in the list is told that the sync failed.
Cut ==
    /\ ~NoCut
    /\ syncList' = [syncList EXCEPT ![cut.at] = {}]
    /\ event' = Signal(Edus(syncList[cut.at]), "failed")
    /\ cut' = [cut EXCEPT !.at = @ - 1]
    /\ UNCHANGED <<primary, members, alive, offset, checkList, outside,
                   session, waker, logEnd, holds, resynced, faults>>

\* _checkBreak: a node is not heard of any more.
Break(p) ==
    /\ ClusterFree /\ NobodyWakes
    /\ p \in alive /\ faults < MaxFaults
    /\ alive' = alive \ {p}
    /\ faults' = faults + 1
    /\ IF primary THEN StartCut(Cardinality(alive')) ELSE UNCHANGED cut
    /\ UNCHANGED <<primary, members, offset, checkList, syncList, outside,
                   session, event, waker, logEnd, holds, resynced>>

\* _alive: it is heard of again.
Alive(p) ==
    /\ ClusterFree /\ NobodyWakes
    /\ p \in members \ alive
    /\ alive' = alive \cup {p}
    /\ UNCHANGED <<primary, members, offset, checkList, syncList, outside,
                   session, event, waker, cut, logEnd, holds, resynced,
                   faults>>

\* deactive of the primary status: the role is given up under the lock, then
\* ntyPrimaryChange cuts every list.
LosePrimary ==
    /\ ClusterFree /\ NobodyWakes
    /\ primary /\ faults < MaxFaults
    /\ primary' = FALSE
    /\ faults' = faults + 1
    /\ StartCut(0)
    /\ UNCHANGED <<members, alive, offset, checkList, syncList, outside,
                   session, event, waker, logEnd, holds, resynced>>

\* active of the primary status.  Nothing of the manager is reset.
GainPrimary ==
    /\ ClusterFree /\ NobodyWakes
    /\ ~primary
    /\ primary' = TRUE
    /\ UNCHANGED <<members, alive, offset, checkList, syncList, outside,
                   session, event, waker, cut, logEnd, holds, resynced,
                   faults>>

\* Under another primary, which won with the votes of a majority that holds
\* nothing from n on, the log is rolled back to n here and on all nodes.
\* Every agent has had its answer by then, the one of an earlier term.
RollBackLog(n) ==
    /\ ~primary /\ NoCut /\ NobodyWakes
    /\ \A e \in Edu : session[e].pc = "idle"
    /\ n < logEnd
    /\ 2 * Cardinality({p \in members : holds[p] <= n})
            > Cardinality(members) + 1
    /\ logEnd' = n
    /\ holds' = [p \in Peer |-> Min({holds[p], n})]
    /\ session' = [e \in Edu |-> NoSync]
    /\ UNCHANGED <<primary, members, alive, offset, checkList, syncList,
                   outside, event, waker, cut, resynced, faults>>

\* An EDU has entries of both kinds only if one of them has outlived its
\* session: either answer may be the one that is left.
SignalBoth(ok, failed) ==
    \E last \in {"ok", "failed"} :
        event' = [e \in Edu |->
            IF e \in failed /\ (e \in ok => last = "failed") THEN "failed"
            ELSE Signal(ok, "ok")[e]]

\* _clearSyncList of one removed node: every list from end on, the number of
\* live nodes left, is emptied.  A session is answered with SDB_OK when all
\* entries of the old _notifyList but its last, the removed node's included,
\* have its record.  The others of list end move to the list before it, which
\* for the first list is outside the array; the rest have failed.
ClearSyncList(end, last) ==
    LET cleared == end .. Cardinality(members) - 1
        complete(x) ==
            {q \in members \ {last} : x.endLsn < Rank(offset[q])}
        ok(s) == {x \in syncList[s] :
                    Cardinality(members) - 1 <= Cardinality(complete(x))}
        moved == syncList[end] \ ok(end)
    IN  /\ syncList' =
            [s \in Sub |-> CASE s \in cleared -> {}
                            [] s = end - 1 -> syncList[s] \cup moved
                            [] OTHER -> syncList[s]]
        /\ outside' = IF end = 0 THEN outside \cup moved ELSE outside
        /\ SignalBoth(Edus(UNION {ok(s) : s \in cleared}),
                      Edus(UNION {syncList[s] \ ok(s) : s \in cleared \ {end}}))

\* updateNotifyList after a node, alive or not, was taken out of the group;
\* which entry of _notifyList is the last depends on the order of arrival.
RemoveNode(p) ==
    /\ ClusterFree /\ NobodyWakes
    /\ p \in members
    /\ members' = members \ {p}
    /\ alive' = alive \ {p}
    /\ \E last \in members : ClearSyncList(Cardinality(alive \ {p}), last)
    /\ UNCHANGED <<primary, offset, checkList, session, waker, cut, logEnd,
                   holds, resynced, faults>>

\* updateNotifyList after a node was added: it counts as alive at once.
AddNode(p) ==
    /\ ClusterFree /\ NobodyWakes
    /\ p \in Peer \ members
    /\ members' = members \cup {p}
    /\ alive' = alive \cup {p}
    /\ offset' = [offset EXCEPT ![p] = 0]
    /\ UNCHANGED <<primary, checkList, syncList, outside, session, event,
                   waker, cut, logEnd, holds, resynced, faults>>

----------------------------------------------------------------------------
Init ==
    /\ primary = TRUE
    /\ members = Peer /\ alive = Peer
    /\ offset = [p \in Peer |-> 0]
    /\ checkList = [s \in Sub |-> Invalid]
    /\ syncList = [s \in Sub |-> {}]
    /\ outside = {}
    /\ session = [e \in Edu |-> NoSync]
    /\ event = [e \in Edu |-> "none"]
    /\ waker = [t \in Waker |-> Idle]
    /\ cut = [at |-> -1, to |-> 0]
    /\ logEnd = 0
    /\ holds = [p \in Peer |-> 0]
    /\ resynced = {}
    /\ faults = 0

Next ==
    \/ \E e \in Edu :
        Write(e) \/ Sync(e) \/ Answered(e) \/ GiveUp(e) \/ Leave(e)
    \/ \E t \in Source : \E p \in Peer : Complete(t, p)
    \/ HandleTimeout
    \/ \E t \in Waker : Wake(t)
    \/ Cut \/ LosePrimary \/ GainPrimary
    \/ \E p \in Peer :
        NotifyFullSync(p) \/ Break(p) \/ Alive(p) \/ RemoveNode(p)
            \/ AddNode(p)
    \/ \E n \in Lsn : RollBackLog(n)

Spec == Init /\ [][Next]_vars

\* A node is taken out of the group only when it is down.  The code asks
\* nobody to see to it: coordCommandNode.cpp tells the group before it stops
\* the node.  What holds only then is stated for OrderlySpec.
OnlyDownRemoved == alive \subseteq members'

OrderlySpec == Init /\ [][Next /\ OnlyDownRemoved]_vars

\* Threads go on: a source session with its plan, the cluster EDU with its
\* timer and its cuts, a waiting agent that was signalled.
Fairness ==
    /\ \A e \in Edu : WF_vars(Answered(e)) /\ WF_vars(Leave(e))
    /\ \A t \in Waker : WF_vars(Wake(t))
    /\ WF_vars(HandleTimeout) /\ WF_vars(Cut)

FairSpec == OrderlySpec /\ Fairness
----------------------------------------------------------------------------
(* Properties.                                                             *)

\* Types, and the ranges of list numbers and offsets.
TypeOK ==
    /\ primary \in BOOLEAN
    /\ members \subseteq Peer /\ alive \subseteq members
    /\ offset \in [Peer -> Lsn \cup {Invalid}]
    /\ checkList \in [Sub -> Lsn \cup {Invalid, Huge}]
    /\ syncList \in [Sub -> SUBSET Entry]
    /\ outside \subseteq Entry
    /\ session \in [Edu -> Session]
    /\ event \in [Edu -> {"none", "ok", "failed"}]
    /\ waker \in [Waker -> {Idle} \cup Plan]
    /\ cut.at \in Sub \cup {-1} /\ cut.to \in Nat
    /\ logEnd \in Lsn
    /\ holds \in [Peer -> Lsn]
    /\ resynced \subseteq Peer

\* Nodes that hold a record, or got the data of the group in a full
\* synchronisation, which the code counts as holding everything.
Holders(lsn) == {p \in Peer : holds[p] > lsn} \cup resynced

\* A write that was answered as synchronised is on as many other nodes as it
\* asked for (all of them, if there were fewer when it asked), whichever plan
\* woke it, and however reports, plans, breaks, nodes that join the group or
\* are taken out of it while they are down, lost and regained roles and late
\* signals of an earlier sync are interleaved.
AckedByEnough ==
    \A e \in Edu :
        session[e].pc = "idle" /\ session[e].rc = "ok"
            => Cardinality(Holders(session[e].lsn)) > session[e].sub

\* An entry of a list is that of a session still inside _wait, with the
\* record it waits for: no signal can reach a later sync of its EDU.
NoEntryLeftBehind ==
    \A s \in Sub : \A x \in syncList[s] :
        /\ session[x.edu].pc \in {"waiting", "leaving"}
        /\ session[x.edu].lsn = x.endLsn

\* A session that waits is on its list or has been signalled, and the entries
\* of a list are those of sessions still inside _wait on this very list: as
\* long as no live node is taken out of the group, a signal can neither miss
\* its session nor reach a later sync of its EDU.
ListsAreWaiters ==
    /\ \A e \in Edu :
        session[e].pc = "waiting" =>
            \/ event[e] # "none"
            \/ [edu |-> e, endLsn |-> session[e].lsn]
                    \in syncList[session[e].sub]
    /\ NoEntryLeftBehind
    /\ \A s \in Sub : \A x \in syncList[s] : session[x.edu].sub = s
    /\ outside = {}

\* Once the cuts are done, nobody waits for more nodes than are alive, nor on
\* a node that is not primary: no sync slips in behind the cut, and whichever
\* node is taken out of the group, _clearSyncList leaves no such list.
NoHopelessWaiter ==
    NoCut => \A s \in Sub :
        ~primary \/ s >= Cardinality(alive) => syncList[s] = {}

\* What a waiter may count on: the role is lost, too few nodes are alive, or
\* enough nodes have reported its record.
Decided(e) ==
    /\ session[e].pc = "waiting"
    /\ \/ ~primary
       \/ session[e].sub >= Cardinality(alive)
       \/ Cardinality(Reached(session[e].lsn + 1)) > session[e].sub

\* A waiter whose case is decided and stays so gets its answer, without its
\* time-out: a stale plan that put a check value back, or a report that came
\* just before the push, is made up for by the timer, as long as only nodes
\* that are down are taken out of the group.
WaitersAnswered == \A e \in Edu : Decided(e) ~> ~Decided(e)

=============================================================================
