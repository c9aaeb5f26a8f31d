# SequoiaDB: a TLA+ model of the engine's core

SequoiaDB is a distributed document database. A cluster has data groups of up to
seven replicas, a catalogue group and coordinators. This directory models the
core of the data node (`src/SequoiaDB/engine/`): who may touch a record, who is
primary, when a write counts as replicated, how a secondary replays the log, and
what becomes of transactions when the primary changes. The source is C++; all paths
below are relative to `src/SequoiaDB/engine/`.

| module | what it is |
| --- | --- |
| `TransLock` | the transaction lock manager, its callers and the threads' event queues |
| `LockTable` | what the lock manager promises, as an abstract lock table |
| `Vote` | the election of a group's primary |
| `SyncManager` | the acknowledgement of writes by replicas on the primary |
| `ReplBucket` | the parallel replay of the log on a secondary |
| `TransTable` | the table of unfinished transactions, and who undoes them |
| `MCTransLock`, `MCVote`, `MCSyncManager`, `MCReplBucket`, `MCTransTable` | the instances TLC checks |
| `TransLock_proofs`, `TransLockQueue_proofs`, `TransLockCalls_proofs`, `Vote_proofs`, `SyncManager_proofs`, `ReplBucket_proofs`, `TransTable_proofs` | theorems, checked by TLAPS |
| `SetBounds` | lemmas the proofs share |

A run is `tlc -config <cfg> <MC module>` in this directory, a proof
`tlapm <module>_proofs.tla`. `PROJECT.json` lists runs, mutants, the source lines of
every definition, findings, hazards and theorems.

## 1. Inventory

**Threads.** A data node is one process of EDUs (worker threads, `pmd/pmdEDU*`):
one per client session, replication session or background job, and one CLUSTER
EDU that runs timers and every message handler of the replica set. EDUs share
memory under latches (`oss/`), and talk by events posted to each other's queues.

| component | state | operations | interacts with | what is hard, and what makes it correct |
| --- | --- | --- | --- | --- |
| transaction locks (`dps/dpsTransLock*`) | lock units in hashed buckets: run list, head of the wait list; per EDU a lock list with types, counts and links | try, wait, upgrade, test, release, release all | scanners, inserts, DDL, rollback; events of the EDU queue | many mutex sections per request, wake-ups against time-outs, reference counts; exclusion, no lost wake-up, exact counts |
| transaction table (`dps/dpsTransCB`, `rtn/rtnTransaction`) | running transactions and their last LSN, begin-LSN maps, space reserved for rollbacks | save, update, roll back from the log, roll back all at failover | log, replay, election | table = function of the log prefix, each operation undone once |
| replica log (`dps/dpsReplicaLogMgr`, `dpsLogFileMgr`) | ring of pages before a ring of files, begin and expected LSN | prepare, write, flush, move (truncate), search | everything that writes; replication | wrap-around, a reader behind the flush, rollback of the tail |
| election (`cls/clsVote*`, `clsVS*`, `clsReplicateSet`) | vote status, time in it, votes; per peer the last beat and its age; the primary | ballots of two rounds, beats, time-outs, step-up, step-down | peers by messages; clients by events; replication | no terms: safety by time-outs; at most one primary, some primary, an up-to-date one |
| reelection (`cls/clsReelection`) | level | run, wait, signal | writers, CLUSTER EDU | check and step-down in different threads |
| replication acknowledgement (`cls/clsSyncManager`) | per w a heap of waiting sessions, per node its LSN | sync, complete, wake, cut, members come and go | sessions, source sessions, beats | a session is woken exactly when w replicas have its LSN, also when nodes go |
| replay buckets (`cls/clsReplBucket`, `clsReplayer`) | hashed queues of log records, completed LSNs | push, pop, complete, wait empty | replication session, EDU pool | same key in log order, the reported LSN is complete below |
| replication sessions (`cls/clsReplSession`, `clsSrcSelector`) | source, next LSN, consult state | sync, consult, rollback | log, buckets, full sync | diverged tails; nothing acknowledged is rolled back |
| full sync and split (`cls/clsFS*Session`, `clsTask`) | progress of a copy, changes meanwhile | meta, data, log, end | storage, log, catalogue | writes during the copy are in the copy or in the log |
| storage (`dms/`) | extents, slots, free lists, mb latches | insert, delete, update, scan | locks, log, index | a deleted record with waiters is freed by the last of them |
| indexes (`ixm/`, `dms/dmsIndexBuilder`) | B-trees, build position | insert, delete, build online | storage | build against concurrent writes |
| catalogue (`cat/`) | collections, groups, tasks, level locks | two-phase DDL contexts, split tasks | coordinators, data nodes | partial failure of DDL |
| coordinator (`coord/`) | sub-sessions, catalogue cache | routing, two-phase DDL, transactions over groups | all | stale catalogue versions, partial commits |
| runtime, planning, SQL, REST, tools, drivers | | | | sequential data transformation or I/O |

Every component, modelled or not, with its files and the reason is under
"components" in `PROJECT.json`; every hazard with its line under "hazards".

## 2. Plan

Done, in this order, which is that of the damage a mistake would do:

1. `TransLock` with `LockTable`, `TransLock_proofs`, `TransLockQueue_proofs` and
   `TransLockCalls_proofs`: the protection of every record.
2. `Vote` with `Vote_proofs`: who may write.
3. `SyncManager` with `SyncManager_proofs`: what an acknowledged write is worth.
4. `ReplBucket` with `ReplBucket_proofs`: a secondary's data against its log.
5. `TransTable` with `TransTable_proofs`: unfinished transactions across changes of the
   primary.

`SetBounds` has the lemmas about greatest and least elements, and the induction they give,
that the proof modules share.

Next:

6. `Reelection`: concurrent requests and the writers that wait for them (a refused
   request leaves through `signal()`, `cls/clsReelection.cpp:161`, and resets the level
   of the running one).
7. `RecordDelete`: the Deleting protocol between `deleteRecord`, scanners and waiters,
   over `TransLock`'s `hasWait`; with `pauseScan` failing after `tryOrAppendX` has queued
   the EDU.
8. `ReplicaLog`: the rings of pages and files against an unbounded sequence.
9. `ReplSession`: the consultation about a diverged tail, over `Vote`, `SyncManager` and
   `ReplBucket`; what a majority acknowledged is never rolled back.
10. `CatLevelLock`, split tasks, the EDU pool.

## 3. The lock manager: `TransLock`

**Code.** `dpsTransLock` takes a lock named (space, collection, record). A request
first takes intention locks on the containers, one bucket mutex section each
(`tryX`, `tryIX`, `tryIS`, `tryS`, `tryOrAppendX`), so other EDUs run in between;
when a level is refused the levels above are given back. Only record locks have
waiters. The wait list is a linked list that starts in the lock unit and goes
through the lock-list entries (`dpsTransCBLockInfo`) of the waiting EDUs. A release
removes the owner from the run list and posts LOCKWAKEUP to the first waiter, which
looks again, and waits again if a newcomer was faster (`waitLockX`).

**State.** `runList[l][e]`, `waitCB[l]` (lock unit), `lockInfo[e][l]` with type,
`ref` and `next` (lock list), `events[e]` (wake-ups in the event queue), and for the
thread in the middle of a request `pc`, `call`, `todo`; `held[e][l]` counts what
callers were told they have, and is a history variable.

**Actions.** One per mutex section. `AcquireMatch` (already in the lock list),
`AcquireUpgrade`, `AcquireNew`, `AcquireRefused`, `AcquireAppend` (joins the queue)
for the levels of a request; `WakeUp`, `Timeout`, `Interrupt`, `GrantAfterWait`,
`WaitRetry`, `GiveUp` for a wait; `ReleaseStep`, `ReleaseAllStep`, `ReleaseAllDone`;
`DrainEvent` for the session loop that throws away stale wake-ups; `StartCall`,
`StartRelease`, `StartReleaseAll` for the callers.

**Callers.** A call has a kind: `scan` (update or delete scanner, which waits and
gives the lock back or keeps it to the end), `query` (the scanner of a
find-and-modify), `insert`, `ddlCL`, `ddlCS`, `share` (`rtnTransTryLockCL/CS`, exported
and not called). `LatchedKinds` and `MbLatched` model the collection's mb latch,
which an insert holds from the test of a slot to its lock, and the drop of a
collection too; the drop of a space does not. `SlotUsable` is `testX` with the rule
that a slot with waiters is not freed. `AfterError`: a session rolls the transaction
back when a write fails (`clsShardSession.cpp:527`), not when a query does: a
find-and-modify whose wait failed leaves its lock-list entry behind
(`dmsScanner.cpp:316`), and its next request for the record is answered from the
lock list. `lock_query` shows it (finding 1), and the runs and theorems about
`LockListGranted` and `RecordExclusion` leave `query` out. The session does not roll
back either when the node is primary no more, or when the request was refused for an
old catalogue version. The first is a scanner of kind `query` here: until the session
comes to the event of `termAllTrans`, which does roll back, its entry stays. The
second is decided before any lock is asked for.

**Left out.** `acquireX/S/IX/IS` and the blocking upgrade, which nobody calls; hash
collisions between locks (a bucket's mutex then covers more, which only removes
interleavings); what callers do with a record.

**Abstract specification.** `LockTable`: a table of grants without conflict by the
compatibility matrix and, per lock, a queue one joins at the tail, leaves from
anywhere, and in which nobody changes places. `ImplementsTable` is the refinement
with `grants <- runList` and the queue read off the links.

### Runs

Bounds: `MaxHeld` outstanding acquisitions per EDU (2 reaches every match, upgrade
and recount), `MaxEvents` queued wake-ups (the counter saturates: a second stale
wake-up acts like the first), one record, where all waiting happens, in one
collection and space.

| run | instance | shows |
| --- | --- | --- |
| `lock_queue` | 3 EDUs scanning, fair | `QueueIsWaiters`, `NoLostWakeup`, `RecordExclusion`, `ImplementsTable`, `WaitersServed`. Three EDUs: a holder and two waiters are needed to break the list in the middle or lose the second wake-up. |
| `lock_modes` | 2 EDUs, all kinds but `query`, 2 acquisitions | `LockListGranted`, `RunListCompatible`, `RunListInLockList`, `ContainersLocked`, `DropExcludesRecords`, `RefCountsExact`, `InsertGetsLock` |
| `lock_query` | 2 EDUs, `scan` and `query`, 2 acquisitions | violation of `RecordExclusion`, finding 1 |

What the runs do not reach: with so few EDUs the early exit of `checkCompatible` at an
entry of the wanted type never decides anything (theorem `GrantsCompatible` covers it), and
with one record no cycle of waiters can arise (the code breaks one by time-outs only). A
waiter that newcomers overtake again and again waits for ever, its time-out starting anew
each time: `WaitersServed` therefore asks that requests stop.

`insertRecord` asserts that an insert whose slot passed `transLockTestX` gets its lock
("Failed to get record-X-LOCK", `dmsStorageDataCommon.cpp:2783`). `InsertGetsLock` says when
it is right: unless another EDU has got the space for a drop, or the collection in S, in
between. A drop of a space can: `_rtnContextDelCS` asks for its X lock after `suUnlock`
(`rtnContextDel.cpp:253`), under no latch the insert holds.

**Fairness.** `FairSpec`: a thread inside a request goes on, wake-ups are taken from
the queue, and a client that holds locks ends its transaction. Time-outs and
interrupts are not fair: a waiter woken in vain starts its whole time-out again
(`waitLockX`), so `transactiontimeout` bounds no wait. `WaitersServed` assumes that
requests stop and no wait is cut short: the code lets newcomers overtake, so more
cannot hold.

## 4. The election: `Vote`

**Code.** Each node has a vote machine with five statuses. A secondary whose
vote time has passed becomes a candidate: it sends ballots with its log position
(round one); with a majority of promises it announces (round two); with a majority
of acceptances it is primary. Who accepts an announcement keeps silent, longer than
the break time. Nodes beat every two seconds; a peer not heard of for
`sharingBreakTime` is broken; a primary without majority falls silent at its next
three-second check. There is no term, nothing of a vote is written to disk, and votes
are counted, not voters: safety rests on the lengths of the time-outs.

**State.** `node[n]` is the vote machine and `_clsGroupInfo` of n (fields named in
`Started`); `lsn[n]` its log position, in the order (version, offset); `normal[n]`
whether it was shut down properly; `msgs` messages and posted events; `ticked`,
`cut` the clock and the network; `left` counts down the operations a behaviour may
still meet with.

**Actions.** `Timer(n)` is the whole of `onTimer`: beats, `_checkBreak`, the time-out
of the status and what entering the next one sends. `HandleBallot`, `HandleReply`,
`HandleBeat`, `HandleBeatRes`, `HandleStepDown`, `HandleStepUp` are the handlers of
the CLUSTER EDU. `Reelect`, `StepDown`, `ReelectFailed`, `StepUp` are the client's
threads, `AliveNode` a replication session's, `Restart` a stop or crash,
`Synchronise` replication, `EndRound` time.
`SecondaryBallot`, `VoteBallot`, `VoteReply`, `AnnounceReply`, `SilenceTimeout`, ...
are the virtual methods of the status classes.

**Time.** A round is one timer interval (one second). Every node's timer fires once
in a round, in any order; a message is handled in its round or lost on a cut link;
beats are handled before other messages of the round; links change between rounds,
for both directions. So clocks run at equal speed within one interval, delays are
below one interval, and a node's CLUSTER EDU is not blocked for longer. These are
assumptions: the code logs when its timer was not called for three intervals and
goes on, and then nothing keeps two primaries apart.

**Left out.** Groups of one node; changes of the members (group version and hash);
the checks of the replay bucket and of the transaction table before a candidacy;
notices to the catalogue; writes, so that logs move by `Synchronise` only (the
transfer of a log is one step, external to this module); the deadtime of an
unreachable peer is `DeadBeats` beats instead of minutes.

### Runs

Three nodes: the smallest group with majority and minority. `CLS_VOTE_CS_TIME` is 3 s,
beats every 2 s, and `sharingBreakTime` is at least 5 s, so (3, 2, 5) are the real
numbers with the smallest margin; (2, 1, 3) keep the order beat < vote < break <
silence in fewer states and with still less margin. (3, 2, 5) satisfy `TimesApart`, so for
them `AtMostOnePrimary` is also theorem `OnePrimaryAtMost`; (2, 1, 3) do not.

A behaviour starts from one of the `Scenarios`: the logs of the nodes, and how many
changes of links, restarts, reelections and forced step-ups it may meet with.

| run | times | scenarios | shows |
| --- | --- | --- | --- |
| `vote_faults` | 2, 1, 3 | 1 change of links, and with it: replication messages, 1 reelection, 1 restart, or a node that wins ties and is behind | `TypeOK`, `PrimaryIsSelf`, `AtMostOnePrimary`, `WinnerUpToDate`, `StepDownYields` |
| `vote_elected` | 3, 2, 5 | 1 change, or 1 forced step-up; fair | `Elected`, `ConflictResolved` |

One change of the links goes from any state of an election to any of the eight
networks. After it nothing else is bounded: the group runs on for ever in every run,
so late consequences are reached. A forced step-up makes a second primary possible:
`stepUp` refuses, in the client's thread, when a primary exists, and `_handleStepUp`,
which runs later in the CLUSTER EDU, does not look again; `ConflictResolved` shows that
the second primary does not stay, and `AtMostOnePrimary` is stated without forced
step-ups.

`AtMostOnePrimary` also rests on the bounds of these runs; theorem `OnePrimaryAtMost`
(section 9) has its hypotheses in their place. Outside of them, larger instances
than those of the runs show that it can fail for a moment:

- Links that come back. With (3, 2, 5), one restart and three changes of the links, a beat
  that arrives just after a link is up again makes the cut-off primary count the peer as
  alive at its next look, before one of its own beats has told the peer, which has voted
  for another meanwhile.
- A break time that is a multiple of the vote time, (3, 2, 6): the primary looks for its
  majority in the very second in which peers that have gone are still counted. With a
  permanent cut and restarts there are two primaries within one interval.
- A break time longer than the 30 seconds silence lasts at most: who accepted one
  announcement may speak again while its winner still takes it for alive. (This one is an
  argument, not a run.)

In each case the beats of the two primaries meet and one of them yields, or the one without
a majority steps down at its next look: what `ConflictResolved` is about.

**Fairness.** `FairSpec` says that timers fire, messages are handled and rounds end
(weak fairness of `Protocol`); it asks nothing of clients, restarts or links.

## 5. The acknowledgement of writes: `SyncManager`

**Code.** A session that wrote a record and needs `w` copies (`ReplSize`) calls `sync`:
it checks role, live nodes and `_checkList`, and joins the heap `_syncList[w - 2]`. A
replication source session that hears what its node holds raises `_notifyList[].offset`,
sorts all offsets into a wake plan and goes through the lists with it (`_complete`,
`_wake`); the timer does the same. When nodes break or the role goes, `cut` fails the
waiters of the lists that have no hope. `_wait` leaves on a signal, a time-out or an
interrupt, and then takes its own entry away.

**State.** `members`, `alive`, `offset`, `checkList`, `syncList` are the manager's fields,
`session` and `event` an agent in `sync` and its event, `waker` the plan each source
session or the timer is carrying out, `cut` the loop of `cut`. `holds` is what the other
nodes really have, `resynced` who went through a full synchronisation: history, for the
properties.

**Actions.** `Sync`, `Answered`, `GiveUp`, `Leave` for a session; `Complete`, `Wake` (one
list), `HandleTimeout`, `NotifyFullSync` for sources and timer; `Break`, `Alive`,
`LosePrimary`, `GainPrimary`, `Cut` (one list), `AddNode`, `RemoveNode` for the CLUSTER EDU.
`Write` and `RollBackLog` are the environment: another primary wins only with a majority
that does not hold the rolled-back records. Plans may be stale when they are carried out,
and two may overtake each other; role and membership change only while nobody wakes,
because `info->mtx` is held.

`RemoveNode` is the whole of `updateNotifyList` for a node that left, `_clearSyncList`
(`ClearSyncList`) included: the lists from `end`, the number of live nodes left, are
emptied; a waiter is answered with success when all entries of the old `_notifyList` but the
last have its record, that of list `end` is moved to the one before, others have failed.
The order of `_notifyList` is that of arrival, so `last` is any member. The code lets a live node be taken out: the coordinator tells
the group before it stops the node (`coord/coordCommandNode.cpp:2309`).

**Abstractions.** A heap is a set. The data a node got by a full synchronisation count as
holding everything, as in the code (`_createWakePlan`). One node leaves at a time. What is
pushed to `_syncList[-1]` (the only live node leaves) is kept in `outside`; what that write
destroys is not modelled.

**Two specifications.** `Spec` takes any node out at any time. `AckedByEnough`,
`ListsAreWaiters` and `WaitersAnswered` are false of it: `sync_removed_acks` shows the first,
and the second fails because a waiter is moved to another list while `_wait` looks for its
entry in the old one only, so that the entry outlives the wait. They are checked, and the
first two proved, for `OrderlySpec`, in which only nodes that are down are taken out
(`OnlyDownRemoved`): an administrator can see to that, the code does not. `TypeOK` and
`NoHopelessWaiter` hold of `Spec`: `sync_acks` checks them for `OrderlySpec`, the theorems are
about `Spec`.

**Run `sync_acks`** (`FairSpec`: `OrderlySpec` and fairness). Two peers, one agent, two
records, one fault: the second record lets a late plan or a late signal of the first hit
it. `AckedByEnough` (an answer means copies), `ListsAreWaiters`, `NoHopelessWaiter`, and `WaitersAnswered` with
threads that go on (weak fairness of waking, cutting, the timer and of a signalled waiter;
reports, time-outs and interrupts are not fair). Several agents in one list are covered by
the theorems.

**Run `sync_removed_acks`** (`Spec`, no faults), live nodes are taken out: violation of
`AckedByEnough`, finding 3.

**Run `sync_failover`** (`OrderlySpec`), four peers: violation of `AckedByEnough`, finding 2.
In a group of up to three nodes it cannot happen (theorem `AcksAreHeldOfThree`). In one of
four it can only when a node that had reported is taken out of the group before the
rollback: its report has gone, but the check value made of it stays until the next wake.

## 6. Parallel replay: `ReplBucket`

**Code.** The destination session takes the records of the primary in order. A record of a
document in a collection with at most one unique index goes to the unit of the document
(`pushData`) and to the local log; agents attach units, replay their records and submit
them, in order by moving `_expectLSN`, out of order by `_completeMap`. Other records wait
for an empty bucket and are replayed by the session. When a replay fails, agents throw
away what is queued; the session waits, undoes `_completeMap` backwards through the same
units (`_doRollback`) and moves the log back to `_expectLSN`. Agents come when units wait
and leave after two idle minutes; the last one looks again for a unit that came meanwhile.

**State.** The fields of `_clsBucket` by name, `queue` and `attached` per unit, `agent` the
step of each sync job, `session` that of the destination session, `logEnd`, and `applied`,
the records whose effects are in the data.

**Actions.** A push is two steps (`BeginPush`, `EndPush`; `BeginUndo`, `EndUndo`) because
it looks at the agents before it queues the unit. `BeginUnit`, `PopData`, `Replay`,
`ReplayFails`, `Undo`, `Submit`, `EndUnit`, `TimeOut`, `LeaveJob`, `LastCheck` are the job;
`BeginSerial`, `ReplaySerial`, `OnTimer`, `Drained`, `AllPushed`, `Undone`, `Reset` the
session.

**Abstractions.** Hash and parallel decision are the constant `UnitOf`. What a replay
does to the data is membership in `applied`. `TimeOut` takes it that the agent which
worked last does not spend its two idle minutes before the session pushes what is to be
undone. Not modelled: `close` and `forceCompleteAll` (`NeverForced` shows that the latter
has nothing to do), memory limits, a session that is detached in the middle, and
`recordRow` failing after the push (`clsReplSession.cpp:981`), which leaves the bucket
ahead of the log. `_doRollback` unwinds the transaction table only for the records of
`_completeMap`; see the hazards.

**Run `bucket_replay`.** Five records on two documents with a serial one between, three
threads of which two may work, two failures: enough for a failure during the work on the
second document, out-of-order completion across it, an undo through both units and an
agent that leaves while a unit comes. `OrderedReplay`, `CompleteIsReplayed`,
`DataAsLogged`, `NeverForced`, and `AllReplayed` with threads that go on (time-outs and
consultations are not fair). Deadlock is not checked: everything rests when all is
replayed.

**Run `bucket_consult`** (`ResetWhileFailed`): violation of `DataAsLogged`, finding 4. The
same question before an election is asked through another door: the check of the bucket
before a candidacy (`clsVoteStatus.cpp:94`) and the reset when the role is gained
(`clsReplicateSet.cpp:281`) are apart; neither is modelled in `Vote`.

## 7. Unfinished transactions: `TransTable`

**Code.** `dpsTransCB` keeps, for every unfinished transaction, its last record
(`_TransMap`) and its first (`_idBeginLsnMap`). On a secondary every record received
updates both (`saveTransInfoFromLog`); on the primary sessions know their own last record
and only the first is kept. When records are taken back, `rollbackTransInfoFromLog` goes
the other way; at start-up the table is made from the log. A session rolls back by walking
its records (`rtnTransRollback`) and leaves the rest to the table if the role goes; a new
primary undoes what the table holds (`rtnTransRollbackAll`) before it lets anybody write.

**State.** `log`, `table`, `primary`, `doRollback`, `session` per transaction, `task` and
`posted` (the rollback task and its event queue); `turn`, the half of a change of role that
is still to come; `used`, `remote`, `fresh` describe the other primary whose log is received;
`late` is a history variable.

**Actions.** `Begin`; `StartWrite`, `EndWrite` and `StartCommit`, `EndCommit`, since the role
is checked before the record is logged; `StartRollback`, `RollbackLooks`, `RollbackStep`,
`RollbackLeaves`, one turn of `rtnTransRollback` in two; `TaskStarts`, `TaskTakes`, `TaskGoesOn`,
`TaskUndoes`, `TaskDone`, `TaskEnds` for `rtnTransRollbackAll`, once per event; `BeforeGain`,
`GainPrimary`, `LosePrimary`, `AfterLoss` for the halves of `onPrimaryChange`, with the role
itself between them; `OtherPrimary`, `Restart`; `TakeBack` and `Receive` for replication, which
waits for writers (`Synchronizes`) and for nobody else.

**Transactions held too long.** `termAllTrans` posts an event to the sessions and waits for
nobody, and the task looks at `_doRollback` only between records. So a record of a
transaction may be taken back or received, or the role regained, while a session or the task
here still holds an LSN of it; then two undo one transaction. Such a transaction is put into
`late` at that very step (`Receive`, `TakeBack`, `GainPrimary`, `TaskTakes`). What
comes of it: the session undoes records a second time, or puts a finished transaction back
into the map (`trans_late`, finding 5); a commit is written for records that were taken back,
where `rtnTransCommit` asserts a first record (`rtnTransaction.cpp:110`); and a run of the task
that was interrupted and ends after the role was regained lifts the new term's ban on writes
before anything was undone (`rtnTransaction.cpp:399`). The properties below are claimed of all
other transactions (`Sound`), with no assumption on how fast anybody is.

**Abstractions.** The data are left out: the properties are about which record is undone.
A failed undo, which is retried up to twenty times before the node restarts, and the
synchronisation of old log versions (`isNeedSyncTrans`) are left out. A crash leaves the log
whole. `RollbackLeaves` checks the role and calls `addTransInfo` in one step, a write checks the
role and becomes a writing EDU in one step, and the role and the half after it are one step when
it is gained. A session may begin its rollback whenever its transaction is open, which covers
the client, a failed operation and the event. A commit record of a late transaction is undone
like an operation (the code has nothing to undo there). The task keeps an iterator into the
map, which a received record may erase under it: undefined behaviour, for which the model
has only the value put back, or a crash.

**Run `trans_roles`.** Two transactions, three operations and commits, a log of three
records before a late one is undone again, three changes of the primary or restarts: a
transaction can begin here, be left, be half undone by another primary, be taken back and
be finished here, and be held across the loss and the return of the role. `TableFollowsLog`,
`BeginFollowsLog`, `UndoneOnce`, `OnlyOwnUnfinished`; and `RollbackEnds` with fairness of the
task, which is a thread of its own, and of the second half of a change of role, which the
thread that began it carries through. Deadlock is not checked in the runs of
this module: the bounds end the behaviour.

**Run `trans_late`**, the same bounds: violation of `RollsBackLast`.

## 8. Findings

1. `lock_query`: a find-and-modify whose wait for a record fails ("Failed to wait record
   lock") is not rolled back and keeps its lock-list entry; the next request of its
   transaction is answered from the entry, while another session has the record.
2. `sync_failover`: the offsets reported in an earlier term survive the loss of the role
   and the rollback of the log, and answer a write of the next term that no other node
   has. Nothing lowers `_notifyList[].offset` and `_checkList` when the role is gained.
3. `sync_removed_acks`: when a live node is taken out of the group, `_clearSyncList` counts
   its report among those of the nodes left, and answers a write with success that asked
   for more copies than there are.
4. `bucket_consult`: `_sendConsultReq` asks `isEmpty`, which is also true after a failed
   replay whose queue was thrown away, and resets the bucket: the failure is forgotten,
   and the log keeps records that were never applied.
5. `trans_late`: a session that comes to TRANS_STOP, or goes on with its rollback, after the
   next primary's undo of its transaction was received starts from its own LSN, of a record
   that does not stand any more: as a secondary it puts the finished transaction back into
   the map of unfinished ones, as primary again it undoes what another primary has undone.

## 9. Proofs

`TransLock_proofs`, for any sets of EDUs, spaces, collections and records and any
bounds (assumptions: the named ASSUMEs of `TransLock`).

- `TypeCorrect`. `TypeOK` is not inductive: a woken EDU reads its own lock-list entry.
  `TypeInv` adds `CallOK`: who waits has an entry of type X for the record it waits for,
  and the levels of a request belong to its target.
- `GrantsRecorded` and `GrantsCompatible` from `GrantInv` = `TypeInv`,
  `RunListInLockList`, `RunListAgrees` (compatibility in the code's bit test) and
  `ReleasedSoFar` (what `releaseAll` has left behind is granted no more). The heart is
  `CheckedCompatible`: when the walk of the run list stops early at a holder of the
  wanted type, the holders behind it are compatible with that one, hence with the
  request, because earlier grants were. `MatrixTable` relates bit test and matrix.
- `ListsGranted` and `RecordsExclusive`, without `query` calls, from `RecordInv`, which
  adds per EDU that record locks are asked for by X requests (`CallOnRecord`), that
  lock-list entries are granted (`GrantedList`), that a record's count and what the
  caller was told agree (`CountedRecords`), and that who was told so is in the run list
  (`HeldRecords`). One lemma per kind of step (`AgreeStep`, `ReleasePart`,
  `AdvancePart`, `FailPart`); `GainsOrFails` sums up what a level of a request does.

`TransLockQueue_proofs`, from the same assumptions and for all kinds of calls.

- `LinksAreWaiters` (`QueueIsWaiters`) from `QueueInv`: for each lock there is a sequence
  without repetitions that consists of the EDUs that wait (`Queue`), starts at `waitCB` and
  follows the `next` pointers to NULL (`Chain`). Only the pointers of EDUs in the sequence
  are spoken of, so a stale pointer of one who left is harmless until it joins again with a
  new entry. `NodeIs`: the walk over the links visits that sequence, hence is as short as
  the number of EDUs and meets `Relink`'s target once. `QueueJoins` and `QueueLeaves` say what
  a join at the tail and a departure from anywhere do to the sequence.
- `WakeupsKept` (`NoLostWakeup`), the third part of `QueueInv`. Whoever makes the lock free
  posts to the first waiter, and whoever leaves first place posts to its successor; any
  other step leaves the first waiter and the holders alone (`QuietBy`) or adds a holder, which
  cannot make an X request compatible. A waiter that goes back to wait has just seen that it
  could not have the lock.
- `ManagerIsTable` (`ImplementsTable`): the sequence of `QueueInv` is the abstract queue; every
  action is a grant, a release, a join, a departure, a served waiter or a stutter of
  `LockTable`. The grants come from `CheckedCompatible`.

`TransLockCalls_proofs`, from the same assumptions, without `query` calls.

- `CountsExact` (`RefCountsExact`), `ContainersKept` (`ContainersLocked`) and `DropsExclusive`
  (`DropExcludesRecords`) from `CountInv`, which adds to `RecordInv` that a request is on the
  way to its leaf and holds what is above it (`OnPath`, `Above`), that every count is the
  number of acquisitions through the lock plus what is in flight (`Counted`), and that what a
  caller has is locked with its containers (`HeldKept`). Acquisitions are a set of pairs
  (`Passing`), so a count is a cardinality and a sum over all locks needs no induction:
  `PassingMore` and `PassingLess` add and take away one pair. The three depend on each other:
  a release may drop a container only because its count says that nobody is below it.
- `InsertsGetLocks` (the action property `InsertGetsLock`) from `InsertInv`. The latch is
  exclusive (`LatchAlone`), locks are asked for with few types (`Shaped`), and from the test of
  the slot on nothing of another EDU that was asked for under the latch is in the way
  (`InsertSafe`); an S lock of the insert's own on the collection, which it could not upgrade,
  is ruled out by the test. That nobody waits for the slot is read off the first waiter, hence
  `QueueInv` is a part of `InsertInv`.

`Vote_proofs`, for any group of two or more nodes, any weights, logs, time-outs and
bounds (assumptions: the named ASSUMEs of `Vote`).

- `TypeCorrect` and `PrimaryNamesItself` (`PrimaryIsSelf`, the status against what
  sessions ask) from `Inv`, their conjunction: `Activate` needs the agreement to
  clear the right name, and messages need their types, in particular that the sender
  is a peer. Neither conjunct is kept by the parts of a handler. In the middle of
  `HandleReply` the vote just counted may complete the group, so the lemmas about
  `Activate` are stated for `Counting`, without the bound, and `ReplyInv` shows that the
  handler leaves the status in exactly that case. In the middle of `HandleBeat` the
  yielding primary already names its rival: `ActivateOther` asks for one direction of
  the agreement only. One lemma per handler, request and event.
- `WinnerHasLog` (`WinnerUpToDate`) from `WinInv`. A candidate's count is bounded by the peers
  whose answers are no longer on the way and whose logs are not ahead of its own
  (`Candidate`, `Granted`): votes are counted and voters are not, so the proof needs that at
  most one ballot or reply of the second round is on the way for each peer (`AskedOK`), and
  that answers to an announcement that is over find a node that cannot announce again in
  this interval (`Idle`). Hypotheses: nobody is forced to step up, every node is normal (an
  abnormal voter does not compare logs), a vote takes more than one second, and no log
  passes that of a node that is announcing (`LogsStay`: nobody else is primary and writes).
- `OnePrimaryAtMost` (`AtMostOnePrimary`). There are no terms and nothing is on disk, so the
  argument is about time alone. The model has no clock either: `OneInv` says that *there are*
  a number of rounds and a history for each node (`Histories`: when it last asked for votes
  and who accepted, when it won, when it last told each peer that it is primary) for which
  `Kept` holds. Its parts: who accepted an announcement is silent for as long as that
  announcement may win (`HushOK`); each counted vote is that of another voter in the history
  (`TallyOK`); a primary that takes a peer for alive has told it so within a known time, and
  the peer names it, keeps silent or has broken with it (`ToldOK`, `Heeds`); at its last look
  the primary had told a majority (`ReignOK`); and no voter of a candidate has voted for
  the primary or heard of it too recently (`ChallengeOK`). `NoOther` is the heart: the voters
  of a winner and those who heed a primary are two majorities, so they share a node, whose
  times contradict each other. One lemma for each way the state may move: `CalmCore` (nobody
  goes on in an election), `PromiseCore` and `AcceptCore` (voters), `VoteCore`,
  `AnnounceCore` and `WonCore` (candidates), `CheckCore` (the primary looks for its majority),
  `TickCore` and `RoundCore` (time). Hypotheses, beside no forced step-up:
  `TimesApart` (silence lasts one second longer than the break time, which is at least two
  longer than a vote; beats are no rarer than looks; no multiple of the vote time from
  `BreakTime` to `BreakTime + BeatInterval - 2`), links that do not come back, and step-downs
  that do not reach a node that has fallen silent since (`TimelyStepDowns`; silence would end
  early). The code has vote time 3 s, beats every 2 s, `sharingBreakTime` 5 to 300 s with
  default 7 s: 5 and 7 satisfy `TimesApart`; multiples of 3, and everything from 30 s on, do
  not.
- `SteppedDownYields` (`StepDownYields`) from `YieldInv`. The node that stepped down is
  refused by everyone who knows its shadow weight, which travels on beats. So `Aware`: each peer it can reach knows the weight, or a beat with it is on the way, or it is
  due before the node may vote (`Early`: it waits for no longer than since its last beat).
  `Abides` adds that it has no vote, that no acceptance from before is left when its timer
  fires, and that beats go over every link that is up. Hypotheses: equal logs, normal
  nodes and no forced step-up; beats no rarer than votes; links that do not come back (a
  ballot could precede the beat); and step-downs that do not find a secondary
  (`PromptStepDowns`): `CLS_VOTE_ACTIVE_STATUS` does nothing when the status stays, so the
  time-out of a node that lost its primary status while the reelection waited is not put off.

`SyncManager_proofs`, for any group, agents, source sessions and bounds (assumption: the
sets are finite).

`TypeCorrect` and `NobodyHopeless` are about `Spec`, the others about `OrderlySpec`, in which no
live node is taken out of the group: without that they are false (finding 3, and section 5).

- `TypeCorrect` from `TypeInv`, which adds that a cut is a pair of numbers. `PlanType`: a wake
  plan has an offset for each list, since the least offset is reached by all nodes and a
  bounded set of numbers has a greatest one (`MaxIn`, from the library's theorem about
  well-founded relations). `SubRange`: the list a session joins exists, and fewer nodes
  than are alive are waited for. `EndIsList`: the list `_clearSyncList` moves waiters from
  exists; the one before it may not, and such entries are in `outside`.
- `ListsHoldWaiters` (`ListsAreWaiters`) from `ListInv`. The property is not inductive: an
  answered session must be off its list, so `EntryOf` adds that who is on a list was not
  signalled. `EntryUnique` (an EDU has one entry over all lists) is what makes a signal
  keep the entries it does not take away (`SignalKeepsLists`, for wakes and cuts).
  `RemoveDownNode`: the lists `_clearSyncList` goes through are empty already when the node
  was down, by `HopeInv`.
- `NobodyHopeless` (`NoHopelessWaiter`) from `CutCovers`: also in the middle of a cut, a
  list without hope is empty or still ahead of the cut. Nobody joins a list without
  hope (`SubRange`), and when hope is lost every such list is in the range of the cut or
  beyond the group and empty already. A node taken out, alive or not, takes the hope
  of exactly the lists that `_clearSyncList` empties, and the list it fills has hope.
- `AcksAreHeld` and `AcksAreHeldOfThree` (`AckedByEnough`) from `AckInv`: not only answers but
  everything an answer can come from vouches for holders. Reported offsets are held
  (`OffsetsHeld`), the check value of a list (`ChecksHeld`) and every entry of a plan on its
  way (`PlansHeld`) are held by more nodes than the number of the list, however stale they
  are, and who was signalled is right (`RightlyOK`, which needs `ListInv` to know whose
  signal it is). All of these only ask that holders do not get fewer (`StillEnough`). So
  the first theorem, for groups of any size, has the hypothesis that no step takes away what
  another node holds (`NothingTakenBack`), which only `RollBackLog` can do: it names
  the one cause of finding 2. The second, for groups of up to three nodes, has none besides
  the size: there a majority without a record is everybody else (`SmallGroupKeeps`).

`ReplBucket_proofs`, for any documents, any log of parallel and serial records, any agents
and failures (assumption: `BucketAssumption`).

- `TypeCorrect` and `LastLeavesNothing` (`NeverForced`), without hypotheses, from `Inv`. The
  argument follows the records: every record of the log is before `expectLSN`, in
  `completeMap`, or `Held`, which is in a unit or with an agent. `Places` says where a record
  can be (the unit of its document, attached or queued once, in replay order), `Progress`
  that nothing past `expectLSN` is missing unless a failure threw it away, `Counting` that
  `total` and `all` are cardinalities of those sets, so that a decrement never goes below
  zero. Each action is first described by what it does to `Held` (`HeldPut`, `HeldTaken`,
  `HeldThrown`, `HeldDropped`).
- `ReplaysInOrder`, `CompleteReplayed`, `DataFollowLog` from `DataInv`: `applied` is what is
  before `expectLSN`, in `completeMap`, or replayed and not yet submitted (`AppliedIs`), and
  the record an agent has popped has nothing before it left to do (`Ready`). Hypothesis
  `ResetWhileFailed = FALSE`: with it true the statements are false (finding 4).

`TransTable_proofs`, for any transactions, numbers of records, changes of role and restarts
(assumptions: the named ASSUMEs of `TransTable`).

- `TakingBackInverts`: for every table and every record that continues it (`Fits`),
  `RollbackTransInfo` after `SaveTransInfo` gives the table back. One lemma per kind of
  record; a commit needs its `first`, an undo of the first record its `rel`, which is why
  the code writes them.
- `TypeCorrect`, `TableIsOfLog`, `BeginIsOfLog`, `NothingUndoneTwice`, `LeftoversUndone`, theorems of
  `Spec` without further hypotheses, from `Inv`: types, `Begun`, and for each transaction that
  is not late `Own`. All is said of one transaction, so that the disorder a late one brings
  into log and table does not spread. `LogOK`: every beginning of the log is `Good` for it (an
  undo names a record of it that no other undo names, what stands of it is a chain) and
  every record of it `Continues` the log before. All beginnings are needed because records
  are taken back from the end. `GoodAppend` and `GoodOthers`: a continuing record, and any
  record of another transaction, keeps that; `SavedIs` and `TakenBackIs` say what the two updates
  of the table do to its entries, and `SyncedIs` that the table made at start-up is the table
  of the log: an induction over the log, done with a least counterexample
  (`ReplayExists`). The rest of `Own` says who knows the last record of the transaction:
  its session (`Served`), the map if there is none (`Left`), the task (`Undone`), and never two
  of them; hence whoever writes writes a record that continues the log. `Cleaned`: while
  clients may write, the map has nothing of it.

Only model-checked: liveness (`WaitersServed`, `Elected`, `ConflictResolved`,
`WaitersAnswered`, `AllReplayed`, `RollbackEnds`), which is out of the prover's reach, and
the three properties of `Vote` that rest on time-outs or logs where the hypotheses of
their theorems do not hold but the bounds of the runs do: `AtMostOnePrimary` with times
2, 1, 3, and `WinnerUpToDate` with a node that restarts abnormal.

## 10. Mutants

Every property of a passing run has a mutant: an operator named after the definition
it replaces, with a plausible bug (a wake-up not passed on, a count forgotten, a
voter that does not keep silent, half for a majority). Under it TLC finds the property
violated with the run's own configuration.

## 11. Not modelled

Sequential transformation of data and I/O (planning, matching, SQL, REST, message
layouts, compression, drivers, tools) has no control that a model checker would add to
its tests. The ring buffers of the log, the consultation of replication sessions, full
synchronisation and split, the Deleting protocol of records, the catalogue's contexts
and the coordinator are worth modelling and planned. The modules are joined by their
interfaces rather than by one composed state: the role that `Vote` decides is an input
of `SyncManager` and `TransTable`, the offsets that `ReplBucket` reports as complete are
what `SyncManager` counts, and what `SyncManager` assumes of an election (the winner's
majority) is what `WinnerUpToDate` and `IsMajority` give. A product of the state spaces
is beyond TLC.
