----------------------------- MODULE ReplBucket -----------------------------
(***************************************************************************)
(* Parallel replay on a secondary node: _clsBucket and its sync jobs       *)
(* (cls/clsReplBucket.cpp), fed by the one replication destination session *)
(* (replayByBucket in cls/clsReplayer.cpp, cls/clsReplSession.cpp).        *)
(*                                                                         *)
(* The session takes the records of the primary's log in order, puts each  *)
(* into the unit of its document and writes it to the local log.  Agents   *)
(* take whole units, so the records of one document stay in order, and     *)
(* those of different documents do not; completeMap holds what was done    *)
(* out of order, expectLSN the place up to which everything is done, which *)
(* is what the node reports to the primary.  A record that cannot be run   *)
(* in parallel waits for the bucket to drain.  When a record fails, the    *)
(* agents throw away what is queued, and the session undoes what was done  *)
(* past the gap, through the same units, and moves the log back.           *)
(*                                                                         *)
(* A unit has a latch, the counters and their two events a read-write      *)
(* lock, expectLSN and completeMap a latch: one step each.  A push is two  *)
(* steps, since it counts the unit and looks at the agents before it       *)
(* queues the unit, while an agent that leaves looks at them the other way *)
(* round.  Records are numbered by their LSN.                              *)
(***************************************************************************)
EXTENDS Integers, Sequences, FiniteSets, FiniteSetsExt, SequencesExt

CONSTANTS Unit,        \* the units of the bucket
          Agent,       \* threads that may run a sync job
          MaxReplSync, \* maxReplSync: sync jobs at a time
          UnitOf,      \* the unit of each record, or Serial
          MaxFailures, \* bound: records whose replay fails
          ResetWhileFailed \* the session may consult between a failure and
                           \* its next timer

CONSTANT Serial        \* a record that is not replayed in parallel

MaxLsn == Len(UnitOf)
Record == 1 .. MaxLsn

ASSUME BucketAssumption ==
    /\ UnitOf \in Seq(Unit \cup {Serial}) /\ Serial \notin Unit
    /\ MaxReplSync \in Nat \ {0} /\ MaxFailures \in Nat
    /\ ResetWhileFailed \in BOOLEAN

VARIABLES
    status,    \* _status
    queue,     \* per unit: the records waiting
    attached,  \* the units an agent works on
    ntyQueue,  \* the units to be worked on
    total,     \* _totalCount: records in the units or with an agent
    all,       \* _allCount: records not yet counted into expectLSN
    empty,     \* _emptyEvent is signalled
    allEmpty,  \* _allEmptyEvent is signalled
    expect,    \* _expectLSN, 0 if invalid
    complete,  \* _completeMap: records replayed past a gap
    maxSubmit, \* _maxSubmitOffset
    agent,     \* per thread: what it does, with which unit and record
    session,   \* the destination session: [pc, rest], rest the records to undo
    logEnd,    \* the LSN after the last record in the local log
    applied,   \* the records whose effects are in the data
    failures   \* failed replays so far

vars == <<status, queue, attached, ntyQueue, total, all, empty, allEmpty,
          expect, complete, maxSubmit, agent, session, logEnd, applied,
          failures>>

counters == <<total, all, empty, allEmpty>>
progress == <<expect, complete, maxSubmit>>

None == 0
InQueue == Range(ntyQueue)
CurAgents == {a \in Agent : agent[a].pc \notin {"none", "checking"}}
IdleAgents == {a \in Agent : agent[a].pc \in {"waiting", "leaving"}}
\* _idleUnitCount: queued units, and the one a push has already counted.
IdleUnits == Len(ntyQueue) + (IF session.pc \in {"push", "undo"} THEN 1 ELSE 0)

At(pc) == session' = [session EXCEPT !.pc = pc]
Free == [pc |-> "none"]
Waiting == [pc |-> "waiting"]

\* Mutant: records are undone from the first one on.
NextUndoFirst == Min(session.rest)

\* Records are undone from the last one to the first.
NextUndo == Max(session.rest)

\* The latch of the unit is held by a push that is under way.
PushingTo(u) ==
    \/ session.pc = "push" /\ UnitOf[logEnd] = u
    \/ session.pc = "undo" /\ UnitOf[NextUndo] = u

----------------------------------------------------------------------------
(* _pushData, which the session runs for a new record and for one to undo. *)

\* The unit is counted; a job is started if there is none, or if more units
\* wait than agents and the limit allows.  The unit is u.
NeedAgent(u) ==
    \/ CurAgents = {}
    \/ /\ u \notin attached
       /\ Cardinality(IdleAgents) < Len(ntyQueue) + 1
       /\ Cardinality(CurAgents) < MaxReplSync

StartAgent(needed) ==
    IF needed THEN \E a \in Agent : agent[a] = Free
                        /\ agent' = [agent EXCEPT ![a] = Waiting]
    ELSE UNCHANGED agent

\* The record r goes into its unit, is counted, and the unit is queued unless
\* somebody has it.
PutRecord(r, new) ==
    LET u == UnitOf[r]
    IN  /\ queue' = [queue EXCEPT ![u] = Append(@, r)]
        /\ total' = total + 1 /\ empty' = FALSE
        /\ all' = (IF new THEN all + 1 ELSE all)
        /\ allEmpty' = (allEmpty /\ ~new)
        /\ ntyQueue' = IF u \in attached \cup InQueue THEN ntyQueue
                       ELSE Append(ntyQueue, u)

----------------------------------------------------------------------------
(* The destination session.                                                *)

Dispatch == session.pc = "idle" /\ logEnd <= MaxLsn

\* replayByBucket: a record of a document, in a collection with one unique
\* index at most, is replayed in parallel.
Parallel(r) == UnitOf[r] # Serial

\* replayByBucket and pushData, up to the start of a job.
BeginPush ==
    /\ Dispatch /\ Parallel(logEnd)
    /\ expect' = IF expect = None THEN logEnd ELSE expect
    /\ \/ /\ status = "normal"
          /\ StartAgent(NeedAgent(UnitOf[logEnd]))
          /\ At("push")
       \/ /\ status # "normal" /\ At("drain") /\ UNCHANGED agent
    /\ UNCHANGED <<status, queue, attached, ntyQueue, counters, complete,
                   maxSubmit, logEnd, applied, failures>>

\* The rest of the push, and recordRow: the record is in the log.
EndPush ==
    /\ session.pc = "push"
    /\ PutRecord(logEnd, TRUE)
    /\ logEnd' = logEnd + 1
    /\ At("idle")
    /\ UNCHANGED <<status, attached, progress, agent, applied, failures>>

\* waitEmptyWithCheck before a record that is not replayed in parallel.
BeginSerial ==
    /\ Dispatch /\ ~Parallel(logEnd) /\ empty
    /\ At(IF status = "wait" THEN "drain" ELSE "serial")
    /\ UNCHANGED <<status, queue, attached, ntyQueue, counters, progress,
                   agent, logEnd, applied, failures>>

\* The session replays it itself.  If that fails, or expectLSN is elsewhere,
\* the record is asked for again.
ReplaySerial ==
    /\ session.pc = "serial" /\ allEmpty
    /\ \/ /\ expect \in {None, logEnd}
          /\ applied' = applied \cup {logEnd}
          /\ expect' = IF expect = None THEN None ELSE logEnd + 1
          /\ logEnd' = logEnd + 1
          /\ At("idle") /\ UNCHANGED failures
       \/ /\ expect \in {None, logEnd} /\ failures < MaxFailures
          /\ failures' = failures + 1
          /\ At("drain") /\ UNCHANGED <<applied, expect, logEnd>>
       \/ /\ expect \notin {None, logEnd}
          /\ At("drain") /\ UNCHANGED <<applied, expect, logEnd, failures>>
    /\ UNCHANGED <<status, queue, attached, ntyQueue, counters, complete,
                   maxSubmit, agent>>

\* onTimer finds that a replay has failed.
OnTimer ==
    /\ session.pc = "idle" /\ status = "wait"
    /\ At("drain")
    /\ UNCHANGED <<status, queue, attached, ntyQueue, counters, progress,
                   agent, logEnd, applied, failures>>

\* waitEmptyAndRollback, after its first wait, and the start of _doRollback.
Drained ==
    /\ session.pc = "drain" /\ empty
    /\ \/ /\ status = "wait"
          /\ status' = "rollback"
          /\ session' = [pc |-> "undoNext", rest |-> complete]
       \/ /\ status # "wait" /\ allEmpty
          /\ At("idle") /\ UNCHANGED status
    /\ UNCHANGED <<queue, attached, ntyQueue, counters, progress, agent,
                   logEnd, applied, failures>>

\* _doRollback pushes the records of completeMap, the last one first.
BeginUndo ==
    /\ session.pc = "undoNext" /\ session.rest # {}
    /\ StartAgent(NeedAgent(UnitOf[NextUndo]))
    /\ At("undo")
    /\ UNCHANGED <<status, queue, attached, ntyQueue, counters, progress,
                   logEnd, applied, failures>>

EndUndo ==
    /\ session.pc = "undo"
    /\ PutRecord(NextUndo, FALSE)
    /\ session' = [pc |-> "undoNext",
                   rest |-> session.rest \ {NextUndo}]
    /\ UNCHANGED <<status, attached, progress, agent, logEnd, applied,
                   failures>>

\* Mutant: completeMap is not cleared.
AllPushedKeep ==
    /\ session.pc = "undoNext" /\ session.rest = {}
    /\ UNCHANGED complete
    /\ At("undone")
    /\ UNCHANGED <<status, queue, attached, ntyQueue, counters, expect,
                   maxSubmit, agent, logEnd, applied, failures>>

AllPushed ==
    /\ session.pc = "undoNext" /\ session.rest = {}
    /\ complete' = {}
    /\ At("undone")
    /\ UNCHANGED <<status, queue, attached, ntyQueue, counters, expect,
                   maxSubmit, agent, logEnd, applied, failures>>

\* Mutant: the log is left where it is.
UndoneNoMove ==
    /\ session.pc = "undone" /\ empty
    /\ status' = "normal"
    /\ UNCHANGED logEnd
    /\ At("idle")
    /\ UNCHANGED <<queue, attached, ntyQueue, counters, progress, agent,
                   applied, failures>>

\* The rest of waitEmptyAndRollback; the log is moved back to completeLSN.
Undone ==
    /\ session.pc = "undone" /\ empty
    /\ status' = "normal"
    /\ logEnd' = expect
    /\ At("idle")
    /\ UNCHANGED <<queue, attached, ntyQueue, counters, progress, agent,
                   applied, failures>>

\* _sendConsultReq: a session whose source cannot serve it finds the bucket
\* empty and resets it, before it asks where its log and the others' part.
Reset ==
    /\ session.pc = "idle" /\ all = 0
    /\ ResetWhileFailed \/ status = "normal"
    /\ status' = "normal"
    /\ expect' = None
    /\ UNCHANGED <<queue, attached, ntyQueue, counters, complete, maxSubmit,
                   agent, session, logEnd, applied, failures>>

----------------------------------------------------------------------------
(* Sync jobs.                                                              *)

\* beginUnit
BeginUnit(a) ==
    /\ agent[a] = Waiting /\ ntyQueue # <<>>
    /\ LET u == Head(ntyQueue)
       IN  /\ ~PushingTo(u)
           /\ ntyQueue' = Tail(ntyQueue)
           /\ attached' = attached \cup {u}
           /\ agent' = [agent EXCEPT ![a] = [pc |-> "pop", unit |-> u]]
    /\ UNCHANGED <<status, queue, counters, progress, session, logEnd,
                   applied, failures>>

\* popData: after a failure, everything in the unit is thrown away.
PopData(a) ==
    /\ agent[a].pc = "pop"
    /\ LET u == agent[a].unit
       IN  /\ ~PushingTo(u)
           /\ \/ /\ queue[u] = <<>> \/ status = "wait"
                 /\ total' = total - Len(queue[u])
                 /\ all' = all - Len(queue[u])
                 /\ queue' = [queue EXCEPT ![u] = <<>>]
                 /\ agent' = [agent EXCEPT ![a] = [pc |-> "end", unit |-> u]]
              \/ /\ queue[u] # <<>> /\ status # "wait"
                 /\ queue' = [queue EXCEPT ![u] = Tail(@)]
                 /\ agent' = [agent EXCEPT ![a] =
                        [pc |-> "replay", unit |-> u, rec |-> Head(queue[u])]]
                 /\ UNCHANGED <<total, all>>
    /\ UNCHANGED <<status, attached, ntyQueue, empty, allEmpty, progress,
                   session, logEnd, applied, failures>>

\* submitData, where the replay succeeds.
Replay(a) ==
    /\ agent[a].pc = "replay" /\ status # "rollback"
    /\ applied' = applied \cup {agent[a].rec}
    /\ agent' = [agent EXCEPT ![a] = [@ EXCEPT !.pc = "submit"]]
    /\ UNCHANGED <<status, queue, attached, ntyQueue, counters, progress,
                   session, logEnd, failures>>

\* The agent takes the next record of its unit, or leaves the unit because
\* others wait: after a record out of order at once if it was the furthest, else
\* after a few, and after a failed or undone one as its last result was.
GoOn(a) == agent' = [agent EXCEPT ![a] = [pc |-> "pop", unit |-> @.unit]]
GiveWay(a) ==
    /\ IdleUnits > 1
    /\ agent' = [agent EXCEPT ![a] = [pc |-> "end", unit |-> @.unit]]

\* Mutant: the record is submitted all the same.
ReplayFailsSubmits(a) ==
    /\ agent[a].pc = "replay" /\ status # "rollback"
    /\ failures < MaxFailures
    /\ failures' = failures + 1
    /\ status' = "wait"
    /\ agent' = [agent EXCEPT ![a] = [@ EXCEPT !.pc = "submit"]]
    /\ UNCHANGED <<queue, attached, ntyQueue, counters, progress, session,
                   logEnd, applied>>

\* submitData, where the replay fails.
ReplayFails(a) ==
    /\ agent[a].pc = "replay" /\ status # "rollback"
    /\ failures < MaxFailures
    /\ failures' = failures + 1
    /\ status' = "wait"
    /\ all' = all - 1 /\ total' = total - 1
    /\ GoOn(a) \/ GiveWay(a)
    /\ UNCHANGED <<queue, attached, ntyQueue, empty, allEmpty, progress,
                   session, logEnd, applied>>

\* submitData, where the record is undone.
Undo(a) ==
    /\ agent[a].pc = "replay" /\ status = "rollback"
    /\ applied' = applied \ {agent[a].rec}
    /\ all' = all - 1 /\ total' = total - 1
    /\ GoOn(a) \/ GiveWay(a)
    /\ UNCHANGED <<status, queue, attached, ntyQueue, empty, allEmpty,
                   progress, session, logEnd, failures>>

\* The first place after r that is not in completeMap.
NextGap(r) == Min({n \in r + 1 .. MaxLsn + 1 : n \notin complete})

\* The record is the one that everything waits for.
InOrder(r) == r <= expect

\* _submitResult and the end of submitData.
Submit(a) ==
    /\ agent[a].pc = "submit"
    /\ LET r == agent[a].rec
       IN  \/ /\ InOrder(r)
              /\ expect' = IF r = expect THEN NextGap(r) ELSE expect
              /\ complete' = {n \in complete : n > expect'}
              /\ all' = all - 1 - Cardinality(complete \ complete')
              /\ GoOn(a)
              /\ UNCHANGED maxSubmit
           \/ /\ ~InOrder(r)
              /\ complete' = complete \cup {r}
              /\ maxSubmit' = Max({r, maxSubmit})
              /\ \/ GiveWay(a)
                 \/ ~(IdleUnits > 1 /\ r > maxSubmit) /\ GoOn(a)
              /\ UNCHANGED <<expect, all>>
    /\ total' = total - 1
    /\ UNCHANGED <<status, queue, attached, ntyQueue, empty, allEmpty,
                   session, logEnd, applied, failures>>

\* endUnit: the unit is given back, and whoever waits for an empty bucket is
\* told if it is empty.
EndUnit(a) ==
    /\ agent[a].pc = "end"
    /\ LET u == agent[a].unit
       IN  /\ ~PushingTo(u)
           /\ attached' = attached \ {u}
           /\ ntyQueue' = IF queue[u] = <<>> THEN ntyQueue
                          ELSE Append(ntyQueue, u)
    /\ empty' = (empty \/ total = 0)
    /\ allEmpty' = (allEmpty \/ all = 0)
    /\ agent' = [agent EXCEPT ![a] = Waiting]
    /\ UNCHANGED <<status, queue, total, all, progress, session, logEnd,
                   applied, failures>>

\* Mutant: the agents leave while a failure waits too.
TimeOutAnyway(a) ==
    /\ agent[a] = Waiting /\ ntyQueue = <<>>
    /\ agent' = [agent EXCEPT ![a] = [pc |-> "leaving"]]
    /\ UNCHANGED <<status, queue, attached, ntyQueue, counters, progress,
                   session, logEnd, applied, failures>>

\* beginUnit has waited for its time in vain; not while a failure waits to be
\* undone.  The agent that worked last still has its time of minutes when the
\* session pushes what is to be undone.
TimeOut(a) ==
    /\ agent[a] = Waiting /\ ntyQueue = <<>>
    /\ \/ status = "normal"
       \/ status = "rollback"
          /\ \E b \in CurAgents \ {a} : agent[b].pc # "leaving"
    /\ agent' = [agent EXCEPT ![a] = [pc |-> "leaving"]]
    /\ UNCHANGED <<status, queue, attached, ntyQueue, counters, progress,
                   session, logEnd, applied, failures>>

\* The job takes itself off the agents ...
LeaveJob(a) ==
    /\ agent[a].pc = "leaving"
    /\ agent' = [agent EXCEPT ![a] = [pc |-> "checking"]]
    /\ UNCHANGED <<status, queue, attached, ntyQueue, counters, progress,
                   session, logEnd, applied, failures>>

\* Mutant: the last agent does not look back.
LastCheckLeaves(a) ==
    /\ agent[a].pc = "checking"
    /\ agent' = [agent EXCEPT ![a] = Free]
    /\ UNCHANGED <<status, queue, attached, ntyQueue, counters, progress,
                   session, logEnd, applied, failures>>

\* ... and starts another one, if it was the last and a unit waits.
LastCheck(a) ==
    /\ agent[a].pc = "checking"
    /\ agent' = [agent EXCEPT ![a] =
                  IF CurAgents = {} /\ IdleUnits > 0 THEN Waiting ELSE Free]
    /\ UNCHANGED <<status, queue, attached, ntyQueue, counters, progress,
                   session, logEnd, applied, failures>>

----------------------------------------------------------------------------
Init ==
    /\ status = "normal"
    /\ queue = [u \in Unit |-> <<>>]
    /\ attached = {} /\ ntyQueue = <<>>
    /\ total = 0 /\ all = 0 /\ empty = TRUE /\ allEmpty = TRUE
    /\ expect = None /\ complete = {} /\ maxSubmit = 0
    /\ agent = [a \in Agent |-> Free]
    /\ session = [pc |-> "idle", rest |-> {}]
    /\ logEnd = 1
    /\ applied = {}
    /\ failures = 0

SessionStep ==
    \/ BeginPush \/ EndPush \/ BeginSerial \/ ReplaySerial \/ OnTimer
    \/ Drained \/ BeginUndo \/ EndUndo \/ AllPushed \/ Undone

AgentStep(a) ==
    \/ BeginUnit(a) \/ PopData(a) \/ Replay(a) \/ ReplayFails(a) \/ Undo(a)
    \/ Submit(a) \/ EndUnit(a) \/ LeaveJob(a) \/ LastCheck(a)

Next == SessionStep \/ Reset \/ \E a \in Agent : AgentStep(a) \/ TimeOut(a)

Spec == Init /\ [][Next]_vars

\* Threads go on as long as they can; time-outs and elections need not come.
FairSpec ==
    Spec /\ WF_vars(SessionStep) /\ \A a \in Agent : WF_vars(AgentStep(a))

----------------------------------------------------------------------------
(* Properties.                                                             *)

\* Types and ranges; the counters _totalCount and _allCount never wrap below
\* zero.
TypeOK ==
    /\ status \in {"normal", "wait", "rollback"}
    /\ queue \in [Unit -> Seq(Record)]
    /\ attached \subseteq Unit /\ ntyQueue \in Seq(Unit)
    /\ total \in Nat /\ all \in Nat
    /\ empty \in BOOLEAN /\ allEmpty \in BOOLEAN
    /\ expect \in 0 .. MaxLsn + 1 /\ complete \subseteq Record
    /\ maxSubmit \in 0 .. MaxLsn
    /\ agent \in [Agent -> [pc : {"none", "waiting", "leaving", "checking"}]
                 \cup [pc : {"pop", "end"}, unit : Unit]
                 \cup [pc : {"replay", "submit"}, unit : Unit, rec : Record]]
    /\ session \in [pc : {"idle", "push", "serial", "drain", "undoNext",
                          "undo", "undone"}, rest : SUBSET Record]
    /\ logEnd \in 1 .. MaxLsn + 1
    /\ applied \subseteq Record
    /\ failures \in 0 .. MaxFailures

\* A record depends on those before it of the same document, and a record that
\* is not replayed in parallel depends on all and all on it.
DependsOn(r, n) ==
    n < r /\ (UnitOf[n] = UnitOf[r] \/ Serial \in {UnitOf[n], UnitOf[r]})

\* At every moment, undoing included, a record that is applied has all it
\* depends on applied: none is replayed before, or undone after, one it
\* depends on, although units are worked on by several agents.
OrderedReplay ==
    \A r \in applied : \A n \in Record : DependsOn(r, n) => n \in applied

\* What the node reports to the primary as complete has been replayed: every
\* record before expectLSN, whatever was done out of order, failed or undone.
CompleteIsReplayed ==
    expect # None => 1 .. expect - 1 \subseteq applied

\* Whenever the session has its hands free, no failure waits and the bucket
\* has drained, the data are exactly what the local log says.
DataAsLogged ==
    session.pc = "idle" /\ status = "normal" /\ all = 0
        => applied = 1 .. logEnd - 1

\* An agent that finds itself the last, and no unit waiting, leaves an empty
\* bucket behind: nothing has to be forced ("Repl bucket info has error").
NeverForced ==
    \A a \in Agent : agent[a].pc = "checking" /\ CurAgents = {}
                         /\ IdleUnits = 0 => all = 0

\* Everything is replayed in the end, as long as failures do not go on for
\* ever: no unit is left without an agent, nobody waits for an event that was
\* given, and what was thrown away comes again.
AllReplayed == <>[](logEnd = MaxLsn + 1 /\ applied = Record)
=============================================================================
