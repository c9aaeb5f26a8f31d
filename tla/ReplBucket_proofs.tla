------------------------- MODULE ReplBucket_proofs --------------------------
(***************************************************************************)
(* Theorems about ReplBucket, for any documents, any records and any       *)
(* number of agents and failures: the counters are exact, and records are  *)
(* replayed and undone in order, reported when they are done, and nothing  *)
(* is left behind.                                                         *)
(*                                                                         *)
(* The argument follows the records: each record in the log is counted     *)
(* into expectLSN, in completeMap, or held, which is in a unit or with an  *)
(* agent.  The actions are first described by what they do to the set of   *)
(* held records; the invariants about the counters, the progress and the   *)
(* data then speak of sets of records only.                                *)
(***************************************************************************)
EXTENDS ReplBucket, FiniteSetTheorems, SequenceTheorems,
        SetBounds, TLAPS

WithUnit == {"pop", "end", "replay", "submit"}
WithRec == {"replay", "submit"}
Undoing == status = "rollback"

\* What is with the agents, replayed but not yet submitted, and in the units.
Carried ==
    {r \in Record : \E a \in Agent : agent[a].pc \in WithRec /\ agent[a].rec = r}
Submitted ==
    {r \in Record : \E a \in Agent : agent[a].pc = "submit" /\ agent[a].rec = r}
Queued ==
    {r \in Record : \E u \in Unit : \E i \in 1 .. Len(queue[u]) :
                        queue[u][i] = r}
Held == Carried \cup Queued

\* What is done, or still to be undone, past expectLSN.
Owed == IF Undoing THEN session.rest ELSE complete

AgentState ==
    [pc : {"none", "waiting", "leaving", "checking"}]
        \cup [pc : {"pop", "end"}, unit : Unit]
        \cup [pc : {"replay", "submit"}, unit : Unit, rec : Record]

SessionPc ==
    {"idle", "push", "serial", "drain", "undoNext", "undo", "undone"}

\* The types, but for the counters.
Typed ==
    /\ status \in {"normal", "wait", "rollback"}
    /\ queue \in [Unit -> Seq(Record)]
    /\ attached \subseteq Unit /\ ntyQueue \in Seq(Unit)
    /\ empty \in BOOLEAN /\ allEmpty \in BOOLEAN
    /\ expect \in 0 .. MaxLsn + 1 /\ complete \subseteq Record
    /\ maxSubmit \in 0 .. MaxLsn
    /\ agent \in [Agent -> AgentState]
    /\ session \in [pc : SessionPc, rest : SUBSET Record]
    /\ logEnd \in 1 .. MaxLsn + 1
    /\ applied \subseteq Record
    /\ failures \in 0 .. MaxFailures

\* What the session's place says about the rest.
Phase ==
    /\ Undoing <=> session.pc \in {"undoNext", "undo", "undone"}
    /\ session.pc \in {"push", "serial"} => logEnd <= MaxLsn
    /\ session.pc = "push" => Parallel(logEnd) /\ expect # None
    /\ session.pc = "serial" => ~Parallel(logEnd)
    /\ session.pc \notin {"undoNext", "undo"} => session.rest = {}
    /\ session.pc = "undo" => session.rest # {}
    /\ session.pc = "undone" => complete = {}
    /\ status # "normal" => expect # None

\* A record is in the unit of its document or with the agent of that unit; a
\* unit has one agent at most, or is queued once, and is one of the two if it
\* has records.
RecUnits ==
    /\ \A u \in Unit : \A i \in 1 .. Len(queue[u]) : UnitOf[queue[u][i]] = u
    /\ \A a \in Agent : agent[a].pc \in WithRec
                           => UnitOf[agent[a].rec] = agent[a].unit
OneAgent ==
    /\ \A a, b \in Agent :
          a # b /\ agent[a].pc \in WithUnit /\ agent[b].pc \in WithUnit
              => agent[a].unit # agent[b].unit
    /\ \A u \in Unit : u \in attached
          <=> \E a \in Agent : agent[a].pc \in WithUnit /\ agent[a].unit = u
QueuedOnce ==
    /\ \A i, j \in 1 .. Len(ntyQueue) : i # j => ntyQueue[i] # ntyQueue[j]
    /\ \A i \in 1 .. Len(ntyQueue) : ntyQueue[i] \notin attached
NotForgotten ==
    \A u \in Unit : queue[u] # <<>> =>
        u \in attached \/ \E i \in 1 .. Len(ntyQueue) : ntyQueue[i] = u

\* Units are replayed forwards and undone backwards, and nothing is submitted
\* while undoing.
Before(m, n) == IF Undoing THEN n < m ELSE m < n
Order ==
    /\ \A u \in Unit : \A i, j \in 1 .. Len(queue[u]) :
          i < j => Before(queue[u][i], queue[u][j])
    /\ \A a \in Agent : agent[a].pc \in WithRec =>
          \A i \in 1 .. Len(queue[agent[a].unit]) :
              Before(agent[a].rec, queue[agent[a].unit][i])
    /\ Undoing => \A a \in Agent : agent[a].pc # "submit"

\* The agents stay as long as a failure has to be dealt with.
Alive ==
    status # "normal" =>
        \E a \in Agent : agent[a].pc \notin {"none", "checking", "leaving"}

Places == RecUnits /\ OneAgent /\ QueuedOnce /\ NotForgotten /\ Order /\ Alive

\* Every record of the log past expectLSN is held or in completeMap, unless a
\* failure has thrown it away.
Progress ==
    /\ expect <= logEnd
    /\ \A r \in Held \cup complete \cup session.rest :
          r < logEnd /\ Parallel(r)
    /\ Held \cap Owed = {}
    /\ \A r \in Held : r >= expect /\ (Undoing => r > expect)
    /\ \A r \in complete \cup session.rest : r > expect
    /\ \A r \in session.rest : \A h \in Held : r < h
    /\ expect = None => Held = {} /\ complete = {}
    /\ status = "normal" /\ expect # None =>
          \A n \in Record : expect <= n /\ n < logEnd
                               => n \in complete \cup Held

\* The counters count, and the events say that there is nothing.
Counting ==
    /\ total = Cardinality(Held)
    /\ all = Cardinality(Held \cup Owed)
    /\ empty => total = 0
    /\ allEmpty => all = 0

Inv == Typed /\ Phase /\ Places /\ Progress /\ Counting

----------------------------------------------------------------------------
(* Records, numbers and sets.                                              *)

LEMMA Records ==
    /\ MaxLsn \in Nat
    /\ Record = 1 .. MaxLsn
    /\ \A r \in Record : UnitOf[r] \in Unit \cup {Serial}
    /\ \A r \in Record : Parallel(r) <=> UnitOf[r] \in Unit
  <1>1. UnitOf \in Seq(Unit \cup {Serial}) /\ Serial \notin Unit
    BY BucketAssumption
  <1>2. MaxLsn \in Nat /\ Record = 1 .. MaxLsn
    BY <1>1 DEF MaxLsn, Record
  <1>3. \A r \in Record : UnitOf[r] \in Unit \cup {Serial}
    BY <1>1, <1>2 DEF MaxLsn
  <1> QED BY <1>1, <1>2, <1>3 DEF Parallel

\* The record to be undone next is the greatest of the rest (_doRollback).
LEMMA NextUndoIn ==
    ASSUME Typed, session.rest # {}
    PROVE  NextUndo \in session.rest /\ \A y \in session.rest : NextUndo >= y
  <1>1. session.rest \in SUBSET (0 .. MaxLsn)
    BY Records DEF Typed
  <1> QED BY <1>1, Records, MaxIn DEF NextUndo

\* The new expectLSN is past r and not in completeMap, all between are.
LEMMA NextGapIn ==
    ASSUME NEW r \in Record, complete \subseteq Record
    PROVE  /\ NextGap(r) \in r + 1 .. MaxLsn + 1
           /\ NextGap(r) \notin complete
           /\ \A n \in r + 1 .. MaxLsn + 1 : n < NextGap(r) => n \in complete
  <1> DEFINE S == {n \in r + 1 .. MaxLsn + 1 : n \notin complete}
  <1>1. MaxLsn + 1 \in S
    BY Records
  <1>2. S \in SUBSET Nat
    BY Records
  <1>3. \A n \in r + 1 .. MaxLsn + 1 : n \notin S => n \in complete
    OBVIOUS
  <1>4. \A n \in S : n \in r + 1 .. MaxLsn + 1 /\ n \notin complete
    OBVIOUS
  <1>5. NextGap(r) = Min(S)
    BY DEF NextGap
  <1> HIDE DEF S
  <1>6. Min(S) \in S /\ \A n \in Int : n < Min(S) => n \notin S
    BY <1>1, <1>2, MinIn
  <1>7. \A n \in r + 1 .. MaxLsn + 1 : n < Min(S) => n \notin S
    BY <1>6, Records
  <1> QED BY <1>3, <1>4, <1>5, <1>6, <1>7

----------------------------------------------------------------------------
(* What the actions do to the agents.                                      *)

LEMMA AgentFacts ==
    ASSUME Typed, NEW a \in Agent
    PROVE  /\ agent[a].pc \in {"none", "waiting", "leaving", "checking"}
                                 \cup WithUnit
           /\ agent[a].pc \in WithUnit => agent[a].unit \in Unit
           /\ agent[a].pc \in WithRec
                 => /\ agent[a].rec \in Record
                    /\ agent[a] = [pc |-> agent[a].pc, unit |-> agent[a].unit,
                                   rec |-> agent[a].rec]
  <1>1. agent[a] \in AgentState
    BY DEF Typed
  <1>2. CASE agent[a] \in [pc : {"none", "waiting", "leaving", "checking"}]
    BY <1>2 DEF WithUnit, WithRec
  <1>3. CASE agent[a] \in [pc : {"pop", "end"}, unit : Unit]
    BY <1>3 DEF WithUnit, WithRec
  <1>4. CASE agent[a] \in [pc : {"replay", "submit"}, unit : Unit,
                           rec : Record]
    BY <1>4 DEF WithUnit, WithRec
  <1> QED BY <1>1, <1>2, <1>3, <1>4 DEF AgentState

\* One agent goes to the state s.
Goes(a, s) ==
    /\ agent' \in [Agent -> AgentState]
    /\ agent'[a] = s
    /\ \A b \in Agent : b # a => agent'[b] = agent[b]

LEMMA GoesIs ==
    ASSUME Typed, NEW a \in Agent, NEW s \in AgentState,
           agent' = [agent EXCEPT ![a] = s]
    PROVE  Goes(a, s)
  BY DEF Typed, Goes

LEMMA States ==
    /\ \A p \in {"none", "waiting", "leaving", "checking"} :
          [pc |-> p] \in AgentState
    /\ \A u \in Unit : \A p \in {"pop", "end"} :
          [pc |-> p, unit |-> u] \in AgentState
    /\ \A u \in Unit, r \in Record : \A p \in WithRec :
          [pc |-> p, unit |-> u, rec |-> r] \in AgentState
  BY DEF AgentState, WithRec

\* A job may have been started.
Started ==
    \/ \E a \in Agent : agent[a] = Free
                            /\ agent' = [agent EXCEPT ![a] = Waiting]
    \/ UNCHANGED agent

LEMMA StartIs ==
    /\ BeginPush => Started
    /\ BeginUndo => Started
  <1>1. BeginPush => Started
    BY Zenon DEF BeginPush, StartAgent, Started
  <1>2. BeginUndo => Started
    BY Zenon DEF BeginUndo, StartAgent, Started
  <1> QED BY <1>1, <1>2

LEMMA StartEffect ==
    ASSUME Typed, Started
    PROVE  /\ agent' \in [Agent -> AgentState]
           /\ \A b \in Agent : agent'[b] = agent[b]
                  \/ (agent[b].pc = "none" /\ agent'[b].pc = "waiting")
  <1>1. CASE UNCHANGED agent
    BY <1>1 DEF Typed
  <1>2. CASE \E a \in Agent : agent[a] = Free
                            /\ agent' = [agent EXCEPT ![a] = Waiting]
    <2>1. PICK a \in Agent : agent[a] = Free
                        /\ agent' = [agent EXCEPT ![a] = Waiting]
      BY <1>2
    <2>2. Goes(a, Waiting)
      BY <2>1, GoesIs, States DEF Waiting
    <2> QED BY <2>1, <2>2 DEF Goes, Free, Waiting
  <1> QED BY <1>1, <1>2 DEF Started

LEMMA BeginUnitGoes ==
    ASSUME Typed, NEW a \in Agent, BeginUnit(a)
    PROVE  /\ agent[a].pc = "waiting"
           /\ ntyQueue # <<>> /\ Head(ntyQueue) \in Unit
           /\ Goes(a, [pc |-> "pop", unit |-> Head(ntyQueue)])
  <1>1. ntyQueue # <<>> /\ Head(ntyQueue) \in Unit
    BY HeadTailProperties DEF BeginUnit, Typed
  <1>2. agent' = [agent EXCEPT ![a] = [pc |-> "pop", unit |-> Head(ntyQueue)]]
    BY DEF BeginUnit
  <1>3. [pc |-> "pop", unit |-> Head(ntyQueue)] \in AgentState
    BY <1>1, States
  <1>4. Goes(a, [pc |-> "pop", unit |-> Head(ntyQueue)])
    BY <1>2, <1>3, GoesIs
  <1> QED BY <1>1, <1>4 DEF BeginUnit, Waiting

\* popData has thrown the unit away, or taken its first record.
Thrown(a) ==
    LET u == agent[a].unit
    IN  /\ queue[u] = <<>> \/ status = "wait"
        /\ queue' = [queue EXCEPT ![u] = <<>>]
        /\ total' = total - Len(queue[u])
        /\ all' = all - Len(queue[u])
        /\ Goes(a, [pc |-> "end", unit |-> u])
Taken(a) ==
    LET u == agent[a].unit
    IN  /\ queue[u] # <<>> /\ status # "wait"
        /\ queue' = [queue EXCEPT ![u] = Tail(@)]
        /\ UNCHANGED <<total, all>>
        /\ Goes(a, [pc |-> "replay", unit |-> u, rec |-> Head(queue[u])])

LEMMA PopDataGoes ==
    ASSUME Typed, NEW a \in Agent, PopData(a)
    PROVE  /\ agent[a].pc = "pop" /\ agent[a].unit \in Unit
           /\ Thrown(a) \/ Taken(a)
  <1> DEFINE u == agent[a].unit
  <1>1. agent[a].pc = "pop" /\ u \in Unit
    BY AgentFacts DEF PopData, WithUnit
  <1>2. CASE /\ queue[u] = <<>> \/ status = "wait"
             /\ total' = total - Len(queue[u])
             /\ all' = all - Len(queue[u])
             /\ queue' = [queue EXCEPT ![u] = <<>>]
             /\ agent' = [agent EXCEPT ![a] = [pc |-> "end", unit |-> u]]
    <2>1. Goes(a, [pc |-> "end", unit |-> u])
      BY <1>1, <1>2, GoesIs, States
    <2> QED BY <1>1, <1>2, <2>1 DEF Thrown
  <1>3. CASE /\ queue[u] # <<>> /\ status # "wait"
             /\ queue' = [queue EXCEPT ![u] = Tail(@)]
             /\ agent' = [agent EXCEPT ![a] =
                    [pc |-> "replay", unit |-> u, rec |-> Head(queue[u])]]
             /\ UNCHANGED <<total, all>>
    <2>1. Head(queue[u]) \in Record
      BY <1>1, <1>3, HeadTailProperties DEF Typed
    <2>2. [pc |-> "replay", unit |-> u, rec |-> Head(queue[u])] \in AgentState
      BY <1>1, <2>1, States DEF WithRec
    <2>3. Goes(a, [pc |-> "replay", unit |-> u, rec |-> Head(queue[u])])
      BY <1>3, <2>2, GoesIs
    <2> QED BY <1>1, <1>3, <2>3 DEF Taken
  <1> QED BY <1>1, <1>2, <1>3, Zenon DEF PopData

LEMMA ReplayGoes ==
    ASSUME Typed, NEW a \in Agent, Replay(a)
    PROVE  /\ agent[a].pc = "replay" /\ agent[a].rec \in Record
           /\ Goes(a, [pc |-> "submit", unit |-> agent[a].unit,
                       rec |-> agent[a].rec])
  <1>1. /\ agent[a].pc = "replay" /\ agent[a].rec \in Record
        /\ agent[a].unit \in Unit
        /\ agent[a] = [pc |-> agent[a].pc, unit |-> agent[a].unit,
                       rec |-> agent[a].rec]
    BY AgentFacts DEF Replay, WithRec, WithUnit
  <1>2. [agent[a] EXCEPT !.pc = "submit"]
            = [pc |-> "submit", unit |-> agent[a].unit, rec |-> agent[a].rec]
    BY <1>1
  <1>3. agent' = [agent EXCEPT ![a] = [pc |-> "submit",
                     unit |-> agent[a].unit, rec |-> agent[a].rec]]
    BY <1>2 DEF Replay, Typed
  <1>4. [pc |-> "submit", unit |-> agent[a].unit, rec |-> agent[a].rec]
            \in AgentState
    BY <1>1, States DEF WithRec
  <1>5. Goes(a, [pc |-> "submit", unit |-> agent[a].unit,
                 rec |-> agent[a].rec])
    BY <1>3, <1>4, GoesIs
  <1> QED BY <1>1, <1>5

\* The agent is done with its record and keeps its unit for now.
Dropped(a) ==
    /\ agent[a].pc \in WithRec
    /\ agent[a].unit \in Unit /\ agent[a].rec \in Record
    /\ \E p \in {"pop", "end"} : Goes(a, [pc |-> p, unit |-> agent[a].unit])

LEMMA DroppedIs ==
    ASSUME Typed, NEW a \in Agent, agent[a].pc \in WithRec,
           GoOn(a) \/ GiveWay(a)
    PROVE  Dropped(a)
  <1>1. agent[a].unit \in Unit /\ agent[a].rec \in Record
    BY AgentFacts DEF WithRec, WithUnit
  <1>2. PICK p \in {"pop", "end"} :
            agent' = [agent EXCEPT ![a] = [pc |-> p, unit |-> agent[a].unit]]
    <2>1. CASE GoOn(a)
      <3>1. agent' = [agent EXCEPT ![a] = [pc |-> "pop",
                                           unit |-> agent[a].unit]]
        BY <2>1 DEF GoOn, Typed
      <3> QED BY <3>1
    <2>2. CASE GiveWay(a)
      <3>1. agent' = [agent EXCEPT ![a] = [pc |-> "end",
                                           unit |-> agent[a].unit]]
        BY <2>2 DEF GiveWay, Typed
      <3> QED BY <3>1
    <2> QED BY <2>1, <2>2
  <1>3. [pc |-> p, unit |-> agent[a].unit] \in AgentState
    BY <1>1, States
  <1>4. Goes(a, [pc |-> p, unit |-> agent[a].unit])
    BY <1>2, <1>3, GoesIs
  <1> QED BY <1>1, <1>4 DEF Dropped

LEMMA DroppedBy ==
    ASSUME Typed, NEW a \in Agent
    PROVE  /\ ReplayFails(a) => agent[a].pc = "replay" /\ Dropped(a)
           /\ Undo(a) => agent[a].pc = "replay" /\ Dropped(a)
           /\ Submit(a) => agent[a].pc = "submit" /\ Dropped(a)
  <1>1. ReplayFails(a) => agent[a].pc = "replay" /\ Dropped(a)
    BY DroppedIs DEF ReplayFails, WithRec
  <1>2. Undo(a) => agent[a].pc = "replay" /\ Dropped(a)
    BY DroppedIs DEF Undo, WithRec
  <1>3. Submit(a) => agent[a].pc = "submit" /\ (GoOn(a) \/ GiveWay(a))
    BY Zenon DEF Submit
  <1>4. Submit(a) => agent[a].pc = "submit" /\ Dropped(a)
    BY <1>3, DroppedIs DEF WithRec
  <1> QED BY <1>1, <1>2, <1>4

\* The agent has no unit after the step.
LEMMA IdleGoes ==
    ASSUME Typed, NEW a \in Agent
    PROVE  /\ EndUnit(a) => /\ agent[a].pc = "end" /\ agent[a].unit \in Unit
                            /\ Goes(a, [pc |-> "waiting"])
           /\ TimeOut(a) => /\ agent[a].pc = "waiting"
                            /\ Goes(a, [pc |-> "leaving"])
           /\ LeaveJob(a) => /\ agent[a].pc = "leaving"
                             /\ Goes(a, [pc |-> "checking"])
           /\ LastCheck(a) => /\ agent[a].pc = "checking"
                              /\ \E p \in {"waiting", "none"} :
                                     Goes(a, [pc |-> p])
  <1>1. EndUnit(a) => /\ agent[a].pc = "end" /\ agent[a].unit \in Unit
                      /\ Goes(a, [pc |-> "waiting"])
    <2> SUFFICES ASSUME EndUnit(a)
                 PROVE  /\ agent[a].pc = "end" /\ agent[a].unit \in Unit
                        /\ Goes(a, [pc |-> "waiting"])
      OBVIOUS
    <2>1. /\ agent[a].pc = "end"
          /\ agent' = [agent EXCEPT ![a] = [pc |-> "waiting"]]
      BY DEF EndUnit, Waiting
    <2>2. Goes(a, [pc |-> "waiting"])
      BY <2>1, GoesIs, States
    <2> QED BY <2>1, <2>2, AgentFacts DEF WithUnit
  <1>2. TimeOut(a) => agent[a].pc = "waiting" /\ Goes(a, [pc |-> "leaving"])
    <2> SUFFICES ASSUME TimeOut(a)
                 PROVE  /\ agent[a].pc = "waiting"
                        /\ Goes(a, [pc |-> "leaving"])
      OBVIOUS
    <2>1. /\ agent[a].pc = "waiting"
          /\ agent' = [agent EXCEPT ![a] = [pc |-> "leaving"]]
      BY DEF TimeOut, Waiting
    <2>2. [pc |-> "leaving"] \in AgentState
      BY States
    <2> QED BY <2>1, <2>2, GoesIs
  <1>3. LeaveJob(a) => agent[a].pc = "leaving" /\ Goes(a, [pc |-> "checking"])
    BY GoesIs, States DEF LeaveJob
  <1>4. ASSUME LastCheck(a)
        PROVE  /\ agent[a].pc = "checking"
               /\ \E p \in {"waiting", "none"} : Goes(a, [pc |-> p])
    <2>1. PICK p \in {"waiting", "none"} :
              agent' = [agent EXCEPT ![a] = [pc |-> p]]
      BY <1>4 DEF LastCheck, Waiting, Free
    <2>2. Goes(a, [pc |-> p])
      BY <2>1, GoesIs, States
    <2> QED BY <1>4, <2>2 DEF LastCheck
  <1> QED BY <1>1, <1>2, <1>3, <1>4

\* A push, of a new record (pushData) and of one to be undone.
Put(r) ==
    LET u == UnitOf[r]
    IN  /\ queue' = [queue EXCEPT ![u] = Append(@, r)]
        /\ total' = total + 1 /\ empty' = FALSE
        /\ ntyQueue' = IF u \in attached \cup InQueue THEN ntyQueue
                       ELSE Append(ntyQueue, u)
        /\ UNCHANGED <<attached, agent>>

LEMMA EndPushIs ==
    ASSUME Typed, Phase, EndPush
    PROVE  /\ logEnd \in Record /\ UnitOf[logEnd] \in Unit
           /\ Put(logEnd) /\ all' = all + 1 /\ allEmpty' = FALSE
  <1>1. logEnd \in Record /\ UnitOf[logEnd] \in Unit
    BY Records DEF Phase, Typed, EndPush
  <1>2. PutRecord(logEnd, TRUE) /\ UNCHANGED <<attached, agent>>
    BY Zenon DEF EndPush
  <1>3. Put(logEnd)
    BY <1>2, Zenon DEF PutRecord, Put
  <1>4. all' = all + 1
    BY <1>2, Zenon DEF PutRecord
  <1>5. allEmpty' = (allEmpty /\ ~TRUE)
    BY <1>2, Zenon DEF PutRecord
  <1> QED BY <1>1, <1>3, <1>4, <1>5

LEMMA EndUndoIs ==
    ASSUME Typed, Phase, Progress, EndUndo
    PROVE  /\ NextUndo \in Record /\ UnitOf[NextUndo] \in Unit
           /\ NextUndo \in session.rest
           /\ \A y \in session.rest : NextUndo >= y
           /\ Put(NextUndo) /\ UNCHANGED <<all, allEmpty>>
  <1>1. session.rest # {} /\ session.rest \subseteq Record
    BY DEF EndUndo, Phase, Typed
  <1>2. NextUndo \in session.rest /\ \A y \in session.rest : NextUndo >= y
    BY <1>1, NextUndoIn
  <1>3. NextUndo \in Record /\ UnitOf[NextUndo] \in Unit
    BY <1>1, <1>2, Records DEF Progress
  <1>4. PutRecord(NextUndo, FALSE) /\ UNCHANGED <<attached, agent>>
    BY Zenon DEF EndUndo
  <1>5. Put(NextUndo)
    BY <1>4, Zenon DEF PutRecord, Put
  <1>6. all' = all
    BY <1>4, Zenon DEF PutRecord
  <1>7. allEmpty' = (allEmpty /\ ~FALSE)
    BY <1>4, Zenon DEF PutRecord
  <1>8. allEmpty' = allEmpty
    BY <1>7 DEF Typed
  <1> QED BY <1>2, <1>3, <1>5, <1>6, <1>8

----------------------------------------------------------------------------
(* What the actions do to the records that are held.                       *)

\* The records stay where they are.
SameRecords ==
    /\ queue' = queue
    /\ \A b \in Agent : agent'[b] = agent[b]
          \/ (agent[b].pc \notin WithRec /\ agent'[b].pc \notin WithRec)

LEMMA HeldSame ==
    ASSUME SameRecords
    PROVE  Held' = Held /\ Submitted' = Submitted
  <1>1. Carried' = Carried
    BY DEF SameRecords, Carried
  <1>2. Submitted' = Submitted
    BY DEF SameRecords, Submitted, WithRec
  <1>3. Queued' = Queued
    BY DEF SameRecords, Queued
  <1> QED BY <1>1, <1>2, <1>3 DEF Held

LEMMA HeldPut ==
    ASSUME Typed, NEW r \in Record, UnitOf[r] \in Unit, Put(r)
    PROVE  Held' = Held \cup {r} /\ Submitted' = Submitted
  <1> DEFINE u == UnitOf[r]
  <1>1. Carried' = Carried /\ Submitted' = Submitted
    BY DEF Put, Carried, Submitted
  <1>2. /\ queue'[u] = Append(queue[u], r)
        /\ \A v \in Unit : v # u => queue'[v] = queue[v]
        /\ queue[u] \in Seq(Record)
    BY DEF Put, Typed
  <1>3. /\ Len(queue'[u]) = Len(queue[u]) + 1 /\ Len(queue[u]) \in Nat
        /\ \A i \in 1 .. Len(queue[u]) : queue'[u][i] = queue[u][i]
        /\ queue'[u][Len(queue[u]) + 1] = r
    BY <1>2, AppendProperties, LenProperties
  <1>4. ASSUME NEW n \in Record PROVE n \in Queued' <=> n \in Queued \cup {r}
    <2>1. ASSUME n \in Queued' PROVE n \in Queued \cup {r}
      <3>0. PICK v \in Unit : \E i \in 1 .. Len(queue'[v]) : queue'[v][i] = n
        BY <2>1 DEF Queued
      <3>1. PICK i \in 1 .. Len(queue'[v]) : queue'[v][i] = n
        BY <3>0
      <3>2. CASE v = u /\ i = Len(queue[u]) + 1
        BY <1>3, <3>1, <3>2
      <3>3. CASE v = u /\ i # Len(queue[u]) + 1
        <4>1. i \in 1 .. Len(queue[u])
          BY <1>3, <3>3
        <4> QED BY <1>3, <3>1, <3>3, <4>1 DEF Queued
      <3>4. CASE v # u
        BY <1>2, <3>1, <3>4 DEF Queued
      <3> QED BY <3>2, <3>3, <3>4
    <2>2. ASSUME n \in Queued PROVE n \in Queued'
      <3>0. PICK v \in Unit : \E i \in 1 .. Len(queue[v]) : queue[v][i] = n
        BY <2>2 DEF Queued
      <3>1. PICK i \in 1 .. Len(queue[v]) : queue[v][i] = n
        BY <3>0
      <3>2. i \in 1 .. Len(queue'[v]) /\ queue'[v][i] = n
        BY <1>2, <1>3, <3>1
      <3> QED BY <3>2 DEF Queued
    <2>3. r \in Queued'
      <3>1. Len(queue[u]) + 1 \in 1 .. Len(queue'[u])
        BY <1>3
      <3> QED BY <1>3, <3>1 DEF Queued
    <2> QED BY <2>1, <2>2, <2>3
  <1>5. Queued' \subseteq Record /\ Queued \subseteq Record
    BY DEF Queued
  <1>6. Queued' = Queued \cup {r}
    BY <1>4, <1>5
  <1> QED BY <1>1, <1>6 DEF Held

\* What is in a unit (popData).
InUnit(u) == {queue[u][i] : i \in 1 .. Len(queue[u])}

LEMMA QueuedIs ==
    ASSUME Typed, NEW r
    PROVE  r \in Queued <=> \E u \in Unit : r \in InUnit(u)
  <1>1. \A u \in Unit : queue[u] \in Seq(Record)
    BY DEF Typed
  <1>2. \A u \in Unit : \A i \in 1 .. Len(queue[u]) : queue[u][i] \in Record
    BY <1>1, ElementOfSeq
  <1> QED BY <1>2 DEF Queued, InUnit

\* The records of a unit have its document; they are not with an agent and
\* not in another unit.
LEMMA InUnitFacts ==
    ASSUME Typed, RecUnits, OneAgent, Order, NEW u \in Unit,
           NEW r \in InUnit(u)
    PROVE  r \in Record /\ UnitOf[r] = u /\ r \notin Carried
  <1>1. queue[u] \in Seq(Record)
    BY DEF Typed
  <1>2. PICK i \in 1 .. Len(queue[u]) : r = queue[u][i]
    BY DEF InUnit
  <1>3. r \in Record /\ UnitOf[r] = u
    BY <1>1, <1>2, ElementOfSeq DEF RecUnits
  <1>4. ASSUME r \in Carried PROVE FALSE
    <2>1. PICK a \in Agent : agent[a].pc \in WithRec /\ agent[a].rec = r
      BY <1>4 DEF Carried
    <2>2. agent[a].unit = u
      BY <1>3, <2>1 DEF RecUnits
    <2>3. Before(r, r)
      BY <1>2, <2>1, <2>2 DEF Order
    <2> QED BY <1>3, <2>3, Records DEF Before
  <1> QED BY <1>3, <1>4

\* The record of an agent is not with another one.
LEMMA CarriedOnce ==
    ASSUME Typed, RecUnits, OneAgent, NEW a \in Agent, NEW b \in Agent,
           a # b, agent[a].pc \in WithRec, agent[b].pc \in WithRec
    PROVE  agent[a].rec # agent[b].rec
  <1>1. agent[a].unit # agent[b].unit
    BY DEF OneAgent, WithRec, WithUnit
  <1> QED BY <1>1 DEF RecUnits

LEMMA HeldThrown ==
    ASSUME Typed, RecUnits, OneAgent, Order, NEW a \in Agent,
           agent[a].pc = "pop", agent[a].unit \in Unit, Thrown(a)
    PROVE  Held' = Held \ InUnit(agent[a].unit) /\ Submitted' = Submitted
  <1>0. PICK u \in Unit : u = agent[a].unit
    OBVIOUS
  <1>1. \A b \in Agent : agent'[b] = agent[b]
          \/ (agent[b].pc \notin WithRec /\ agent'[b].pc \notin WithRec)
    BY DEF Thrown, Goes, WithRec
  <1>2. Carried' = Carried
    BY <1>1 DEF Carried
  <1>3. Submitted' = Submitted
    BY <1>1 DEF Submitted, WithRec
  <1>4. queue'[u] = <<>> /\ \A v \in Unit : v # u => queue'[v] = queue[v]
    BY <1>0 DEF Thrown, Typed
  <1>5. Queued' = Queued \ InUnit(u)
    <2>1. ASSUME NEW n \in Record
          PROVE  n \in Queued' <=> n \in Queued /\ n \notin InUnit(u)
      <3>1. ASSUME n \in Queued' PROVE n \in Queued /\ n \notin InUnit(u)
        <4>1. PICK v \in Unit : \E i \in 1 .. Len(queue'[v]) :
                                    queue'[v][i] = n
          BY <3>1 DEF Queued
        <4>2. v # u /\ n \in InUnit(v)
          BY <1>4, <4>1 DEF InUnit
        <4>3. UnitOf[n] = v
          BY <4>2, InUnitFacts
        <4>4. n \notin InUnit(u)
          BY <4>2, <4>3, InUnitFacts
        <4> QED BY <4>2, <4>4, QueuedIs
      <3>2. ASSUME n \in Queued, n \notin InUnit(u) PROVE n \in Queued'
        <4>1. PICK v \in Unit : \E i \in 1 .. Len(queue[v]) :
                                    queue[v][i] = n
          BY <3>2 DEF Queued
        <4>2. v # u
          BY <3>2, <4>1 DEF InUnit
        <4> QED BY <1>4, <4>1, <4>2 DEF Queued
      <3> QED BY <3>1, <3>2
    <2>2. Queued' \subseteq Record /\ Queued \subseteq Record
      BY DEF Queued
    <2> QED BY <2>1, <2>2
  <1>6. Carried \cap InUnit(u) = {}
    BY InUnitFacts
  <1>7. Held' = Held \ InUnit(u)
    BY <1>2, <1>5, <1>6 DEF Held
  <1> QED BY <1>0, <1>3, <1>7

LEMMA HeldTaken ==
    ASSUME Typed, NEW a \in Agent, agent[a].pc = "pop",
           agent[a].unit \in Unit, Taken(a)
    PROVE  /\ Held' = Held /\ Submitted' = Submitted
           /\ Head(queue[agent[a].unit]) = queue[agent[a].unit][1]
           /\ Head(queue[agent[a].unit]) \in Queued
  <1>0. PICK u \in Unit : u = agent[a].unit
    OBVIOUS
  <1>1. queue[u] \in Seq(Record) /\ queue[u] # <<>>
    BY <1>0 DEF Typed, Taken
  <1> DEFINE h == queue[u][1]
  <1>2. /\ Len(queue[u]) \in Nat /\ 1 \in 1 .. Len(queue[u])
        /\ Head(queue[u]) = h /\ h \in Record
    BY <1>1, LenProperties, EmptySeq, ElementOfSeq
  <1>3. /\ queue'[u] = Tail(queue[u])
        /\ \A v \in Unit : v # u => queue'[v] = queue[v]
    BY <1>0 DEF Taken, Typed
  <1>4. /\ Len(queue'[u]) = Len(queue[u]) - 1
        /\ \A i \in 1 .. Len(queue'[u]) : queue'[u][i] = queue[u][i + 1]
    BY <1>1, <1>3, HeadTailProperties
  <1>5. /\ agent'[a] = [pc |-> "replay", unit |-> u, rec |-> h]
        /\ \A b \in Agent : b # a => agent'[b] = agent[b]
    BY <1>0, <1>2 DEF Taken, Goes
  <1>6. h \in Queued
    BY <1>2 DEF Queued
  <1>7. Carried' = Carried \cup {h}
    BY <1>2, <1>5 DEF Carried, WithRec
  <1>8. Submitted' = Submitted
    BY <1>5 DEF Submitted
  <1>9. Queued' \cup {h} = Queued
    <2>1. ASSUME NEW n \in Record
          PROVE  n \in Queued' \cup {h} <=> n \in Queued
      <3>1. ASSUME n \in Queued' PROVE n \in Queued
        <4>1. PICK v \in Unit : \E i \in 1 .. Len(queue'[v]) :
                                    queue'[v][i] = n
          BY <3>1 DEF Queued
        <4>2. PICK i \in 1 .. Len(queue'[v]) : queue'[v][i] = n
          BY <4>1
        <4>3. CASE v = u
          <5>1. i + 1 \in 1 .. Len(queue[u]) /\ queue[u][i + 1] = n
            BY <1>2, <1>4, <4>2, <4>3
          <5> QED BY <5>1 DEF Queued
        <4>4. CASE v # u
          BY <1>3, <4>2, <4>4 DEF Queued
        <4> QED BY <4>3, <4>4
      <3>2. ASSUME n \in Queued, n # h PROVE n \in Queued'
        <4>1. PICK v \in Unit : \E i \in 1 .. Len(queue[v]) :
                                    queue[v][i] = n
          BY <3>2 DEF Queued
        <4>2. PICK i \in 1 .. Len(queue[v]) : queue[v][i] = n
          BY <4>1
        <4>3. CASE v = u
          <5>1. i - 1 \in 1 .. Len(queue'[u]) /\ queue'[u][i - 1] = n
            BY <1>2, <1>4, <3>2, <4>2, <4>3
          <5> QED BY <5>1 DEF Queued
        <4>4. CASE v # u
          BY <1>3, <4>2, <4>4 DEF Queued
        <4> QED BY <4>3, <4>4
      <3> QED BY <1>6, <3>1, <3>2
    <2>2. Queued' \subseteq Record /\ Queued \subseteq Record
      BY DEF Queued
    <2> QED BY <1>2, <2>1, <2>2
  <1>10. Held' = Held
    BY <1>6, <1>7, <1>9 DEF Held
  <1> QED BY <1>0, <1>2, <1>6, <1>8, <1>10

LEMMA HeldReplay ==
    ASSUME Typed, NEW a \in Agent, Replay(a)
    PROVE  /\ Held' = Held /\ Submitted' = Submitted \cup {agent[a].rec}
  <1>0. PICK r \in Record : r = agent[a].rec
    BY ReplayGoes
  <1>1. /\ agent[a].pc = "replay"
        /\ agent'[a].pc = "submit" /\ agent'[a].rec = r
        /\ \A b \in Agent : b # a => agent'[b] = agent[b]
    <2>1. agent[a].pc = "replay"
      BY ReplayGoes
    <2>2. Goes(a, [pc |-> "submit", unit |-> agent[a].unit,
                   rec |-> agent[a].rec])
      BY ReplayGoes
    <2> QED BY <1>0, <2>1, <2>2 DEF Goes
  <1>2. Carried' = Carried
    <2>1. \A n \in Record : \A b \in Agent :
             agent'[b].pc \in WithRec /\ agent'[b].rec = n
                 <=> agent[b].pc \in WithRec /\ agent[b].rec = n
      BY <1>0, <1>1 DEF WithRec
    <2> QED BY <2>1, Zenon DEF Carried
  <1>3. Submitted' = Submitted \cup {r}
    <2>1. \A n \in Record : n \in Submitted' <=> n \in Submitted \/ n = r
      BY <1>0, <1>1 DEF Submitted
    <2>2. Submitted' \subseteq Record /\ Submitted \subseteq Record
      BY DEF Submitted
    <2> QED BY <2>1, <2>2
  <1>4. Queued' = Queued
    BY DEF Replay, Queued
  <1> QED BY <1>0, <1>2, <1>3, <1>4 DEF Held

LEMMA HeldDropped ==
    ASSUME Typed, RecUnits, OneAgent, Order, NEW a \in Agent, Dropped(a),
           queue' = queue
    PROVE  /\ Held' = Held \ {agent[a].rec}
           /\ Submitted' = Submitted \ {agent[a].rec}
           /\ agent[a].rec \in Held
  <1>0. PICK r \in Record : r = agent[a].rec
    BY DEF Dropped
  <1>1. /\ agent[a].pc \in WithRec /\ agent'[a].pc \notin WithRec
        /\ \A b \in Agent : b # a => agent'[b] = agent[b]
    BY DEF Dropped, Goes, WithRec
  <1>2. \A b \in Agent : b # a /\ agent[b].pc \in WithRec => agent[b].rec # r
    BY <1>0, <1>1, CarriedOnce
  <1>3. Carried' = Carried \ {r} /\ r \in Carried
    BY <1>0, <1>1, <1>2 DEF Carried
  <1>4. Submitted' = Submitted \ {r}
    BY <1>0, <1>1, <1>2 DEF Submitted, WithRec
  <1>5. Queued' = Queued
    BY DEF Queued
  <1>6. r \notin Queued
    BY <1>3, QueuedIs, InUnitFacts
  <1> QED BY <1>0, <1>3, <1>4, <1>5, <1>6 DEF Held

----------------------------------------------------------------------------
(* Types.                                                                  *)

LEMMA AtIs ==
    ASSUME Typed, NEW p \in SessionPc, At(p)
    PROVE  /\ session' \in [pc : SessionPc, rest : SUBSET Record]
           /\ session'.pc = p /\ session'.rest = session.rest
  BY DEF Typed, At

LEMMA SessionIs ==
    ASSUME Typed, NEW p \in SessionPc, NEW R \in SUBSET Record,
           session' = [pc |-> p, rest |-> R]
    PROVE  /\ session' \in [pc : SessionPc, rest : SUBSET Record]
           /\ session'.pc = p /\ session'.rest = R
  OBVIOUS

\* Where the session goes.
Moves(p) ==
    /\ session' \in [pc : SessionPc, rest : SUBSET Record]
    /\ session'.pc = p /\ session'.rest = session.rest

LEMMA SessionMoves ==
    ASSUME Typed
    PROVE  /\ BeginPush => Moves(IF status = "normal" THEN "push" ELSE "drain")
           /\ EndPush => Moves("idle")
           /\ BeginSerial
                 => Moves(IF status = "wait" THEN "drain" ELSE "serial")
           /\ ReplaySerial => Moves("idle") \/ Moves("drain")
           /\ OnTimer => Moves("drain")
           /\ BeginUndo => Moves("undo")
           /\ AllPushed => Moves("undone")
           /\ Undone => Moves("idle")
  <1>1. \A p \in SessionPc : At(p) => Moves(p)
    BY AtIs DEF Moves
  <1>2. BeginPush => Moves(IF status = "normal" THEN "push" ELSE "drain")
    BY <1>1 DEF BeginPush, SessionPc
  <1>3. BeginSerial => Moves(IF status = "wait" THEN "drain" ELSE "serial")
    BY <1>1 DEF BeginSerial, SessionPc
  <1>4. EndPush => At("idle")
    BY Zenon DEF EndPush
  <1>5. ReplaySerial => At("idle") \/ At("drain")
    BY DEF ReplaySerial
  <1>6. OnTimer => At("drain")
    BY DEF OnTimer
  <1>7. BeginUndo => At("undo")
    BY Zenon DEF BeginUndo
  <1>8. AllPushed => At("undone")
    BY DEF AllPushed
  <1>9. Undone => At("idle")
    BY DEF Undone
  <1> QED BY <1>1, <1>2, <1>3, <1>4, <1>5, <1>6, <1>7, <1>8, <1>9
             DEF SessionPc

LEMMA DrainedMoves ==
    ASSUME Typed, Drained
    PROVE  \/ /\ status = "wait" /\ status' = "rollback"
              /\ session' \in [pc : SessionPc, rest : SUBSET Record]
              /\ session'.pc = "undoNext" /\ session'.rest = complete
           \/ status # "wait" /\ status' = status /\ Moves("idle") /\ allEmpty
  <1>1. CASE /\ status = "wait"
             /\ status' = "rollback"
             /\ session' = [pc |-> "undoNext", rest |-> complete]
    BY <1>1, SessionIs DEF Typed, SessionPc
  <1>2. CASE status # "wait" /\ allEmpty /\ At("idle") /\ UNCHANGED status
    BY <1>2, AtIs DEF Moves, SessionPc
  <1> QED BY <1>1, <1>2 DEF Drained

LEMMA EndUndoMoves ==
    ASSUME Typed, EndUndo
    PROVE  /\ session' \in [pc : SessionPc, rest : SUBSET Record]
           /\ session'.pc = "undoNext"
           /\ session'.rest = session.rest \ {NextUndo}
  <1>1. session' = [pc |-> "undoNext", rest |-> session.rest \ {NextUndo}]
    BY Zenon DEF EndUndo
  <1>2. session.rest \ {NextUndo} \in SUBSET Record
    BY DEF Typed
  <1> QED BY <1>1, <1>2, SessionIs DEF SessionPc

LEMMA PutTyped ==
    ASSUME Typed, NEW r \in Record, UnitOf[r] \in Unit, Put(r)
    PROVE  /\ queue' \in [Unit -> Seq(Record)] /\ ntyQueue' \in Seq(Unit)
           /\ agent' \in [Agent -> AgentState] /\ empty' \in BOOLEAN
           /\ attached' \subseteq Unit
  <1>1. Append(queue[UnitOf[r]], r) \in Seq(Record)
    BY AppendProperties DEF Typed
  <1>2. Append(ntyQueue, UnitOf[r]) \in Seq(Unit)
    BY AppendProperties DEF Typed
  <1> QED BY <1>1, <1>2 DEF Put, Typed

LEMMA TypedSession ==
    ASSUME Typed, Phase, Progress, SessionStep
    PROVE  Typed'
  <1>1. CASE BeginPush
    <2>1. agent' \in [Agent -> AgentState]
      BY <1>1, StartIs, StartEffect
    <2>2. session' \in [pc : SessionPc, rest : SUBSET Record]
      BY <1>1, SessionMoves DEF Moves
    <2>3. UNCHANGED <<status, queue, attached, ntyQueue, empty, allEmpty,
                      complete, maxSubmit, logEnd, applied, failures>>
      BY <1>1, Zenon DEF BeginPush, counters
    <2>4. expect' \in {expect, logEnd}
      BY <1>1, Zenon DEF BeginPush
    <2>5. expect' \in 0 .. MaxLsn + 1
      BY <2>4, Records DEF Typed
    <2> QED BY <2>1, <2>2, <2>3, <2>5 DEF Typed
  <1>2. CASE EndPush
    <2>1. session' \in [pc : SessionPc, rest : SUBSET Record]
      BY <1>2, SessionMoves DEF Moves
    <2>2. logEnd \in Record /\ UnitOf[logEnd] \in Unit /\ Put(logEnd)
      BY <1>2, EndPushIs
    <2>3. allEmpty' \in BOOLEAN
      BY <1>2, EndPushIs
    <2>4. /\ queue' \in [Unit -> Seq(Record)] /\ ntyQueue' \in Seq(Unit)
          /\ agent' \in [Agent -> AgentState] /\ empty' \in BOOLEAN
          /\ attached' \subseteq Unit
      BY <2>2, PutTyped
    <2>5. /\ UNCHANGED <<status, expect, complete, maxSubmit, applied,
                         failures>>
          /\ logEnd' = logEnd + 1
      BY <1>2, Zenon DEF EndPush, progress
    <2>6. logEnd' \in 1 .. MaxLsn + 1
      BY <2>2, <2>5, Records
    <2> QED BY <2>1, <2>3, <2>4, <2>5, <2>6 DEF Typed
  <1>3. CASE BeginSerial \/ OnTimer
    <2>1. session' \in [pc : SessionPc, rest : SUBSET Record]
      BY <1>3, SessionMoves DEF Moves
    <2> QED BY <1>3, <2>1 DEF BeginSerial, OnTimer, Typed, counters, progress
  <1>4. CASE ReplaySerial
    <2>1. session' \in [pc : SessionPc, rest : SUBSET Record]
      BY <1>4, SessionMoves DEF Moves
    <2>2. logEnd \in Record
      BY <1>4, Records DEF ReplaySerial, Phase, Typed
    <2>3. applied' \in {applied, applied \cup {logEnd}}
      BY <1>4 DEF ReplaySerial
    <2>7. expect' \in {expect, None, logEnd + 1}
      BY <1>4 DEF ReplaySerial
    <2>8. logEnd' \in {logEnd, logEnd + 1}
      BY <1>4 DEF ReplaySerial
    <2>6. /\ applied' \subseteq Record
           /\ expect' \in 0 .. MaxLsn + 1 /\ logEnd' \in 1 .. MaxLsn + 1
      BY <2>2, <2>3, <2>7, <2>8, Records DEF Typed, None
    <2>4. failures' \in 0 .. MaxFailures
      BY <1>4, BucketAssumption DEF ReplaySerial, Typed
    <2>5. UNCHANGED <<status, queue, attached, ntyQueue, empty, allEmpty,
                      complete, maxSubmit, agent>>
      BY <1>4 DEF ReplaySerial, counters
    <2> QED BY <2>1, <2>6, <2>4, <2>5 DEF Typed
  <1>5. CASE Drained
    <2>1. session' \in [pc : SessionPc, rest : SUBSET Record]
      BY <1>5, DrainedMoves DEF Moves
    <2>2. status' \in {"normal", "wait", "rollback"}
      BY <1>5, DrainedMoves DEF Typed
    <2> QED BY <1>5, <2>1, <2>2 DEF Drained, Typed, counters, progress
  <1>6. CASE BeginUndo
    <2>1. agent' \in [Agent -> AgentState]
      BY <1>6, StartIs, StartEffect
    <2>2. session' \in [pc : SessionPc, rest : SUBSET Record]
      BY <1>6, SessionMoves DEF Moves
    <2>3. UNCHANGED <<status, queue, attached, ntyQueue, empty, allEmpty,
                      expect, complete, maxSubmit, logEnd, applied, failures>>
      BY <1>6, Zenon DEF BeginUndo, counters, progress
    <2> QED BY <2>1, <2>2, <2>3 DEF Typed
  <1>7. CASE EndUndo
    <2>1. session' \in [pc : SessionPc, rest : SUBSET Record]
      BY <1>7, EndUndoMoves
    <2>2. NextUndo \in Record /\ UnitOf[NextUndo] \in Unit /\ Put(NextUndo)
      BY <1>7, EndUndoIs
    <2>3. allEmpty' = allEmpty
      BY <1>7, EndUndoIs
    <2>4. /\ queue' \in [Unit -> Seq(Record)] /\ ntyQueue' \in Seq(Unit)
          /\ agent' \in [Agent -> AgentState] /\ empty' \in BOOLEAN
          /\ attached' \subseteq Unit
      BY <2>2, PutTyped
    <2>5. UNCHANGED <<status, expect, complete, maxSubmit, logEnd, applied,
                      failures>>
      BY <1>7, Zenon DEF EndUndo, progress
    <2> QED BY <2>1, <2>3, <2>4, <2>5 DEF Typed
  <1>8. CASE AllPushed
    <2>1. session' \in [pc : SessionPc, rest : SUBSET Record]
      BY <1>8, SessionMoves DEF Moves
    <2> QED BY <1>8, <2>1 DEF AllPushed, Typed, counters
  <1>9. CASE Undone
    <2>1. session' \in [pc : SessionPc, rest : SUBSET Record]
      BY <1>9, SessionMoves DEF Moves
    <2>2. logEnd' \in 1 .. MaxLsn + 1
      BY <1>9, Records DEF Undone, Typed, Phase, Undoing, None
    <2> QED BY <1>9, <2>1, <2>2 DEF Undone, Typed, counters, progress
  <1> QED BY <1>1, <1>2, <1>3, <1>4, <1>5, <1>6, <1>7, <1>8, <1>9
             DEF SessionStep

LEMMA TypedReset ==
    ASSUME Typed, Reset
    PROVE  Typed'
  <1>1. expect' \in 0 .. MaxLsn + 1
    BY Records DEF Reset, None
  <1> QED BY <1>1 DEF Reset, Typed, counters

\* The record moves expectLSN, or goes into completeMap (_submitResult).
CountsIn(r) ==
    /\ r <= expect
    /\ expect' = (IF r = expect THEN NextGap(r) ELSE expect)
    /\ complete' = {n \in complete : n > expect'}
    /\ all' = all - 1 - Cardinality(complete \ complete')
    /\ UNCHANGED maxSubmit
Remembers(r) ==
    /\ ~(r <= expect)
    /\ complete' = complete \cup {r}
    /\ maxSubmit' = Max({r, maxSubmit})
    /\ UNCHANGED <<expect, all>>

LEMMA SubmitIs ==
    ASSUME NEW a \in Agent, Submit(a)
    PROVE  CountsIn(agent[a].rec) \/ Remembers(agent[a].rec)
  BY Zenon DEF Submit, InOrder, CountsIn, Remembers

LEMMA TypedAgent ==
    ASSUME Typed, Phase, Progress, NEW a \in Agent, AgentStep(a) \/ TimeOut(a)
    PROVE  Typed'
  <1>1. CASE BeginUnit(a)
    <2>1. agent' \in [Agent -> AgentState]
      BY <1>1, BeginUnitGoes DEF Goes
    <2>2. ntyQueue' = Tail(ntyQueue) /\ attached' = attached \cup {Head(ntyQueue)}
      BY <1>1 DEF BeginUnit
    <2>3. ntyQueue' \in Seq(Unit) /\ attached' \subseteq Unit
      BY <1>1, <2>2, BeginUnitGoes, HeadTailProperties DEF Typed
    <2> QED BY <1>1, <2>1, <2>3 DEF BeginUnit, Typed, counters, progress
  <1>2. CASE PopData(a)
    <2>1. agent' \in [Agent -> AgentState]
      BY <1>2, PopDataGoes DEF Thrown, Taken, Goes
    <2>2. queue' \in [Unit -> Seq(Record)]
      <3>1. CASE Thrown(a)
        BY <3>1, EmptySeq DEF Thrown, Typed
      <3>2. CASE Taken(a)
        <4>1. agent[a].unit \in Unit /\ queue[agent[a].unit] # <<>>
          BY <1>2, <3>2, PopDataGoes DEF Taken
        <4>2. Tail(queue[agent[a].unit]) \in Seq(Record)
          BY <4>1, HeadTailProperties DEF Typed
        <4> QED BY <3>2, <4>2 DEF Taken, Typed
      <3> QED BY <1>2, <3>1, <3>2, PopDataGoes
    <2>3. UNCHANGED <<status, attached, ntyQueue, empty, allEmpty, expect,
                      complete, maxSubmit, session, logEnd, applied,
                      failures>>
      BY <1>2, Zenon DEF PopData, progress
    <2> QED BY <2>1, <2>2, <2>3 DEF Typed
  <1>3. CASE Replay(a)
    <2>1. agent' \in [Agent -> AgentState] /\ agent[a].rec \in Record
      BY <1>3, ReplayGoes DEF Goes
    <2>2. applied' \subseteq Record
      BY <1>3, <2>1 DEF Replay, Typed
    <2>3. UNCHANGED <<status, queue, attached, ntyQueue, empty, allEmpty,
                      expect, complete, maxSubmit, session, logEnd, failures>>
      BY <1>3, Zenon DEF Replay, progress, counters
    <2> QED BY <2>1, <2>2, <2>3 DEF Typed
  <1>4. CASE ReplayFails(a)
    <2>1. agent' \in [Agent -> AgentState]
      BY <1>4, DroppedBy DEF Dropped, Goes
    <2>2. failures' \in 0 .. MaxFailures /\ status' = "wait"
      BY <1>4, BucketAssumption DEF ReplayFails, Typed
    <2>3. UNCHANGED <<queue, attached, ntyQueue, empty, allEmpty, expect,
                      complete, maxSubmit, session, logEnd, applied>>
      BY <1>4, Zenon DEF ReplayFails, progress
    <2> QED BY <2>1, <2>2, <2>3 DEF Typed
  <1>5. CASE Undo(a)
    <2>1. agent' \in [Agent -> AgentState]
      BY <1>5, DroppedBy DEF Dropped, Goes
    <2>2. applied' \subseteq Record
      BY <1>5 DEF Undo, Typed
    <2>3. UNCHANGED <<status, queue, attached, ntyQueue, empty, allEmpty,
                      expect, complete, maxSubmit, session, logEnd, failures>>
      BY <1>5, Zenon DEF Undo, progress
    <2> QED BY <2>1, <2>2, <2>3 DEF Typed
  <1>6. CASE Submit(a)
    <2>1. agent' \in [Agent -> AgentState] /\ agent[a].rec \in Record
      BY <1>6, DroppedBy DEF Dropped, Goes
    <2>2. UNCHANGED <<status, queue, attached, ntyQueue, empty, allEmpty,
                      session, logEnd, applied, failures>>
      BY <1>6, Zenon DEF Submit
    <2>3. PICK r \in Record : r = agent[a].rec
      BY <2>1
    <2>4. NextGap(r) \in r + 1 .. MaxLsn + 1
      <3>1. complete \subseteq Record
        BY DEF Typed
      <3> QED BY <2>3, <3>1, NextGapIn
    <2>5. Max({r, maxSubmit}) \in {r, maxSubmit}
      <3>1. r \in Int /\ maxSubmit \in Int
        BY Records DEF Typed
      <3> QED BY <3>1, MaxOfTwo, Zenon
    <2>6. CASE CountsIn(r)
      <3>1. expect' \in {NextGap(r), expect} /\ complete' \subseteq complete
        BY <2>6 DEF CountsIn
      <3>2. expect' \in 0 .. MaxLsn + 1
        BY <2>4, <3>1, Records DEF Typed
      <3> QED BY <2>1, <2>2, <2>6, <3>1, <3>2 DEF Typed, CountsIn
    <2>7. CASE Remembers(r)
      <3>1. maxSubmit' \in 0 .. MaxLsn
        BY <2>5, <2>7, Records DEF Remembers, Typed
      <3> QED BY <2>1, <2>2, <2>7, <3>1 DEF Typed, Remembers
    <2> QED BY <1>6, <2>3, <2>6, <2>7, SubmitIs
  <1>7. CASE EndUnit(a)
    <2>1. agent' \in [Agent -> AgentState] /\ agent[a].unit \in Unit
      BY <1>7, IdleGoes DEF Goes
    <2>2. Append(ntyQueue, agent[a].unit) \in Seq(Unit)
      BY <2>1, AppendProperties DEF Typed
    <2>3. ntyQueue' \in Seq(Unit) /\ attached' \subseteq Unit
      BY <1>7, <2>2 DEF EndUnit, Typed
    <2>4. empty' \in BOOLEAN /\ allEmpty' \in BOOLEAN
      BY <1>7, Zenon DEF EndUnit
    <2>5. UNCHANGED <<status, queue, expect, complete, maxSubmit, session,
                      logEnd, applied, failures>>
      BY <1>7, Zenon DEF EndUnit, progress
    <2> QED BY <2>1, <2>3, <2>4, <2>5 DEF Typed
  <1>8. CASE LeaveJob(a) \/ LastCheck(a) \/ TimeOut(a)
    <2>1. agent' \in [Agent -> AgentState]
      BY <1>8, IdleGoes DEF Goes
    <2>2. UNCHANGED <<status, queue, attached, ntyQueue, empty, allEmpty,
                      expect, complete, maxSubmit, session, logEnd, applied,
                      failures>>
      BY <1>8, Zenon DEF LeaveJob, LastCheck, TimeOut, progress, counters
    <2> QED BY <2>1, <2>2 DEF Typed
  <1> QED BY <1>1, <1>2, <1>3, <1>4, <1>5, <1>6, <1>7, <1>8 DEF AgentStep

----------------------------------------------------------------------------
(* The session.                                                            *)

LEMMA PhaseSame ==
    ASSUME Phase, UNCHANGED <<status, session, logEnd, expect, complete>>
    PROVE  Phase'
  BY DEF Phase, Undoing, Parallel

\* The empty event says that nothing is held, the other that nothing is owed.
LEMMA EventsTell ==
    ASSUME Typed, Progress, Counting
    PROVE  /\ empty => Held = {}
           /\ allEmpty \/ all = 0 => Held = {} /\ Owed = {}
           /\ total \in Nat /\ all \in Nat
           /\ IsFiniteSet(Held) /\ IsFiniteSet(Held \cup Owed)
  <1>1. Held \subseteq Record /\ Owed \subseteq Record
    BY DEF Held, Carried, Queued, Owed, Typed
  <1>2. IsFiniteSet(Record)
    BY FS_Interval, Records
  <1>3. IsFiniteSet(Held) /\ IsFiniteSet(Held \cup Owed)
    BY <1>1, <1>2, FS_Subset
  <1>4. total \in Nat /\ all \in Nat
    BY <1>3, FS_CardinalityType DEF Counting
  <1>5. total = 0 => Held = {}
    BY <1>3, FS_EmptySet DEF Counting
  <1>6. all = 0 => Held \cup Owed = {}
    BY <1>3, FS_EmptySet DEF Counting
  <1>7. empty => Held = {}
    BY <1>5 DEF Counting
  <1>8. allEmpty => Held \cup Owed = {}
    BY <1>6 DEF Counting
  <1> QED BY <1>3, <1>4, <1>6, <1>7, <1>8

LEMMA PhaseSession ==
    ASSUME Inv, SessionStep
    PROVE  Phase'
  <1> USE DEF Phase, Undoing, Parallel, None
  <1> Typed /\ Phase /\ Progress
    BY DEF Inv
  <1>1. CASE BeginPush
    <2>1. Moves(IF status = "normal" THEN "push" ELSE "drain")
      BY <1>1, SessionMoves
    <2>2. /\ session.pc = "idle" /\ logEnd <= MaxLsn /\ UnitOf[logEnd] # Serial
          /\ expect' = (IF expect = None THEN logEnd ELSE expect)
          /\ UNCHANGED <<status, logEnd, complete>>
      BY <1>1, Zenon DEF BeginPush, Dispatch
    <2>3. expect' # 0
      BY <2>2, Records DEF Typed
    <2>4. CASE status = "normal"
      BY <2>1, <2>2, <2>3, <2>4 DEF Moves
    <2>5. CASE status # "normal"
      BY <2>1, <2>2, <2>3, <2>5 DEF Moves
    <2> QED BY <2>4, <2>5
  <1>2. CASE EndPush
    <2>1. Moves("idle")
      BY <1>2, SessionMoves
    <2>2. session.pc = "push" /\ UNCHANGED <<status, expect, complete>>
      BY <1>2, Zenon DEF EndPush, progress
    <2> QED BY <2>1, <2>2 DEF Moves
  <1>3. CASE BeginSerial
    <2>1. Moves(IF status = "wait" THEN "drain" ELSE "serial")
      BY <1>3, SessionMoves
    <2>2. /\ session.pc = "idle" /\ logEnd <= MaxLsn /\ UnitOf[logEnd] = Serial
          /\ UNCHANGED <<status, logEnd, expect, complete>>
      BY <1>3 DEF BeginSerial, Dispatch, progress
    <2>3. CASE status = "wait"
      BY <2>1, <2>2, <2>3 DEF Moves
    <2>4. CASE status # "wait"
      BY <2>1, <2>2, <2>4 DEF Moves
    <2> QED BY <2>3, <2>4
  <1>4. CASE ReplaySerial
    <2>1. Moves("idle") \/ Moves("drain")
      BY <1>4, SessionMoves
    <2>2. session.pc = "serial" /\ UNCHANGED <<status, complete>>
      BY <1>4 DEF ReplaySerial
    <2>3. expect # 0 => expect' # 0
      BY <1>4, Records DEF ReplaySerial, Typed
    <2> QED BY <2>1, <2>2, <2>3 DEF Moves
  <1>5. CASE OnTimer
    <2>1. Moves("drain")
      BY <1>5, SessionMoves
    <2>2. session.pc = "idle" /\ UNCHANGED <<status, logEnd, expect, complete>>
      BY <1>5 DEF OnTimer, progress
    <2> QED BY <2>1, <2>2 DEF Moves
  <1>6. CASE Drained
    <2>1. session.pc = "drain" /\ UNCHANGED <<logEnd, expect, complete>>
      BY <1>6 DEF Drained, progress
    <2> QED BY <1>6, <2>1, DrainedMoves DEF Moves
  <1>7. CASE BeginUndo
    <2>1. Moves("undo")
      BY <1>7, SessionMoves
    <2>2. /\ session.pc = "undoNext" /\ session.rest # {}
          /\ UNCHANGED <<status, logEnd, expect, complete>>
      BY <1>7, Zenon DEF BeginUndo, progress
    <2> QED BY <2>1, <2>2 DEF Moves
  <1>8. CASE EndUndo
    <2>1. session.pc = "undo" /\ UNCHANGED <<status, logEnd, expect, complete>>
      BY <1>8, Zenon DEF EndUndo, progress
    <2> QED BY <1>8, <2>1, EndUndoMoves
  <1>9. CASE AllPushed
    <2>1. Moves("undone")
      BY <1>9, SessionMoves
    <2>2. /\ session.pc = "undoNext" /\ session.rest = {} /\ complete' = {}
          /\ UNCHANGED <<status, logEnd, expect>>
      BY <1>9 DEF AllPushed
    <2> QED BY <2>1, <2>2 DEF Moves
  <1>10. CASE Undone
    <2>1. Moves("idle")
      BY <1>10, SessionMoves
    <2>2. session.pc = "undone" /\ status' = "normal"
      BY <1>10 DEF Undone
    <2> QED BY <2>1, <2>2 DEF Moves
  <1> QED BY <1>1, <1>2, <1>3, <1>4, <1>5, <1>6, <1>7, <1>8, <1>9, <1>10
             DEF SessionStep

LEMMA PhaseReset ==
    ASSUME Inv, Reset
    PROVE  Phase'
  BY DEF Inv, Phase, Undoing, Reset, Parallel

LEMMA PhaseAgent ==
    ASSUME Inv, NEW a \in Agent, AgentStep(a) \/ TimeOut(a)
    PROVE  Phase'
  <1> Typed /\ Phase /\ Progress /\ RecUnits /\ OneAgent /\ Order
    BY DEF Inv, Places
  <1>1. CASE BeginUnit(a) \/ PopData(a) \/ Replay(a) \/ Undo(a) \/ EndUnit(a)
    <2>1. UNCHANGED <<status, session, logEnd, expect, complete>>
      BY <1>1, Zenon DEF BeginUnit, PopData, Replay, Undo, EndUnit, progress
    <2> QED BY <2>1, PhaseSame
  <1>2. CASE LeaveJob(a) \/ LastCheck(a) \/ TimeOut(a)
    <2>1. UNCHANGED <<status, session, logEnd, expect, complete>>
      BY <1>2, Zenon DEF LeaveJob, LastCheck, TimeOut, progress
    <2> QED BY <2>1, PhaseSame
  <1>3. CASE ReplayFails(a)
    <2>1. UNCHANGED <<session, logEnd, expect, complete, queue>>
      BY <1>3, Zenon DEF ReplayFails, progress
    <2>2. status # "rollback" /\ status' = "wait"
      BY <1>3, Zenon DEF ReplayFails
    <2>3. agent[a].rec \in Held
      BY <1>3, <2>1, DroppedBy, HeldDropped
    <2>4. expect # None
      BY <2>3 DEF Progress
    <2> QED BY <2>1, <2>2, <2>4 DEF Phase, Undoing, Parallel
  <1>4. CASE Submit(a)
    <2>1. UNCHANGED <<status, session, logEnd, queue>>
      BY <1>4, Zenon DEF Submit
    <2>2. PICK r \in Record : r = agent[a].rec
      BY <1>4, DroppedBy DEF Dropped
    <2>3. r \in Held
      BY <1>4, <2>1, <2>2, DroppedBy, HeldDropped
    <2>4. status # "rollback"
      BY <1>4, DroppedBy DEF Order, Undoing
    <2>5. expect # None
      BY <2>3 DEF Progress
    <2>6. NextGap(r) \in r + 1 .. MaxLsn + 1
      <3>1. complete \subseteq Record
        BY DEF Typed
      <3> QED BY <2>2, <3>1, NextGapIn
    <2>7. expect' \in {expect, NextGap(r)}
      BY <1>4, <2>2, SubmitIs DEF CountsIn, Remembers
    <2>8. expect' # None
      BY <2>5, <2>6, <2>7, Records DEF None
    <2> QED BY <2>1, <2>4, <2>8 DEF Phase, Undoing, Parallel
  <1> QED BY <1>1, <1>2, <1>3, <1>4 DEF AgentStep

----------------------------------------------------------------------------
(* Units, agents and their order.                                          *)

\* Units and records stay where they are.
Quiet ==
    /\ UNCHANGED <<queue, attached, ntyQueue>>
    /\ \A b \in Agent : agent'[b] = agent[b]
          \/ (agent[b].pc \notin WithUnit /\ agent'[b].pc \notin WithUnit)

LEMMA QuietBy ==
    ASSUME Typed
    PROVE  /\ BeginPush => Quiet /\ UNCHANGED status
           /\ BeginUndo => Quiet /\ UNCHANGED status
           /\ BeginSerial => Quiet /\ UNCHANGED <<status, agent>>
           /\ ReplaySerial => Quiet /\ UNCHANGED <<status, agent>>
           /\ OnTimer => Quiet /\ UNCHANGED <<status, agent>>
           /\ Drained => Quiet /\ UNCHANGED agent
           /\ AllPushed => Quiet /\ UNCHANGED <<status, agent>>
           /\ Undone => Quiet /\ UNCHANGED agent
           /\ Reset => Quiet /\ UNCHANGED agent
           /\ \A a \in Agent : LeaveJob(a) \/ LastCheck(a) \/ TimeOut(a)
                                   => Quiet /\ UNCHANGED status
  <1>1. ASSUME Started, UNCHANGED <<queue, attached, ntyQueue>> PROVE Quiet
    BY <1>1, StartEffect DEF Quiet, WithUnit
  <1>2. BeginPush => Quiet /\ UNCHANGED status
    <2>1. BeginPush => UNCHANGED <<queue, attached, ntyQueue, status>>
      BY Zenon DEF BeginPush
    <2> QED BY <1>1, <2>1, StartIs
  <1>3. BeginUndo => Quiet /\ UNCHANGED status
    <2>1. BeginUndo => UNCHANGED <<queue, attached, ntyQueue, status>>
      BY Zenon DEF BeginUndo
    <2> QED BY <1>1, <2>1, StartIs
  <1>4. UNCHANGED <<queue, attached, ntyQueue, agent>> => Quiet
    BY DEF Quiet
  <1>5. /\ BeginSerial => Quiet /\ UNCHANGED <<status, agent>>
        /\ ReplaySerial => Quiet /\ UNCHANGED <<status, agent>>
        /\ OnTimer => Quiet /\ UNCHANGED <<status, agent>>
    BY <1>4 DEF BeginSerial, ReplaySerial, OnTimer
  <1>6. /\ Drained => Quiet /\ UNCHANGED agent
        /\ AllPushed => Quiet /\ UNCHANGED <<status, agent>>
    BY <1>4 DEF Drained, AllPushed
  <1>7. /\ Undone => Quiet /\ UNCHANGED agent
        /\ Reset => Quiet /\ UNCHANGED agent
    BY <1>4 DEF Undone, Reset
  <1>8. ASSUME NEW a \in Agent, LeaveJob(a) \/ LastCheck(a) \/ TimeOut(a)
        PROVE  Quiet /\ UNCHANGED status
    <2>1. UNCHANGED <<queue, attached, ntyQueue, status>>
      BY <1>8, Zenon DEF LeaveJob, LastCheck, TimeOut
    <2>2. PICK p \in {"waiting", "none", "leaving", "checking"} :
              agent[a].pc \notin WithUnit /\ Goes(a, [pc |-> p])
      BY <1>8, IdleGoes DEF WithUnit
    <2> QED BY <2>1, <2>2 DEF Quiet, Goes, WithUnit
  <1> QED BY <1>2, <1>3, <1>5, <1>6, <1>7, <1>8

LEMMA QuietIsSame ==
    ASSUME Quiet
    PROVE  SameRecords
  BY DEF Quiet, SameRecords, WithUnit, WithRec

LEMMA PlacesQuiet ==
    ASSUME Typed, RecUnits, OneAgent, QueuedOnce, NotForgotten, Quiet
    PROVE  RecUnits' /\ OneAgent' /\ QueuedOnce' /\ NotForgotten'
  <1>1. RecUnits'
    BY DEF Quiet, RecUnits, WithUnit, WithRec
  <1>2. OneAgent'
    BY DEF Quiet, OneAgent, Typed
  <1>3. QueuedOnce'
    BY DEF Quiet, QueuedOnce
  <1>4. NotForgotten'
    BY DEF Quiet, NotForgotten
  <1> QED BY <1>1, <1>2, <1>3, <1>4

LEMMA OrderSame ==
    ASSUME Order, SameRecords, Undoing' = Undoing
    PROVE  Order'
  <1>1. \A u \in Unit : \A i, j \in 1 .. Len(queue'[u]) :
           i < j => Before(queue'[u][i], queue'[u][j])
    BY DEF Order, SameRecords
  <1>2. \A b \in Agent : agent'[b].pc \in WithRec =>
           \A i \in 1 .. Len(queue'[agent'[b].unit]) :
               Before(agent'[b].rec, queue'[agent'[b].unit][i])
    BY DEF Order, SameRecords
  <1>3. Undoing' => \A b \in Agent : agent'[b].pc # "submit"
    BY DEF Order, SameRecords, WithRec
  <1> QED
    BY <1>1, <1>2, <1>3 DEF Order, Before

LEMMA OrderNone ==
    ASSUME Typed, Held = {}, UNCHANGED <<queue, agent>>
    PROVE  Order'
  <1>1. \A u \in Unit : \A i \in 1 .. Len(queue[u]) : FALSE
    <2>1. \A u \in Unit : queue[u] \in Seq(Record)
      BY DEF Typed
    <2>2. \A u \in Unit : \A i \in 1 .. Len(queue[u]) : queue[u][i] \in Queued
      BY <2>1, ElementOfSeq DEF Queued
    <2> QED BY <2>2 DEF Held
  <1>2. \A a \in Agent : agent[a].pc \notin WithRec
    BY AgentFacts DEF Held, Carried
  <1> QED BY <1>1, <1>2 DEF Order, WithRec

\* Elements of a sequence after Append and Tail.
LEMMA AppendIs ==
    ASSUME NEW S, NEW s \in Seq(S), NEW x \in S
    PROVE  /\ Append(s, x) \in Seq(S) /\ Append(s, x) # <<>>
           /\ Len(s) \in Nat /\ Len(Append(s, x)) = Len(s) + 1
           /\ \A i \in 1 .. Len(s) : Append(s, x)[i] = s[i]
           /\ Append(s, x)[Len(s) + 1] = x
           /\ \A i \in 1 .. Len(Append(s, x)) :
                 i \in 1 .. Len(s) \/ i = Len(s) + 1
  <1>1. Len(s) \in Nat
    OBVIOUS
  <1> QED BY <1>1, AppendProperties

LEMMA TailIs ==
    ASSUME NEW S, NEW s \in Seq(S), s # <<>>
    PROVE  /\ Len(s) \in Nat \ {0} /\ 1 \in 1 .. Len(s) /\ Head(s) = s[1]
           /\ Tail(s) \in Seq(S) /\ Len(Tail(s)) = Len(s) - 1
           /\ \A i \in 1 .. Len(Tail(s)) :
                 Tail(s)[i] = s[i + 1] /\ i + 1 \in 2 .. Len(s)
           /\ \A i \in 1 .. Len(s) :
                 i = 1 \/ (i - 1 \in 1 .. Len(Tail(s)) /\ Tail(s)[i - 1] = s[i])
  <1>1. Len(s) \in Nat \ {0} /\ Head(s) = s[1]
    BY EmptySeq
  <1>2. /\ Tail(s) \in Seq(S) /\ Len(Tail(s)) = Len(s) - 1
        /\ \A i \in 1 .. Len(Tail(s)) : Tail(s)[i] = s[i + 1]
    BY HeadTailProperties
  <1> QED BY <1>1, <1>2

LEMMA InQueueIs ==
    ASSUME Typed, NEW u
    PROVE  u \in InQueue <=> \E i \in 1 .. Len(ntyQueue) : ntyQueue[i] = u
  <1>1. ntyQueue \in Seq(Unit)
    BY DEF Typed
  <1>2. InQueue = {ntyQueue[i] : i \in 1 .. Len(ntyQueue)}
    BY <1>1, RangeEquality DEF InQueue
  <1> QED BY <1>2

\* A push keeps the units as they should be.
LEMMA PutPlaces ==
    ASSUME Typed, RecUnits, OneAgent, QueuedOnce, NotForgotten,
           NEW r \in Record, UnitOf[r] \in Unit, Put(r)
    PROVE  RecUnits' /\ OneAgent' /\ QueuedOnce' /\ NotForgotten'
  <1>0. PICK u \in Unit : u = UnitOf[r]
    OBVIOUS
  <1>1. /\ queue'[u] = Append(queue[u], r) /\ queue[u] \in Seq(Record)
        /\ \A v \in Unit : v # u => queue'[v] = queue[v]
        /\ UNCHANGED <<attached, agent>>
        /\ ntyQueue' = (IF u \in attached \cup InQueue THEN ntyQueue
                        ELSE Append(ntyQueue, u))
    BY <1>0 DEF Put, Typed
  <1>2. RecUnits'
    <2>1. ASSUME NEW v \in Unit, NEW i \in 1 .. Len(queue'[v])
          PROVE  UnitOf[queue'[v][i]] = v
      <3>1. CASE v # u
        BY <1>1, <3>1 DEF RecUnits
      <3>2. CASE v = u
        <4>1. i \in 1 .. Len(queue[u]) \/ i = Len(queue[u]) + 1
          BY <1>1, <3>2, AppendIs
        <4>2. CASE i \in 1 .. Len(queue[u])
          <5>1. queue'[v][i] = queue[u][i]
            BY <1>1, <3>2, <4>2, AppendIs
          <5> QED BY <3>2, <4>2, <5>1 DEF RecUnits
        <4>3. CASE i = Len(queue[u]) + 1
          <5>1. queue'[v][i] = r
            BY <1>1, <3>2, <4>3, AppendIs
          <5> QED BY <1>0, <3>2, <5>1
        <4> QED BY <4>1, <4>2, <4>3
      <3> QED BY <3>1, <3>2
    <2> QED BY <1>1, <2>1 DEF RecUnits
  <1>3. OneAgent'
    BY <1>1 DEF OneAgent
  <1>4. CASE u \in attached \cup InQueue
    <2>1. UNCHANGED ntyQueue
      BY <1>1, <1>4
    <2>2. QueuedOnce'
      BY <1>1, <2>1 DEF QueuedOnce
    <2>3. u \in attached \/ \E i \in 1 .. Len(ntyQueue) : ntyQueue[i] = u
      BY <1>4, InQueueIs
    <2>4. NotForgotten'
      BY <1>1, <2>1, <2>3 DEF NotForgotten
    <2> QED BY <1>2, <1>3, <2>2, <2>4
  <1>5. CASE u \notin attached \cup InQueue
    <2>1. ntyQueue' = Append(ntyQueue, u) /\ ntyQueue \in Seq(Unit)
      BY <1>1, <1>5 DEF Typed
    <2>2. \A i \in 1 .. Len(ntyQueue) : ntyQueue[i] # u
      BY <1>5, InQueueIs
    <2>3. /\ Len(ntyQueue) \in Nat /\ Len(ntyQueue') = Len(ntyQueue) + 1
          /\ \A i \in 1 .. Len(ntyQueue) : ntyQueue'[i] = ntyQueue[i]
          /\ ntyQueue'[Len(ntyQueue) + 1] = u
      BY <2>1, AppendIs
    <2>4. QueuedOnce'
      BY <1>1, <1>5, <2>2, <2>3 DEF QueuedOnce
    <2>5. NotForgotten'
      BY <1>1, <2>3 DEF NotForgotten
    <2> QED BY <1>2, <1>3, <2>4, <2>5
  <1> QED BY <1>4, <1>5

LEMMA PutOrder ==
    ASSUME Typed, Order, NEW r \in Record, UnitOf[r] \in Unit, Put(r),
           \A h \in Held : Before(h, r), UNCHANGED status
    PROVE  Order'
  <1>0. PICK u \in Unit : u = UnitOf[r]
    OBVIOUS
  <1>1. /\ queue'[u] = Append(queue[u], r) /\ queue[u] \in Seq(Record)
        /\ \A v \in Unit : v # u => queue'[v] = queue[v]
        /\ UNCHANGED agent
    BY <1>0 DEF Put, Typed
  <1>2. /\ Len(queue[u]) \in Nat /\ Len(queue'[u]) = Len(queue[u]) + 1
        /\ \A i \in 1 .. Len(queue[u]) : queue'[u][i] = queue[u][i]
        /\ queue'[u][Len(queue[u]) + 1] = r
    BY <1>1, AppendIs
  <1>3. \A i \in 1 .. Len(queue[u]) : Before(queue[u][i], r)
    <2>1. \A i \in 1 .. Len(queue[u]) : queue[u][i] \in Queued
      BY <1>1, ElementOfSeq DEF Queued
    <2> QED BY <2>1 DEF Held
  <1>4. ASSUME NEW v \in Unit, NEW i \in 1 .. Len(queue'[v]),
               NEW j \in 1 .. Len(queue'[v]), i < j
        PROVE  Before(queue'[v][i], queue'[v][j])
    <2>1. CASE v # u
      BY <1>1, <1>4, <2>1 DEF Order
    <2>2. CASE v = u /\ j = Len(queue[u]) + 1
      <3>1. i \in 1 .. Len(queue[u])
        BY <1>2, <1>4, <2>2
      <3> QED BY <1>2, <1>3, <2>2, <3>1
    <2>3. CASE v = u /\ j # Len(queue[u]) + 1
      <3>1. i \in 1 .. Len(queue[u]) /\ j \in 1 .. Len(queue[u])
        BY <1>2, <1>4, <2>3
      <3> QED BY <1>2, <1>4, <2>3, <3>1 DEF Order
    <2> QED BY <2>1, <2>2, <2>3
  <1>5. ASSUME NEW b \in Agent, agent[b].pc \in WithRec,
               NEW i \in 1 .. Len(queue'[agent[b].unit])
        PROVE  Before(agent[b].rec, queue'[agent[b].unit][i])
    <2>1. agent[b].unit \in Unit /\ agent[b].rec \in Record
      BY <1>5, AgentFacts DEF WithRec, WithUnit
    <2>2. CASE agent[b].unit # u
      BY <1>1, <1>5, <2>1, <2>2 DEF Order
    <2>3. CASE agent[b].unit = u /\ i = Len(queue[u]) + 1
      <3>1. agent[b].rec \in Held
        BY <1>5, <2>1 DEF Held, Carried
      <3> QED BY <1>2, <2>3, <3>1
    <2>4. CASE agent[b].unit = u /\ i # Len(queue[u]) + 1
      <3>1. i \in 1 .. Len(queue[u])
        BY <1>2, <1>5, <2>4
      <3> QED BY <1>2, <1>5, <2>4, <3>1 DEF Order
    <2> QED BY <2>2, <2>3, <2>4
  <1> QED BY <1>1, <1>4, <1>5 DEF Order, Before, Undoing

LEMMA BeginUnitPlaces ==
    ASSUME Typed, RecUnits, OneAgent, QueuedOnce, NotForgotten,
           NEW a \in Agent, BeginUnit(a)
    PROVE  /\ RecUnits' /\ OneAgent' /\ QueuedOnce' /\ NotForgotten'
           /\ SameRecords
  <1>0. PICK u \in Unit : u = Head(ntyQueue)
    BY BeginUnitGoes
  <1>1. /\ agent[a].pc = "waiting" /\ agent'[a] = [pc |-> "pop", unit |-> u]
        /\ \A b \in Agent : b # a => agent'[b] = agent[b]
    <2>1. Goes(a, [pc |-> "pop", unit |-> Head(ntyQueue)])
      BY BeginUnitGoes
    <2> QED BY <1>0, <2>1, BeginUnitGoes DEF Goes
  <1>2. /\ UNCHANGED queue /\ ntyQueue' = Tail(ntyQueue)
        /\ attached' = attached \cup {u}
    BY <1>0 DEF BeginUnit
  <1>3. ntyQueue \in Seq(Unit) /\ ntyQueue # <<>>
    BY BeginUnitGoes DEF Typed
  <1>4. /\ Len(ntyQueue) \in Nat \ {0} /\ ntyQueue[1] = u
        /\ 1 \in 1 .. Len(ntyQueue)
        /\ Len(ntyQueue') = Len(ntyQueue) - 1
        /\ \A i \in 1 .. Len(ntyQueue') :
              ntyQueue'[i] = ntyQueue[i + 1] /\ i + 1 \in 2 .. Len(ntyQueue)
        /\ \A i \in 1 .. Len(ntyQueue) :
              i = 1 \/ (i - 1 \in 1 .. Len(ntyQueue')
                           /\ ntyQueue'[i - 1] = ntyQueue[i])
    BY <1>0, <1>2, <1>3, TailIs
  <1>5. SameRecords
    BY <1>1, <1>2 DEF SameRecords, WithRec
  <1>6. RecUnits'
    BY <1>5 DEF RecUnits, SameRecords
  <1>7. u \notin attached
    BY <1>4 DEF QueuedOnce
  <1>8. OneAgent'
    <2>1. \A b \in Agent : agent[b].pc \in WithUnit
             => agent[b].unit \in attached /\ b # a
      BY <1>1, AgentFacts DEF OneAgent, WithUnit
    <2>2. \A b \in Agent : agent'[b].pc \in WithUnit /\ b # a
             => agent'[b].unit \in attached
      BY <1>1, <2>1
    <2>3. \A b, c \in Agent :
             b # c /\ agent'[b].pc \in WithUnit /\ agent'[c].pc \in WithUnit
                 => agent'[b].unit # agent'[c].unit
      BY <1>1, <1>7, <2>2 DEF OneAgent
    <2>4. \A v \in Unit : v \in attached'
             <=> \E b \in Agent : agent'[b].pc \in WithUnit
                                     /\ agent'[b].unit = v
      BY <1>1, <1>2, <2>1, <2>2 DEF OneAgent, WithUnit
    <2> QED BY <2>3, <2>4 DEF OneAgent
  <1>9. QueuedOnce'
    <2>1. \A i \in 1 .. Len(ntyQueue') : ntyQueue'[i] # u
      BY <1>4 DEF QueuedOnce
    <2>2. \A i \in 1 .. Len(ntyQueue') : ntyQueue'[i] \notin attached'
      BY <1>2, <1>4, <2>1 DEF QueuedOnce
    <2>3. \A i, j \in 1 .. Len(ntyQueue') :
             i # j => ntyQueue'[i] # ntyQueue'[j]
      BY <1>4 DEF QueuedOnce
    <2> QED BY <2>2, <2>3 DEF QueuedOnce
  <1>10. NotForgotten'
    <2>1. ASSUME NEW v \in Unit, queue[v] # <<>>, v \notin attached'
          PROVE  \E i \in 1 .. Len(ntyQueue') : ntyQueue'[i] = v
      <3>1. PICK i \in 1 .. Len(ntyQueue) : ntyQueue[i] = v
        BY <1>2, <2>1 DEF NotForgotten
      <3> QED BY <1>2, <1>4, <2>1, <3>1
    <2> QED BY <1>2, <2>1 DEF NotForgotten
  <1> QED BY <1>5, <1>6, <1>8, <1>9, <1>10

\* A step of an agent that keeps its unit.
KeepsUnit(a) ==
    /\ UNCHANGED <<attached, ntyQueue>>
    /\ agent[a].pc \in WithUnit /\ agent'[a].pc \in WithUnit
    /\ agent'[a].unit = agent[a].unit
    /\ \A b \in Agent : b # a => agent'[b] = agent[b]
    /\ \A v \in Unit : queue'[v] # <<>> => queue[v] # <<>>

LEMMA KeepsPlaces ==
    ASSUME Typed, OneAgent, QueuedOnce, NotForgotten,
           NEW a \in Agent, KeepsUnit(a)
    PROVE  OneAgent' /\ QueuedOnce' /\ NotForgotten'
  <1>1. \A b \in Agent : agent'[b].pc \in WithUnit <=> agent[b].pc \in WithUnit
    BY DEF KeepsUnit
  <1>2. \A b \in Agent : agent'[b].unit = agent[b].unit
    BY DEF KeepsUnit
  <1>3. OneAgent'
    BY <1>1, <1>2 DEF OneAgent, KeepsUnit
  <1>4. QueuedOnce'
    BY DEF QueuedOnce, KeepsUnit
  <1>5. NotForgotten'
    BY DEF NotForgotten, KeepsUnit
  <1> QED BY <1>3, <1>4, <1>5

LEMMA ThrownPlaces ==
    ASSUME Typed, RecUnits, OneAgent, QueuedOnce, NotForgotten, Order,
           NEW a \in Agent, agent[a].pc = "pop", agent[a].unit \in Unit,
           Thrown(a), UNCHANGED <<status, attached, ntyQueue>>
    PROVE  RecUnits' /\ OneAgent' /\ QueuedOnce' /\ NotForgotten' /\ Order'
  <1>0. PICK u \in Unit : u = agent[a].unit
    OBVIOUS
  <1>1. queue'[u] = <<>> /\ \A v \in Unit : v # u => queue'[v] = queue[v]
    BY <1>0 DEF Thrown, Typed
  <1>2. /\ agent'[a] = [pc |-> "end", unit |-> u]
        /\ \A b \in Agent : b # a => agent'[b] = agent[b]
    BY <1>0 DEF Thrown, Goes
  <1>3. KeepsUnit(a)
    BY <1>0, <1>1, <1>2 DEF KeepsUnit, WithUnit
  <1>4. \A b \in Agent : agent'[b].pc \in WithRec
                            => b # a /\ agent'[b] = agent[b]
    BY <1>2 DEF WithRec
  <1>5. Len(queue'[u]) = 0
    BY <1>1
  <1>6. RecUnits'
    BY <1>1, <1>4, <1>5 DEF RecUnits
  <1>7. ASSUME NEW v \in Unit, NEW i \in 1 .. Len(queue'[v])
        PROVE  v # u /\ queue'[v] = queue[v]
    BY <1>1, <1>5
  <1>8. \A v \in Unit : \A i, j \in 1 .. Len(queue'[v]) :
           i < j => Before(queue'[v][i], queue'[v][j])
    BY <1>7 DEF Order
  <1>9. ASSUME NEW b \in Agent, agent'[b].pc \in WithRec,
               NEW i \in 1 .. Len(queue'[agent'[b].unit])
        PROVE  Before(agent'[b].rec, queue'[agent'[b].unit][i])
    <2>1. agent'[b] = agent[b] /\ agent[b].unit \in Unit
      BY <1>4, <1>9, AgentFacts DEF WithRec, WithUnit
    <2>2. queue'[agent[b].unit] = queue[agent[b].unit]
      BY <1>7, <1>9, <2>1
    <2> QED BY <1>9, <2>1, <2>2 DEF Order
  <1>10. Undoing => \A b \in Agent : agent'[b].pc # "submit"
    BY <1>2 DEF Order
  <1>11. Order'
    BY <1>8, <1>9, <1>10 DEF Order, Before, Undoing
  <1> QED BY <1>3, <1>6, <1>11, KeepsPlaces

LEMMA TakenPlaces ==
    ASSUME Typed, RecUnits, OneAgent, QueuedOnce, NotForgotten, Order,
           NEW a \in Agent, agent[a].pc = "pop", agent[a].unit \in Unit,
           Taken(a), UNCHANGED <<status, attached, ntyQueue>>
    PROVE  RecUnits' /\ OneAgent' /\ QueuedOnce' /\ NotForgotten' /\ Order'
  <1>0. PICK u \in Unit : u = agent[a].unit
    OBVIOUS
  <1>1. queue[u] \in Seq(Record) /\ queue[u] # <<>>
    BY <1>0 DEF Typed, Taken
  <1>2. /\ queue'[u] = Tail(queue[u])
        /\ \A v \in Unit : v # u => queue'[v] = queue[v]
    BY <1>0 DEF Taken, Typed
  <1>3. /\ Len(queue[u]) \in Nat \ {0} /\ 1 \in 1 .. Len(queue[u])
        /\ Head(queue[u]) = queue[u][1]
        /\ \A i \in 1 .. Len(queue'[u]) :
              queue'[u][i] = queue[u][i + 1] /\ i + 1 \in 2 .. Len(queue[u])
    BY <1>1, <1>2, TailIs
  <1>4. /\ agent'[a] = [pc |-> "replay", unit |-> u, rec |-> queue[u][1]]
        /\ \A b \in Agent : b # a => agent'[b] = agent[b]
    BY <1>0, <1>3 DEF Taken, Goes
  <1>5. KeepsUnit(a)
    BY <1>0, <1>1, <1>2, <1>4 DEF KeepsUnit, WithUnit
  <1>6. RecUnits'
    <2>1. \A v \in Unit : \A i \in 1 .. Len(queue'[v]) :
             UnitOf[queue'[v][i]] = v
      <3> TAKE v \in Unit
      <3> TAKE i \in 1 .. Len(queue'[v])
      <3>1. CASE v # u
        BY <1>2, <3>1 DEF RecUnits
      <3>2. CASE v = u
        <4>1. i + 1 \in 1 .. Len(queue[u]) /\ queue'[u][i] = queue[u][i + 1]
          BY <1>3, <3>2
        <4> QED BY <3>2, <4>1 DEF RecUnits
      <3> QED BY <3>1, <3>2
    <2>2. \A b \in Agent : agent'[b].pc \in WithRec
             => UnitOf[agent'[b].rec] = agent'[b].unit
      <3> TAKE b \in Agent
      <3>1. UnitOf[queue[u][1]] = u
        BY <1>3 DEF RecUnits
      <3>2. CASE b = a
        BY <1>4, <3>1, <3>2
      <3>3. CASE b # a
        BY <1>4, <3>3 DEF RecUnits
      <3> QED BY <3>2, <3>3
    <2> QED BY <2>1, <2>2 DEF RecUnits
  <1>7. ASSUME NEW v \in Unit, NEW i \in 1 .. Len(queue'[v]),
               NEW j \in 1 .. Len(queue'[v]), i < j
        PROVE  Before(queue'[v][i], queue'[v][j])
    <2>1. CASE v # u
      BY <1>2, <1>7, <2>1 DEF Order
    <2>2. CASE v = u
      <3>1. /\ i + 1 \in 1 .. Len(queue[u]) /\ j + 1 \in 1 .. Len(queue[u])
            /\ i + 1 < j + 1
            /\ queue'[u][i] = queue[u][i + 1] /\ queue'[u][j] = queue[u][j + 1]
        BY <1>3, <1>7, <2>2
      <3>2. Before(queue[u][i + 1], queue[u][j + 1])
        BY <3>1 DEF Order
      <3> QED BY <2>2, <3>1, <3>2
    <2> QED BY <2>1, <2>2
  <1>8. ASSUME NEW b \in Agent, agent'[b].pc \in WithRec,
               NEW i \in 1 .. Len(queue'[agent'[b].unit])
        PROVE  Before(agent'[b].rec, queue'[agent'[b].unit][i])
    <2>1. CASE b = a
      <3>1. /\ i + 1 \in 1 .. Len(queue[u]) /\ 1 < i + 1
            /\ queue'[u][i] = queue[u][i + 1]
        BY <1>3, <1>4, <1>8, <2>1
      <3>2. Before(queue[u][1], queue[u][i + 1])
        BY <1>3, <3>1 DEF Order
      <3> QED BY <1>4, <2>1, <3>1, <3>2
    <2>2. CASE b # a
      <3>1. agent'[b] = agent[b] /\ agent[b].unit \in Unit
        BY <1>4, <1>8, <2>2, AgentFacts DEF WithRec, WithUnit
      <3>2. agent[b].unit # u
        BY <1>0, <1>8, <2>2, <3>1 DEF OneAgent, WithRec, WithUnit
      <3>3. queue'[agent[b].unit] = queue[agent[b].unit]
        BY <1>2, <3>1, <3>2
      <3> QED BY <1>8, <3>1, <3>3 DEF Order
    <2> QED BY <2>1, <2>2
  <1>9. Undoing => \A b \in Agent : agent'[b].pc # "submit"
    BY <1>4 DEF Order
  <1>10. Order'
    BY <1>7, <1>8, <1>9 DEF Order, Before, Undoing
  <1> QED BY <1>5, <1>6, <1>10, KeepsPlaces

LEMMA ReplayPlaces ==
    ASSUME Typed, RecUnits, OneAgent, QueuedOnce, NotForgotten, Order,
           NEW a \in Agent, Replay(a)
    PROVE  RecUnits' /\ OneAgent' /\ QueuedOnce' /\ NotForgotten' /\ Order'
  <1>1. Goes(a, [pc |-> "submit", unit |-> agent[a].unit,
                 rec |-> agent[a].rec])
    BY ReplayGoes
  <1>2. /\ agent[a].pc = "replay" /\ agent'[a].pc = "submit"
        /\ agent'[a].unit = agent[a].unit /\ agent'[a].rec = agent[a].rec
        /\ \A b \in Agent : b # a => agent'[b] = agent[b]
    BY <1>1, ReplayGoes DEF Goes
  <1>3. UNCHANGED <<status, queue, attached, ntyQueue>> /\ status # "rollback"
    BY Zenon DEF Replay
  <1>4. KeepsUnit(a)
    BY <1>2, <1>3 DEF KeepsUnit, WithUnit
  <1>5. \A b \in Agent :
           /\ agent'[b].unit = agent[b].unit /\ agent'[b].rec = agent[b].rec
           /\ agent'[b].pc \in WithRec <=> agent[b].pc \in WithRec
    BY <1>2 DEF WithRec
  <1>6. RecUnits'
    BY <1>3, <1>5 DEF RecUnits
  <1>7. Order'
    BY <1>3, <1>5 DEF Order, Before, Undoing
  <1> QED BY <1>4, <1>6, <1>7, KeepsPlaces

LEMMA DroppedPlaces ==
    ASSUME Typed, RecUnits, OneAgent, QueuedOnce, NotForgotten, Order,
           NEW a \in Agent, Dropped(a), UNCHANGED <<queue, attached, ntyQueue>>,
           Undoing' = Undoing
    PROVE  RecUnits' /\ OneAgent' /\ QueuedOnce' /\ NotForgotten' /\ Order'
  <1>0. PICK p \in {"pop", "end"} : Goes(a, [pc |-> p, unit |-> agent[a].unit])
    BY DEF Dropped
  <1>1. /\ agent[a].pc \in WithRec /\ agent'[a].pc = p
        /\ agent'[a].unit = agent[a].unit
        /\ \A b \in Agent : b # a => agent'[b] = agent[b]
    BY <1>0 DEF Dropped, Goes
  <1>2. KeepsUnit(a)
    BY <1>1 DEF KeepsUnit, WithUnit, WithRec
  <1>3. \A b \in Agent : agent'[b].pc \in WithRec => agent'[b] = agent[b]
    BY <1>1 DEF WithRec
  <1>4. RecUnits'
    BY <1>3 DEF RecUnits
  <1>5. \A b \in Agent : agent'[b].pc = "submit" => agent[b].pc = "submit"
    BY <1>1
  <1>6. Order'
    BY <1>3, <1>5 DEF Order, Before
  <1> QED BY <1>2, <1>4, <1>6, KeepsPlaces

LEMMA EndUnitPlaces ==
    ASSUME Typed, RecUnits, OneAgent, QueuedOnce, NotForgotten,
           NEW a \in Agent, EndUnit(a)
    PROVE  /\ RecUnits' /\ OneAgent' /\ QueuedOnce' /\ NotForgotten'
           /\ SameRecords
  <1>0. PICK u \in Unit : u = agent[a].unit
    BY IdleGoes
  <1>1. Goes(a, [pc |-> "waiting"]) /\ agent[a].pc = "end"
    BY IdleGoes
  <1>2. /\ agent[a].pc = "end" /\ agent'[a].pc = "waiting"
        /\ \A b \in Agent : b # a => agent'[b] = agent[b]
    BY <1>1 DEF Goes
  <1>3. /\ UNCHANGED queue /\ attached' = attached \ {u}
        /\ ntyQueue' = (IF queue[u] = <<>> THEN ntyQueue
                        ELSE Append(ntyQueue, u))
    BY <1>0 DEF EndUnit
  <1>4. SameRecords
    BY <1>2, <1>3 DEF SameRecords, WithRec
  <1>5. RecUnits'
    BY <1>4 DEF RecUnits, SameRecords
  <1>6. u \in attached
    BY <1>0, <1>2 DEF OneAgent, WithUnit
  <1>7. OneAgent'
    <2>1. \A b \in Agent : agent'[b].pc \in WithUnit
             => b # a /\ agent'[b] = agent[b]
      BY <1>2 DEF WithUnit
    <2>2. \A b \in Agent : agent'[b].pc \in WithUnit => agent'[b].unit # u
      BY <1>0, <1>2, <2>1 DEF OneAgent, WithUnit
    <2>3. \A b \in Agent : agent[b].pc \in WithUnit /\ agent[b].unit # u
             => b # a
      BY <1>0
    <2>4. \A v \in Unit : v \in attached'
             <=> \E b \in Agent : agent'[b].pc \in WithUnit
                                     /\ agent'[b].unit = v
      <3> TAKE v \in Unit
      <3>1. ASSUME v \in attached'
            PROVE  \E b \in Agent : agent'[b].pc \in WithUnit
                                     /\ agent'[b].unit = v
        <4>1. v \in attached /\ v # u
          BY <1>3, <3>1
        <4>2. PICK b \in Agent : agent[b].pc \in WithUnit /\ agent[b].unit = v
          BY <4>1 DEF OneAgent
        <4> QED BY <1>2, <2>3, <4>1, <4>2
      <3>2. ASSUME NEW b \in Agent, agent'[b].pc \in WithUnit,
                   agent'[b].unit = v
            PROVE  v \in attached'
        <4>1. v \in attached /\ v # u
          BY <2>1, <2>2, <3>2 DEF OneAgent
        <4> QED BY <1>3, <4>1
      <3> QED BY <3>1, <3>2
    <2>5. \A b, c \in Agent :
             b # c /\ agent'[b].pc \in WithUnit /\ agent'[c].pc \in WithUnit
                 => agent'[b].unit # agent'[c].unit
      BY <2>1 DEF OneAgent
    <2> QED BY <2>4, <2>5 DEF OneAgent
  <1>8. \A i \in 1 .. Len(ntyQueue) : ntyQueue[i] # u
    BY <1>6 DEF QueuedOnce
  <1>9. CASE queue[u] = <<>>
    <2>1. UNCHANGED ntyQueue
      BY <1>3, <1>9
    <2>2. QueuedOnce'
      BY <1>3, <2>1 DEF QueuedOnce
    <2>3. NotForgotten'
      BY <1>3, <1>9, <2>1 DEF NotForgotten
    <2> QED BY <1>4, <1>5, <1>7, <2>2, <2>3
  <1>10. CASE queue[u] # <<>>
    <2>1. ntyQueue' = Append(ntyQueue, u) /\ ntyQueue \in Seq(Unit)
      BY <1>3, <1>10 DEF Typed
    <2>2. /\ Len(ntyQueue) \in Nat /\ Len(ntyQueue') = Len(ntyQueue) + 1
          /\ \A i \in 1 .. Len(ntyQueue) : ntyQueue'[i] = ntyQueue[i]
          /\ ntyQueue'[Len(ntyQueue) + 1] = u
      BY <2>1, AppendIs
    <2>3. QueuedOnce'
      BY <1>3, <1>8, <2>2 DEF QueuedOnce
    <2>4. NotForgotten'
      BY <1>3, <2>2 DEF NotForgotten
    <2> QED BY <1>4, <1>5, <1>7, <2>3, <2>4
  <1> QED BY <1>9, <1>10

\* Agents wait as long as a failure has to be dealt with (beginUnit).
LEMMA AliveStep ==
    ASSUME Typed, Alive, Next
    PROVE  Alive'
  <1> DEFINE Away == {"none", "checking", "leaving"}
  <1>1. ASSUME NEW b \in Agent, agent[b].pc \notin Away,
               agent'[b].pc \notin Away
        PROVE  Alive'
    BY <1>1 DEF Alive
  <1>2. CASE UNCHANGED agent /\ (status' \in {"normal", status}
                                    \/ status = "wait")
    BY <1>2 DEF Alive
  <1>3. CASE BeginPush \/ BeginUndo
    <2>1. UNCHANGED status
      BY <1>3, QuietBy
    <2>2. \A b \in Agent : agent[b].pc \notin Away => agent'[b].pc \notin Away
      BY <1>3, StartIs, StartEffect
    <2> QED BY <2>1, <2>2 DEF Alive
  <1>4. CASE BeginSerial \/ ReplaySerial \/ OnTimer \/ AllPushed
    BY <1>2, <1>4, QuietBy
  <1>5. CASE EndPush \/ EndUndo
    <2>1. UNCHANGED <<status, agent>>
      BY <1>5, Zenon DEF EndPush, EndUndo
    <2> QED BY <1>2, <2>1
  <1>6. CASE Drained \/ Undone \/ Reset
    <2>1. UNCHANGED agent
      BY <1>6, QuietBy
    <2>2. status' \in {"normal", status} \/ status = "wait"
      BY <1>6, DrainedMoves DEF Undone, Reset
    <2> QED BY <1>2, <2>1, <2>2
  <1>7. ASSUME NEW a \in Agent, NEW s, Goes(a, s), s.pc \notin Away
        PROVE  Alive'
    <2>1. agent'[a].pc \notin Away
      BY <1>7 DEF Goes
    <2> QED BY <2>1 DEF Alive
  <1>8. ASSUME NEW a \in Agent, AgentStep(a) \/ TimeOut(a)
        PROVE  Alive'
    <2>1. CASE BeginUnit(a)
      BY <1>7, <2>1, BeginUnitGoes
    <2>2. CASE PopData(a)
      BY <1>7, <2>2, PopDataGoes DEF Thrown, Taken
    <2>3. CASE Replay(a)
      BY <1>7, <2>3, ReplayGoes
    <2>4. CASE ReplayFails(a) \/ Undo(a) \/ Submit(a)
      <3>1. PICK p \in {"pop", "end"} :
                Goes(a, [pc |-> p, unit |-> agent[a].unit])
        BY <2>4, DroppedBy DEF Dropped
      <3> QED BY <1>7, <3>1
    <2>5. CASE EndUnit(a)
      BY <1>7, <2>5, IdleGoes
    <2>6. CASE LeaveJob(a) \/ LastCheck(a)
      <3>1. PICK p \in {"waiting", "none", "checking"} : Goes(a, [pc |-> p])
        BY <2>6, IdleGoes
      <3>2. agent[a].pc \in Away
        BY <2>6, IdleGoes
      <3>3. \A b \in Agent : agent[b].pc \notin Away => agent'[b] = agent[b]
        BY <3>1, <3>2 DEF Goes
      <3>4. UNCHANGED status
        BY <2>6, QuietBy
      <3> QED BY <3>3, <3>4 DEF Alive
    <2>7. CASE TimeOut(a)
      <3>1. Goes(a, [pc |-> "leaving"])
        BY <2>7, IdleGoes
      <3>2. UNCHANGED status
        BY <2>7, QuietBy
      <3>3. \/ status = "normal"
            \/ \E b \in Agent : b # a /\ agent[b].pc \notin Away
        BY <2>7 DEF TimeOut, CurAgents
      <3> QED BY <3>1, <3>2, <3>3 DEF Alive, Goes
    <2> QED BY <1>8, <2>1, <2>2, <2>3, <2>4, <2>5, <2>6, <2>7 DEF AgentStep
  <1> QED BY <1>3, <1>4, <1>5, <1>6, <1>8 DEF Next, SessionStep

LEMMA PlacesStep ==
    ASSUME Inv, Next
    PROVE  Places'
  <1> /\ Typed /\ Phase /\ Progress /\ Counting
      /\ RecUnits /\ OneAgent /\ QueuedOnce /\ NotForgotten /\ Order /\ Alive
    BY DEF Inv, Places
  <1> DEFINE Rest == RecUnits /\ OneAgent /\ QueuedOnce /\ NotForgotten
  <1>1. Alive'
    BY AliveStep
  <1>2. ASSUME Quiet, status' = "rollback" <=> status = "rollback"
        PROVE  Places'
    <2>1. Rest'
      BY <1>2, PlacesQuiet
    <2>2. Order'
      BY <1>2, QuietIsSame, OrderSame DEF Undoing
    <2> QED BY <1>1, <2>1, <2>2 DEF Places
  <1>3. ASSUME Quiet, UNCHANGED agent, empty PROVE Places'
    <2>1. Rest'
      BY <1>3, PlacesQuiet
    <2>2. Held = {}
      BY <1>3, EventsTell
    <2>3. Order'
      BY <1>3, <2>2, OrderNone DEF Quiet
    <2> QED BY <1>1, <2>1, <2>3 DEF Places
  <1>4. CASE BeginPush \/ BeginUndo \/ BeginSerial \/ ReplaySerial
             \/ OnTimer \/ AllPushed
    BY <1>2, <1>4, QuietBy
  <1>5. CASE Drained \/ Undone
    <2>1. empty
      BY <1>5 DEF Drained, Undone
    <2> QED BY <1>3, <1>5, <2>1, QuietBy
  <1>6. CASE Reset
    <2>1. status # "rollback" /\ status' # "rollback"
      BY <1>6 DEF Reset, Phase, Undoing
    <2> QED BY <1>2, <1>6, <2>1, QuietBy
  <1>7. CASE EndPush
    <2>1. logEnd \in Record /\ UnitOf[logEnd] \in Unit /\ Put(logEnd)
      BY <1>7, EndPushIs
    <2>2. session.pc = "push" /\ UNCHANGED status
      BY <1>7, Zenon DEF EndPush
    <2>3. \A h \in Held : Before(h, logEnd)
      BY <2>2 DEF Progress, Before, Phase
    <2>4. Rest'
      BY <2>1, PutPlaces
    <2>5. Order'
      BY <2>1, <2>2, <2>3, PutOrder
    <2> QED BY <1>1, <2>4, <2>5 DEF Places
  <1>8. CASE EndUndo
    <2>1. /\ NextUndo \in Record /\ UnitOf[NextUndo] \in Unit /\ Put(NextUndo)
          /\ NextUndo \in session.rest
      BY <1>8, EndUndoIs
    <2>2. session.pc = "undo" /\ UNCHANGED status
      BY <1>8, Zenon DEF EndUndo
    <2>3. \A h \in Held : Before(h, NextUndo)
      BY <2>1, <2>2 DEF Progress, Before, Phase
    <2>4. Rest'
      BY <2>1, PutPlaces
    <2>5. Order'
      BY <2>1, <2>2, <2>3, PutOrder
    <2> QED BY <1>1, <2>4, <2>5 DEF Places
  <1>9. ASSUME NEW a \in Agent, AgentStep(a) \/ TimeOut(a)
        PROVE  Places'
    <2>1. CASE BeginUnit(a) \/ EndUnit(a)
      <3>1. UNCHANGED status
        BY <2>1, Zenon DEF BeginUnit, EndUnit
      <3>2. Rest' /\ SameRecords
        BY <2>1, BeginUnitPlaces, EndUnitPlaces
      <3>3. Order'
        BY <3>1, <3>2, OrderSame DEF Undoing
      <3> QED BY <1>1, <3>2, <3>3 DEF Places
    <2>2. CASE PopData(a)
      <3>1. UNCHANGED <<status, attached, ntyQueue>>
        BY <2>2, Zenon DEF PopData
      <3>2. agent[a].pc = "pop" /\ agent[a].unit \in Unit
        BY <2>2, PopDataGoes
      <3>3. Rest' /\ Order'
        BY <2>2, <3>1, <3>2, PopDataGoes, ThrownPlaces, TakenPlaces
      <3> QED BY <1>1, <3>3 DEF Places
    <2>3. CASE Replay(a)
      BY <1>1, <2>3, ReplayPlaces DEF Places
    <2>4. CASE ReplayFails(a) \/ Undo(a) \/ Submit(a)
      <3>1. Dropped(a)
        BY <2>4, DroppedBy
      <3>2. UNCHANGED <<queue, attached, ntyQueue>>
        BY <2>4, Zenon DEF ReplayFails, Undo, Submit
      <3>3. Undoing' = Undoing
        BY <2>4, Zenon DEF ReplayFails, Undo, Submit, Undoing
      <3>4. Rest' /\ Order'
        BY <3>1, <3>2, <3>3, DroppedPlaces
      <3> QED BY <1>1, <3>4 DEF Places
    <2>5. CASE LeaveJob(a) \/ LastCheck(a) \/ TimeOut(a)
      BY <1>2, <2>5, QuietBy
    <2> QED BY <1>9, <2>1, <2>2, <2>3, <2>4, <2>5 DEF AgentStep
  <1> QED BY <1>4, <1>5, <1>6, <1>7, <1>8, <1>9 DEF Next, SessionStep

----------------------------------------------------------------------------
(* Progress: from here on records are in sets.                             *)

LEMMA HeldType ==
    ASSUME Typed
    PROVE  /\ Held \subseteq Record /\ Submitted \subseteq Held
           /\ complete \subseteq Record /\ session.rest \subseteq Record
  BY DEF Held, Carried, Queued, Submitted, WithRec, Typed

\* Nothing new is held, and nothing is missing unless there is a failure.
LEMMA ProgressShrinks ==
    ASSUME Typed, Progress, Held' \subseteq Held,
           UNCHANGED <<expect, logEnd, complete>>,
           session'.rest = session.rest, Undoing' = Undoing,
           \/ status' # "normal"
           \/ UNCHANGED status /\ Held' = Held
    PROVE  Progress'
  <1>1. Owed' = Owed
    BY DEF Owed
  <1> QED BY <1>1 DEF Progress, Parallel

LEMMA ProgressSession ==
    ASSUME Inv, SessionStep
    PROVE  Progress'
  <1> Typed /\ Phase /\ Progress /\ Counting
    BY DEF Inv
  <1>0. /\ Held \subseteq Record /\ complete \subseteq Record
        /\ session.rest \subseteq Record
        /\ expect \in 0 .. MaxLsn + 1 /\ logEnd \in 1 .. MaxLsn + 1
        /\ MaxLsn \in Nat /\ Record = 1 .. MaxLsn
    BY HeldType, Records DEF Typed
  <1>a. Quiet => Held' = Held
    BY QuietIsSame, HeldSame
  <1>1. CASE BeginPush
    <2>1. /\ session.pc = "idle"
          /\ expect' = (IF expect = None THEN logEnd ELSE expect)
          /\ UNCHANGED <<logEnd, complete>>
      BY <1>1, Zenon DEF BeginPush, Dispatch
    <2>2. Held' = Held /\ UNCHANGED status
      BY <1>1, <1>a, QuietBy
    <2>3. session.rest = {} /\ session'.rest = {} /\ ~Undoing /\ ~Undoing'
      BY <1>1, <2>1, <2>2, SessionMoves DEF Moves, Phase, Undoing
    <2>4. CASE expect # None
      <3>1. UNCHANGED expect
        BY <2>1, <2>4
      <3> QED BY <2>1, <2>2, <2>3, <3>1, ProgressShrinks DEF Undoing
    <2>5. CASE expect = None
      <3>1. Held = {} /\ complete = {} /\ expect' = logEnd
        BY <2>1, <2>5 DEF Progress
      <3> QED BY <1>0, <2>1, <2>2, <2>3, <3>1 DEF Progress, None
    <2> QED BY <2>4, <2>5
  <1>2. CASE EndPush
    <2>1. /\ session.pc = "push" /\ logEnd' = logEnd + 1
          /\ UNCHANGED <<status, expect, complete>>
      BY <1>2, Zenon DEF EndPush, progress
    <2>2. logEnd \in Record /\ UnitOf[logEnd] \in Unit /\ Put(logEnd)
      BY <1>2, EndPushIs
    <2>3. Held' = Held \cup {logEnd}
      BY <2>2, HeldPut
    <2>4. /\ session.rest = {} /\ session'.rest = {} /\ ~Undoing /\ ~Undoing'
          /\ expect # None
      BY <1>2, <2>1, SessionMoves DEF Moves, Phase, Undoing
    <2>5. Parallel(logEnd)
      BY <2>1 DEF Parallel, Phase
    <2>6. \A r \in Held \cup complete : r < logEnd /\ UnitOf[r] # Serial
      BY DEF Progress, Parallel
    <2>7. UnitOf[logEnd] # Serial
      BY <2>5 DEF Parallel
    <2>8. Owed = complete /\ Owed' = complete
      BY <2>1, <2>4 DEF Owed
    <2>9. Held' \cap Owed' = {}
      <3>1. Held \cap complete = {}
        BY <2>8 DEF Progress
      <3>2. logEnd \notin complete
        BY <1>0, <2>6
      <3> QED BY <2>3, <2>8, <3>1, <3>2
    <2>10. \A r \in Held' \cup complete' \cup session'.rest :
              r < logEnd' /\ UnitOf[r] # Serial
      <3>1. \A r \in Held \cup complete : r < logEnd + 1 /\ UnitOf[r] # Serial
        BY <1>0, <2>6
      <3>2. Held' \cup complete' \cup session'.rest
                = Held \cup complete \cup {logEnd}
        BY <2>1, <2>3, <2>4
      <3>3. logEnd < logEnd + 1
        BY <1>0
      <3> QED BY <2>1, <2>7, <3>1, <3>2, <3>3
    <2>11. \A r \in Held' : r >= expect
      BY <2>3 DEF Progress
    <2>12. status = "normal" => \A n \in Record : expect <= n /\ n < logEnd + 1
                               => n \in complete \cup Held'
      BY <1>0, <2>3, <2>4 DEF Progress
    <2> QED BY <1>0, <2>1, <2>4, <2>9, <2>10, <2>11, <2>12
            DEF Progress, Parallel
  <1>3. CASE BeginSerial \/ OnTimer
    <2>1. Held' = Held /\ UNCHANGED <<status, expect, logEnd, complete>>
      BY <1>3, <1>a, QuietBy DEF BeginSerial, OnTimer, progress
    <2>2. session'.rest = session.rest
      BY <1>3, SessionMoves DEF Moves
    <2> QED BY <2>1, <2>2, ProgressShrinks DEF Undoing
  <1>4. CASE ReplaySerial
    <2>1. Held' = Held /\ UNCHANGED <<status, complete>>
      BY <1>4, <1>a, QuietBy DEF ReplaySerial
    <2>2. session.pc = "serial" /\ allEmpty
      BY <1>4 DEF ReplaySerial
    <2>3. session.rest = {} /\ session'.rest = {} /\ ~Undoing /\ ~Undoing'
      BY <1>4, <2>1, <2>2, SessionMoves DEF Moves, Phase, Undoing
    <2>4. Held = {} /\ complete = {}
      BY <2>2, <2>3, EventsTell DEF Owed
    <2>5. \/ expect = None /\ expect' = None
          \/ expect = logEnd /\ expect' = logEnd + 1 /\ logEnd' = logEnd + 1
          \/ UNCHANGED <<expect, logEnd>>
      BY <1>4 DEF ReplaySerial
    <2>6. logEnd' \in {logEnd, logEnd + 1}
      BY <1>4 DEF ReplaySerial
    <2>7. expect' <= logEnd'
      BY <1>0, <2>5, <2>6 DEF Progress, None
    <2>8. status = "normal" /\ expect' # None =>
             \A n \in Record : ~(expect' <= n /\ n < logEnd')
      BY <1>0, <2>4, <2>5, <2>6 DEF Progress, None
    <2> QED BY <2>1, <2>3, <2>4, <2>7, <2>8 DEF Progress
  <1>5. CASE Drained
    <2>1. /\ Held' = Held /\ UNCHANGED <<expect, logEnd, complete>>
          /\ session.pc = "drain" /\ empty
      BY <1>5, <1>a, QuietBy DEF Drained, progress
    <2>2. CASE /\ status = "wait" /\ status' = "rollback"
               /\ session'.rest = complete
      <3>1. Held = {}
        BY <2>1, EventsTell
      <3>2. expect # None
        BY <2>2 DEF Phase
      <3> QED BY <2>1, <2>2, <3>1, <3>2 DEF Progress, Parallel
    <2>3. CASE UNCHANGED status /\ session'.rest = session.rest
      BY <2>1, <2>3, ProgressShrinks DEF Undoing
    <2> QED BY <1>5, <2>2, <2>3, DrainedMoves DEF Moves
  <1>6. CASE BeginUndo
    <2>1. Held' = Held /\ UNCHANGED status
      BY <1>6, <1>a, QuietBy
    <2>2. UNCHANGED <<expect, logEnd, complete>>
      BY <1>6, Zenon DEF BeginUndo, progress
    <2>3. session'.rest = session.rest
      BY <1>6, SessionMoves DEF Moves
    <2> QED BY <2>1, <2>2, <2>3, ProgressShrinks DEF Undoing
  <1>7. CASE EndUndo
    <2>1. session.pc = "undo" /\ UNCHANGED <<status, logEnd, expect, complete>>
      BY <1>7, Zenon DEF EndUndo, progress
    <2>2. PICK m \in Record : m = NextUndo
      BY <1>7, EndUndoIs
    <2>3. /\ UnitOf[m] \in Unit /\ Put(m) /\ m \in session.rest
          /\ \A y \in session.rest : m >= y
      BY <1>7, <2>2, EndUndoIs
    <2>4. Held' = Held \cup {m}
      BY <2>3, HeldPut
    <2>5. session'.rest = session.rest \ {m}
      BY <1>7, <2>2, EndUndoMoves
    <2>6. Undoing /\ Undoing' /\ Owed = session.rest /\ Owed' = session'.rest
      BY <2>1 DEF Phase, Undoing, Owed
    <2>7. expect # None /\ status # "normal"
      BY <2>6 DEF Phase, Undoing
    <2>8. Held' \cap Owed' = {}
      BY <2>4, <2>5, <2>6 DEF Progress
    <2>9. \A r \in session'.rest : \A h \in Held' : r < h
      BY <1>0, <2>3, <2>4, <2>5 DEF Progress
    <2>10. \A r \in Held' : r >= expect /\ r > expect
      BY <1>0, <2>3, <2>4, <2>6 DEF Progress
    <2>11. \A r \in Held' \cup complete' \cup session'.rest :
              r < logEnd /\ UnitOf[r] # Serial
      BY <2>1, <2>3, <2>4, <2>5 DEF Progress, Parallel
    <2>12. \A r \in complete' \cup session'.rest : r > expect
      BY <2>1, <2>5 DEF Progress
    <2> QED BY <2>1, <2>7, <2>8, <2>9, <2>10, <2>11, <2>12
            DEF Progress, Parallel
  <1>8. CASE AllPushed
    <2>1. /\ Held' = Held /\ complete' = {} /\ UNCHANGED <<status, logEnd, expect>>
          /\ session.pc = "undoNext"
      BY <1>8, <1>a, QuietBy DEF AllPushed
    <2>2. session'.rest = session.rest
      BY <1>8, SessionMoves DEF Moves
    <2>3. Undoing /\ Undoing' /\ expect # None /\ status # "normal"
      BY <2>1 DEF Phase, Undoing
    <2>4. Owed = session.rest /\ Owed' = session.rest
      BY <2>2, <2>3 DEF Owed
    <2> QED BY <2>1, <2>2, <2>3, <2>4 DEF Progress, Parallel
  <1>9. CASE Undone
    <2>1. /\ Held' = Held /\ UNCHANGED <<complete, expect>> /\ logEnd' = expect
          /\ session.pc = "undone" /\ status' = "normal" /\ empty
      BY <1>9, <1>a, QuietBy DEF Undone, progress
    <2>2. session'.rest = session.rest
      BY <1>9, SessionMoves DEF Moves
    <2>3. session.rest = {} /\ complete = {} /\ Held = {}
      BY <2>1, EventsTell DEF Phase
    <2> QED BY <1>0, <2>1, <2>2, <2>3 DEF Progress
  <1> QED BY <1>1, <1>2, <1>3, <1>4, <1>5, <1>6, <1>7, <1>8, <1>9
             DEF SessionStep

LEMMA ProgressReset ==
    ASSUME Inv, Reset
    PROVE  Progress'
  <1> Typed /\ Phase /\ Progress /\ Counting
    BY DEF Inv
  <1>1. Held' = Held
    BY QuietBy, QuietIsSame, HeldSame
  <1>2. /\ session.pc = "idle" /\ all = 0 /\ status' = "normal"
        /\ expect' = None /\ UNCHANGED <<complete, session, logEnd>>
    BY DEF Reset
  <1>3. ~Undoing /\ session.rest = {} /\ session'.rest = {}
    BY <1>2 DEF Phase
  <1>4. Held = {} /\ complete = {}
    BY <1>2, <1>3, EventsTell DEF Owed
  <1>5. logEnd \in 1 .. MaxLsn + 1 /\ MaxLsn \in Nat
    BY Records DEF Typed
  <1> QED BY <1>1, <1>2, <1>3, <1>4, <1>5 DEF Progress, None

\* What a submit does to the sets: the record is counted in, with all of
\* completeMap up to the next gap, or it goes into completeMap.
LEMMA SubmitEffect ==
    ASSUME Inv, NEW a \in Agent, Submit(a), NEW r, r = agent[a].rec
    PROVE  /\ r \in Held /\ r \in Submitted /\ r \in Record /\ r \notin complete
           /\ Held' = Held \ {r} /\ Submitted' = Submitted \ {r}
           /\ ~Undoing /\ ~Undoing' /\ expect # None
           /\ UNCHANGED <<status, session, logEnd, applied, empty, allEmpty>>
           /\ total' = total - 1
           /\ \/ /\ r = expect /\ expect' \in Int /\ r < expect'
                 /\ expect' \notin complete
                 /\ \A n \in Record : r < n /\ n < expect' => n \in complete
                 /\ complete' = {n \in complete : n > expect'}
                 /\ all' = all - 1 - Cardinality(complete \ complete')
              \/ /\ r > expect /\ expect' = expect
                 /\ complete' = complete \cup {r}
                 /\ all' = all
  <1> /\ Typed /\ Phase /\ Progress /\ Counting
      /\ RecUnits /\ OneAgent /\ Order
    BY DEF Inv, Places
  <1>1. /\ UNCHANGED <<status, session, logEnd, applied, empty, allEmpty, queue>>
        /\ total' = total - 1
    BY Zenon DEF Submit
  <1>2. agent[a].pc = "submit" /\ Dropped(a)
    BY DroppedBy
  <1>3. r \in Record /\ r \in Submitted
    BY <1>2 DEF Dropped, Submitted
  <1>4. Held' = Held \ {r} /\ Submitted' = Submitted \ {r} /\ r \in Held
    BY <1>1, <1>2, HeldDropped
  <1>5. ~Undoing /\ ~Undoing'
    BY <1>1, <1>2 DEF Order, Undoing
  <1>6. r >= expect /\ expect # None /\ r \notin complete
    BY <1>4, <1>5 DEF Progress, Owed
  <1>7. expect \in Int /\ r \in Int /\ MaxLsn \in Nat /\ Record = 1 .. MaxLsn
    BY <1>3, Records DEF Typed
  <1>8. CASE CountsIn(r)
    <2>1. r = expect
      BY <1>6, <1>7, <1>8 DEF CountsIn
    <2>2. expect' = NextGap(r)
      BY <1>8, <2>1 DEF CountsIn
    <2>3. complete \subseteq Record
      BY DEF Typed
    <2>4. /\ NextGap(r) \in r + 1 .. MaxLsn + 1
          /\ NextGap(r) \notin complete
          /\ \A n \in r + 1 .. MaxLsn + 1 : n < NextGap(r) => n \in complete
      BY <1>3, <2>3, NextGapIn
    <2>5. \A n \in Record : r < n /\ n < expect' => n \in complete
      BY <1>7, <2>2, <2>4
    <2>6. expect' \in Int /\ r < expect' /\ expect' \notin complete
      BY <1>7, <2>2, <2>4
    <2> QED BY <1>1, <1>3, <1>4, <1>5, <1>6, <1>8, <2>1, <2>5, <2>6
            DEF CountsIn
  <1>9. CASE Remembers(r)
    <2>1. r > expect
      BY <1>7, <1>9 DEF Remembers
    <2> QED BY <1>1, <1>3, <1>4, <1>5, <1>6, <1>9, <2>1 DEF Remembers
  <1> QED BY <1>8, <1>9, SubmitIs

LEMMA ProgressSubmit ==
    ASSUME Inv, NEW a \in Agent, Submit(a)
    PROVE  Progress'
  <1> Typed /\ Phase /\ Progress
    BY DEF Inv
  <1>0. PICK r \in Record : r = agent[a].rec
    BY DroppedBy DEF Dropped
  <1>1. /\ Held \subseteq Record /\ complete \subseteq Record
        /\ expect \in Int /\ logEnd \in Int /\ r \in Int
        /\ MaxLsn \in Nat /\ Record = 1 .. MaxLsn
    BY HeldType, Records DEF Typed
  <1>2. /\ r \in Held /\ r \notin complete /\ Held' = Held \ {r}
        /\ ~Undoing /\ ~Undoing' /\ expect # None
        /\ UNCHANGED <<status, session, logEnd>>
    BY <1>0, SubmitEffect
  <1>3. session.rest = {} /\ session'.rest = {} /\ Owed' = complete'
    BY <1>2 DEF Phase, Owed
  <1>4. /\ \A h \in Held : h >= expect /\ h < logEnd /\ UnitOf[h] # Serial
        /\ \A h \in complete : h > expect /\ h < logEnd /\ UnitOf[h] # Serial
        /\ Held \cap complete = {} /\ expect <= logEnd
        /\ status = "normal" => \A n \in Record :
               expect <= n /\ n < logEnd => n \in complete \cup Held
    BY <1>2 DEF Progress, Owed, Parallel
  <1>5. CASE /\ r = expect /\ expect' \in Int /\ r < expect'
             /\ expect' \notin complete
             /\ \A n \in Record : r < n /\ n < expect' => n \in complete
             /\ complete' = {n \in complete : n > expect'}
    <2>1. expect' <= logEnd
      <3> SUFFICES ASSUME logEnd < expect' PROVE FALSE
        BY <1>1, <1>5
      <3>1. r < logEnd
        BY <1>2, <1>4
      <3>2. CASE logEnd \in Record
        <4>1. logEnd \in complete
          BY <1>5, <3>1, <3>2
        <4> QED BY <1>1, <1>4, <4>1
      <3>3. CASE logEnd \notin Record
        <4>1. logEnd = MaxLsn + 1
          BY <1>1, <3>3 DEF Typed
        <4>2. expect' \in 0 .. MaxLsn + 1
          <5>1. Typed'
            BY TypedAgent DEF AgentStep
          <5> QED BY <5>1 DEF Typed
        <4> QED BY <1>1, <4>1, <4>2
      <3> QED BY <3>2, <3>3
    <2>2. ASSUME NEW h \in Held' PROVE h >= expect'
      <3>1. h \in Held /\ h # r /\ h \in Int
        BY <1>1, <1>2
      <3>2. r < h /\ h \notin complete
        BY <1>1, <1>4, <1>5, <3>1
      <3> QED BY <1>1, <1>5, <3>1, <3>2
    <2>3. \A c \in complete' : c \in complete /\ c > expect'
      BY <1>5
    <2>4. status = "normal" => \A n \in Record :
             expect' <= n /\ n < logEnd => n \in complete' \cup Held'
      <3> SUFFICES ASSUME status = "normal", NEW n \in Record, expect' <= n,
                          n < logEnd
                   PROVE  n \in complete' \cup Held'
        OBVIOUS
      <3>1. n \in complete \cup Held /\ n # r
        BY <1>1, <1>4, <1>5
      <3>2. CASE n \in Held
        BY <1>2, <3>1, <3>2
      <3>3. CASE n \in complete
        <4>1. n > expect'
          BY <1>1, <1>5, <3>3
        <4> QED BY <1>5, <3>3, <4>1
      <3> QED BY <3>1, <3>2, <3>3
    <2>5. expect' # None
      BY <1>1, <1>5 DEF None
    <2>6. Held' \cap complete' = {}
      BY <1>2, <1>4, <2>3
    <2>7. \A x \in Held' \cup complete' : x < logEnd /\ UnitOf[x] # Serial
      BY <1>2, <1>4, <2>3
    <2> QED BY <1>2, <1>3, <2>1, <2>2, <2>3, <2>4, <2>5, <2>6, <2>7
            DEF Progress, Parallel
  <1>6. CASE r > expect /\ expect' = expect /\ complete' = complete \cup {r}
    <2>1. Held' \cap complete' = {}
      BY <1>2, <1>4, <1>6
    <2>2. Held' \cup complete' = Held \cup complete
      BY <1>2, <1>6
    <2>3. \A x \in Held' \cup complete' : x < logEnd /\ UnitOf[x] # Serial
      BY <1>4, <2>2
    <2>4. \A x \in Held' : x >= expect
      BY <1>2, <1>4
    <2>5. \A x \in complete' : x > expect
      BY <1>4, <1>6
    <2>6. status = "normal" => \A n \in Record :
             expect <= n /\ n < logEnd => n \in complete' \cup Held'
      BY <1>4, <2>2
    <2> QED BY <1>2, <1>3, <1>4, <1>6, <2>1, <2>3, <2>4, <2>5, <2>6
            DEF Progress, Parallel
  <1> QED BY <1>0, <1>5, <1>6, SubmitEffect

LEMMA ProgressAgent ==
    ASSUME Inv, NEW a \in Agent, AgentStep(a) \/ TimeOut(a)
    PROVE  Progress'
  <1> /\ Typed /\ Phase /\ Progress
      /\ RecUnits /\ OneAgent /\ QueuedOnce /\ NotForgotten /\ Order
    BY DEF Inv, Places
  <1>1. CASE BeginUnit(a) \/ EndUnit(a)
    <2>1. UNCHANGED <<status, expect, logEnd, complete, session>>
      BY <1>1, Zenon DEF BeginUnit, EndUnit, progress
    <2>2. Held' = Held
      BY <1>1, BeginUnitPlaces, EndUnitPlaces, HeldSame
    <2> QED BY <2>1, <2>2, ProgressShrinks DEF Undoing
  <1>2. CASE PopData(a)
    <2>1. UNCHANGED <<status, expect, logEnd, complete, session>>
      BY <1>2, Zenon DEF PopData, progress
    <2>2. agent[a].pc = "pop" /\ agent[a].unit \in Unit
      BY <1>2, PopDataGoes
    <2>3. CASE Taken(a)
      <3>1. Held' = Held
        BY <2>2, <2>3, HeldTaken
      <3> QED BY <2>1, <3>1, ProgressShrinks DEF Undoing
    <2>4. CASE Thrown(a)
      <3>1. Held' = Held \ InUnit(agent[a].unit)
        BY <2>2, <2>4, HeldThrown
      <3>2. CASE status = "wait"
        BY <2>1, <3>1, <3>2, ProgressShrinks DEF Undoing
      <3>3. CASE status # "wait"
        <4>1. queue[agent[a].unit] = <<>>
          BY <2>4, <3>3 DEF Thrown
        <4>2. InUnit(agent[a].unit) = {}
          BY <4>1 DEF InUnit
        <4>3. Held' = Held
          BY <3>1, <4>2
        <4> QED BY <2>1, <4>3, ProgressShrinks DEF Undoing
      <3> QED BY <3>2, <3>3
    <2> QED BY <1>2, <2>3, <2>4, PopDataGoes
  <1>3. CASE Replay(a)
    <2>1. UNCHANGED <<status, expect, logEnd, complete, session>>
      BY <1>3, Zenon DEF Replay, progress
    <2>2. Held' = Held
      BY <1>3, HeldReplay
    <2> QED BY <2>1, <2>2, ProgressShrinks DEF Undoing
  <1>4. CASE ReplayFails(a) \/ Undo(a)
    <2>1. UNCHANGED <<expect, logEnd, complete, session, queue>>
      BY <1>4, Zenon DEF ReplayFails, Undo, progress
    <2>2. Held' \subseteq Held
      BY <1>4, <2>1, DroppedBy, HeldDropped
    <2>3. /\ status' # "normal"
          /\ status' = "rollback" <=> status = "rollback"
      BY <1>4, Zenon DEF ReplayFails, Undo
    <2>4. Undoing' = Undoing
      BY <2>3 DEF Undoing
    <2> QED BY <2>1, <2>2, <2>3, <2>4, ProgressShrinks
  <1>5. CASE Submit(a)
    BY <1>5, ProgressSubmit
  <1>6. CASE LeaveJob(a) \/ LastCheck(a) \/ TimeOut(a)
    <2>1. UNCHANGED <<status, expect, logEnd, complete, session>>
      BY <1>6, Zenon DEF LeaveJob, LastCheck, TimeOut, progress
    <2>2. Held' = Held
      BY <1>6, QuietBy, QuietIsSame, HeldSame
    <2> QED BY <2>1, <2>2, ProgressShrinks DEF Undoing
  <1> QED BY <1>1, <1>2, <1>3, <1>4, <1>5, <1>6 DEF AgentStep

----------------------------------------------------------------------------
(* The counters.                                                           *)

\* A unit has as many records as its sequence is long: popData subtracts the
\* length.
LEMMA UnitSize ==
    ASSUME Typed, Order, NEW u \in Unit
    PROVE  /\ InUnit(u) \subseteq Held /\ IsFiniteSet(InUnit(u))
           /\ Cardinality(InUnit(u)) = Len(queue[u])
  <1>1. queue[u] \in Seq(Record) /\ Len(queue[u]) \in Nat
    BY DEF Typed
  <1>2. InUnit(u) \subseteq Held
    BY QueuedIs DEF Held
  <1>3. \A i \in 1 .. Len(queue[u]) : queue[u][i] \in Nat
    BY <1>1, ElementOfSeq, Records
  <1>4. \A i, j \in 1 .. Len(queue[u]) :
           queue[u][i] = queue[u][j] => i = j
    <2>1. ASSUME NEW i \in 1 .. Len(queue[u]), NEW j \in 1 .. Len(queue[u]),
                 i < j
          PROVE  queue[u][i] # queue[u][j]
      <3>1. Before(queue[u][i], queue[u][j])
        BY <2>1 DEF Order
      <3> QED BY <1>3, <3>1 DEF Before
    <2> QED BY <1>1, <2>1
  <1> DEFINE f == [i \in 1 .. Len(queue[u]) |-> queue[u][i]]
  <1>5. f \in [1 .. Len(queue[u]) -> InUnit(u)]
    BY DEF InUnit
  <1>6. f \in Bijection(1 .. Len(queue[u]), InUnit(u))
    <2>1. f \in Injection(1 .. Len(queue[u]), InUnit(u))
      BY <1>4, <1>5 DEF Injection, IsInjective
    <2>2. f \in Surjection(1 .. Len(queue[u]), InUnit(u))
      BY <1>5 DEF Surjection, InUnit
    <2> QED BY <2>1, <2>2 DEF Bijection
  <1>7. ExistsBijection(1 .. Len(queue[u]), InUnit(u))
    BY <1>6 DEF ExistsBijection
  <1>8. Cardinality(InUnit(u)) = Len(queue[u])
    BY <1>1, <1>7, FS_CountingElements
  <1>9. IsFiniteSet(InUnit(u))
    BY <1>1, <1>7, FS_NatBijection
  <1> QED BY <1>2, <1>8, <1>9

LEMMA DiffSize ==
    ASSUME NEW S, IsFiniteSet(S), NEW T \in SUBSET S
    PROVE  Cardinality(S \ T) = Cardinality(S) - Cardinality(T)
  <1>1. S \cap T = T
    OBVIOUS
  <1>2. Cardinality(S \ T) = Cardinality(S) - Cardinality(S \cap T)
    BY FS_Difference, Zenon
  <1> QED BY <1>1, <1>2, Zenon

LEMMA CountingSame ==
    ASSUME Counting, Held' = Held, Owed' = Owed,
           UNCHANGED <<total, all, empty, allEmpty>>
    PROVE  Counting'
  BY DEF Counting

\* Records go, and as many are taken off both counters.
LEMMA CountingLess ==
    ASSUME Typed, Progress, Counting, NEW S \in SUBSET Held, NEW n \in Nat,
           IsFiniteSet(S), Cardinality(S) = n,
           Held' = Held \ S, Owed' = Owed, total' = total - n, all' = all - n,
           UNCHANGED <<empty, allEmpty>>
    PROVE  Counting'
  <1>1. /\ IsFiniteSet(Held) /\ IsFiniteSet(Held \cup Owed)
        /\ total \in Nat /\ all \in Nat
    BY EventsTell
  <1>2. S \in SUBSET Held /\ S \in SUBSET (Held \cup Owed)
    OBVIOUS
  <1>3. Cardinality(Held \ S) = total - n
    BY <1>1, <1>2, DiffSize DEF Counting
  <1>4. Cardinality((Held \cup Owed) \ S) = all - n
    BY <1>1, <1>2, DiffSize DEF Counting
  <1>5. Held' \cup Owed' = (Held \cup Owed) \ S
    BY DEF Progress
  <1>6. total' = Cardinality(Held')
    BY <1>3
  <1>7. all' = Cardinality(Held' \cup Owed')
    BY <1>4, <1>5
  <1>8. total' \in Nat /\ all' \in Nat
    <2>1. IsFiniteSet(Held \ S) /\ IsFiniteSet((Held \cup Owed) \ S)
      BY <1>1, FS_Difference
    <2>2. Cardinality(Held \ S) \in Nat /\ Cardinality((Held \cup Owed) \ S) \in Nat
      BY <2>1, FS_CardinalityType
    <2> QED BY <1>3, <1>4, <2>2
  <1>9. (empty => total' = 0) /\ (allEmpty => all' = 0)
    BY <1>1, <1>8 DEF Counting
  <1> QED BY <1>6, <1>7, <1>9 DEF Counting

LEMMA CountingSession ==
    ASSUME Inv, SessionStep
    PROVE  Counting'
  <1> Typed /\ Phase /\ Progress /\ Counting
    BY DEF Inv
  <1>a. Quiet => Held' = Held
    BY QuietIsSame, HeldSame
  <1>b. ASSUME UNCHANGED <<status, complete>>, session'.rest = session.rest
        PROVE  Owed' = Owed
    BY <1>b DEF Owed, Undoing
  <1>1. CASE BeginPush \/ BeginUndo
    <2>1. UNCHANGED <<status, complete, total, all, empty, allEmpty>>
      BY <1>1, Zenon DEF BeginPush, BeginUndo, counters, progress
    <2>2. session'.rest = session.rest
      BY <1>1, SessionMoves DEF Moves
    <2>3. Held' = Held
      BY <1>1, <1>a, QuietBy
    <2> QED BY <1>b, <2>1, <2>2, <2>3, CountingSame
  <1>2. CASE EndPush
    <2>1. /\ session.pc = "push" /\ UNCHANGED <<status, complete>>
      BY <1>2, Zenon DEF EndPush, progress
    <2>2. logEnd \in Record /\ UnitOf[logEnd] \in Unit /\ Put(logEnd)
      BY <1>2, EndPushIs
    <2>3. Held' = Held \cup {logEnd}
      BY <2>2, HeldPut
    <2>4. session'.rest = session.rest
      BY <1>2, SessionMoves DEF Moves
    <2>5. Owed' = Owed
      BY <1>b, <2>1, <2>4
    <2>6. logEnd \notin Held \cup Owed
      <3>1. \A r \in Held \cup Owed : r < logEnd
        BY DEF Progress, Owed
      <3>2. ~(logEnd < logEnd)
        BY <2>2, Records
      <3> QED BY <3>1, <3>2
    <2>7. IsFiniteSet(Held) /\ IsFiniteSet(Held \cup Owed)
      BY EventsTell
    <2>8. /\ Cardinality(Held \cup {logEnd}) = total + 1
          /\ Cardinality((Held \cup Owed) \cup {logEnd}) = all + 1
      BY <2>6, <2>7, FS_AddElement DEF Counting
    <2>9. Held' \cup Owed' = (Held \cup Owed) \cup {logEnd}
      BY <2>3, <2>5
    <2>10. /\ total' = total + 1 /\ all' = all + 1
           /\ empty' = FALSE /\ allEmpty' = FALSE
      BY <1>2, <2>2, EndPushIs DEF Put
    <2> QED BY <2>3, <2>8, <2>9, <2>10 DEF Counting
  <1>3. CASE BeginSerial \/ OnTimer \/ ReplaySerial
    <2>1. UNCHANGED <<status, complete, total, all, empty, allEmpty>>
      BY <1>3, Zenon DEF BeginSerial, OnTimer, ReplaySerial, counters, progress
    <2>2. session'.rest = session.rest
      BY <1>3, SessionMoves DEF Moves
    <2>3. Held' = Held
      BY <1>3, <1>a, QuietBy
    <2> QED BY <1>b, <2>1, <2>2, <2>3, CountingSame
  <1>4. CASE Drained
    <2>1. UNCHANGED <<complete, total, all, empty, allEmpty>>
      BY <1>4 DEF Drained, counters, progress
    <2>2. Owed' = Owed
      BY <1>4, <2>1, DrainedMoves DEF Moves, Owed, Undoing
    <2>3. Held' = Held
      BY <1>4, <1>a, QuietBy
    <2> QED BY <2>1, <2>2, <2>3, CountingSame
  <1>5. CASE EndUndo
    <2>1. session.pc = "undo" /\ UNCHANGED status
      BY <1>5, Zenon DEF EndUndo
    <2>2. PICK m \in Record : m = NextUndo
      BY <1>5, EndUndoIs
    <2>3. /\ UnitOf[m] \in Unit /\ Put(m) /\ m \in session.rest
          /\ UNCHANGED <<all, allEmpty>>
      BY <1>5, <2>2, EndUndoIs
    <2>4. Held' = Held \cup {m}
      BY <2>3, HeldPut
    <2>5. Owed = session.rest /\ Owed' = session.rest \ {m}
      BY <1>5, <2>1, <2>2, EndUndoMoves DEF Phase, Undoing, Owed
    <2>6. m \notin Held /\ Held' \cup Owed' = Held \cup Owed
      BY <2>3, <2>4, <2>5 DEF Progress
    <2>7. IsFiniteSet(Held)
      BY EventsTell
    <2>8. Cardinality(Held \cup {m}) = total + 1
      BY <2>6, <2>7, FS_AddElement DEF Counting
    <2>9. total' = total + 1 /\ empty' = FALSE
      BY <2>3 DEF Put
    <2> QED BY <2>3, <2>4, <2>6, <2>8, <2>9 DEF Counting
  <1>6. CASE AllPushed
    <2>1. /\ UNCHANGED <<status, total, all, empty, allEmpty>>
          /\ session.pc = "undoNext"
      BY <1>6 DEF AllPushed, counters
    <2>2. session'.rest = session.rest
      BY <1>6, SessionMoves DEF Moves
    <2>3. Owed' = Owed
      BY <2>1, <2>2 DEF Owed, Phase, Undoing
    <2>4. Held' = Held
      BY <1>6, <1>a, QuietBy
    <2> QED BY <2>1, <2>3, <2>4, CountingSame
  <1>7. CASE Undone
    <2>1. /\ UNCHANGED <<complete, total, all, empty, allEmpty>>
          /\ session.pc = "undone" /\ status' = "normal"
      BY <1>7 DEF Undone, counters, progress
    <2>2. Owed' = Owed
      BY <2>1 DEF Owed, Phase, Undoing
    <2>3. Held' = Held
      BY <1>7, <1>a, QuietBy
    <2> QED BY <2>1, <2>2, <2>3, CountingSame
  <1> QED BY <1>1, <1>2, <1>3, <1>4, <1>5, <1>6, <1>7 DEF SessionStep

LEMMA CountingReset ==
    ASSUME Inv, Reset
    PROVE  Counting'
  <1> Typed /\ Phase /\ Counting
    BY DEF Inv
  <1>1. UNCHANGED <<complete, total, all, empty, allEmpty, session>>
    BY DEF Reset, counters
  <1>2. Owed' = Owed
    BY <1>1 DEF Owed, Phase, Undoing, Reset
  <1>3. Held' = Held
    BY QuietBy, QuietIsSame, HeldSame
  <1> QED BY <1>1, <1>2, <1>3, CountingSame

LEMMA CountingSubmit ==
    ASSUME Inv, NEW a \in Agent, Submit(a)
    PROVE  Counting'
  <1> Typed /\ Phase /\ Progress /\ Counting
    BY DEF Inv
  <1>0. PICK r \in Record : r = agent[a].rec
    BY DroppedBy DEF Dropped
  <1>1. /\ r \in Held /\ r \notin complete /\ Held' = Held \ {r}
        /\ ~Undoing /\ ~Undoing' /\ UNCHANGED <<empty, allEmpty>>
        /\ total' = total - 1
    BY <1>0, SubmitEffect
  <1>2. Owed = complete /\ Owed' = complete'
    BY <1>1 DEF Owed
  <1>3. /\ IsFiniteSet(Held) /\ IsFiniteSet(Held \cup complete)
        /\ total \in Nat /\ all \in Nat /\ all = Cardinality(Held \cup complete)
        /\ Held \cap complete = {}
    BY <1>2, EventsTell DEF Counting, Progress
  <1>4. /\ total' = Cardinality(Held') /\ total > 0
        /\ Cardinality((Held \cup complete) \ {r}) = all - 1
        /\ IsFiniteSet((Held \cup complete) \ {r})
    <2>1. total' = Cardinality(Held')
      BY <1>1, <1>3, FS_RemoveElement DEF Counting
    <2>2. /\ Cardinality((Held \cup complete) \ {r}) = all - 1
          /\ IsFiniteSet((Held \cup complete) \ {r})
      BY <1>1, <1>3, FS_RemoveElement
    <2>3. total # 0
      BY <1>1, <1>3, FS_EmptySet DEF Counting
    <2> QED BY <1>3, <2>1, <2>2, <2>3
  <1>5. all # 0
    <2>1. Held \cup complete # {}
      BY <1>1
    <2> QED BY <1>3, <2>1, FS_EmptySet
  <1>6. ~empty' /\ ~allEmpty'
    BY <1>1, <1>4, <1>5 DEF Counting
  <1>7. all' = Cardinality(Held' \cup complete')
    <2>1. CASE /\ complete' \subseteq complete
               /\ all' = all - 1 - Cardinality(complete \ complete')
      <3>1. PICK D : D = complete \ complete'
        OBVIOUS
      <3>2. ((Held \cup complete) \ {r}) \ D = Held' \cup complete'
        BY <1>1, <1>3, <2>1, <3>1
      <3>3. D \in SUBSET ((Held \cup complete) \ {r})
        BY <1>1, <3>1
      <3>4. Cardinality(((Held \cup complete) \ {r}) \ D)
              = Cardinality((Held \cup complete) \ {r}) - Cardinality(D)
        BY <1>4, <3>3, DiffSize
      <3> QED BY <1>4, <2>1, <3>1, <3>2, <3>4
    <2>2. CASE complete' = complete \cup {r} /\ all' = all
      <3>1. Held' \cup complete' = Held \cup complete
        BY <1>1, <2>2
      <3> QED BY <1>3, <2>2, <3>1
    <2> QED BY <1>0, <2>1, <2>2, SubmitEffect
  <1> QED BY <1>2, <1>4, <1>6, <1>7 DEF Counting

LEMMA CountingAgent ==
    ASSUME Inv, NEW a \in Agent, AgentStep(a) \/ TimeOut(a)
    PROVE  Counting'
  <1> /\ Typed /\ Phase /\ Progress /\ Counting
      /\ RecUnits /\ OneAgent /\ QueuedOnce /\ NotForgotten /\ Order
    BY DEF Inv, Places
  <1>a. ASSUME UNCHANGED <<status, complete, session>> PROVE Owed' = Owed
    BY <1>a DEF Owed, Undoing
  <1>1. CASE BeginUnit(a)
    <2>1. UNCHANGED <<status, complete, session, total, all, empty, allEmpty>>
      BY <1>1, Zenon DEF BeginUnit, progress, counters
    <2>2. Held' = Held
      BY <1>1, BeginUnitPlaces, HeldSame
    <2> QED BY <1>a, <2>1, <2>2, CountingSame
  <1>2. CASE EndUnit(a)
    <2>1. UNCHANGED <<status, complete, session, total, all>>
      BY <1>2, Zenon DEF EndUnit, progress
    <2>2. Held' = Held
      BY <1>2, EndUnitPlaces, HeldSame
    <2>3. empty' = (empty \/ total = 0) /\ allEmpty' = (allEmpty \/ all = 0)
      BY <1>2, Zenon DEF EndUnit
    <2>4. (empty' => total = 0) /\ (allEmpty' => all = 0)
      BY <2>3 DEF Counting
    <2>5. Owed' = Owed
      BY <1>a, <2>1
    <2> QED BY <2>1, <2>2, <2>4, <2>5 DEF Counting
  <1>3. CASE PopData(a)
    <2>1. UNCHANGED <<status, complete, session, empty, allEmpty>>
      BY <1>3, Zenon DEF PopData, progress
    <2>2. agent[a].pc = "pop" /\ agent[a].unit \in Unit
      BY <1>3, PopDataGoes
    <2>3. CASE Taken(a)
      <3>1. Held' = Held
        BY <2>2, <2>3, HeldTaken
      <3> QED BY <1>a, <2>1, <2>3, <3>1, CountingSame DEF Taken
    <2>4. CASE Thrown(a)
      <3>1. PICK u \in Unit : u = agent[a].unit
        BY <2>2
      <3>2. Held' = Held \ InUnit(u)
        BY <2>2, <2>4, <3>1, HeldThrown
      <3>3. /\ InUnit(u) \in SUBSET Held /\ IsFiniteSet(InUnit(u))
            /\ Cardinality(InUnit(u)) = Len(queue[u])
        BY UnitSize
      <3>4. Len(queue[u]) \in Nat
        BY DEF Typed
      <3>5. /\ total' = total - Len(queue[u])
            /\ all' = all - Len(queue[u])
        BY <2>4, <3>1 DEF Thrown
      <3> QED BY <1>a, <2>1, <3>2, <3>3, <3>4, <3>5, CountingLess
    <2> QED BY <1>3, <2>3, <2>4, PopDataGoes
  <1>4. CASE Replay(a)
    <2>1. UNCHANGED <<status, complete, session, total, all, empty, allEmpty>>
      BY <1>4, Zenon DEF Replay, progress, counters
    <2>2. Held' = Held
      BY <1>4, HeldReplay
    <2> QED BY <1>a, <2>1, <2>2, CountingSame
  <1>5. CASE ReplayFails(a) \/ Undo(a)
    <2>1. /\ UNCHANGED <<complete, session, queue, empty, allEmpty>>
          /\ total' = total - 1 /\ all' = all - 1
      BY <1>5, Zenon DEF ReplayFails, Undo, progress
    <2>2. PICK r : r = agent[a].rec
      OBVIOUS
    <2>3. Held' = Held \ {r} /\ r \in Held
      BY <1>5, <2>1, <2>2, DroppedBy, HeldDropped
    <2>4. Undoing' = Undoing
      BY <1>5, Zenon DEF ReplayFails, Undo, Undoing
    <2>5. Owed' = Owed
      BY <2>1, <2>4 DEF Owed
    <2>6. IsFiniteSet({r}) /\ Cardinality({r}) = 1 /\ {r} \in SUBSET Held
      BY <2>3, FS_Singleton
    <2> QED BY <2>1, <2>3, <2>5, <2>6, CountingLess
  <1>6. CASE Submit(a)
    BY <1>6, CountingSubmit
  <1>7. CASE LeaveJob(a) \/ LastCheck(a) \/ TimeOut(a)
    <2>1. UNCHANGED <<status, complete, session, total, all, empty, allEmpty>>
      BY <1>7, Zenon DEF LeaveJob, LastCheck, TimeOut, progress, counters
    <2>2. Held' = Held
      BY <1>7, QuietBy, QuietIsSame, HeldSame
    <2> QED BY <1>a, <2>1, <2>2, CountingSame
  <1> QED BY <1>1, <1>2, <1>3, <1>4, <1>5, <1>6, <1>7 DEF AgentStep

----------------------------------------------------------------------------
(* The invariant, the types and the last agent.                            *)

LEMMA InvInit ==
    Init => Inv
  <1> SUFFICES ASSUME Init PROVE Inv
    OBVIOUS
  <1> USE DEF Init
  <1>1. Typed
    <2>1. [pc |-> "none"] \in AgentState
      BY States
    <2>2. agent \in [Agent -> AgentState]
      BY <2>1 DEF Free
    <2>3. queue \in [Unit -> Seq(Record)] /\ ntyQueue \in Seq(Unit)
      BY EmptySeq
    <2>4. session \in [pc : SessionPc, rest : SUBSET Record]
      BY DEF SessionPc
    <2>5. 0 \in 0 .. MaxFailures
      BY BucketAssumption
    <2> QED BY <2>2, <2>3, <2>4, <2>5, Records DEF Typed, None
  <1>2. Phase
    BY DEF Phase, Undoing
  <1>3. \A a \in Agent : agent[a].pc = "none"
    BY DEF Free
  <1>4. \A u \in Unit : queue[u] = <<>> /\ Len(queue[u]) = 0
    OBVIOUS
  <1>5. Held = {}
    BY <1>3, <1>4 DEF Held, Carried, Queued, WithRec
  <1>6. Owed = {}
    BY DEF Owed, Undoing
  <1>7. Places
    <2>1. RecUnits
      BY <1>3, <1>4 DEF RecUnits, WithRec
    <2>2. OneAgent
      BY <1>3 DEF OneAgent, WithUnit
    <2>3. QueuedOnce
      BY DEF QueuedOnce
    <2>4. NotForgotten
      BY <1>4 DEF NotForgotten
    <2>5. Order
      BY <1>3, <1>4 DEF Order, WithRec
    <2>6. Alive
      BY DEF Alive
    <2> QED BY <2>1, <2>2, <2>3, <2>4, <2>5, <2>6 DEF Places
  <1>8. Progress
    BY <1>5, <1>6 DEF Progress, None
  <1>9. Counting
    BY <1>5, <1>6, FS_EmptySet DEF Counting
  <1> QED BY <1>1, <1>2, <1>7, <1>8, <1>9 DEF Inv

LEMMA InvStutters ==
    ASSUME Inv, UNCHANGED vars
    PROVE  Inv'
  <1> /\ Typed /\ Phase /\ Progress /\ Counting
      /\ RecUnits /\ OneAgent /\ QueuedOnce /\ NotForgotten /\ Order /\ Alive
    BY DEF Inv, Places
  <1> UNCHANGED <<status, queue, attached, ntyQueue, total, all, empty,
                  allEmpty, expect, complete, maxSubmit, agent, session,
                  logEnd, applied, failures>>
    BY DEF vars
  <1>1. Typed'
    BY DEF Typed
  <1>2. Phase'
    BY PhaseSame
  <1>3. Quiet
    BY DEF Quiet
  <1>4. SameRecords /\ Held' = Held
    BY <1>3, QuietIsSame, HeldSame
  <1>5. Undoing' = Undoing /\ Owed' = Owed
    BY DEF Undoing, Owed
  <1>6. Order'
    BY <1>4, <1>5, OrderSame
  <1>7. Alive'
    BY DEF Alive
  <1>8. Places'
    BY <1>3, <1>6, <1>7, PlacesQuiet DEF Places
  <1>9. Progress'
    BY <1>4, <1>5, ProgressShrinks
  <1>10. Counting'
    BY <1>4, <1>5, CountingSame
  <1> QED BY <1>1, <1>2, <1>8, <1>9, <1>10 DEF Inv

LEMMA InvNext ==
    Inv /\ [Next]_vars => Inv'
  <1> SUFFICES ASSUME Inv, [Next]_vars PROVE Inv'
    OBVIOUS
  <1>1. CASE UNCHANGED vars
    BY <1>1, InvStutters
  <1>2. CASE Next
    <2> Typed /\ Phase /\ Progress
      BY DEF Inv
    <2>1. Places'
      BY <1>2, PlacesStep
    <2>2. CASE SessionStep
      BY <2>1, <2>2, TypedSession, PhaseSession, ProgressSession,
         CountingSession DEF Inv
    <2>3. CASE Reset
      BY <2>1, <2>3, TypedReset, PhaseReset, ProgressReset, CountingReset
         DEF Inv
    <2>4. ASSUME NEW a \in Agent, AgentStep(a) \/ TimeOut(a) PROVE Inv'
      BY <2>1, <2>4, TypedAgent, PhaseAgent, ProgressAgent, CountingAgent
         DEF Inv
    <2> QED BY <1>2, <2>2, <2>3, <2>4 DEF Next
  <1> QED BY <1>1, <1>2

LEMMA AlwaysInv ==
    Spec => []Inv
  BY InvInit, InvNext, PTL DEF Spec

\* The variables keep their types, and _totalCount and _allCount, which
\* popData and submitData decrease, never go below zero: they count the records
\* that are held and the ones past expectLSN, whatever fails or is undone.
THEOREM TypeCorrect ==
    Spec => []TypeOK
  <1>1. Inv => TypeOK
    <2> SUFFICES ASSUME Inv PROVE TypeOK
      OBVIOUS
    <2>1. Typed /\ Progress /\ Counting
      BY DEF Inv
    <2>2. total \in Nat /\ all \in Nat
      BY <2>1, EventsTell
    <2> QED BY <2>1, <2>2 DEF Typed, TypeOK, AgentState, SessionPc
  <1> QED BY <1>1, AlwaysInv, PTL

\* The job that finds itself the last, with no unit waiting, leaves nothing
\* behind: the error branch of its last check is never reached, even if the
\* session consults while a failure waits.
THEOREM LastLeavesNothing ==
    Spec => []NeverForced
  <1>1. Inv => NeverForced
    <2> SUFFICES ASSUME Inv, NEW a \in Agent, agent[a].pc = "checking",
                        CurAgents = {}, IdleUnits = 0
                 PROVE  all = 0
      BY DEF NeverForced
    <2> /\ Typed /\ Phase /\ Progress /\ Counting
        /\ RecUnits /\ OneAgent /\ QueuedOnce /\ NotForgotten /\ Order /\ Alive
      BY DEF Inv, Places
    <2>1. \A b \in Agent : agent[b].pc \in {"none", "checking"}
      BY DEF CurAgents
    <2>2. status = "normal"
      BY <2>1 DEF Alive
    <2>3. ntyQueue \in Seq(Unit) /\ Len(ntyQueue) \in Nat
      BY DEF Typed
    <2>4. Len(ntyQueue) = 0
      BY <2>3 DEF IdleUnits
    <2>5. attached = {}
      BY <2>1 DEF OneAgent, WithUnit, Typed
    <2>6. \A u \in Unit : queue[u] = <<>>
      BY <2>4, <2>5 DEF NotForgotten
    <2>7. \A u \in Unit : Len(queue[u]) = 0
      BY <2>6
    <2>8. Held = {}
      BY <2>1, <2>7 DEF Held, Carried, Queued, WithRec
    <2>9. complete = {}
      <3>1. CASE expect = None
        BY <3>1 DEF Progress
      <3>2. CASE expect # None
        <4> SUFFICES ASSUME NEW c \in complete PROVE FALSE
          OBVIOUS
        <4>1. expect < c /\ c < logEnd /\ c \in Record
          BY DEF Progress, Typed
        <4>2. expect \in Record
          BY <3>2, <4>1, Records DEF Typed, None
        <4>3. expect <= expect /\ expect < logEnd
          BY <4>1, <4>2, Records DEF Typed
        <4>4. expect \in complete \cup Held
          BY <2>2, <3>2, <4>2, <4>3 DEF Progress
        <4>5. expect > expect
          BY <2>8, <4>4 DEF Progress
        <4> QED BY <4>2, <4>5, Records
      <3> QED BY <3>1, <3>2
    <2>10. Held \cup Owed = {}
      BY <2>2, <2>8, <2>9 DEF Owed, Undoing
    <2> QED BY <2>10, FS_EmptySet DEF Counting
  <1> QED BY <1>1, AlwaysInv, PTL

----------------------------------------------------------------------------
(* The data, if the session does not consult while a failure waits.        *)

\* What is applied: everything before expectLSN, and past it what completeMap
\* and the agents that replayed something know of, or what is to be undone.
AppliedIs ==
    \A n \in Record : n \in applied <=>
        IF expect = None THEN n < logEnd
        ELSE \/ n < expect
             \/ n \in IF Undoing THEN session.rest \cup Held
                      ELSE complete \cup Submitted

\* A record that was replayed alone is before expectLSN.
SerialDone ==
    \A n \in Record : n < logEnd /\ ~Parallel(n) => expect = None \/ n < expect

\* An agent has a record only when the ones before it in its unit are applied.
Ready ==
    ~Undoing => \A a \in Agent : agent[a].pc \in WithRec =>
        \A n \in Record : n < agent[a].rec /\ UnitOf[n] = agent[a].unit
                             => n \in applied

DataInv == AppliedIs /\ SerialDone /\ Ready /\ OrderedReplay

LEMMA AppliedSession ==
    ASSUME Inv, AppliedIs, SessionStep
    PROVE  AppliedIs'
  <1> Typed /\ Phase /\ Progress /\ Counting
    BY DEF Inv
  <1>0. /\ Held \subseteq Record /\ Submitted \subseteq Held
        /\ expect \in Int /\ logEnd \in Int
        /\ MaxLsn \in Nat /\ Record = 1 .. MaxLsn
    BY HeldType, Records DEF Typed
  <1>a. Quiet => Held' = Held /\ Submitted' = Submitted
    BY QuietIsSame, HeldSame
  <1>b. ASSUME UNCHANGED <<status, complete, applied, expect, logEnd>>,
               session'.rest = session.rest, Held' = Held,
               Submitted' = Submitted
        PROVE  AppliedIs'
    BY <1>b DEF AppliedIs, Undoing
  <1>1. CASE BeginPush
    <2>1. /\ session.pc = "idle"
          /\ expect' = (IF expect = None THEN logEnd ELSE expect)
          /\ UNCHANGED <<logEnd, complete, applied>>
      BY <1>1, Zenon DEF BeginPush, Dispatch
    <2>2. Held' = Held /\ Submitted' = Submitted /\ UNCHANGED status
      BY <1>1, <1>a, QuietBy
    <2>3. session'.rest = session.rest
      BY <1>1, SessionMoves DEF Moves
    <2>4. CASE expect # None
      BY <1>b, <2>1, <2>2, <2>3, <2>4
    <2>5. CASE expect = None
      <3>1. complete = {} /\ Submitted = {} /\ expect' = logEnd
        BY <1>0, <2>1, <2>5 DEF Progress
      <3>2. ~Undoing'
        BY <2>1, <2>2 DEF Phase, Undoing
      <3>3. logEnd # None
        BY DEF Typed, None
      <3> QED BY <2>1, <2>2, <2>5, <3>1, <3>2, <3>3 DEF AppliedIs
    <2> QED BY <2>4, <2>5
  <1>2. CASE EndPush
    <2>1. session.pc = "push" /\ UNCHANGED <<status, expect, complete, applied>>
      BY <1>2, Zenon DEF EndPush, progress
    <2>2. Submitted' = Submitted
      BY <1>2, EndPushIs, HeldPut
    <2>3. ~Undoing /\ ~Undoing' /\ expect # None
      BY <2>1 DEF Phase, Undoing
    <2> QED BY <2>1, <2>2, <2>3 DEF AppliedIs
  <1>3. CASE BeginSerial \/ OnTimer
    <2>1. UNCHANGED <<status, complete, applied, expect, logEnd>>
      BY <1>3 DEF BeginSerial, OnTimer, progress
    <2>2. session'.rest = session.rest
      BY <1>3, SessionMoves DEF Moves
    <2>3. Held' = Held /\ Submitted' = Submitted
      BY <1>3, <1>a, QuietBy
    <2> QED BY <1>b, <2>1, <2>2, <2>3
  <1>4. CASE ReplaySerial
    <2>1. /\ Held' = Held /\ Submitted' = Submitted
          /\ UNCHANGED <<status, complete>>
      BY <1>4, <1>a, QuietBy DEF ReplaySerial
    <2>2. session.pc = "serial" /\ allEmpty
      BY <1>4 DEF ReplaySerial
    <2>3. ~Undoing /\ ~Undoing' /\ session'.rest = session.rest
      BY <1>4, <2>1, <2>2, SessionMoves DEF Moves, Phase, Undoing
    <2>4. Held = {} /\ complete = {} /\ Submitted = {}
      BY <1>0, <2>2, <2>3, EventsTell DEF Owed
    <2>5. CASE UNCHANGED <<applied, expect, logEnd>>
      BY <1>b, <2>1, <2>3, <2>5
    <2>6. CASE /\ expect \in {None, logEnd}
               /\ applied' = applied \cup {logEnd}
               /\ expect' = (IF expect = None THEN None ELSE logEnd + 1)
               /\ logEnd' = logEnd + 1
      <3>1. \A n \in Record : n \in applied <=> n < logEnd
        BY <2>3, <2>4, <2>6 DEF AppliedIs
      <3>2. \A n \in Record : n \in applied' <=> n < logEnd + 1
        BY <1>0, <2>6, <3>1
      <3>3. expect' = None \/ expect' = logEnd'
        BY <2>6
      <3> QED BY <2>1, <2>3, <2>4, <2>6, <3>2, <3>3 DEF AppliedIs
    <2> QED BY <1>4, <2>5, <2>6 DEF ReplaySerial
  <1>5. CASE Drained
    <2>1. /\ Held' = Held /\ Submitted' = Submitted /\ empty
          /\ UNCHANGED <<expect, logEnd, complete, applied>>
      BY <1>5, <1>a, QuietBy DEF Drained, progress
    <2>2. CASE /\ status = "wait" /\ status' = "rollback"
               /\ session'.rest = complete
      <3>1. Held = {} /\ Submitted = {}
        BY <1>0, <2>1, EventsTell
      <3>2. ~Undoing /\ Undoing'
        BY <2>2 DEF Undoing
      <3> QED BY <2>1, <2>2, <3>1, <3>2 DEF AppliedIs
    <2>3. CASE UNCHANGED status /\ session'.rest = session.rest
      BY <1>b, <2>1, <2>3
    <2> QED BY <1>5, <2>2, <2>3, DrainedMoves DEF Moves
  <1>6. CASE BeginUndo
    <2>1. UNCHANGED <<status, complete, applied, expect, logEnd>>
      BY <1>6, Zenon DEF BeginUndo, progress
    <2>2. session'.rest = session.rest
      BY <1>6, SessionMoves DEF Moves
    <2>3. Held' = Held /\ Submitted' = Submitted
      BY <1>6, <1>a, QuietBy
    <2> QED BY <1>b, <2>1, <2>2, <2>3
  <1>7. CASE EndUndo
    <2>1. /\ session.pc = "undo"
          /\ UNCHANGED <<status, logEnd, expect, complete, applied>>
      BY <1>7, Zenon DEF EndUndo, progress
    <2>2. PICK m \in Record : m = NextUndo
      BY <1>7, EndUndoIs
    <2>3. UnitOf[m] \in Unit /\ Put(m) /\ m \in session.rest
      BY <1>7, <2>2, EndUndoIs
    <2>4. Held' = Held \cup {m} /\ session'.rest = session.rest \ {m}
      BY <1>7, <2>2, <2>3, HeldPut, EndUndoMoves
    <2>5. session'.rest \cup Held' = session.rest \cup Held
      BY <2>3, <2>4
    <2>6. Undoing /\ Undoing' /\ expect # None
      BY <2>1 DEF Phase, Undoing
    <2> QED BY <2>1, <2>5, <2>6 DEF AppliedIs
  <1>8. CASE AllPushed
    <2>1. /\ Held' = Held /\ UNCHANGED <<status, logEnd, expect, applied>>
          /\ session.pc = "undoNext"
      BY <1>8, <1>a, QuietBy DEF AllPushed
    <2>2. session'.rest = session.rest
      BY <1>8, SessionMoves DEF Moves
    <2>3. Undoing /\ Undoing' /\ expect # None
      BY <2>1 DEF Phase, Undoing
    <2> QED BY <2>1, <2>2, <2>3 DEF AppliedIs
  <1>9. CASE Undone
    <2>1. /\ Held' = Held /\ Submitted' = Submitted
          /\ UNCHANGED <<complete, expect, applied>> /\ logEnd' = expect
          /\ session.pc = "undone" /\ status' = "normal" /\ empty
      BY <1>9, <1>a, QuietBy DEF Undone, progress
    <2>2. session.rest = {} /\ complete = {} /\ Held = {} /\ Submitted = {}
      BY <1>0, <2>1, EventsTell DEF Phase
    <2>3. Undoing /\ ~Undoing' /\ expect # None
      BY <2>1 DEF Phase, Undoing
    <2> QED BY <2>1, <2>2, <2>3 DEF AppliedIs
  <1> QED BY <1>1, <1>2, <1>3, <1>4, <1>5, <1>6, <1>7, <1>8, <1>9
             DEF SessionStep

\* When the bucket has drained and no failure waits, expectLSN has caught up,
\* and the data are what the log says.
LEMMA CaughtUp ==
    ASSUME Inv, AppliedIs, status = "normal", all = 0
    PROVE  Held = {} /\ complete = {} /\ Submitted = {}
           /\ \A n \in Record : n \in applied <=> n < logEnd
  <1> Typed /\ Phase /\ Progress /\ Counting
    BY DEF Inv
  <1>0. /\ Submitted \subseteq Held /\ expect \in Int /\ logEnd \in Int
        /\ MaxLsn \in Nat /\ Record = 1 .. MaxLsn
    BY HeldType, Records DEF Typed
  <1>1. ~Undoing
    BY DEF Undoing
  <1>2. Held = {} /\ complete = {} /\ Submitted = {}
    BY <1>0, <1>1, EventsTell DEF Owed
  <1>3. CASE expect = None
    BY <1>2, <1>3 DEF AppliedIs
  <1>4. CASE expect # None
    <2>1. \A n \in Record : n \in applied <=> n < expect
      BY <1>1, <1>2, <1>4 DEF AppliedIs
    <2>2. \A n \in Record : ~(expect <= n /\ n < logEnd)
      BY <1>2, <1>4 DEF Progress
    <2>3. expect <= logEnd
      BY DEF Progress
    <2>4. \A n \in Record : n < expect <=> n < logEnd
      BY <1>0, <2>2, <2>3
    <2> QED BY <1>2, <2>1, <2>4
  <1> QED BY <1>3, <1>4

LEMMA AppliedReset ==
    ASSUME ResetWhileFailed = FALSE, Inv, AppliedIs, Reset
    PROVE  AppliedIs'
  <1> Typed
    BY DEF Inv
  <1>1. status = "normal" /\ all = 0 /\ expect' = None
        /\ UNCHANGED <<applied, logEnd>>
    BY DEF Reset
  <1>2. \A n \in Record : n \in applied <=> n < logEnd
    BY <1>1, CaughtUp
  <1> QED BY <1>1, <1>2 DEF AppliedIs

\* A record that is being replayed is not submitted.
LEMMA NotYetSubmitted ==
    ASSUME Typed, RecUnits, OneAgent, NEW a \in Agent, agent[a].pc = "replay"
    PROVE  agent[a].rec \notin Submitted
  <1> SUFFICES ASSUME agent[a].rec \in Submitted PROVE FALSE
    OBVIOUS
  <1>1. PICK b \in Agent : agent[b].pc = "submit" /\ agent[b].rec = agent[a].rec
    BY DEF Submitted
  <1>2. a # b
    BY <1>1
  <1> QED BY <1>1, <1>2, CarriedOnce DEF WithRec

LEMMA AppliedAgent ==
    ASSUME Inv, AppliedIs, NEW a \in Agent, AgentStep(a) \/ TimeOut(a)
    PROVE  AppliedIs'
  <1> /\ Typed /\ Phase /\ Progress
      /\ RecUnits /\ OneAgent /\ QueuedOnce /\ NotForgotten /\ Order
    BY DEF Inv, Places
  <1>a. ASSUME UNCHANGED <<status, complete, applied, expect, logEnd, session>>,
               Undoing => Held' = Held, Submitted' = Submitted
        PROVE  AppliedIs'
    BY <1>a DEF AppliedIs, Undoing
  <1>1. CASE BeginUnit(a) \/ EndUnit(a)
    <2>1. UNCHANGED <<status, complete, applied, expect, logEnd, session>>
      BY <1>1, Zenon DEF BeginUnit, EndUnit, progress
    <2>2. Held' = Held /\ Submitted' = Submitted
      BY <1>1, BeginUnitPlaces, EndUnitPlaces, HeldSame
    <2> QED BY <1>a, <2>1, <2>2
  <1>2. CASE PopData(a)
    <2>1. UNCHANGED <<status, complete, applied, expect, logEnd, session>>
      BY <1>2, Zenon DEF PopData, progress
    <2>2. agent[a].pc = "pop" /\ agent[a].unit \in Unit
      BY <1>2, PopDataGoes
    <2>3. CASE Taken(a)
      BY <1>a, <2>1, <2>2, <2>3, HeldTaken
    <2>4. CASE Thrown(a)
      <3>1. Held' = Held \ InUnit(agent[a].unit) /\ Submitted' = Submitted
        BY <2>2, <2>4, HeldThrown
      <3>2. ASSUME Undoing PROVE Held' = Held
        <4>1. queue[agent[a].unit] = <<>>
          BY <2>4, <3>2 DEF Thrown, Undoing
        <4>2. InUnit(agent[a].unit) = {}
          BY <4>1 DEF InUnit
        <4> QED BY <3>1, <4>2
      <3> QED BY <1>a, <2>1, <3>1, <3>2
    <2> QED BY <1>2, <2>3, <2>4, PopDataGoes
  <1>3. CASE Replay(a)
    <2>1. /\ UNCHANGED <<status, complete, expect, logEnd, session>>
          /\ applied' = applied \cup {agent[a].rec} /\ status # "rollback"
      BY <1>3, Zenon DEF Replay, progress
    <2>2. PICK r \in Record : r = agent[a].rec
      BY <1>3, ReplayGoes
    <2>3. Submitted' = Submitted \cup {r}
      BY <1>3, <2>2, HeldReplay
    <2>4. r \in Held
      BY <1>3, <2>2, ReplayGoes DEF Held, Carried, WithRec
    <2>5. expect # None /\ ~Undoing /\ ~Undoing'
      BY <2>1, <2>4 DEF Progress, Undoing
    <2> QED BY <2>1, <2>2, <2>3, <2>5 DEF AppliedIs
  <1>4. CASE ReplayFails(a)
    <2>1. /\ UNCHANGED <<complete, applied, expect, logEnd, session, queue>>
          /\ status' = "wait" /\ status # "rollback"
      BY <1>4, Zenon DEF ReplayFails, progress
    <2>2. Submitted' = Submitted
      BY <1>4, <2>1, DroppedBy, HeldDropped, NotYetSubmitted
    <2>3. ~Undoing /\ ~Undoing'
      BY <2>1 DEF Undoing
    <2> QED BY <2>1, <2>2, <2>3 DEF AppliedIs
  <1>5. CASE Undo(a)
    <2>1. /\ UNCHANGED <<status, complete, expect, logEnd, session, queue>>
          /\ status = "rollback" /\ applied' = applied \ {agent[a].rec}
      BY <1>5, Zenon DEF Undo, progress
    <2>2. PICK r \in Record : r = agent[a].rec
      BY <1>5, DroppedBy DEF Dropped
    <2>3. Held' = Held \ {r} /\ r \in Held
      BY <1>5, <2>1, <2>2, DroppedBy, HeldDropped
    <2>4. Undoing /\ Undoing' /\ expect # None
      BY <2>1 DEF Phase, Undoing
    <2>5. r \notin session.rest /\ r > expect
      BY <2>3, <2>4 DEF Progress, Owed
    <2>6. ~(r < expect)
      BY <2>5, Records DEF Typed
    <2> QED BY <2>1, <2>2, <2>3, <2>4, <2>5, <2>6 DEF AppliedIs
  <1>6. CASE Submit(a)
    <2>1. PICK r \in Record : r = agent[a].rec
      BY <1>6, DroppedBy DEF Dropped
    <2>2. /\ r \in Submitted /\ r \notin complete
          /\ Submitted' = Submitted \ {r}
          /\ ~Undoing /\ ~Undoing' /\ expect # None
          /\ UNCHANGED applied
      BY <1>6, <2>1, SubmitEffect
    <2>3. /\ expect \in Int /\ r \in Int /\ complete \subseteq Record
          /\ MaxLsn \in Nat /\ Record = 1 .. MaxLsn
      BY Records DEF Typed
    <2>4. \A n \in Record : n \in applied
             <=> n < expect \/ n \in complete \/ n \in Submitted
      BY <2>2 DEF AppliedIs
    <2>5. \A n \in Submitted : n >= expect /\ n \notin complete
      BY <2>2, HeldType DEF Progress, Owed
    <2>6. \A n \in Record : n \in applied
             <=> n < expect' \/ n \in complete' \/ n \in Submitted'
      <3>1. CASE /\ r = expect /\ expect' \in Int /\ r < expect'
                 /\ expect' \notin complete
                 /\ \A n \in Record : r < n /\ n < expect' => n \in complete
                 /\ complete' = {n \in complete : n > expect'}
        <4> TAKE n \in Record
        <4>1. CASE n < expect
          BY <2>3, <2>4, <3>1, <4>1
        <4>2. CASE n = r
          BY <2>2, <2>3, <2>4, <3>1, <4>2
        <4>3. CASE r < n /\ n < expect'
          BY <2>3, <2>4, <3>1, <4>3
        <4>4. CASE n = expect'
          BY <2>2, <2>3, <2>4, <3>1, <4>4
        <4>5. CASE n > expect'
          BY <2>2, <2>3, <2>4, <3>1, <4>5
        <4> QED BY <2>3, <3>1, <4>1, <4>2, <4>3, <4>4, <4>5
      <3>2. CASE expect' = expect /\ complete' = complete \cup {r}
        BY <2>2, <2>4, <3>2
      <3> QED BY <1>6, <2>1, <3>1, <3>2, SubmitEffect
    <2>7. expect' # None
      BY <1>6, <2>1, <2>2, <2>3, SubmitEffect DEF None
    <2> QED BY <2>2, <2>6, <2>7 DEF AppliedIs
  <1>7. CASE LeaveJob(a) \/ LastCheck(a) \/ TimeOut(a)
    <2>1. UNCHANGED <<status, complete, applied, expect, logEnd, session>>
      BY <1>7, Zenon DEF LeaveJob, LastCheck, TimeOut, progress
    <2>2. Held' = Held /\ Submitted' = Submitted
      BY <1>7, QuietBy, QuietIsSame, HeldSame
    <2> QED BY <1>a, <2>1, <2>2
  <1> QED BY <1>1, <1>2, <1>3, <1>4, <1>5, <1>6, <1>7 DEF AgentStep

LEMMA SerialStep ==
    ASSUME Inv, SerialDone, Next
    PROVE  SerialDone'
  <1> Typed /\ Phase /\ Progress
    BY DEF Inv
  <1>0. /\ expect \in Int /\ logEnd \in Int
        /\ MaxLsn \in Nat /\ Record = 1 .. MaxLsn
    BY Records DEF Typed
  <1>a. UNCHANGED <<expect, logEnd>> => SerialDone'
    BY DEF SerialDone, Parallel
  <1>1. CASE BeginPush
    <2>1. expect' \in {logEnd, expect} /\ UNCHANGED logEnd
      BY <1>1, Zenon DEF BeginPush
    <2>2. expect = None => expect' = logEnd
      BY <1>1, Zenon DEF BeginPush
    <2> QED BY <2>1, <2>2 DEF SerialDone, Parallel
  <1>2. CASE EndPush
    <2>1. session.pc = "push" /\ logEnd' = logEnd + 1 /\ UNCHANGED expect
      BY <1>2, Zenon DEF EndPush, progress
    <2>2. UnitOf[logEnd] # Serial
      BY <2>1 DEF Phase, Parallel
    <2> QED BY <1>0, <2>1, <2>2 DEF SerialDone, Parallel
  <1>3. CASE ReplaySerial
    <2>1. \/ UNCHANGED <<expect, logEnd>>
          \/ expect' = None
          \/ expect' = logEnd + 1 /\ logEnd' = logEnd + 1
      BY <1>3 DEF ReplaySerial
    <2> QED BY <1>a, <2>1 DEF SerialDone
  <1>4. CASE BeginSerial \/ OnTimer \/ Drained \/ AllPushed
    BY <1>a, <1>4 DEF BeginSerial, OnTimer, Drained, AllPushed, progress
  <1>5. CASE BeginUndo \/ EndUndo
    <2>1. UNCHANGED <<expect, logEnd>>
      BY <1>5, Zenon DEF BeginUndo, EndUndo, progress
    <2> QED BY <1>a, <2>1
  <1>6. CASE Undone
    BY <1>6 DEF Undone, progress, SerialDone
  <1>7. CASE Reset
    BY <1>7 DEF Reset, SerialDone
  <1>8. ASSUME NEW a \in Agent, AgentStep(a) \/ TimeOut(a) PROVE SerialDone'
    <2>1. CASE Submit(a)
      <3>1. PICK r \in Record : r = agent[a].rec
        BY <2>1, DroppedBy DEF Dropped
      <3>2. expect # None /\ UNCHANGED logEnd
        BY <2>1, <3>1, SubmitEffect
      <3>3. expect' \in Int /\ expect <= expect'
        BY <1>0, <2>1, <3>1, SubmitEffect
      <3> QED BY <1>0, <3>2, <3>3 DEF SerialDone, Parallel
    <2>2. CASE BeginUnit(a) \/ PopData(a) \/ Replay(a) \/ ReplayFails(a)
               \/ Undo(a)
      <3>1. UNCHANGED <<expect, logEnd>>
        BY <2>2, Zenon
           DEF BeginUnit, PopData, Replay, ReplayFails, Undo, progress
      <3> QED BY <1>a, <3>1
    <2>3. CASE EndUnit(a) \/ LeaveJob(a) \/ LastCheck(a) \/ TimeOut(a)
      <3>1. UNCHANGED <<expect, logEnd>>
        BY <2>3, Zenon DEF EndUnit, LeaveJob, LastCheck, TimeOut, progress
      <3> QED BY <1>a, <3>1
    <2> QED BY <1>8, <2>1, <2>2, <2>3 DEF AgentStep
  <1> QED BY <1>1, <1>2, <1>3, <1>4, <1>5, <1>6, <1>7, <1>8
             DEF Next, SessionStep

\* No agent has got a new record, and nothing was undone.
LEMMA ReadySame ==
    ASSUME Ready, applied \subseteq applied', Undoing => Undoing',
           \A b \in Agent : agent'[b].pc \in WithRec =>
              /\ agent[b].pc \in WithRec
              /\ agent'[b].rec = agent[b].rec /\ agent'[b].unit = agent[b].unit
    PROVE  Ready'
  BY DEF Ready

\* The head of a unit is taken when all before it are applied: they are held
\* nowhere else (popData).
LEMMA ReadyTaken ==
    ASSUME Inv, AppliedIs, Ready, NEW a \in Agent, agent[a].pc = "pop",
           agent[a].unit \in Unit, Taken(a), UNCHANGED <<status, applied>>
    PROVE  Ready'
  <1> /\ Typed /\ Phase /\ Progress
      /\ RecUnits /\ OneAgent /\ Order
    BY DEF Inv, Places
  <1> SUFFICES ASSUME ~Undoing PROVE Ready'
    BY DEF Ready, Undoing
  <1>0. PICK u \in Unit : u = agent[a].unit
    OBVIOUS
  <1>1. PICK h \in Record : h = Head(queue[u])
    BY <1>0, HeldTaken DEF Queued
  <1>2. h = queue[u][1] /\ h \in Held /\ UnitOf[h] = u
    <2>1. h = queue[u][1] /\ h \in Queued
      BY <1>0, <1>1, HeldTaken
    <2>2. 1 \in 1 .. Len(queue[u])
      <3>1. queue[u] \in Seq(Record) /\ queue[u] # <<>>
        BY <1>0 DEF Typed, Taken
      <3> QED BY <3>1, TailIs
    <2> QED BY <2>1, <2>2 DEF Held, RecUnits
  <1>3. status = "normal"
    BY DEF Taken, Undoing, Typed
  <1>4. /\ agent'[a] = [pc |-> "replay", unit |-> u, rec |-> h]
        /\ \A b \in Agent : b # a => agent'[b] = agent[b]
    BY <1>0, <1>1 DEF Taken, Goes
  <1>5. /\ expect \in Int /\ logEnd \in Int
        /\ MaxLsn \in Nat /\ Record = 1 .. MaxLsn
    BY Records DEF Typed
  <1>6. ASSUME NEW n \in Record, n < h, UnitOf[n] = u PROVE n \in applied
    <2>1. expect # None /\ h < logEnd
      BY <1>2 DEF Progress
    <2>2. CASE n < expect
      BY <2>1, <2>2 DEF AppliedIs
    <2>3. CASE ~(n < expect)
      <3>1. n \in complete \cup Held
        BY <1>3, <1>5, <1>6, <2>1, <2>3 DEF Progress
      <3>2. n \notin Carried
        <4> SUFFICES ASSUME n \in Carried PROVE FALSE
          OBVIOUS
        <4>1. PICK b \in Agent : agent[b].pc \in WithRec /\ agent[b].rec = n
          BY DEF Carried
        <4>2. agent[b].unit = u /\ b # a
          BY <1>6, <4>1 DEF RecUnits, WithRec
        <4> QED BY <1>0, <4>1, <4>2 DEF OneAgent, WithRec, WithUnit
      <3>3. n \notin Queued
        <4> SUFFICES ASSUME n \in Queued PROVE FALSE
          OBVIOUS
        <4>1. PICK v \in Unit : \E i \in 1 .. Len(queue[v]) : queue[v][i] = n
          BY DEF Queued
        <4>2. v = u
          BY <1>6, <4>1 DEF RecUnits
        <4>3. PICK i \in 1 .. Len(queue[u]) : queue[u][i] = n
          BY <4>1, <4>2
        <4>4. Len(queue[u]) \in Nat
          BY DEF Typed
        <4>5. i # 1
          BY <1>2, <1>5, <1>6, <4>3
        <4>6. 1 < i /\ 1 \in 1 .. Len(queue[u])
          BY <4>3, <4>4, <4>5
        <4>7. Before(queue[u][1], queue[u][i])
          BY <4>3, <4>6 DEF Order
        <4>8. h < n
          BY <1>2, <4>3, <4>7 DEF Before
        <4> QED BY <1>5, <1>6, <4>8
      <3>4. n \in complete
        BY <3>1, <3>2, <3>3 DEF Held
      <3> QED BY <2>1, <3>4 DEF AppliedIs
    <2> QED BY <2>2, <2>3
  <1>7. ASSUME NEW b \in Agent, agent'[b].pc \in WithRec, NEW n \in Record,
               n < agent'[b].rec, UnitOf[n] = agent'[b].unit
        PROVE  n \in applied
    <2>1. CASE b = a
      BY <1>4, <1>6, <1>7, <2>1
    <2>2. CASE b # a
      BY <1>4, <1>7, <2>2 DEF Ready
    <2> QED BY <2>1, <2>2
  <1> QED BY <1>7 DEF Ready

LEMMA ReadyStep ==
    ASSUME Inv, AppliedIs, Ready, Next
    PROVE  Ready'
  <1> /\ Typed /\ Phase /\ Progress /\ Counting
      /\ RecUnits /\ OneAgent /\ QueuedOnce /\ NotForgotten /\ Order
    BY DEF Inv, Places
  <1>a. ASSUME Quiet, applied \subseteq applied', Undoing => Undoing'
        PROVE  Ready'
    <2>1. \A b \in Agent : agent'[b].pc \in WithRec => agent'[b] = agent[b]
      BY <1>a DEF Quiet, WithRec, WithUnit
    <2> QED BY <1>a, <2>1, ReadySame
  <1>b. ASSUME UNCHANGED agent, UNCHANGED <<applied, status>> PROVE Ready'
    BY <1>b, ReadySame DEF Undoing
  <1>1. CASE BeginPush \/ BeginUndo
    <2>1. UNCHANGED applied
      BY <1>1, Zenon DEF BeginPush, BeginUndo
    <2> QED BY <1>a, <1>1, <2>1, QuietBy DEF Undoing
  <1>2. CASE BeginSerial \/ OnTimer \/ AllPushed \/ ReplaySerial
    <2>1. applied \subseteq applied'
      BY <1>2 DEF BeginSerial, OnTimer, AllPushed, ReplaySerial
    <2> QED BY <1>a, <1>2, <2>1, QuietBy DEF Undoing
  <1>3. CASE Drained
    <2>1. UNCHANGED applied /\ (Undoing => Undoing')
      BY <1>3, DrainedMoves DEF Drained, Undoing
    <2> QED BY <1>a, <1>3, <2>1, QuietBy
  <1>4. CASE Reset
    <2>1. UNCHANGED applied /\ ~Undoing
      BY <1>4 DEF Reset, Phase, Undoing
    <2> QED BY <1>a, <1>4, <2>1, QuietBy
  <1>5. CASE Undone
    <2>1. empty /\ UNCHANGED agent
      BY <1>5 DEF Undone
    <2>2. Held = {}
      BY <2>1, EventsTell
    <2>3. \A b \in Agent : agent[b].pc \notin WithRec
      BY <2>2, AgentFacts DEF Held, Carried
    <2> QED BY <2>1, <2>3 DEF Ready
  <1>6. CASE EndPush \/ EndUndo
    <2>1. UNCHANGED <<agent, applied, status>>
      BY <1>6, Zenon DEF EndPush, EndUndo
    <2> QED BY <1>b, <2>1
  <1>7. ASSUME NEW a \in Agent, AgentStep(a) \/ TimeOut(a) PROVE Ready'
    <2>1. CASE BeginUnit(a) \/ EndUnit(a)
      <3>1. UNCHANGED <<applied, status>>
        BY <2>1, Zenon DEF BeginUnit, EndUnit
      <3>2. \A b \in Agent : agent'[b].pc \in WithRec => agent'[b] = agent[b]
        BY <2>1, BeginUnitPlaces, EndUnitPlaces DEF SameRecords
      <3> QED BY <3>1, <3>2, ReadySame DEF Undoing
    <2>2. CASE PopData(a)
      <3>1. UNCHANGED <<applied, status>>
        BY <2>2, Zenon DEF PopData
      <3>2. agent[a].pc = "pop" /\ agent[a].unit \in Unit
        BY <2>2, PopDataGoes
      <3>3. CASE Taken(a)
        BY <3>1, <3>2, <3>3, ReadyTaken
      <3>4. CASE Thrown(a)
        <4>1. \A b \in Agent : agent'[b].pc \in WithRec => agent'[b] = agent[b]
          BY <3>4 DEF Thrown, Goes, WithRec
        <4> QED BY <3>1, <4>1, ReadySame DEF Undoing
      <3> QED BY <2>2, <3>3, <3>4, PopDataGoes
    <2>3. CASE Replay(a)
      <3>1. UNCHANGED status /\ applied \subseteq applied'
        BY <2>3 DEF Replay
      <3>2. /\ agent[a].pc = "replay"
            /\ Goes(a, [pc |-> "submit", unit |-> agent[a].unit,
                        rec |-> agent[a].rec])
        BY <2>3, ReplayGoes
      <3>3. \A b \in Agent : agent'[b].pc \in WithRec =>
               /\ agent[b].pc \in WithRec
               /\ agent'[b].rec = agent[b].rec
               /\ agent'[b].unit = agent[b].unit
        BY <3>2 DEF Goes, WithRec
      <3> QED BY <3>1, <3>3, ReadySame DEF Undoing
    <2>4. CASE Undo(a)
      <3>1. Undoing'
        BY <2>4, Zenon DEF Undo, Undoing
      <3> QED BY <3>1 DEF Ready
    <2>5. CASE ReplayFails(a) \/ Submit(a)
      <3>1. UNCHANGED applied
        BY <2>5, Zenon DEF ReplayFails, Submit
      <3>2. Undoing' = Undoing
        BY <2>5, Zenon DEF ReplayFails, Submit, Undoing
      <3>3. Dropped(a)
        BY <2>5, DroppedBy
      <3>4. \A b \in Agent : agent'[b].pc \in WithRec => agent'[b] = agent[b]
        BY <3>3 DEF Dropped, Goes, WithRec
      <3> QED BY <3>1, <3>2, <3>4, ReadySame
    <2>6. CASE LeaveJob(a) \/ LastCheck(a) \/ TimeOut(a)
      <3>1. UNCHANGED applied
        BY <2>6, Zenon DEF LeaveJob, LastCheck, TimeOut
      <3> QED BY <1>a, <2>6, <3>1, QuietBy DEF Undoing
    <2> QED BY <1>7, <2>1, <2>2, <2>3, <2>4, <2>5, <2>6 DEF AgentStep
  <1> QED BY <1>1, <1>2, <1>3, <1>4, <1>5, <1>6, <1>7 DEF Next, SessionStep

\* A record that was replayed has all it depends on applied (Replay), and one
\* that is undone has none applied that depends on it (Undo).
LEMMA DoneInOrder ==
    ASSUME Inv, DataInv, NEW a \in Agent, agent[a].pc = "replay",
           status # "rollback", NEW n \in Record, DependsOn(agent[a].rec, n)
    PROVE  n \in applied
  <1> /\ Typed /\ Progress /\ RecUnits
      /\ AppliedIs /\ SerialDone /\ Ready
    BY DEF Inv, Places, DataInv
  <1>1. PICK r \in Record : r = agent[a].rec
    BY AgentFacts DEF WithRec
  <1>2. r \in Held /\ UnitOf[r] = agent[a].unit
    BY <1>1 DEF Held, Carried, WithRec, RecUnits
  <1>3. r < logEnd /\ UnitOf[r] # Serial /\ expect # None
    BY <1>2 DEF Progress, Parallel
  <1>4. n < r /\ (UnitOf[n] = UnitOf[r] \/ UnitOf[n] = Serial)
    BY <1>1, <1>3 DEF DependsOn
  <1>5. CASE UnitOf[n] = UnitOf[r]
    BY <1>1, <1>2, <1>4, <1>5 DEF Ready, Undoing, WithRec
  <1>6. CASE UnitOf[n] = Serial
    <2>1. n < logEnd
      BY <1>3, <1>4, Records DEF Typed
    <2>2. n < expect
      BY <1>3, <1>6, <2>1 DEF SerialDone, Parallel
    <2> QED BY <1>3, <2>2 DEF AppliedIs
  <1> QED BY <1>4, <1>5, <1>6

LEMMA UndoneInOrder ==
    ASSUME Inv, DataInv, NEW a \in Agent, agent[a].pc = "replay",
           status = "rollback", NEW s \in applied, s # agent[a].rec
    PROVE  ~DependsOn(s, agent[a].rec)
  <1> /\ Typed /\ Phase /\ Progress /\ RecUnits /\ OneAgent /\ Order
      /\ AppliedIs
    BY DEF Inv, Places, DataInv
  <1>0. s \in Record /\ MaxLsn \in Nat /\ Record = 1 .. MaxLsn /\ expect \in Int
    BY Records DEF Typed
  <1>1. PICK r \in Record : r = agent[a].rec
    BY AgentFacts DEF WithRec
  <1>2. PICK u \in Unit : u = agent[a].unit
    BY AgentFacts DEF WithRec, WithUnit
  <1>3. r \in Held /\ UnitOf[r] = u
    BY <1>1, <1>2 DEF Held, Carried, WithRec, RecUnits
  <1>4. Undoing /\ expect # None /\ r > expect /\ UnitOf[r] # Serial
    BY <1>3 DEF Progress, Parallel, Phase, Undoing
  <1> SUFFICES ASSUME r < s, UnitOf[r] = UnitOf[s] \/ UnitOf[s] = Serial
               PROVE  FALSE
    BY <1>1, <1>4 DEF DependsOn
  <1>5. s \in session.rest \cup Held
    BY <1>0, <1>4 DEF AppliedIs
  <1>6. UnitOf[s] = u
    BY <1>3, <1>5 DEF Progress, Parallel
  <1>7. CASE s \in session.rest
    <2>1. s < r
      BY <1>3, <1>7 DEF Progress
    <2> QED BY <1>0, <2>1
  <1>8. CASE s \in Carried
    <2>1. PICK b \in Agent : agent[b].pc \in WithRec /\ agent[b].rec = s
      BY <1>8 DEF Carried
    <2>2. agent[b].unit = u /\ b # a
      BY <1>6, <2>1 DEF RecUnits
    <2> QED BY <1>2, <2>1, <2>2 DEF OneAgent, WithRec, WithUnit
  <1>9. CASE s \in Queued
    <2>1. PICK v \in Unit : \E i \in 1 .. Len(queue[v]) : queue[v][i] = s
      BY <1>9 DEF Queued
    <2>2. v = u
      BY <1>6, <2>1 DEF RecUnits
    <2>3. PICK i \in 1 .. Len(queue[u]) : queue[u][i] = s
      BY <2>1, <2>2
    <2>4. Before(r, s)
      BY <1>1, <1>2, <2>3 DEF Order, WithRec
    <2> QED BY <1>0, <1>4, <2>4 DEF Before
  <1> QED BY <1>5, <1>7, <1>8, <1>9 DEF Held

LEMMA OrderedStep ==
    ASSUME Inv, DataInv, Next
    PROVE  OrderedReplay'
  <1> Typed /\ Phase /\ Progress /\ Counting /\ AppliedIs /\ OrderedReplay
    BY DEF Inv, DataInv
  <1>a. UNCHANGED applied => OrderedReplay'
    BY DEF OrderedReplay, DependsOn
  <1>1. CASE ReplaySerial
    <2>1. CASE UNCHANGED applied
      BY <1>a, <2>1
    <2>2. CASE expect \in {None, logEnd} /\ applied' = applied \cup {logEnd}
      <3>1. Held = {} /\ Owed = {}
        BY <1>1, EventsTell DEF ReplaySerial, Counting
      <3>2. \A n \in Record : n < logEnd => n \in applied
        BY <2>2 DEF AppliedIs
      <3> QED BY <2>2, <3>2 DEF OrderedReplay, DependsOn
    <2> QED BY <1>1, <2>1, <2>2 DEF ReplaySerial
  <1>2. ASSUME NEW a \in Agent, Replay(a) PROVE OrderedReplay'
    <2>1. /\ agent[a].pc = "replay" /\ status # "rollback"
          /\ applied' = applied \cup {agent[a].rec}
      BY <1>2 DEF Replay
    <2>2. \A n \in Record : DependsOn(agent[a].rec, n) => n \in applied
      BY <2>1, DoneInOrder
    <2>3. PICK r : r = agent[a].rec
      OBVIOUS
    <2> QED BY <2>1, <2>2, <2>3 DEF OrderedReplay, DependsOn
  <1>3. ASSUME NEW a \in Agent, Undo(a) PROVE OrderedReplay'
    <2>1. /\ agent[a].pc = "replay" /\ status = "rollback"
          /\ applied' = applied \ {agent[a].rec}
      BY <1>3 DEF Undo
    <2>2. \A s \in applied : s # agent[a].rec => ~DependsOn(s, agent[a].rec)
      BY <2>1, UndoneInOrder
    <2>3. PICK r : r = agent[a].rec
      OBVIOUS
    <2> QED BY <2>1, <2>2, <2>3 DEF OrderedReplay, DependsOn
  <1>4. CASE BeginPush \/ EndPush \/ BeginSerial \/ OnTimer \/ Drained
    BY <1>a, <1>4, Zenon DEF BeginPush, EndPush, BeginSerial, OnTimer, Drained
  <1>5. CASE BeginUndo \/ EndUndo \/ AllPushed \/ Undone \/ Reset
    BY <1>a, <1>5, Zenon DEF BeginUndo, EndUndo, AllPushed, Undone, Reset
  <1>6. ASSUME NEW a \in Agent,
               \/ BeginUnit(a) \/ PopData(a) \/ ReplayFails(a) \/ Submit(a)
               \/ EndUnit(a) \/ LeaveJob(a) \/ LastCheck(a) \/ TimeOut(a)
        PROVE  OrderedReplay'
    <2>1. UNCHANGED applied
      BY <1>6, Zenon DEF BeginUnit, PopData, ReplayFails, Submit, EndUnit,
                         LeaveJob, LastCheck, TimeOut
    <2> QED BY <1>a, <2>1
  <1> QED BY <1>1, <1>2, <1>3, <1>4, <1>5, <1>6
             DEF Next, SessionStep, AgentStep

LEMMA DataInit ==
    Init => DataInv
  <1> SUFFICES ASSUME Init PROVE DataInv
    OBVIOUS
  <1>1. AppliedIs
    BY Records DEF Init, AppliedIs
  <1>2. SerialDone
    BY DEF Init, SerialDone
  <1>3. Ready
    BY DEF Init, Ready, Free, WithRec
  <1>4. OrderedReplay
    BY DEF Init, OrderedReplay
  <1> QED BY <1>1, <1>2, <1>3, <1>4 DEF DataInv

LEMMA DataNext ==
    ASSUME ResetWhileFailed = FALSE
    PROVE  Inv /\ DataInv /\ [Next]_vars => DataInv'
  <1> SUFFICES ASSUME Inv, DataInv, [Next]_vars PROVE DataInv'
    OBVIOUS
  <1> AppliedIs /\ SerialDone /\ Ready /\ OrderedReplay
    BY DEF DataInv
  <1>1. CASE Next
    <2>1. AppliedIs'
      BY <1>1, AppliedSession, AppliedReset, AppliedAgent DEF Next
    <2> QED BY <1>1, <2>1, SerialStep, ReadyStep, OrderedStep DEF DataInv
  <1>2. CASE UNCHANGED vars
    <2>1. UNCHANGED <<status, queue, expect, complete, agent, session, logEnd,
                      applied>>
      BY <1>2 DEF vars
    <2>2. Held' = Held /\ Submitted' = Submitted /\ Undoing' = Undoing
      BY <2>1 DEF Held, Carried, Queued, Submitted, Undoing
    <2>3. AppliedIs' /\ SerialDone'
      BY <2>1, <2>2 DEF AppliedIs, SerialDone, Parallel
    <2>4. Ready' /\ OrderedReplay'
      BY <2>1, <2>2 DEF Ready, OrderedReplay, DependsOn
    <2> QED BY <2>3, <2>4 DEF DataInv
  <1> QED BY <1>1, <1>2

LEMMA AlwaysData ==
    ASSUME ResetWhileFailed = FALSE
    PROVE  Spec => [](Inv /\ DataInv)
  BY InvInit, InvNext, DataInit, DataNext, PTL DEF Spec

\* Dependent records are replayed in the order of the log and undone in the
\* reverse order, although several agents pop the units and submitData of one
\* runs beside the others'.  The session must not consult while a failure
\* waits: _sendConsultReq would then forget what is past the gap.
THEOREM ReplaysInOrder ==
    ASSUME ResetWhileFailed = FALSE
    PROVE  Spec => []OrderedReplay
  <1>1. DataInv => OrderedReplay
    BY DEF DataInv
  <1> QED BY <1>1, AlwaysData, PTL

\* Every record before expectLSN, which completeLSN reports to the primary,
\* has its effects in the data, for any number of failures and rollbacks;
\* again if the session does not consult while a failure waits.
THEOREM CompleteReplayed ==
    ASSUME ResetWhileFailed = FALSE
    PROVE  Spec => []CompleteIsReplayed
  <1>1. Inv /\ DataInv => CompleteIsReplayed
    <2> SUFFICES ASSUME Inv, DataInv, expect # None,
                        NEW n \in 1 .. expect - 1
                 PROVE  n \in applied
      BY DEF CompleteIsReplayed
    <2>1. Typed /\ AppliedIs
      BY DEF Inv, DataInv
    <2>2. n \in Record /\ n < expect
      BY <2>1, Records DEF Typed
    <2> QED BY <2>1, <2>2 DEF AppliedIs
  <1> QED BY <1>1, AlwaysData, PTL

\* When the session is idle, no failure waits and the bucket has drained, the
\* data hold exactly the records of the local log: waitEmptyAndRollback has
\* undone what it moved the log back over, and lost nothing.
THEOREM DataFollowLog ==
    ASSUME ResetWhileFailed = FALSE
    PROVE  Spec => []DataAsLogged
  <1>1. Inv /\ DataInv => DataAsLogged
    <2> SUFFICES ASSUME Inv, DataInv, status = "normal", all = 0
                 PROVE  applied = 1 .. logEnd - 1
      BY DEF DataAsLogged
    <2>1. Typed /\ AppliedIs
      BY DEF Inv, DataInv
    <2>2. \A n \in Record : n \in applied <=> n < logEnd
      BY <2>1, CaughtUp
    <2>3. /\ MaxLsn \in Nat /\ Record = 1 .. MaxLsn
          /\ logEnd \in 1 .. MaxLsn + 1 /\ applied \subseteq Record
      BY <2>1, Records DEF Typed
    <2>4. applied \subseteq 1 .. logEnd - 1
      BY <2>2, <2>3
    <2>5. 1 .. logEnd - 1 \subseteq applied
      BY <2>2, <2>3
    <2> QED BY <2>4, <2>5
  <1> QED BY <1>1, AlwaysData, PTL
=============================================================================
