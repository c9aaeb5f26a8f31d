----------------------------- MODULE TransTable -----------------------------
(***************************************************************************)
(* The transaction table of one data node: dpsTransCB's map of unfinished  *)
(* transactions and of their first records (dps/dpsTransCB.cpp), the undo  *)
(* of transactions by their sessions and by the rollback task              *)
(* (rtn/rtnTransaction.cpp, pmd/pmdDpsTransRollback.cpp), and the places   *)
(* that keep the table along with the log: saveTransInfoFromLog for every  *)
(* record written, rollbackTransInfoFromLog for every record taken back,   *)
(* syncTransInfoFromLocal at start-up.                                     *)
(*                                                                         *)
(* The node is primary or secondary by turns.  As primary its sessions     *)
(* write to the log; as secondary it receives the records of some other    *)
(* primary, and after a change of primary it first takes back what the new *)
(* one does not have.  An LSN is the place of a record in the log; 0 is no *)
(* LSN.  Records outside transactions do not touch the table and are left  *)
(* out.  What a record does to the data is not modelled, only who undoes   *)
(* it.                                                                     *)
(*                                                                         *)
(* A session learns of the loss of the role when it comes to the event     *)
(* termAllTrans posted, the task before its next record: nobody waits for  *)
(* them, so the next primary's records, or the regained role, may come     *)
(* first, and then two undo one transaction.  late is a history variable:  *)
(* the transactions this has happened to.  What is claimed of the table is *)
(* claimed of the others; RollsBackLast is what does not hold of these.    *)
(***************************************************************************)
EXTENDS Integers, Sequences, FiniteSets, FiniteSetsExt, SequencesExt

CONSTANTS Trans,       \* transactions; an ID is used once
          MaxOps,      \* bound: operations and commits in the log
          MaxLog,      \* bound: the log, when one held too long is undone
          MaxChanges   \* bound: changes of the primary, and crashes

ASSUME TableAssumption == {MaxOps, MaxLog, MaxChanges} \subseteq Nat

VARIABLES
    log,        \* the local log
    table,      \* map: _TransMap, begin: _idBeginLsnMap
    primary,    \* pmdIsPrimary
    turn,       \* the half of a change of role that is still to come
    doRollback, \* _doRollback
    task,       \* the rollback task: idle, in its loop, or at a transaction
    posted,     \* how often it has still to run: the events in its queue
    session,    \* per transaction: its session here
    used,       \* transactions begun anywhere
    remote,     \* transactions the other primary has open
    fresh,      \* nothing has come from the present primary yet
    changes,    \* changes of the primary so far
    late        \* history: transactions somebody here held too long

vars == <<log, table, primary, turn, doRollback, task, posted, session, used,
          remote, fresh, changes, late>>

None == 0
At(pc) == [pc |-> pc, tr |-> None, cur |-> None, pre |-> None]
NoTask == At("idle")
NoSession == [pc |-> "none", cur |-> None, pre |-> None]
NoTable == [map |-> [t \in Trans |-> None], begin |-> [t \in Trans |-> None]]

----------------------------------------------------------------------------
(* Records of transactions, as dpsOp2Record.cpp makes them: pre is the last *)
(* LSN of the transaction, rel the LSN of the record that is undone, first  *)
(* the first LSN, in a commit.                                              *)

Op(t, pre) == [kind |-> "op", tr |-> t, pre |-> pre]
Commit(t, pre, first) ==
    [kind |-> "commit", tr |-> t, pre |-> pre, first |-> first]
Undo(t, pre, rel) == [kind |-> "undo", tr |-> t, pre |-> pre, rel |-> rel]

\* Mutant: the tag is never taken off.
IsFirstOpTagged(rec) == rec.kind = "op"

\* isFirstOp: the tag of the ID goes when the first record is written.
IsFirstOp(rec) == rec.kind = "op" /\ rec.pre = None

----------------------------------------------------------------------------
(* The table.                                                              *)

\* addBeginLsn and delBeginLsn
BeginAt(tab, t, lsn) == [tab EXCEPT !.begin = [@ EXCEPT ![t] = lsn]]

\* updateTransInfo; on the primary sessions know their own transactions.
UpdateTransInfo(tab, t, lsn, onPrimary) ==
    IF onPrimary THEN tab ELSE [tab EXCEPT !.map = [@ EXCEPT ![t] = lsn]]

\* What the transaction's last record is, once rec is written at lsn.
LastAfter(rec, lsn) ==
    CASE rec.kind = "undo" -> rec.pre
      [] rec.kind = "commit" -> None
      [] rec.kind = "op" -> lsn

\* saveTransInfoFromLog
SaveTransInfo(tab, rec, lsn, onPrimary) ==
    LET last == LastAfter(rec, lsn)
        begun == IF IsFirstOp(rec) THEN BeginAt(tab, rec.tr, lsn)
                 ELSE IF last = None THEN BeginAt(tab, rec.tr, None)
                 ELSE tab
    IN  UpdateTransInfo(begun, rec.tr, last, onPrimary)

\* Mutant: an undo goes back to its pre.
RollbackTransInfoPre(tab, rec) ==
    LET last == rec.pre
        begun == CASE rec.kind = "commit" -> BeginAt(tab, rec.tr, rec.first)
                   [] IsFirstOp(rec) -> BeginAt(tab, rec.tr, None)
                   [] rec.kind = "undo" /\ rec.pre = None
                        -> BeginAt(tab, rec.tr, rec.rel)
                   [] OTHER -> tab
    IN  UpdateTransInfo(begun, rec.tr, last, FALSE)

\* rollbackTransInfoFromLog, on a node that is not primary.
RollbackTransInfo(tab, rec) ==
    LET last == IF rec.kind = "undo" THEN rec.rel ELSE rec.pre
        begun == CASE rec.kind = "commit" -> BeginAt(tab, rec.tr, rec.first)
                   [] IsFirstOp(rec) -> BeginAt(tab, rec.tr, None)
                   [] rec.kind = "undo" /\ rec.pre = None
                        -> BeginAt(tab, rec.tr, rec.rel)
                   [] OTHER -> tab
    IN  UpdateTransInfo(begun, rec.tr, last, FALSE)

\* syncTransInfoFromLocal: from the first record of the log to the last.
SyncFromLocal(l) ==
    LET upTo[i \in 0 .. Len(l)] ==
            IF i = 0 THEN NoTable
            ELSE SaveTransInfo(upTo[i - 1], l[i], i, FALSE)
    IN  upTo[Len(l)]

\* writeData: a record goes to the log and into the table.
Write(rec) ==
    /\ log' = Append(log, rec)
    /\ table' = SaveTransInfo(table, rec, Len(log) + 1, primary)

\* A node that wrote a record of its own when it was not primary any more has
\* to consult the primary again.
WriteHere(rec) == Write(rec) /\ fresh' = (fresh \/ ~primary)

----------------------------------------------------------------------------
(* What the log says, independently of the order the table is kept in.     *)

OpsOf(l, t) == {i \in DOMAIN l : l[i].kind = "op" /\ l[i].tr = t}
UndoneIn(l, t) ==
    {l[j].rel : j \in {i \in DOMAIN l : l[i].kind = "undo" /\ l[i].tr = t}}
CommittedIn(l, t) == \E i \in DOMAIN l : l[i].kind = "commit" /\ l[i].tr = t

\* The last record of t that stands, none if t is over.
LastOf(l, t) ==
    IF CommittedIn(l, t) THEN None
    ELSE Max({None} \cup (OpsOf(l, t) \ UndoneIn(l, t)))
FirstOf(l, t) == IF LastOf(l, t) = None THEN None ELSE Min(OpsOf(l, t))
Unfinished(l) == {t \in Trans : LastOf(l, t) # None}

----------------------------------------------------------------------------
(* Sessions of the primary.                                                *)

Go(t, pc) == session' = [session EXCEPT ![t].pc = pc]
Over(t) == session' = [session EXCEPT ![t] = NoSession]
Writable == primary /\ ~doRollback

\* The log still has a record of t at lsn.
Found(t, lsn) == lsn \in DOMAIN log /\ log[lsn].tr = t

\* The bounds on the log: what is written can always be undone, once, and the
\* second undo of one held too long as far as there is space.
Space(t) == t \notin late \/ Len(log) < MaxLog
Room ==
    Cardinality({i \in DOMAIN log : log[i].kind # "undo"})
        + Cardinality({t \in Trans : session[t].pc \in {"writing", "commit"}})
        < MaxOps

\* rtnTransBegin
Begin(t) ==
    /\ Writable /\ t \notin used
    /\ used' = used \cup {t}
    /\ Go(t, "open")
    /\ UNCHANGED <<log, table, primary, turn, doRollback, task, posted,
                   remote, fresh, changes, late>>

\* A write passes _checkWriteStatus ...
StartWrite(t) ==
    /\ session[t].pc = "open" /\ Writable /\ Room
    /\ Go(t, "writing")
    /\ UNCHANGED <<log, table, primary, turn, doRollback, task, posted, used,
                   remote, fresh, changes, late>>

\* ... and is logged, whatever the role is by then.
EndWrite(t) ==
    /\ session[t].pc = "writing"
    /\ WriteHere(Op(t, session[t].cur))
    /\ session' = [session EXCEPT ![t] = [@ EXCEPT !.pc = "open",
                                                   !.cur = Len(log) + 1]]
    /\ UNCHANGED <<primary, turn, doRollback, task, posted, used, remote,
                   changes, late>>

\* A commit finds the node primary ...
StartCommit(t) ==
    /\ session[t].pc = "open" /\ primary /\ Room
    /\ Go(t, "commit")
    /\ UNCHANGED <<log, table, primary, turn, doRollback, task, posted, used,
                   remote, fresh, changes, late>>

\* ... and rtnTransCommit writes its record, whatever the role is by then; a
\* transaction that wrote nothing leaves none.
EndCommit(t) ==
    /\ session[t].pc = "commit"
    /\ \/ session[t].cur = None /\ UNCHANGED <<log, table, fresh>>
       \/ /\ session[t].cur # None
          /\ WriteHere(Commit(t, session[t].cur, table.begin[t]))
    /\ Over(t)
    /\ UNCHANGED <<primary, turn, doRollback, task, posted, used, remote,
                   changes, late>>

\* rtnTransRollback begins: the client asks for it or goes, an operation
\* failed, or the session comes to the event of termAllTrans.
StartRollback(t) ==
    /\ session[t].pc = "open"
    /\ IF session[t].cur = None THEN Over(t) ELSE Go(t, "undo")
    /\ UNCHANGED <<log, table, primary, turn, doRollback, task, posted, used,
                   remote, fresh, changes, late>>

\* One turn of its loop: the record is read and the node found primary ...
RollbackLooks(t) ==
    /\ session[t].pc = "undo" /\ primary /\ Found(t, session[t].cur)
    /\ session' = [session EXCEPT ![t] = [@ EXCEPT !.pc = "undoing",
                                             !.pre = log[session[t].cur].pre]]
    /\ UNCHANGED <<log, table, primary, turn, doRollback, task, posted, used,
                   remote, fresh, changes, late>>

\* ... and undone, and the undo logged, whatever the role is by then.
RollbackStep(t) ==
    /\ session[t].pc = "undoing" /\ Space(t)
    /\ WriteHere(Undo(t, session[t].pre, session[t].cur))
    /\ IF session[t].pre = None THEN Over(t)
       ELSE session' = [session EXCEPT ![t] =
                [@ EXCEPT !.pc = "undo", !.cur = session[t].pre, !.pre = None]]
    /\ UNCHANGED <<primary, turn, doRollback, task, posted, used, remote,
                   changes, late>>

\* Or the rest is left to the next primary (addTransInfo).
RollbackLeaves(t) ==
    /\ session[t].pc = "undo" /\ ~(primary /\ Found(t, session[t].cur))
    /\ table' = IF Found(t, session[t].cur) /\ table.map[t] = None
                THEN UpdateTransInfo(table, t, session[t].cur, FALSE)
                ELSE table
    /\ Over(t)
    /\ UNCHANGED <<log, primary, turn, doRollback, task, posted, used, remote,
                   fresh, changes, late>>

----------------------------------------------------------------------------
(* rtnTransRollbackAll, once for every event in the task's queue.          *)

TaskStarts ==
    /\ task.pc = "idle" /\ posted > 0
    /\ task' = At("run")
    /\ posted' = posted - 1
    /\ UNCHANGED <<log, table, primary, turn, doRollback, session, used,
                   remote, fresh, changes, late>>

\* The head of the inner loop: the run ends because the role is lost, what is
\* left stays in the map; or it gives a transaction up whose record is not
\* there; or the record is read.
TaskLooks(t, cur) ==
    /\ task' = CASE ~doRollback -> At("end")
                 [] doRollback /\ ~Found(t, cur) -> At("run")
                 [] doRollback /\ Found(t, cur) ->
                        [pc |-> "undoing", tr |-> t, cur |-> cur,
                         pre |-> log[cur].pre]
    /\ table' = IF doRollback /\ ~Found(t, cur)
                THEN UpdateTransInfo(table, t, None, FALSE) ELSE table

\* The task takes a transaction of the map, whether or not it still has a
\* session, here or, while the role changes, at the other primary ...
TaskTakes ==
    /\ task.pc = "run"
    /\ \E t \in Trans :
          /\ table.map[t] # None
          /\ TaskLooks(t, table.map[t])
          /\ late' = IF session[t].pc # "none" \/ t \in remote
                     THEN late \cup {t} ELSE late
    /\ UNCHANGED <<log, primary, turn, doRollback, posted, session, used,
                   remote, fresh, changes>>

\* ... and goes from record to record.
TaskGoesOn ==
    /\ task.pc = "undo"
    /\ TaskLooks(task.tr, task.cur)
    /\ UNCHANGED <<log, primary, turn, doRollback, posted, session, used,
                   remote, fresh, changes, late>>

\* Mutant: the task does not move on.
TaskUndoesAgain ==
    /\ task.pc = "undoing" /\ Space(task.tr)
    /\ LET rec == Undo(task.tr, task.pre, task.cur)
       IN  /\ log' = Append(log, rec)
           /\ table' = UpdateTransInfo(
                  SaveTransInfo(table, rec, Len(log'), primary),
                  task.tr, task.pre, FALSE)
           /\ fresh' = (fresh \/ ~primary)
    /\ task' = IF task.pre = None THEN At("run")
               ELSE [task EXCEPT !.pc = "undo"]
    /\ UNCHANGED <<primary, turn, doRollback, posted, session, used, remote,
                   changes, late>>

\* It undoes a record and notes in the map how far it is.
TaskUndoes ==
    /\ task.pc = "undoing" /\ Space(task.tr)
    /\ LET rec == Undo(task.tr, task.pre, task.cur)
       IN  /\ log' = Append(log, rec)
           /\ table' = UpdateTransInfo(
                  SaveTransInfo(table, rec, Len(log'), primary),
                  task.tr, task.pre, FALSE)
           /\ fresh' = (fresh \/ ~primary)
    /\ task' = IF task.pre = None THEN At("run")
               ELSE [pc |-> "undo", tr |-> task.tr, cur |-> task.pre,
                     pre |-> None]
    /\ UNCHANGED <<primary, turn, doRollback, posted, session, used, remote,
                   changes, late>>

\* The map is empty.
TaskDone ==
    /\ task.pc = "run" /\ \A t \in Trans : table.map[t] = None
    /\ task' = At("end")
    /\ UNCHANGED <<log, table, primary, turn, doRollback, posted, session,
                   used, remote, fresh, changes, late>>

\* Mutant: the end is not told.
TaskEndsSilent ==
    /\ task.pc = "end"
    /\ task' = NoTask
    /\ UNCHANGED <<log, table, primary, turn, doRollback, posted, session,
                   used, remote, fresh, changes, late>>

\* Every run ends with stopRollbackTask, the interrupted one too.
TaskEnds ==
    /\ task.pc = "end"
    /\ task' = NoTask
    /\ doRollback' = FALSE
    /\ UNCHANGED <<log, table, primary, turn, posted, session, used, remote,
                   fresh, changes, late>>

----------------------------------------------------------------------------
(* Roles, and the log of another primary.                                  *)

Writing == \E t \in Trans : session[t].pc = "writing"

\* Somebody here holds an LSN of t: the task or a session.
TaskAt(t) == task.pc \in {"undo", "undoing"} /\ task.tr = t
Held(t) == session[t].pc # "none" \/ TaskAt(t)

Change ==
    /\ changes < MaxChanges
    /\ changes' = changes + 1

\* onPrimaryChange, before the node is primary: no writes.
BeforeGain ==
    /\ ~primary /\ turn = "none" /\ Change
    /\ doRollback' = TRUE
    /\ turn' = "gain"
    /\ UNCHANGED <<log, table, primary, task, posted, session, used, remote,
                   fresh, late>>

\* Too late is now a session whose transaction is also in the map, and a run
\* that ends only now, for all it leaves.
LateAtGain ==
    {t \in Trans : /\ table.map[t] # None
                   /\ (session[t].pc # "none" \/ task.pc = "end")}

\* Mutant: writes are not held back.
GainPrimaryOpen ==
    /\ turn = "gain"
    /\ turn' = "none" /\ primary' = TRUE
    /\ doRollback' = FALSE
    /\ posted' = posted + 1
    /\ remote' = {}
    /\ late' = late \cup LateAtGain
    /\ UNCHANGED <<log, table, task, session, used, fresh, changes>>

\* It is primary, and after: startRollbackTask.
GainPrimary ==
    /\ turn = "gain"
    /\ turn' = "none" /\ primary' = TRUE
    /\ doRollback' = TRUE
    /\ posted' = posted + 1
    /\ remote' = {}
    /\ late' = late \cup LateAtGain
    /\ UNCHANGED <<log, table, task, session, used, fresh, changes>>

\* The node is not primary any more ...
LosePrimary ==
    /\ primary /\ turn = "none" /\ Change
    /\ primary' = FALSE
    /\ turn' = "loss"
    /\ fresh' = TRUE
    /\ UNCHANGED <<log, table, doRollback, task, posted, session, used,
                   remote, late>>

\* ... and after: stopRollbackTask, and termAllTrans, which posts an event to
\* every session (StartRollback) and waits for nobody.
AfterLoss ==
    /\ turn = "loss"
    /\ turn' = "none"
    /\ doRollback' = FALSE
    /\ UNCHANGED <<log, table, primary, task, posted, session, used, remote,
                   fresh, changes, late>>

\* Another node takes over from the other primary.
OtherPrimary ==
    /\ ~primary /\ Change
    /\ fresh' = TRUE
    /\ remote' = {}
    /\ UNCHANGED <<log, table, primary, turn, doRollback, task, posted,
                   session, used, late>>

\* A crash, in whichever role, and init: the table is made from the log.
Restart ==
    /\ Change
    /\ table' = SyncFromLocal(log)
    /\ primary' = FALSE /\ turn' = "none" /\ doRollback' = FALSE
    /\ remote' = {}
    /\ task' = NoTask /\ posted' = 0
    /\ session' = [t \in Trans |-> NoSession]
    /\ fresh' = TRUE
    /\ UNCHANGED <<log, used, late>>

\* The first request for the log waits for the writers to leave, and for
\* nobody else.
Synchronizes == ~primary /\ ~Writing

\* Mutant: the table is left as it was.
TakeBackLogOnly ==
    /\ Synchronizes /\ fresh /\ log # <<>>
    /\ UNCHANGED table
    /\ log' = Front(log)
    /\ remote' = remote \cap Unfinished(log')
    /\ late' = IF Held(Last(log).tr) THEN late \cup {Last(log).tr} ELSE late
    /\ UNCHANGED <<primary, turn, doRollback, task, posted, session, used,
                   fresh, changes>>

\* A record the new primary does not have is taken back (_rollback).
TakeBack ==
    /\ Synchronizes /\ fresh /\ log # <<>>
    /\ table' = RollbackTransInfo(table, Last(log))
    /\ log' = Front(log)
    /\ remote' = remote \cap Unfinished(log')
    /\ late' = IF Held(Last(log).tr) THEN late \cup {Last(log).tr} ELSE late
    /\ UNCHANGED <<primary, turn, doRollback, task, posted, session, used,
                   fresh, changes>>

\* A record comes from the primary, which undoes what was left to it before
\* it lets anybody write.
Receive ==
    /\ Synchronizes
    /\ \E t \in Trans :
        LET last == LastOf(log, t)
            lost == Unfinished(log) \ remote
        IN  /\ \/ /\ lost = {} /\ (t \in remote \/ t \notin used) /\ Room
                  /\ Write(Op(t, last))
                  /\ remote' = remote \cup {t} /\ used' = used \cup {t}
               \/ /\ t \in remote /\ last # None /\ Room
                  /\ Write(Commit(t, last, FirstOf(log, t)))
                  /\ remote' = remote \ {t} /\ UNCHANGED used
               \/ /\ last # None /\ Space(t)
                  /\ Write(Undo(t, log[last].pre, last))
                  /\ remote' = remote \ {t} /\ UNCHANGED used
            /\ late' = IF Held(t) THEN late \cup {t} ELSE late
    /\ fresh' = FALSE
    /\ UNCHANGED <<primary, turn, doRollback, task, posted, session, changes>>

----------------------------------------------------------------------------
Init ==
    /\ log = <<>> /\ table = NoTable
    /\ primary = FALSE /\ turn = "none" /\ doRollback = FALSE
    /\ task = NoTask /\ posted = 0
    /\ session = [t \in Trans |-> NoSession]
    /\ used = {} /\ remote = {} /\ fresh = TRUE /\ changes = 0 /\ late = {}

SessionStep(t) ==
    \/ Begin(t) \/ StartWrite(t) \/ EndWrite(t)
    \/ StartCommit(t) \/ EndCommit(t)
    \/ StartRollback(t) \/ RollbackLooks(t) \/ RollbackStep(t)
    \/ RollbackLeaves(t)

TaskStep ==
    \/ TaskStarts \/ TaskTakes \/ TaskGoesOn
    \/ TaskUndoes \/ TaskDone \/ TaskEnds

Next ==
    \/ \E t \in Trans : SessionStep(t)
    \/ TaskStep
    \/ BeforeGain \/ GainPrimary \/ LosePrimary \/ AfterLoss
    \/ OtherPrimary \/ Restart
    \/ TakeBack \/ Receive

Spec == Init /\ [][Next]_vars

\* The rollback task is a thread of its own, and a change of role is carried
\* through by the thread that began it.
FairSpec ==
    Spec /\ WF_vars(TaskStep) /\ WF_vars(GainPrimary) /\ WF_vars(AfterLoss)

----------------------------------------------------------------------------
(* Properties.                                                             *)

LsnOf(l) == {None} \cup DOMAIN l
Sound == Trans \ late

\* Types; and every LSN that the table, the task or a session keeps of a
\* transaction that nobody held too long is that of a record in the log.
TypeOK ==
    /\ \A i \in DOMAIN log :
          /\ log[i].kind \in {"op", "commit", "undo"}
          /\ log[i].tr \in Trans /\ log[i].pre \in Nat
          /\ log[i].tr \in Sound => log[i].pre < i
    /\ table \in [map : [Trans -> Nat], begin : [Trans -> Nat]]
    /\ primary \in BOOLEAN /\ turn \in {"none", "gain", "loss"}
    /\ doRollback \in BOOLEAN
    /\ \/ task \in {At("idle"), At("run"), At("end")}
       \/ task \in [pc : {"undo", "undoing"}, tr : Trans, cur : Nat, pre : Nat]
    /\ posted \in Nat
    /\ session \in [Trans -> [pc : {"none", "open", "writing", "commit",
                                    "undo", "undoing"},
                              cur : Nat, pre : Nat]]
    /\ used \subseteq Trans /\ remote \subseteq used /\ late \subseteq used
    /\ fresh \in BOOLEAN /\ changes \in 0 .. MaxChanges
    /\ \A t \in Sound :
          /\ {table.map[t], table.begin[t], session[t].cur}
                \subseteq LsnOf(log)
          /\ TaskAt(t) => task.cur \in DOMAIN log

\* A node that is not primary knows exactly the transactions its log leaves
\* unfinished and that have no session here any more, and their last records
\* that stand, after any mixture of writing, receiving, undoing, taking back
\* and crashing; but for those somebody here held too long.
TableFollowsLog ==
    \A t \in Sound : ~primary /\ session[t].pc = "none"
                        => table.map[t] = LastOf(log, t)

\* The first record of every unfinished transaction is known in both roles:
\* the log is not cut, and a backup not begun, behind it.
BeginFollowsLog == \A t \in Sound : table.begin[t] = FirstOf(log, t)

\* Whoever undoes, a session, the task or another primary, no record is undone
\* twice and none of a committed transaction; but for the transactions
\* somebody here held too long.
UndoneOnce ==
    \A i, j \in DOMAIN log :
        log[j].kind = "undo" /\ log[i].tr = log[j].tr /\ log[j].tr \in Sound =>
          /\ log[i].kind = "undo" /\ log[i].rel = log[j].rel => i = j
          /\ log[i].kind # "commit"

\* Once the primary lets anybody write, what earlier primaries left is undone:
\* a transaction that is unfinished in the log has a session here, which
\* stands at its last record; but for those somebody here held too long.
OnlyOwnUnfinished ==
    Writable => \A t \in Unfinished(log) \cap Sound :
                   session[t].pc # "none" /\ session[t].cur = LastOf(log, t)

\* Writes are held back only for a time: the task ends, unless the role goes,
\* or somebody here held a transaction too long.
RollbackEnds == doRollback ~> (~doRollback \/ late # {})

\* The message of rtnTransRollback says it of all transactions: a rollback
\* begins at the last record and goes backwards, so that what a session undoes
\* as primary, or leaves in the map for the next primary, stands.  It is not so
\* when the session held its transaction too long.
RollsBackLast ==
    \A t \in Trans :
        (\/ primary /\ session[t].pc = "undoing"
         \/ ~primary /\ session[t].pc = "undo" /\ Found(t, session[t].cur))
        => session[t].cur = LastOf(log, t)
=============================================================================
