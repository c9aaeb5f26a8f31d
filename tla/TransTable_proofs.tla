-------------------------- MODULE TransTable_proofs --------------------------
(***************************************************************************)
(* Theorems about TransTable, for any transactions, any number of records, *)
(* changes of the primary and restarts: the table of unfinished            *)
(* transactions follows the log, and nothing is undone twice, but for the  *)
(* transactions somebody here held too long.                               *)
(*                                                                         *)
(* First, taking a record back is the exact inverse of having written it.  *)
(* Then, all is said of one transaction: a log in which every record of it *)
(* continues the beginning keeps its chain, whatever the others write, and *)
(* the table made from the log at start-up says of it what was kept record *)
(* by record.  Last, whoever writes, writes a record that continues the    *)
(* log, unless the transaction is late.                                    *)
(***************************************************************************)
EXTENDS TransTable, SequenceTheorems, SetBounds, TLAPS

Table == [map : [Trans -> Nat], begin : [Trans -> Nat]]

\* updateTransInfo on a node that is not primary.
MapAt(tab, t, lsn) == [tab EXCEPT !.map = [@ EXCEPT ![t] = lsn]]

\* The record goes on where the table stands: an operation or a commit names
\* the last record of its transaction, a commit the first one too, and an
\* undo undoes the last one, which is the first if nothing is before it.
Fits(tab, rec) ==
    \/ \E t \in Trans :
        /\ rec = Op(t, tab.map[t])
        /\ tab.map[t] = None => tab.begin[t] = None
    \/ \E t \in Trans : rec = Commit(t, tab.map[t], tab.begin[t])
    \/ \E t \in Trans : \E pre \in Nat :
        /\ rec = Undo(t, pre, tab.map[t])
        /\ pre = None => tab.begin[t] = tab.map[t]

\* A table is its two maps.
LEMMA TableParts ==
    ASSUME NEW a \in Table, NEW b \in Table,
           a.map = b.map, a.begin = b.begin
    PROVE  a = b
  BY DEF Table

\* What the updates of the table do to its two maps.
LEMMA BeginAtParts ==
    ASSUME NEW tab \in Table, NEW t \in Trans, NEW lsn \in Nat
    PROVE  /\ BeginAt(tab, t, lsn) \in Table
           /\ BeginAt(tab, t, lsn).map = tab.map
           /\ BeginAt(tab, t, lsn).begin = [tab.begin EXCEPT ![t] = lsn]
  BY DEF Table, BeginAt

LEMMA MapAtParts ==
    ASSUME NEW tab \in Table, NEW t \in Trans, NEW lsn \in Nat
    PROVE  /\ MapAt(tab, t, lsn) \in Table
           /\ MapAt(tab, t, lsn).map = [tab.map EXCEPT ![t] = lsn]
           /\ MapAt(tab, t, lsn).begin = tab.begin
  BY DEF Table, MapAt

\* Setting a value and setting it back changes nothing.
LEMMA SetBack ==
    ASSUME NEW f \in [Trans -> Nat], NEW t \in Trans, NEW v \in Nat
    PROVE  [[f EXCEPT ![t] = v] EXCEPT ![t] = f[t]] = f
  OBVIOUS

\* An operation: taken back, its transaction stands at the record before, and
\* has begun only if it had before (rollbackTransInfoFromLog, isFirstOp).
LEMMA OpTakenBack ==
    ASSUME NEW tab \in Table, NEW t \in Trans, NEW lsn \in Nat,
           tab.map[t] = None => tab.begin[t] = None, lsn # None
    PROVE  LET rec == Op(t, tab.map[t])
           IN  RollbackTransInfo(SaveTransInfo(tab, rec, lsn, FALSE), rec) = tab
  <1> DEFINE rec == Op(t, tab.map[t])
             begun == IF tab.map[t] = None THEN BeginAt(tab, t, lsn) ELSE tab
             saved == MapAt(begun, t, lsn)
             back == IF tab.map[t] = None THEN BeginAt(saved, t, None) ELSE saved
  <1>0. tab.map \in [Trans -> Nat] /\ tab.begin \in [Trans -> Nat]
        /\ None \in Nat
    BY DEF Table, None
  <1>1. SaveTransInfo(tab, rec, lsn, FALSE) = saved
    BY DEF SaveTransInfo, UpdateTransInfo, MapAt, LastAfter, IsFirstOp, Op
  <1>2. RollbackTransInfo(saved, rec) = MapAt(back, t, tab.map[t])
    BY DEF RollbackTransInfo, UpdateTransInfo, MapAt, IsFirstOp, Op
  <1>3. begun \in Table /\ begun.map = tab.map
        /\ begun.begin = IF tab.map[t] = None
                         THEN [tab.begin EXCEPT ![t] = lsn] ELSE tab.begin
    BY <1>0, BeginAtParts
  <1> HIDE DEF begun
  <1>4. saved \in Table /\ saved.map = [tab.map EXCEPT ![t] = lsn]
        /\ saved.begin = begun.begin
    BY <1>3, MapAtParts
  <1> HIDE DEF saved
  <1>5. back \in Table /\ back.map = saved.map
        /\ back.begin = IF tab.map[t] = None
                        THEN [saved.begin EXCEPT ![t] = None] ELSE saved.begin
    BY <1>0, <1>4, BeginAtParts
  <1> HIDE DEF back
  <1>6. back.begin = tab.begin
    <2>1. CASE tab.map[t] = None
      BY <2>1, <1>0, <1>3, <1>4, <1>5, SetBack
    <2>2. CASE tab.map[t] # None
      BY <2>2, <1>3, <1>4, <1>5
    <2> QED BY <2>1, <2>2
  <1>7. [back.map EXCEPT ![t] = tab.map[t]] = tab.map
    BY <1>0, <1>4, <1>5, SetBack
  <1> HIDE DEF rec
  <1>8. MapAt(back, t, tab.map[t]) = tab
    <2>1. tab.map[t] \in Nat
      BY <1>0
    <2>2. /\ MapAt(back, t, tab.map[t]) \in Table
          /\ MapAt(back, t, tab.map[t]).map = tab.map
          /\ MapAt(back, t, tab.map[t]).begin = tab.begin
      BY <2>1, <1>5, <1>6, <1>7, MapAtParts
    <2> QED BY <2>2, TableParts
  <1>9. RollbackTransInfo(SaveTransInfo(tab, rec, lsn, FALSE), rec) = tab
    BY <1>1, <1>2, <1>8
  <1> QED BY <1>9 DEF rec

\* A commit: taken back, the transaction is open again, with the first and
\* the last record the commit named.
LEMMA CommitTakenBack ==
    ASSUME NEW tab \in Table, NEW t \in Trans, NEW lsn \in Nat
    PROVE  LET rec == Commit(t, tab.map[t], tab.begin[t])
           IN  RollbackTransInfo(SaveTransInfo(tab, rec, lsn, FALSE), rec) = tab
  <1> DEFINE rec == Commit(t, tab.map[t], tab.begin[t])
             begun == BeginAt(tab, t, None)
             saved == MapAt(begun, t, None)
             back == BeginAt(saved, t, tab.begin[t])
  <1>0. tab.map \in [Trans -> Nat] /\ tab.begin \in [Trans -> Nat]
        /\ None \in Nat
    BY DEF Table, None
  <1>1. SaveTransInfo(tab, rec, lsn, FALSE) = saved
    BY DEF SaveTransInfo, UpdateTransInfo, MapAt, LastAfter, IsFirstOp, Commit
  <1>2. RollbackTransInfo(saved, rec) = MapAt(back, t, tab.map[t])
    BY DEF RollbackTransInfo, UpdateTransInfo, MapAt, IsFirstOp, Commit
  <1>3. begun \in Table /\ begun.map = tab.map
        /\ begun.begin = [tab.begin EXCEPT ![t] = None]
    BY <1>0, BeginAtParts
  <1> HIDE DEF begun
  <1>4. saved \in Table /\ saved.map = [tab.map EXCEPT ![t] = None]
        /\ saved.begin = begun.begin
    BY <1>0, <1>3, MapAtParts
  <1> HIDE DEF saved
  <1>5. back \in Table /\ back.map = saved.map
        /\ back.begin = [saved.begin EXCEPT ![t] = tab.begin[t]]
    BY <1>0, <1>4, BeginAtParts
  <1> HIDE DEF back
  <1>6. back.begin = tab.begin /\ [back.map EXCEPT ![t] = tab.map[t]] = tab.map
    BY <1>0, <1>3, <1>4, <1>5, SetBack
  <1> HIDE DEF rec
  <1>7. MapAt(back, t, tab.map[t]) = tab
    BY <1>0, <1>5, <1>6, MapAtParts, TableParts
  <1>8. RollbackTransInfo(SaveTransInfo(tab, rec, lsn, FALSE), rec) = tab
    BY <1>1, <1>2, <1>7
  <1> QED BY <1>8 DEF rec

\* An undo: taken back, the undone record stands again, and if it was the
\* first one the transaction begins there again.
LEMMA UndoTakenBack ==
    ASSUME NEW tab \in Table, NEW t \in Trans, NEW lsn \in Nat,
           NEW pre \in Nat, pre = None => tab.begin[t] = tab.map[t]
    PROVE  LET rec == Undo(t, pre, tab.map[t])
           IN  RollbackTransInfo(SaveTransInfo(tab, rec, lsn, FALSE), rec) = tab
  <1> DEFINE rec == Undo(t, pre, tab.map[t])
             begun == IF pre = None THEN BeginAt(tab, t, None) ELSE tab
             saved == MapAt(begun, t, pre)
             back == IF pre = None THEN BeginAt(saved, t, tab.map[t]) ELSE saved
  <1>0. tab.map \in [Trans -> Nat] /\ tab.begin \in [Trans -> Nat]
        /\ None \in Nat
    BY DEF Table, None
  <1>1. SaveTransInfo(tab, rec, lsn, FALSE) = saved
    BY DEF SaveTransInfo, UpdateTransInfo, MapAt, LastAfter, IsFirstOp, Undo
  <1>2. RollbackTransInfo(saved, rec) = MapAt(back, t, tab.map[t])
    BY DEF RollbackTransInfo, UpdateTransInfo, MapAt, IsFirstOp, Undo
  <1>3. begun \in Table /\ begun.map = tab.map
        /\ begun.begin = IF pre = None
                         THEN [tab.begin EXCEPT ![t] = None] ELSE tab.begin
    BY <1>0, BeginAtParts
  <1> HIDE DEF begun
  <1>4. saved \in Table /\ saved.map = [tab.map EXCEPT ![t] = pre]
        /\ saved.begin = begun.begin
    BY <1>3, MapAtParts
  <1> HIDE DEF saved
  <1>5. back \in Table /\ back.map = saved.map
        /\ back.begin = IF pre = None
                        THEN [saved.begin EXCEPT ![t] = tab.map[t]]
                        ELSE saved.begin
    BY <1>0, <1>4, BeginAtParts
  <1> HIDE DEF back
  <1>6. back.begin = tab.begin
    <2>1. CASE pre = None
      BY <2>1, <1>0, <1>3, <1>4, <1>5, SetBack
    <2>2. CASE pre # None
      BY <2>2, <1>3, <1>4, <1>5
    <2> QED BY <2>1, <2>2
  <1>7. [back.map EXCEPT ![t] = tab.map[t]] = tab.map
    BY <1>0, <1>4, <1>5, SetBack
  <1> HIDE DEF rec
  <1>8. MapAt(back, t, tab.map[t]) = tab
    <2>1. tab.map[t] \in Nat
      BY <1>0
    <2>2. /\ MapAt(back, t, tab.map[t]) \in Table
          /\ MapAt(back, t, tab.map[t]).map = tab.map
          /\ MapAt(back, t, tab.map[t]).begin = tab.begin
      BY <2>1, <1>5, <1>6, <1>7, MapAtParts
    <2> QED BY <2>2, TableParts
  <1>9. RollbackTransInfo(SaveTransInfo(tab, rec, lsn, FALSE), rec) = tab
    BY <1>1, <1>2, <1>8
  <1> QED BY <1>9 DEF rec

\* Whatever record comes next, taking it back undoes what writing it did: a
\* node that takes back the records the new primary does not have ends with
\* the table it had before them (rollbackTransInfoFromLog against
\* saveTransInfoFromLog).
THEOREM TakingBackInverts ==
    ASSUME NEW tab \in Table, NEW rec, NEW lsn \in Nat \ {None},
           Fits(tab, rec)
    PROVE  RollbackTransInfo(SaveTransInfo(tab, rec, lsn, FALSE), rec) = tab
  <1>1. CASE \E t \in Trans : /\ rec = Op(t, tab.map[t])
                              /\ tab.map[t] = None => tab.begin[t] = None
    BY <1>1, OpTakenBack
  <1>2. CASE \E t \in Trans : rec = Commit(t, tab.map[t], tab.begin[t])
    BY <1>2, CommitTakenBack
  <1>3. CASE \E t \in Trans : \E pre \in Nat :
                 /\ rec = Undo(t, pre, tab.map[t])
                 /\ pre = None => tab.begin[t] = tab.map[t]
    <2>1. PICK t \in Trans, pre \in Nat :
              /\ rec = Undo(t, pre, tab.map[t])
              /\ pre = None => tab.begin[t] = tab.map[t]
      BY <1>3
    <2>2. lsn \in Nat
      OBVIOUS
    <2>3. LET u == Undo(t, pre, tab.map[t])
          IN  RollbackTransInfo(SaveTransInfo(tab, u, lsn, FALSE), u) = tab
      BY <2>1, <2>2, UndoTakenBack
    <2> QED BY <2>1, <2>3
  <1> QED BY <1>1, <1>2, <1>3 DEF Fits
----------------------------------------------------------------------------
(* The log, seen from one transaction: what a record that is written in    *)
(* turn makes of it.                                                       *)

LogRecord ==
    [kind : {"op"}, tr : Trans, pre : Nat]
        \cup [kind : {"commit"}, tr : Trans, pre : Nat, first : Nat]
        \cup [kind : {"undo"}, tr : Trans, pre : Nat, rel : Nat]

\* The operations of t that are not undone; t has only written so far.
Standing(l, t) == OpsOf(l, t) \ UndoneIn(l, t)
Open(l, t) == \A i \in DOMAIN l : l[i].tr = t => l[i].kind = "op"

\* The operations that stand are chained by their pre, and the one that has
\* none is the first of all.
Chained(l, t) ==
    /\ \A s \in Standing(l, t) :
          /\ l[s].pre \in {None} \cup Standing(l, t)
          /\ \A r \in Standing(l, t) : r < s => r <= l[s].pre
    /\ \A s \in OpsOf(l, t) :
          l[s].pre = None => \A r \in OpsOf(l, t) : s <= r

\* An undo names an earlier operation of its transaction.
Undoes(l, t) ==
    \A i \in DOMAIN l : l[i].kind = "undo" /\ l[i].tr = t =>
        l[i].rel < i /\ l[i].rel \in OpsOf(l, t)

Once(l, t) ==
    \A i, j \in DOMAIN l :
        l[j].kind = "undo" /\ l[j].tr = t /\ l[i].tr = t =>
          /\ (l[i].kind = "undo" /\ l[i].rel = l[j].rel) => i = j
          /\ l[i].kind # "commit"

Good(l, t) ==
    /\ l \in Seq(LogRecord)
    /\ \A i \in DOMAIN l : l[i].tr = t => l[i].pre < i
    /\ Undoes(l, t) /\ Once(l, t) /\ Chained(l, t)

\* The record is what comes next of t: it goes on from the last one that
\* stands.
Continues(l, t, rec) ==
    \/ Open(l, t) /\ rec = Op(t, LastOf(l, t))
    \/ /\ LastOf(l, t) # None /\ Open(l, t)
       /\ rec = Commit(t, LastOf(l, t), FirstOf(l, t))
    \/ /\ LastOf(l, t) # None
       /\ rec = Undo(t, l[LastOf(l, t)].pre, LastOf(l, t))

LEMMA RecordFacts ==
    ASSUME NEW l \in Seq(LogRecord)
    PROVE  /\ Len(l) \in Nat /\ DOMAIN l = 1 .. Len(l)
           /\ \A i \in DOMAIN l :
                 /\ l[i] \in LogRecord /\ l[i].tr \in Trans /\ l[i].pre \in Nat
                 /\ l[i].kind \in {"op", "commit", "undo"}
                 /\ l[i].kind = "undo" => l[i].rel \in Nat
  <1>1. Len(l) \in Nat /\ DOMAIN l = 1 .. Len(l)
    OBVIOUS
  <1>2. \A i \in DOMAIN l : l[i] \in LogRecord
    OBVIOUS
  <1>3. \A r \in LogRecord : /\ r.tr \in Trans /\ r.pre \in Nat
                             /\ r.kind \in {"op", "commit", "undo"}
                             /\ r.kind = "undo" => r.rel \in Nat
    BY DEF LogRecord
  <1> QED BY <1>1, <1>2, <1>3

\* The records that are written, of whichever numbers.
LEMMA RecordIs ==
    ASSUME NEW t \in Trans, NEW a \in Nat, NEW b \in Nat
    PROVE  /\ Op(t, a) \in LogRecord /\ Op(t, a).tr = t
           /\ Commit(t, a, b) \in LogRecord /\ Commit(t, a, b).tr = t
           /\ Undo(t, a, b) \in LogRecord /\ Undo(t, a, b).tr = t
  BY DEF LogRecord, Op, Commit, Undo

LEMMA LogAppend ==
    ASSUME NEW l \in Seq(LogRecord), NEW rec \in LogRecord
    PROVE  LET m == Append(l, rec)
           IN  /\ m \in Seq(LogRecord) /\ Len(m) = Len(l) + 1
               /\ DOMAIN m = 1 .. Len(l) + 1 /\ DOMAIN l = 1 .. Len(l)
               /\ DOMAIN m = DOMAIN l \cup {Len(l) + 1}
               /\ \A i \in DOMAIN l : m[i] = l[i]
               /\ m[Len(l) + 1] = rec /\ Len(l) \in Nat
               /\ Len(l) + 1 \notin DOMAIN l
  BY AppendProperties

\* The operations, and what stands of them, are places in the log.
LEMMA StandingIn ==
    ASSUME NEW l \in Seq(LogRecord), NEW t \in Trans
    PROVE  /\ OpsOf(l, t) \subseteq 1 .. Len(l)
           /\ Standing(l, t) \subseteq OpsOf(l, t)
           /\ \A r \in OpsOf(l, t) : l[r].kind = "op" /\ l[r].tr = t
  BY DEF OpsOf, Standing

LEMMA LastIs ==
    ASSUME NEW l \in Seq(LogRecord), NEW t \in Trans
    PROVE  /\ LastOf(l, t) \in {None} \cup Standing(l, t)
           /\ LastOf(l, t) \in 0 .. Len(l)
           /\ CommittedIn(l, t) => LastOf(l, t) = None
           /\ ~CommittedIn(l, t)
                 => \A r \in Standing(l, t) : r <= LastOf(l, t)
  <1> DEFINE S == {None} \cup Standing(l, t)
  <1>1. Len(l) \in Nat /\ S \in SUBSET (0 .. Len(l)) /\ S # {}
    BY StandingIn DEF None
  <1>2. CASE CommittedIn(l, t)
    BY <1>1, <1>2 DEF LastOf, None
  <1>3. CASE ~CommittedIn(l, t)
    <2>1. LastOf(l, t) = Max(S)
      BY <1>3 DEF LastOf, Standing
    <2> HIDE DEF S
    <2>2. Max(S) \in S /\ \A y \in S : Max(S) >= y
      BY <1>1, MaxIn
    <2>3. \A r \in Standing(l, t) : r \in S
      BY DEF S
    <2>4. \A r \in Standing(l, t) : r <= Max(S)
      BY <1>1, <2>2, <2>3
    <2> QED BY <1>1, <1>3, <2>1, <2>2, <2>4 DEF S
  <1> QED BY <1>2, <1>3

LEMMA LastUnique ==
    ASSUME NEW l \in Seq(LogRecord), NEW t \in Trans, ~CommittedIn(l, t),
           NEW m \in {None} \cup Standing(l, t),
           \A r \in Standing(l, t) : r <= m
    PROVE  LastOf(l, t) = m
  <1>1. Standing(l, t) \subseteq 1 .. Len(l) /\ Len(l) \in Nat
    BY StandingIn
  <1>2. m \in Nat /\ LastOf(l, t) \in Nat
    BY <1>1, LastIs DEF None
  <1>3. m <= LastOf(l, t)
    BY <1>2, LastIs DEF None
  <1>4. LastOf(l, t) <= m
    BY <1>2, LastIs DEF None
  <1> QED BY <1>2, <1>3, <1>4

LEMMA FirstIs ==
    ASSUME NEW l \in Seq(LogRecord), NEW t \in Trans, LastOf(l, t) # None
    PROVE  /\ FirstOf(l, t) \in OpsOf(l, t) /\ FirstOf(l, t) \in 1 .. Len(l)
           /\ \A r \in OpsOf(l, t) : FirstOf(l, t) <= r
  <1>1. LastOf(l, t) \in OpsOf(l, t)
    BY LastIs, StandingIn
  <1>2. OpsOf(l, t) \in SUBSET Nat /\ OpsOf(l, t) # {}
    BY <1>1, StandingIn
  <1>3. FirstOf(l, t) = Min(OpsOf(l, t))
    BY DEF FirstOf
  <1> QED BY <1>2, <1>3, MinIn, StandingIn

LEMMA FirstUnique ==
    ASSUME NEW l \in Seq(LogRecord), NEW t \in Trans, LastOf(l, t) # None,
           NEW m \in OpsOf(l, t), \A r \in OpsOf(l, t) : m <= r
    PROVE  FirstOf(l, t) = m
  <1>1. m \in Nat /\ FirstOf(l, t) \in Nat
    BY FirstIs, StandingIn
  <1>2. FirstOf(l, t) <= m /\ m <= FirstOf(l, t)
    BY FirstIs
  <1> QED BY <1>1, <1>2

\* Where the last and the first record are, and what is there.
LEMMA PlacesIn ==
    ASSUME NEW l \in Seq(LogRecord), NEW t \in Trans
    PROVE  /\ LastOf(l, t) \in Nat /\ LastOf(l, t) \in {None} \cup DOMAIN l
           /\ FirstOf(l, t) \in Nat /\ FirstOf(l, t) \in {None} \cup DOMAIN l
           /\ LastOf(l, t) # None =>
                 /\ LastOf(l, t) \in DOMAIN l /\ l[LastOf(l, t)].tr = t
                 /\ l[LastOf(l, t)].pre \in Nat
  <1>1. Len(l) \in Nat /\ DOMAIN l = 1 .. Len(l)
    BY RecordFacts
  <1>2. LastOf(l, t) \in Nat /\ LastOf(l, t) \in {None} \cup DOMAIN l
    BY <1>1, LastIs DEF None
  <1>3. FirstOf(l, t) \in Nat /\ FirstOf(l, t) \in {None} \cup DOMAIN l
    <2>1. CASE LastOf(l, t) # None
      BY <1>1, <2>1, FirstIs
    <2>2. CASE LastOf(l, t) = None
      BY <2>2 DEF FirstOf, None
    <2> QED BY <2>1, <2>2
  <1>4. ASSUME LastOf(l, t) # None
        PROVE  /\ LastOf(l, t) \in DOMAIN l /\ l[LastOf(l, t)].tr = t
               /\ l[LastOf(l, t)].pre \in Nat
    <2>1. LastOf(l, t) \in OpsOf(l, t)
      BY <1>4, LastIs, StandingIn
    <2>2. LastOf(l, t) \in DOMAIN l /\ l[LastOf(l, t)].tr = t
      BY <2>1 DEF OpsOf
    <2> QED BY <2>2, RecordFacts
  <1> QED BY <1>2, <1>3, <1>4

\* A transaction that has only written is not committed, and all it wrote
\* stands.
LEMMA OpenStands ==
    ASSUME NEW l, NEW t, Open(l, t)
    PROVE  ~CommittedIn(l, t) /\ Standing(l, t) = OpsOf(l, t)
  <1>1. ~CommittedIn(l, t)
    BY DEF Open, CommittedIn
  <1>2. UndoneIn(l, t) = {}
    BY DEF Open, UndoneIn
  <1> QED BY <1>1, <1>2 DEF Standing

LEMMA Appended ==
    ASSUME NEW l \in Seq(LogRecord), NEW rec \in LogRecord, NEW u
    PROVE  LET m == Append(l, rec)
               n == Len(l) + 1
           IN  /\ OpsOf(m, u) = IF rec.kind = "op" /\ rec.tr = u
                                THEN OpsOf(l, u) \cup {n} ELSE OpsOf(l, u)
               /\ UndoneIn(m, u) = IF rec.kind = "undo" /\ rec.tr = u
                                   THEN UndoneIn(l, u) \cup {rec.rel}
                                   ELSE UndoneIn(l, u)
               /\ CommittedIn(m, u) <=> \/ CommittedIn(l, u)
                                        \/ rec.kind = "commit" /\ rec.tr = u
  <1> DEFINE m == Append(l, rec)
             n == Len(l) + 1
  <1>1. /\ DOMAIN m = DOMAIN l \cup {n} /\ n \notin DOMAIN l
        /\ \A i \in DOMAIN l : m[i] = l[i]
        /\ m[n] = rec
    BY LogAppend
  <1> HIDE DEF m, n
  <1>2. OpsOf(m, u) = IF rec.kind = "op" /\ rec.tr = u
                      THEN OpsOf(l, u) \cup {n} ELSE OpsOf(l, u)
    BY <1>1 DEF OpsOf
  <1>3. CommittedIn(m, u) <=> \/ CommittedIn(l, u)
                              \/ rec.kind = "commit" /\ rec.tr = u
    BY <1>1 DEF CommittedIn
  <1>4. UndoneIn(m, u) = IF rec.kind = "undo" /\ rec.tr = u
                         THEN UndoneIn(l, u) \cup {rec.rel} ELSE UndoneIn(l, u)
    BY <1>1 DEF UndoneIn
  <1> QED BY <1>2, <1>3, <1>4 DEF m, n

\* A transaction the record is not about stays as it is.
LEMMA LastSame ==
    ASSUME NEW l, NEW m, NEW u, Standing(m, u) = Standing(l, u),
           CommittedIn(m, u) <=> CommittedIn(l, u)
    PROVE  LastOf(m, u) = LastOf(l, u)
  BY DEF LastOf, Standing

LEMMA FirstSame ==
    ASSUME NEW l, NEW m, NEW u, LastOf(m, u) = LastOf(l, u),
           OpsOf(m, u) = OpsOf(l, u)
    PROVE  FirstOf(m, u) = FirstOf(l, u)
  BY DEF FirstOf

LEMMA OthersSame ==
    ASSUME NEW l \in Seq(LogRecord), NEW rec \in LogRecord, NEW u,
           rec.tr # u
    PROVE  LET m == Append(l, rec)
           IN  /\ OpsOf(m, u) = OpsOf(l, u) /\ Standing(m, u) = Standing(l, u)
               /\ LastOf(m, u) = LastOf(l, u) /\ FirstOf(m, u) = FirstOf(l, u)
               /\ Open(m, u) <=> Open(l, u)
  <1> DEFINE m == Append(l, rec)
  <1>1. /\ OpsOf(m, u) = OpsOf(l, u) /\ UndoneIn(m, u) = UndoneIn(l, u)
        /\ CommittedIn(m, u) <=> CommittedIn(l, u)
    BY Appended
  <1>2. Open(m, u) <=> Open(l, u)
    <2>1. /\ DOMAIN m = DOMAIN l \cup {Len(l) + 1}
          /\ \A i \in DOMAIN l : m[i] = l[i]
          /\ m[Len(l) + 1] = rec
      BY LogAppend
    <2> HIDE DEF m
    <2> QED BY <2>1 DEF Open
  <1> HIDE DEF m
  <1>3. Standing(m, u) = Standing(l, u)
    BY <1>1 DEF Standing
  <1>4. LastOf(m, u) = LastOf(l, u)
    BY <1>1, <1>3, LastSame
  <1>5. FirstOf(m, u) = FirstOf(l, u)
    BY <1>1, <1>4, FirstSame
  <1> QED BY <1>1, <1>2, <1>3, <1>4, <1>5 DEF m

\* An operation: it stands, and is the last one; the first one if there was
\* none.
LEMMA OpAppended ==
    ASSUME NEW l, NEW t \in Trans, Good(l, t), Open(l, t)
    PROVE  LET rec == Op(t, LastOf(l, t))
               m == Append(l, rec)
               n == Len(l) + 1
           IN  /\ rec \in LogRecord
               /\ OpsOf(m, t) = OpsOf(l, t) \cup {n}
               /\ Standing(m, t) = Standing(l, t) \cup {n}
               /\ LastOf(m, t) = n
               /\ FirstOf(m, t) = IF LastOf(l, t) = None THEN n
                                  ELSE FirstOf(l, t)
               /\ Open(m, t) /\ n # None
  <1> DEFINE rec == Op(t, LastOf(l, t))
             m == Append(l, rec)
             n == Len(l) + 1
  <1>0. l \in Seq(LogRecord) /\ Len(l) \in Nat /\ DOMAIN l = 1 .. Len(l)
    BY DEF Good
  <1>1. LastOf(l, t) \in 0 .. Len(l)
    BY <1>0, LastIs
  <1>2. rec \in LogRecord /\ rec.kind = "op" /\ rec.tr = t
        /\ rec.pre = LastOf(l, t)
    BY <1>1 DEF LogRecord, Op
  <1> HIDE DEF rec
  <1>3. /\ m \in Seq(LogRecord) /\ Len(m) = n
        /\ DOMAIN m = DOMAIN l \cup {n}
        /\ \A i \in DOMAIN l : m[i] = l[i]
        /\ m[n] = rec
    BY <1>0, <1>2, LogAppend
  <1>4. /\ OpsOf(m, t) = OpsOf(l, t) \cup {n}
        /\ CommittedIn(m, t) <=> CommittedIn(l, t)
    BY <1>0, <1>2, Appended
  <1> HIDE DEF m
  <1>5. ~CommittedIn(l, t) /\ Standing(l, t) = OpsOf(l, t)
    BY OpenStands
  <1>6. Open(m, t)
    BY <1>2, <1>3 DEF Open
  <1>7. Standing(m, t) = Standing(l, t) \cup {n}
    BY <1>4, <1>5, <1>6, OpenStands
  <1>8. OpsOf(l, t) \subseteq 1 .. Len(l)
    BY <1>0, StandingIn
  <1>9. n \in Standing(m, t) /\ \A r \in Standing(m, t) : r <= n
    BY <1>0, <1>5, <1>7, <1>8
  <1>10. LastOf(m, t) = n
    BY <1>3, <1>4, <1>5, <1>9, LastUnique
  <1>11. n # None
    BY <1>0 DEF None
  <1>12. FirstOf(m, t) = IF LastOf(l, t) = None THEN n ELSE FirstOf(l, t)
    <2>1. CASE LastOf(l, t) = None
      <3>1. OpsOf(l, t) = {}
        <4>1. \A r \in OpsOf(l, t) : r <= 0
          BY <1>0, <1>5, <2>1, LastIs DEF None
        <4> QED BY <1>8, <4>1
      <3>2. \A r \in OpsOf(m, t) : n <= r
        BY <1>0, <1>4, <3>1
      <3> QED BY <1>3, <1>4, <1>10, <1>11, <2>1, <3>2, FirstUnique
    <2>2. CASE LastOf(l, t) # None
      <3>1. /\ FirstOf(l, t) \in OpsOf(l, t) /\ FirstOf(l, t) \in 1 .. Len(l)
            /\ \A r \in OpsOf(l, t) : FirstOf(l, t) <= r
        BY <1>0, <2>2, FirstIs
      <3>2. \A r \in OpsOf(m, t) : FirstOf(l, t) <= r
        BY <1>0, <1>4, <3>1
      <3> QED BY <1>3, <1>4, <1>10, <1>11, <2>2, <3>1, <3>2, FirstUnique
    <2> QED BY <2>1, <2>2
  <1> QED BY <1>2, <1>4, <1>6, <1>7, <1>10, <1>11, <1>12 DEF m, rec

\* A commit: the transaction is over, and all it wrote stands.
LEMMA CommitAppended ==
    ASSUME NEW l \in Seq(LogRecord), NEW t \in Trans, LastOf(l, t) # None
    PROVE  LET rec == Commit(t, LastOf(l, t), FirstOf(l, t))
               m == Append(l, rec)
           IN  /\ rec \in LogRecord
               /\ OpsOf(m, t) = OpsOf(l, t)
               /\ Standing(m, t) = Standing(l, t)
               /\ LastOf(m, t) = None /\ FirstOf(m, t) = None
  <1> DEFINE rec == Commit(t, LastOf(l, t), FirstOf(l, t))
             m == Append(l, rec)
  <1>1. LastOf(l, t) \in Nat /\ FirstOf(l, t) \in Nat
    BY PlacesIn
  <1>2. rec \in LogRecord /\ rec.kind = "commit" /\ rec.tr = t
    BY <1>1 DEF LogRecord, Commit
  <1> HIDE DEF rec
  <1>3. OpsOf(m, t) = OpsOf(l, t) /\ UndoneIn(m, t) = UndoneIn(l, t)
        /\ CommittedIn(m, t)
    BY <1>2, Appended
  <1> HIDE DEF m
  <1>4. LastOf(m, t) = None /\ FirstOf(m, t) = None
    BY <1>3 DEF LastOf, FirstOf
  <1> QED BY <1>2, <1>3, <1>4 DEF Standing, m, rec

\* An undo of the last operation: the one before it is the last.
LEMMA UndoAppended ==
    ASSUME NEW l, NEW t \in Trans, Good(l, t), LastOf(l, t) # None
    PROVE  LET last == LastOf(l, t)
               rec == Undo(t, l[last].pre, last)
               m == Append(l, rec)
           IN  /\ rec \in LogRecord /\ last \in OpsOf(l, t)
               /\ OpsOf(m, t) = OpsOf(l, t)
               /\ Standing(m, t) = Standing(l, t) \ {last}
               /\ LastOf(m, t) = l[last].pre
               /\ FirstOf(m, t) = IF l[last].pre = None THEN None
                                  ELSE FirstOf(l, t)
               /\ l[last].pre = None => FirstOf(l, t) = last
               /\ l[last].pre \in Nat /\ l[last].pre < last
  <1> DEFINE last == LastOf(l, t)
             rec == Undo(t, l[last].pre, last)
             m == Append(l, rec)
  <1>0. l \in Seq(LogRecord) /\ Len(l) \in Nat /\ DOMAIN l = 1 .. Len(l)
        /\ Chained(l, t)
    BY DEF Good
  <1>1. last \in Standing(l, t) /\ last \in OpsOf(l, t) /\ last \in 1 .. Len(l)
        /\ ~CommittedIn(l, t) /\ \A r \in Standing(l, t) : r <= last
    BY <1>0, LastIs, StandingIn
  <1> HIDE DEF last
  <1>2. l[last].pre \in Nat /\ l[last].pre < last
    <2>1. last \in DOMAIN l /\ l[last].tr = t
      BY <1>1 DEF OpsOf
    <2> QED BY <1>0, <2>1, RecordFacts DEF Good
  <1>3. rec \in LogRecord /\ rec.kind = "undo" /\ rec.tr = t
        /\ rec.rel = last
    BY <1>1, <1>2 DEF LogRecord, Undo
  <1> HIDE DEF rec
  <1>4. /\ OpsOf(m, t) = OpsOf(l, t)
        /\ UndoneIn(m, t) = UndoneIn(l, t) \cup {last}
        /\ ~CommittedIn(m, t) /\ m \in Seq(LogRecord)
    BY <1>0, <1>1, <1>3, Appended, LogAppend
  <1> HIDE DEF m
  <1>5. Standing(m, t) = Standing(l, t) \ {last}
    BY <1>4 DEF Standing
  <1>6. Standing(l, t) \subseteq 1 .. Len(l)
    BY <1>0, StandingIn
  <1>7. l[last].pre \in {None} \cup Standing(m, t)
    BY <1>0, <1>1, <1>2, <1>5 DEF Chained
  <1>8. \A r \in Standing(m, t) : r <= l[last].pre
    <2> TAKE r \in Standing(m, t)
    <2>1. r \in Standing(l, t) /\ r < last
      BY <1>1, <1>5, <1>6
    <2> QED BY <1>0, <1>1, <2>1 DEF Chained
  <1>9. LastOf(m, t) = l[last].pre
    BY <1>4, <1>7, <1>8, LastUnique
  <1>10. ASSUME l[last].pre # None PROVE FirstOf(m, t) = FirstOf(l, t)
    BY <1>4, <1>9, <1>10 DEF FirstOf, last
  <1>11. ASSUME l[last].pre = None PROVE FirstOf(l, t) = last
    <2>1. \A r \in OpsOf(l, t) : last <= r
      BY <1>0, <1>1, <1>11 DEF Chained
    <2> QED BY <1>0, <1>1, <2>1, FirstUnique
  <1>12. l[last].pre = None => FirstOf(m, t) = None
    BY <1>9 DEF FirstOf
  <1> QED BY <1>1, <1>2, <1>3, <1>4, <1>5, <1>9, <1>10, <1>11, <1>12
             DEF m, rec, last

LEMMA ContinuesIs ==
    ASSUME NEW l, NEW t \in Trans, Good(l, t), NEW rec, Continues(l, t, rec)
    PROVE  /\ rec \in LogRecord /\ rec.tr = t /\ rec.pre <= Len(l)
           /\ rec.kind = "undo" => rec.rel \in OpsOf(l, t)
  <1>0. l \in Seq(LogRecord) /\ Len(l) \in Nat /\ LastOf(l, t) \in 0 .. Len(l)
    BY LastIs DEF Good
  <1>1. CASE Open(l, t) /\ rec = Op(t, LastOf(l, t))
    <2>1. rec.pre = LastOf(l, t) /\ rec.kind = "op" /\ rec.tr = t
      BY <1>1 DEF Op
    <2> QED BY <1>0, <1>1, <2>1, OpAppended
  <1>2. CASE /\ LastOf(l, t) # None /\ Open(l, t)
             /\ rec = Commit(t, LastOf(l, t), FirstOf(l, t))
    <2>1. rec.pre = LastOf(l, t) /\ rec.kind = "commit" /\ rec.tr = t
      BY <1>2 DEF Commit
    <2> QED BY <1>0, <1>2, <2>1, CommitAppended
  <1>3. CASE /\ LastOf(l, t) # None
             /\ rec = Undo(t, l[LastOf(l, t)].pre, LastOf(l, t))
    <2>1. PICK last \in Nat : last = LastOf(l, t) /\ last <= Len(l)
      BY <1>0
    <2>2. rec.pre = l[last].pre /\ rec.rel = last /\ rec.tr = t
      BY <1>3, <2>1 DEF Undo
    <2>3. rec \in LogRecord /\ last \in OpsOf(l, t)
          /\ l[last].pre \in Nat /\ l[last].pre < last
      BY <1>3, <2>1, UndoAppended
    <2> QED BY <1>0, <2>1, <2>2, <2>3
  <1> QED BY <1>1, <1>2, <1>3 DEF Continues

LEMMA ChainedSame ==
    ASSUME NEW l, NEW m, NEW u, Chained(l, u),
           OpsOf(m, u) = OpsOf(l, u), Standing(m, u) = Standing(l, u),
           \A i \in DOMAIN l : m[i] = l[i]
    PROVE  Chained(m, u)
  <1>1. \A s \in OpsOf(l, u) : m[s] = l[s]
    BY DEF OpsOf
  <1>2. \A s \in Standing(l, u) : m[s] = l[s]
    BY <1>1 DEF Standing
  <1> QED BY <1>1, <1>2 DEF Chained

LEMMA ChainedAppend ==
    ASSUME NEW l, NEW u \in Trans, Good(l, u), NEW rec, Continues(l, u, rec)
    PROVE  Chained(Append(l, rec), u)
  <1> DEFINE m == Append(l, rec)
             n == Len(l) + 1
  <1>0. l \in Seq(LogRecord) /\ Len(l) \in Nat /\ DOMAIN l = 1 .. Len(l)
        /\ Chained(l, u)
    BY DEF Good
  <1>1. rec \in LogRecord
    BY ContinuesIs
  <1>2. /\ \A i \in DOMAIN l : m[i] = l[i]
        /\ m[n] = rec
    BY <1>0, <1>1, LogAppend
  <1>3. OpsOf(l, u) \subseteq 1 .. Len(l) /\ Standing(l, u) \subseteq OpsOf(l, u)
        /\ \A s \in OpsOf(l, u) : l[s].tr = u
    BY <1>0, StandingIn
  <1>5. CASE Open(l, u) /\ rec = Op(u, LastOf(l, u))
    <2>1. /\ OpsOf(m, u) = OpsOf(l, u) \cup {n}
          /\ Standing(m, u) = Standing(l, u) \cup {n}
      BY <1>5, OpAppended
    <2>2. Standing(l, u) = OpsOf(l, u) /\ ~CommittedIn(l, u)
      BY <1>5, OpenStands
    <2>3. PICK last \in 0 .. Len(l) : last = LastOf(l, u)
      BY <1>0, LastIs
    <2>4. /\ last \in {None} \cup Standing(l, u)
          /\ \A r \in Standing(l, u) : r <= last
      BY <1>0, <2>2, <2>3, LastIs
    <2>5. m[n].pre = last
      BY <1>2, <1>5, <2>3 DEF Op
    <2> HIDE DEF m
    <2>6. \A s \in OpsOf(l, u) : m[s] = l[s]
      BY <1>0, <1>2, <1>3
    <2>7. ASSUME NEW s \in Standing(m, u)
          PROVE  /\ m[s].pre \in {None} \cup Standing(m, u)
                 /\ \A r \in Standing(m, u) : r < s => r <= m[s].pre
      <3>1. CASE s = n
        BY <1>0, <2>1, <2>4, <2>5, <3>1
      <3>2. CASE s \in Standing(l, u)
        <4>1. m[s] = l[s] /\ s \in 1 .. Len(l)
          BY <1>3, <2>6, <3>2
        <4>2. ~(n < s)
          BY <1>0, <4>1
        <4> QED BY <1>0, <2>1, <3>2, <4>1, <4>2 DEF Chained
      <3> QED BY <2>1, <2>7, <3>1, <3>2
    <2>8. ASSUME NEW s \in OpsOf(m, u), m[s].pre = None, NEW r \in OpsOf(m, u)
          PROVE  s <= r
      <3>1. CASE s = n
        <4>1. last = 0
          BY <2>5, <2>8, <3>1 DEF None
        <4>2. \A x \in OpsOf(l, u) : x \in 1 .. Len(l) /\ x <= 0
          BY <1>3, <2>2, <2>4, <4>1
        <4>3. OpsOf(l, u) = {}
          BY <4>2
        <4> QED BY <1>0, <2>1, <3>1, <4>3
      <3>2. CASE s \in OpsOf(l, u) /\ r \in OpsOf(l, u)
        <4>1. l[s].pre = None
          BY <2>6, <2>8, <3>2
        <4> QED BY <1>0, <3>2, <4>1 DEF Chained
      <3>3. CASE s \in OpsOf(l, u) /\ r = n
        BY <1>0, <1>3, <3>3
      <3> QED BY <2>1, <3>1, <3>2, <3>3
    <2>9. Chained(m, u)
      BY <2>7, <2>8 DEF Chained
    <2> QED BY <2>9 DEF m
  <1>6. CASE /\ LastOf(l, u) # None
             /\ rec = Commit(u, LastOf(l, u), FirstOf(l, u))
    <2>1. OpsOf(m, u) = OpsOf(l, u) /\ Standing(m, u) = Standing(l, u)
      BY <1>0, <1>6, CommitAppended
    <2> HIDE DEF m
    <2> QED BY <1>0, <1>2, <2>1, ChainedSame DEF m
  <1>7. CASE /\ LastOf(l, u) # None
             /\ rec = Undo(u, l[LastOf(l, u)].pre, LastOf(l, u))
    <2>1. PICK last \in 0 .. Len(l) : last = LastOf(l, u)
      BY <1>0, LastIs
    <2>2. /\ OpsOf(m, u) = OpsOf(l, u)
          /\ Standing(m, u) = Standing(l, u) \ {last}
      BY <1>7, <2>1, UndoAppended
    <2>3. \A r \in Standing(l, u) : r <= last
      BY <1>0, <1>7, <2>1, LastIs
    <2> HIDE DEF m
    <2>4. \A s \in OpsOf(l, u) : m[s] = l[s]
      BY <1>0, <1>2, <1>3
    <2>5. ASSUME NEW s \in Standing(m, u)
          PROVE  /\ m[s].pre \in {None} \cup Standing(m, u)
                 /\ \A r \in Standing(m, u) : r < s => r <= m[s].pre
      <3>1. s \in Standing(l, u) /\ s # last /\ m[s] = l[s] /\ s \in 1 .. Len(l)
            /\ l[s].tr = u
        BY <1>3, <2>2, <2>4
      <3>2. l[s].pre \in Nat /\ l[s].pre < s /\ s <= last
        BY <1>0, <2>3, <3>1, RecordFacts DEF Good
      <3>3. l[s].pre # last
        BY <3>1, <3>2
      <3>4. l[s].pre \in {None} \cup Standing(m, u)
        BY <1>0, <2>2, <3>1, <3>3 DEF Chained
      <3> QED BY <1>0, <2>2, <3>1, <3>4 DEF Chained
    <2>6. \A s \in OpsOf(m, u) : m[s].pre = None
             => \A r \in OpsOf(m, u) : s <= r
      BY <1>0, <2>2, <2>4 DEF Chained
    <2>7. Chained(m, u)
      BY <2>5, <2>6 DEF Chained
    <2> QED BY <2>7 DEF m
  <1> QED BY <1>5, <1>6, <1>7 DEF Continues

LEMMA OnceAppend ==
    ASSUME NEW l, NEW t \in Trans, Good(l, t), NEW rec, Continues(l, t, rec)
    PROVE  Once(Append(l, rec), t)
  <1> DEFINE m == Append(l, rec)
             n == Len(l) + 1
  <1>0. l \in Seq(LogRecord) /\ Once(l, t)
    BY DEF Good
  <1>1. /\ DOMAIN m = DOMAIN l \cup {n}
        /\ \A i \in DOMAIN l : m[i] = l[i]
        /\ m[n] = rec
    BY <1>0, ContinuesIs, LogAppend
  <1>2. ASSUME NEW j \in DOMAIN l, l[j].kind = "undo", l[j].tr = t,
               rec.kind = "undo"
        PROVE  rec.rel # l[j].rel
    <2>1. /\ LastOf(l, t) # None
          /\ rec = Undo(t, l[LastOf(l, t)].pre, LastOf(l, t))
      BY <1>2 DEF Continues, Op, Commit
    <2>2. rec.rel = LastOf(l, t)
      BY <2>1 DEF Undo
    <2>3. rec.rel \notin UndoneIn(l, t)
      BY <1>0, <2>1, <2>2, LastIs DEF Standing
    <2> QED BY <1>2, <2>3 DEF UndoneIn
  <1>3. ASSUME NEW j \in DOMAIN l, l[j].kind = "undo", l[j].tr = t
        PROVE  rec.kind # "commit"
    BY <1>3 DEF Continues, Open, Op, Undo
  <1>4. ASSUME NEW i \in DOMAIN l, l[i].tr = t, rec.kind = "undo"
        PROVE  l[i].kind # "commit"
    <2>1. LastOf(l, t) # None
      BY <1>4 DEF Continues, Op, Commit
    <2>2. ~CommittedIn(l, t)
      BY <1>0, <2>1, LastIs
    <2> QED BY <1>4, <2>2 DEF CommittedIn
  <1> HIDE DEF m, n
  <1>5. ASSUME NEW i \in DOMAIN m, NEW j \in DOMAIN m, m[j].kind = "undo",
               m[j].tr = t, m[i].tr = t
        PROVE  /\ (m[i].kind = "undo" /\ m[i].rel = m[j].rel) => i = j
               /\ m[i].kind # "commit"
    <2>1. CASE i \in DOMAIN l /\ j \in DOMAIN l
      BY <1>0, <1>1, <1>5, <2>1 DEF Once
    <2>2. CASE i = n /\ j \in DOMAIN l
      BY <1>1, <1>2, <1>3, <1>5, <2>2
    <2>3. CASE i \in DOMAIN l /\ j = n
      BY <1>1, <1>2, <1>4, <1>5, <2>3
    <2>4. CASE i = n /\ j = n
      BY <1>5, <2>4
    <2> QED BY <1>1, <2>1, <2>2, <2>3, <2>4
  <1>6. Once(m, t)
    BY <1>5 DEF Once
  <1> QED BY <1>6 DEF m

LEMMA GoodAppend ==
    ASSUME NEW l, NEW t \in Trans, Good(l, t), NEW rec, Continues(l, t, rec)
    PROVE  Good(Append(l, rec), t)
  <1> DEFINE m == Append(l, rec)
             n == Len(l) + 1
  <1>0. l \in Seq(LogRecord) /\ Len(l) \in Nat /\ DOMAIN l = 1 .. Len(l)
    BY DEF Good
  <1>1. /\ rec \in LogRecord /\ rec.tr = t /\ rec.pre <= Len(l)
        /\ rec.kind = "undo" => rec.rel \in OpsOf(l, t)
    BY ContinuesIs
  <1>2. /\ m \in Seq(LogRecord)
        /\ DOMAIN m = DOMAIN l \cup {n}
        /\ \A i \in DOMAIN l : m[i] = l[i]
        /\ m[n] = rec
    BY <1>0, <1>1, LogAppend
  <1>3. Once(m, t) /\ Chained(m, t)
    BY OnceAppend, ChainedAppend
  <1>4. OpsOf(l, t) \subseteq OpsOf(m, t)
    BY <1>2 DEF OpsOf
  <1> HIDE DEF m
  <1>5. rec.pre \in Nat
    BY <1>1 DEF LogRecord
  <1>6. \A i \in DOMAIN m : m[i].tr = t => m[i].pre < i
    <2>1. \A i \in DOMAIN l : l[i].tr = t => l[i].pre < i
      BY DEF Good
    <2>2. rec.pre < n
      BY <1>0, <1>1, <1>5
    <2> QED BY <1>2, <2>1, <2>2
  <1>7. Undoes(m, t)
    <2>1. ASSUME NEW i \in DOMAIN l, l[i].kind = "undo", l[i].tr = t
          PROVE  l[i].rel < i /\ l[i].rel \in OpsOf(m, t)
      BY <1>4, <2>1 DEF Good, Undoes
    <2>2. ASSUME rec.kind = "undo"
          PROVE  rec.rel < n /\ rec.rel \in OpsOf(m, t)
      <3>1. rec.rel \in 1 .. Len(l)
        BY <1>0, <1>1, <2>2, StandingIn
      <3> QED BY <1>0, <1>1, <1>4, <2>2, <3>1
    <2> QED BY <1>2, <2>1, <2>2 DEF Undoes
  <1>8. Good(m, t)
    BY <1>2, <1>3, <1>6, <1>7 DEF Good
  <1> QED BY <1>8 DEF m

LEMMA GoodOthers ==
    ASSUME NEW l, NEW u, Good(l, u), NEW rec \in LogRecord, rec.tr # u
    PROVE  Good(Append(l, rec), u)
  <1> DEFINE m == Append(l, rec)
             n == Len(l) + 1
  <1>0. l \in Seq(LogRecord)
    BY DEF Good
  <1>1. /\ m \in Seq(LogRecord)
        /\ DOMAIN m = DOMAIN l \cup {n}
        /\ \A i \in DOMAIN l : m[i] = l[i]
        /\ m[n] = rec
    BY <1>0, LogAppend
  <1>2. OpsOf(m, u) = OpsOf(l, u) /\ Standing(m, u) = Standing(l, u)
    BY <1>0, OthersSame
  <1> HIDE DEF m, n
  <1>3. \A i \in DOMAIN m : m[i].tr = u => i \in DOMAIN l /\ m[i] = l[i]
    BY <1>1
  <1>4. Chained(m, u)
    BY <1>1, <1>2, ChainedSame DEF Good
  <1>5. Undoes(m, u)
    BY <1>2, <1>3 DEF Good, Undoes
  <1>6. Once(m, u)
    BY <1>3 DEF Good, Once
  <1>7. Good(m, u)
    BY <1>1, <1>3, <1>4, <1>5, <1>6 DEF Good
  <1> QED BY <1>7 DEF m

----------------------------------------------------------------------------
(* The table: what writing a record and taking it back do to the entries   *)
(* of its transaction, and to those of the others.                         *)

\* saveTransInfoFromLog and the log agree on the first and the last record.
LEMMA AfterIs ==
    ASSUME NEW l, NEW t \in Trans, Good(l, t), NEW rec, Continues(l, t, rec)
    PROVE  LET m == Append(l, rec)
               n == Len(l) + 1
           IN  /\ LastOf(m, t) = LastAfter(rec, n)
               /\ FirstOf(m, t) = IF IsFirstOp(rec) THEN n
                                  ELSE IF LastAfter(rec, n) = None
                                       THEN None ELSE FirstOf(l, t)
  <1> DEFINE m == Append(l, rec)
             n == Len(l) + 1
  <1>1. CASE Open(l, t) /\ rec = Op(t, LastOf(l, t))
    <2>1. rec.kind = "op" /\ rec.pre = LastOf(l, t)
      BY <1>1 DEF Op
    <2>2. /\ LastOf(m, t) = n /\ n # None
          /\ FirstOf(m, t) = IF LastOf(l, t) = None THEN n ELSE FirstOf(l, t)
      BY <1>1, OpAppended
    <2> QED BY <2>1, <2>2 DEF LastAfter, IsFirstOp
  <1>2. CASE /\ LastOf(l, t) # None
             /\ rec = Commit(t, LastOf(l, t), FirstOf(l, t))
    <2>1. rec.kind = "commit"
      BY <1>2 DEF Commit
    <2>2. LastOf(m, t) = None /\ FirstOf(m, t) = None
      BY <1>2, CommitAppended DEF Good
    <2> QED BY <2>1, <2>2 DEF LastAfter, IsFirstOp
  <1>3. CASE /\ LastOf(l, t) # None
             /\ rec = Undo(t, l[LastOf(l, t)].pre, LastOf(l, t))
    <2>1. rec.kind = "undo" /\ rec.pre = l[LastOf(l, t)].pre
      BY <1>3 DEF Undo
    <2>2. /\ LastOf(m, t) = rec.pre
          /\ FirstOf(m, t) = IF rec.pre = None THEN None ELSE FirstOf(l, t)
      BY <1>3, <2>1, UndoAppended
    <2> QED BY <2>1, <2>2 DEF LastAfter, IsFirstOp
  <1> QED BY <1>1, <1>2, <1>3 DEF Continues

\* saveTransInfoFromLog, entry by entry.
LEMMA SavedIs ==
    ASSUME NEW tab \in Table, NEW rec \in LogRecord, NEW n \in Nat,
           NEW p \in BOOLEAN
    PROVE  LET saved == SaveTransInfo(tab, rec, n, p)
           IN  /\ saved \in Table
               /\ \A u \in Trans : u # rec.tr =>
                     /\ saved.map[u] = tab.map[u]
                     /\ saved.begin[u] = tab.begin[u]
               /\ saved.map[rec.tr] = IF p THEN tab.map[rec.tr]
                                      ELSE LastAfter(rec, n)
               /\ saved.begin[rec.tr] = IF IsFirstOp(rec) THEN n
                                        ELSE IF LastAfter(rec, n) = None
                                             THEN None ELSE tab.begin[rec.tr]
  <1> DEFINE last == LastAfter(rec, n)
             begun == IF IsFirstOp(rec) THEN BeginAt(tab, rec.tr, n)
                      ELSE IF last = None THEN BeginAt(tab, rec.tr, None)
                      ELSE tab
             saved == SaveTransInfo(tab, rec, n, p)
  <1>0. /\ None \in Nat /\ rec.tr \in Trans
        /\ rec.pre \in Nat /\ rec.kind \in {"op", "commit", "undo"}
        /\ tab.map \in [Trans -> Nat] /\ tab.begin \in [Trans -> Nat]
    BY DEF None, LogRecord, Table
  <1>1. last \in Nat
    BY <1>0 DEF LastAfter
  <1>2. saved = UpdateTransInfo(begun, rec.tr, last, p)
    BY DEF SaveTransInfo
  <1> HIDE DEF last, saved
  <1>3. /\ begun \in Table /\ begun.map = tab.map
        /\ begun.begin = IF IsFirstOp(rec) THEN [tab.begin EXCEPT ![rec.tr] = n]
                         ELSE IF last = None
                              THEN [tab.begin EXCEPT ![rec.tr] = None]
                              ELSE tab.begin
    <2>1. CASE IsFirstOp(rec)
      BY <1>0, <2>1, BeginAtParts
    <2>2. CASE ~IsFirstOp(rec) /\ last = None
      BY <1>0, <2>2, BeginAtParts
    <2>3. CASE ~IsFirstOp(rec) /\ last # None
      BY <2>3
    <2> QED BY <2>1, <2>2, <2>3
  <1> HIDE DEF begun
  <1>4. saved \in Table /\ saved.begin = begun.begin
        /\ saved.map = IF p THEN tab.map
                       ELSE [tab.map EXCEPT ![rec.tr] = last]
    <2>1. CASE p
      BY <1>2, <1>3, <2>1 DEF UpdateTransInfo
    <2>2. CASE ~p
      <3>1. saved = MapAt(begun, rec.tr, last)
        BY <1>2, <2>2 DEF UpdateTransInfo, MapAt
      <3> QED BY <1>0, <1>1, <1>3, <2>2, <3>1, MapAtParts
    <2> QED BY <2>1, <2>2
  <1>5. \A u \in Trans : u # rec.tr =>
           /\ saved.map[u] = tab.map[u] /\ saved.begin[u] = tab.begin[u]
    BY <1>0, <1>3, <1>4
  <1>6. /\ saved.map[rec.tr] = IF p THEN tab.map[rec.tr] ELSE last
        /\ saved.begin[rec.tr] = IF IsFirstOp(rec) THEN n
                                 ELSE IF last = None THEN None
                                 ELSE tab.begin[rec.tr]
    BY <1>0, <1>3, <1>4
  <1> QED BY <1>4, <1>5, <1>6 DEF saved, last

\* rollbackTransInfoFromLog, entry by entry.
LEMMA TakenBackIs ==
    ASSUME NEW tab \in Table, NEW rec \in LogRecord
    PROVE  LET back == RollbackTransInfo(tab, rec)
           IN  /\ back \in Table
               /\ \A u \in Trans : u # rec.tr =>
                     /\ back.map[u] = tab.map[u]
                     /\ back.begin[u] = tab.begin[u]
               /\ back.map[rec.tr] = IF rec.kind = "undo" THEN rec.rel
                                     ELSE rec.pre
               /\ back.begin[rec.tr] =
                     IF rec.kind = "commit" THEN rec.first
                     ELSE IF IsFirstOp(rec) THEN None
                     ELSE IF rec.kind = "undo" /\ rec.pre = None THEN rec.rel
                     ELSE tab.begin[rec.tr]
  <1> DEFINE back == RollbackTransInfo(tab, rec)
             last == IF rec.kind = "undo" THEN rec.rel ELSE rec.pre
             first == IF rec.kind = "commit" THEN rec.first
                      ELSE IF IsFirstOp(rec) THEN None
                      ELSE IF rec.kind = "undo" /\ rec.pre = None THEN rec.rel
                      ELSE tab.begin[rec.tr]
             begun == CASE rec.kind = "commit" -> BeginAt(tab, rec.tr, rec.first)
                        [] IsFirstOp(rec) -> BeginAt(tab, rec.tr, None)
                        [] rec.kind = "undo" /\ rec.pre = None
                             -> BeginAt(tab, rec.tr, rec.rel)
                        [] OTHER -> tab
  <1>0. /\ None \in Nat /\ rec.tr \in Trans
        /\ rec.pre \in Nat /\ rec.kind \in {"op", "commit", "undo"}
        /\ rec.kind = "commit" => rec.first \in Nat
        /\ rec.kind = "undo" => rec.rel \in Nat
        /\ tab.map \in [Trans -> Nat] /\ tab.begin \in [Trans -> Nat]
    BY DEF None, LogRecord, Table
  <1>1. last \in Nat
    BY <1>0
  <1>2. back = MapAt(begun, rec.tr, last)
    BY DEF RollbackTransInfo, UpdateTransInfo, MapAt
  <1> HIDE DEF last, back
  <1>3. /\ begun \in Table /\ begun.map = tab.map
        /\ begun.begin = [tab.begin EXCEPT ![rec.tr] = first]
    <2>1. CASE rec.kind = "commit"
      <3>1. ~IsFirstOp(rec)
        BY <2>1 DEF IsFirstOp
      <3>2. begun = BeginAt(tab, rec.tr, rec.first) /\ first = rec.first
        BY <2>1, <3>1
      <3> HIDE DEF begun, first
      <3> QED BY <1>0, <2>1, <3>2, BeginAtParts
    <2>2. CASE IsFirstOp(rec)
      <3>1. rec.kind = "op"
        BY <2>2 DEF IsFirstOp
      <3>2. begun = BeginAt(tab, rec.tr, None) /\ first = None
        BY <2>2, <3>1
      <3> HIDE DEF begun, first
      <3> QED BY <1>0, <3>2, BeginAtParts
    <2>3. CASE rec.kind = "undo" /\ rec.pre = None
      <3>1. ~IsFirstOp(rec)
        BY <2>3 DEF IsFirstOp
      <3>2. begun = BeginAt(tab, rec.tr, rec.rel) /\ first = rec.rel
        BY <2>3, <3>1
      <3> HIDE DEF begun, first
      <3> QED BY <1>0, <2>3, <3>2, BeginAtParts
    <2>4. CASE /\ rec.kind # "commit" /\ ~IsFirstOp(rec)
               /\ ~(rec.kind = "undo" /\ rec.pre = None)
      <3>1. begun = tab /\ first = tab.begin[rec.tr]
        BY <2>4
      <3>2. tab.begin = [tab.begin EXCEPT ![rec.tr] = tab.begin[rec.tr]]
        BY <1>0
      <3> HIDE DEF begun, first
      <3> QED BY <3>1, <3>2
    <2> HIDE DEF begun, first
    <2> QED BY <2>1, <2>2, <2>3, <2>4
  <1> HIDE DEF begun, first
  <1>4. back \in Table /\ back.begin = begun.begin
        /\ back.map = [tab.map EXCEPT ![rec.tr] = last]
    BY <1>0, <1>1, <1>2, <1>3, MapAtParts
  <1>5. \A u \in Trans : u # rec.tr =>
           /\ back.map[u] = tab.map[u] /\ back.begin[u] = tab.begin[u]
    BY <1>0, <1>3, <1>4
  <1>6. back.map[rec.tr] = last /\ back.begin[rec.tr] = first
    BY <1>0, <1>3, <1>4
  <1> QED BY <1>4, <1>5, <1>6 DEF back, last, first

\* Taking a record back leads from the table of the log with it to that of
\* the log without it.
LEMMA TakenBackFollows ==
    ASSUME NEW l, NEW t \in Trans, Good(l, t), NEW rec, Continues(l, t, rec),
           NEW tab \in Table, tab.begin[t] = FirstOf(Append(l, rec), t)
    PROVE  /\ RollbackTransInfo(tab, rec).map[t] = LastOf(l, t)
           /\ RollbackTransInfo(tab, rec).begin[t] = FirstOf(l, t)
  <1>0. rec \in LogRecord /\ rec.tr = t /\ l \in Seq(LogRecord)
        /\ Len(l) + 1 # None
    BY ContinuesIs DEF Good, None
  <1>1. /\ RollbackTransInfo(tab, rec).map[t] =
              IF rec.kind = "undo" THEN rec.rel ELSE rec.pre
        /\ RollbackTransInfo(tab, rec).begin[t] =
              IF rec.kind = "commit" THEN rec.first
              ELSE IF IsFirstOp(rec) THEN None
              ELSE IF rec.kind = "undo" /\ rec.pre = None THEN rec.rel
              ELSE tab.begin[t]
    BY <1>0, TakenBackIs
  <1>2. tab.begin[t] = IF IsFirstOp(rec) THEN Len(l) + 1
                       ELSE IF LastAfter(rec, Len(l) + 1) = None
                            THEN None ELSE FirstOf(l, t)
    BY AfterIs
  <1>3. CASE Open(l, t) /\ rec = Op(t, LastOf(l, t))
    <2>1. rec.kind = "op" /\ rec.pre = LastOf(l, t)
      BY <1>3 DEF Op
    <2>2. LastOf(l, t) = None => FirstOf(l, t) = None
      BY DEF FirstOf
    <2>3. LastAfter(rec, Len(l) + 1) = Len(l) + 1
      BY <2>1 DEF LastAfter
    <2> QED BY <1>0, <1>1, <1>2, <2>1, <2>2, <2>3 DEF IsFirstOp
  <1>4. CASE /\ LastOf(l, t) # None
             /\ rec = Commit(t, LastOf(l, t), FirstOf(l, t))
    <2>1. rec.kind = "commit" /\ rec.pre = LastOf(l, t)
          /\ rec.first = FirstOf(l, t)
      BY <1>4 DEF Commit
    <2> QED BY <1>1, <2>1
  <1>5. CASE /\ LastOf(l, t) # None
             /\ rec = Undo(t, l[LastOf(l, t)].pre, LastOf(l, t))
    <2>1. rec.kind = "undo" /\ rec.pre = l[LastOf(l, t)].pre
          /\ rec.rel = LastOf(l, t)
      BY <1>5 DEF Undo
    <2>2. rec.pre = None => FirstOf(l, t) = LastOf(l, t)
      BY <1>5, <2>1, UndoAppended
    <2>3. LastAfter(rec, Len(l) + 1) = rec.pre
      BY <2>1 DEF LastAfter
    <2> QED BY <1>1, <1>2, <2>1, <2>2, <2>3 DEF IsFirstOp
  <1> QED BY <1>3, <1>4, <1>5 DEF Continues

----------------------------------------------------------------------------
(* The beginnings of the log, and the table made again from it.            *)

LogOK(l, t) ==
    /\ l \in Seq(LogRecord)
    /\ \A n \in 0 .. Len(l) : Good(SubSeq(l, 1, n), t)
    /\ \A n \in 1 .. Len(l) :
          l[n].tr = t => Continues(SubSeq(l, 1, n - 1), t, l[n])

LEMMA PrefixIs ==
    ASSUME NEW l \in Seq(LogRecord), NEW n \in 0 .. Len(l)
    PROVE  /\ SubSeq(l, 1, n) \in Seq(LogRecord)
           /\ Len(SubSeq(l, 1, n)) = n
           /\ \A i \in 1 .. n : SubSeq(l, 1, n)[i] = l[i]
  <1>1. Len(l) \in Nat /\ n \in Nat
    OBVIOUS
  <1>2. \A i \in 1 .. n : i \in 1 .. Len(l) /\ l[i] \in LogRecord
    BY <1>1
  <1> QED BY <1>1, <1>2

\* Sequences with the same elements are the same.
LEMMA LogEqual ==
    ASSUME NEW l \in Seq(LogRecord), NEW m \in Seq(LogRecord),
           Len(l) = Len(m), \A i \in 1 .. Len(l) : l[i] = m[i]
    PROVE  l = m
  BY SeqEqual

LEMMA PrefixWhole ==
    ASSUME NEW l \in Seq(LogRecord)
    PROVE  SubSeq(l, 1, Len(l)) = l
  <1>1. Len(l) \in 0 .. Len(l)
    OBVIOUS
  <1> QED BY <1>1, PrefixIs, LogEqual

LEMMA PrefixNext ==
    ASSUME NEW l \in Seq(LogRecord), NEW n \in 1 .. Len(l)
    PROVE  SubSeq(l, 1, n) = Append(SubSeq(l, 1, n - 1), l[n])
  <1> DEFINE p == SubSeq(l, 1, n - 1)
             q == SubSeq(l, 1, n)
  <1>0. Len(l) \in Nat /\ l[n] \in LogRecord
    OBVIOUS
  <1>1. n \in 0 .. Len(l) /\ n - 1 \in 0 .. Len(l)
    BY <1>0
  <1>2. /\ p \in Seq(LogRecord) /\ Len(p) = n - 1
        /\ \A i \in 1 .. n - 1 : p[i] = l[i]
    BY <1>1, PrefixIs
  <1>3. /\ q \in Seq(LogRecord) /\ Len(q) = n
        /\ \A i \in 1 .. n : q[i] = l[i]
    BY <1>1, PrefixIs
  <1> HIDE DEF p, q
  <1>4. /\ Append(p, l[n]) \in Seq(LogRecord)
        /\ Len(Append(p, l[n])) = n
        /\ \A i \in 1 .. n - 1 : Append(p, l[n])[i] = l[i]
        /\ Append(p, l[n])[n] = l[n]
    <2>1. DOMAIN p = 1 .. n - 1
      BY <1>2
    <2> QED BY <1>0, <1>2, <2>1, LogAppend
  <1>5. \A i \in 1 .. Len(q) : q[i] = Append(p, l[n])[i]
    BY <1>0, <1>3, <1>4
  <1>6. q = Append(p, l[n])
    BY <1>3, <1>4, <1>5, LogEqual
  <1> QED BY <1>6 DEF p, q

LEMMA PrefixAppend ==
    ASSUME NEW l \in Seq(LogRecord), NEW rec \in LogRecord,
           NEW n \in 0 .. Len(l)
    PROVE  SubSeq(Append(l, rec), 1, n) = SubSeq(l, 1, n)
  <1> DEFINE m == Append(l, rec)
  <1>1. /\ m \in Seq(LogRecord) /\ Len(m) = Len(l) + 1 /\ Len(l) \in Nat
        /\ \A i \in 1 .. Len(l) : m[i] = l[i]
    BY LogAppend
  <1> HIDE DEF m
  <1>2. n \in 0 .. Len(m) /\ \A i \in 1 .. n : m[i] = l[i]
    BY <1>1
  <1>3. /\ SubSeq(m, 1, n) \in Seq(LogRecord) /\ Len(SubSeq(m, 1, n)) = n
        /\ \A i \in 1 .. n : SubSeq(m, 1, n)[i] = m[i]
    BY <1>1, <1>2, PrefixIs
  <1>4. SubSeq(m, 1, n) = SubSeq(l, 1, n)
    BY <1>2, <1>3, PrefixIs, LogEqual
  <1> QED BY <1>4 DEF m

LEMMA FrontIs ==
    ASSUME NEW l \in Seq(LogRecord), l # <<>>
    PROVE  /\ Front(l) \in Seq(LogRecord) /\ Len(Front(l)) = Len(l) - 1
           /\ Len(l) \in Nat \ {0}
           /\ \A n \in 0 .. Len(l) - 1 :
                 SubSeq(Front(l), 1, n) = SubSeq(l, 1, n)
           /\ \A i \in 1 .. Len(l) - 1 : Front(l)[i] = l[i]
           /\ Last(l) \in LogRecord /\ l = Append(Front(l), Last(l))
  <1>1. Len(l) \in Nat \ {0}
    BY EmptySeq
  <1>2. Len(l) - 1 \in 0 .. Len(l) /\ Len(l) \in 1 .. Len(l)
    BY <1>1
  <1>3. /\ Front(l) \in Seq(LogRecord) /\ Len(Front(l)) = Len(l) - 1
        /\ \A i \in 1 .. Len(l) - 1 : Front(l)[i] = l[i]
    BY <1>2, PrefixIs DEF Front
  <1>4. Last(l) \in LogRecord /\ l = Append(Front(l), Last(l))
    <2>1. SubSeq(l, 1, Len(l)) = Append(SubSeq(l, 1, Len(l) - 1), l[Len(l)])
      BY <1>2, PrefixNext
    <2> QED BY <1>2, <2>1, PrefixWhole DEF Front, Last
  <1>5. ASSUME NEW n \in 0 .. Len(l) - 1
        PROVE  SubSeq(Front(l), 1, n) = SubSeq(l, 1, n)
    <2> DEFINE f == Front(l)
    <2>1. f \in Seq(LogRecord) /\ n \in 0 .. Len(f) /\ n \in 0 .. Len(l)
          /\ \A i \in 1 .. n : f[i] = l[i]
      BY <1>1, <1>3
    <2> HIDE DEF f
    <2>2. SubSeq(f, 1, n) = SubSeq(l, 1, n)
      BY <2>1, PrefixIs, LogEqual
    <2> QED BY <2>2 DEF f
  <1> QED BY <1>1, <1>3, <1>4, <1>5

\* A log that is in order, is so after a record that continues it, after one
\* of another transaction, and without its last record.
LEMMA OKGood ==
    ASSUME NEW l, NEW t, LogOK(l, t)
    PROVE  l \in Seq(LogRecord) /\ Good(l, t)
  <1>1. l \in Seq(LogRecord)
    BY DEF LogOK
  <1>2. Len(l) \in 0 .. Len(l)
    BY <1>1
  <1> QED BY <1>1, <1>2, PrefixWhole DEF LogOK

LEMMA OKAppend ==
    ASSUME NEW l, NEW t \in Trans, LogOK(l, t), NEW rec \in LogRecord,
           rec.tr = t => Continues(l, t, rec)
    PROVE  LogOK(Append(l, rec), t)
  <1> DEFINE m == Append(l, rec)
  <1>0. l \in Seq(LogRecord) /\ Good(l, t)
    BY OKGood
  <1>1. /\ m \in Seq(LogRecord) /\ Len(m) = Len(l) + 1 /\ Len(l) \in Nat
        /\ \A i \in 1 .. Len(l) : m[i] = l[i]
        /\ m[Len(l) + 1] = rec
    BY <1>0, LogAppend
  <1>2. Good(m, t)
    BY <1>0, GoodAppend, GoodOthers
  <1>3. \A n \in 0 .. Len(l) : SubSeq(m, 1, n) = SubSeq(l, 1, n)
    BY <1>0, PrefixAppend
  <1>4. SubSeq(m, 1, Len(m)) = m /\ SubSeq(l, 1, Len(l)) = l
    BY <1>0, <1>1, PrefixWhole
  <1> HIDE DEF m
  <1>5. ASSUME NEW n \in 0 .. Len(m) PROVE Good(SubSeq(m, 1, n), t)
    <2>1. CASE n = Len(m)
      BY <1>2, <1>4, <2>1
    <2>2. CASE n \in 0 .. Len(l)
      BY <1>3, <2>2 DEF LogOK
    <2> QED BY <1>1, <2>1, <2>2
  <1>6. ASSUME NEW n \in 1 .. Len(m), m[n].tr = t
        PROVE  Continues(SubSeq(m, 1, n - 1), t, m[n])
    <2>1. CASE n = Len(m)
      <3>1. n - 1 = Len(l) /\ Len(l) \in 0 .. Len(l)
        BY <1>1, <2>1
      <3>2. SubSeq(m, 1, n - 1) = l
        BY <1>3, <1>4, <3>1
      <3> QED BY <1>1, <1>6, <2>1, <3>2
    <2>2. CASE n \in 1 .. Len(l)
      <3>1. n - 1 \in 0 .. Len(l) /\ m[n] = l[n]
        BY <1>1, <2>2
      <3>2. SubSeq(m, 1, n - 1) = SubSeq(l, 1, n - 1)
        BY <1>3, <3>1
      <3> QED BY <1>6, <2>2, <3>1, <3>2 DEF LogOK
    <2> QED BY <1>1, <2>1, <2>2
  <1>7. LogOK(m, t)
    BY <1>1, <1>5, <1>6 DEF LogOK
  <1> QED BY <1>7 DEF m

LEMMA OKFront ==
    ASSUME NEW l, NEW t, LogOK(l, t), l # <<>>
    PROVE  /\ LogOK(Front(l), t)
           /\ Last(l).tr = t => Continues(Front(l), t, Last(l))
  <1> DEFINE f == Front(l)
  <1>0. l \in Seq(LogRecord)
    BY OKGood
  <1>1. /\ f \in Seq(LogRecord) /\ Len(f) = Len(l) - 1 /\ Len(l) \in Nat \ {0}
        /\ \A n \in 0 .. Len(l) - 1 : SubSeq(f, 1, n) = SubSeq(l, 1, n)
        /\ \A i \in 1 .. Len(l) - 1 : f[i] = l[i]
    BY <1>0, FrontIs
  <1>2. SubSeq(f, 1, Len(f)) = f
    BY <1>1, PrefixWhole
  <1> HIDE DEF f
  <1>3. ASSUME NEW n \in 0 .. Len(f) PROVE Good(SubSeq(f, 1, n), t)
    <2>1. n \in 0 .. Len(l) - 1 /\ n \in 0 .. Len(l)
      BY <1>1
    <2>2. SubSeq(f, 1, n) = SubSeq(l, 1, n)
      BY <1>1, <2>1
    <2> QED BY <2>1, <2>2 DEF LogOK
  <1>4. ASSUME NEW n \in 1 .. Len(f), f[n].tr = t
        PROVE  Continues(SubSeq(f, 1, n - 1), t, f[n])
    <2>1. n \in 1 .. Len(l) /\ n - 1 \in 0 .. Len(l) - 1 /\ f[n] = l[n]
      BY <1>1
    <2>2. SubSeq(f, 1, n - 1) = SubSeq(l, 1, n - 1)
      BY <1>1, <2>1
    <2> QED BY <1>4, <2>1, <2>2 DEF LogOK
  <1>5. Last(l).tr = t => Continues(f, t, Last(l))
    <2>1. Len(l) \in 1 .. Len(l) /\ Len(l) - 1 \in 0 .. Len(l) - 1
      BY <1>1
    <2>2. SubSeq(l, 1, Len(l) - 1) = f
      BY <1>1, <1>2, <2>1
    <2> QED BY <2>1, <2>2 DEF LogOK, Last
  <1> QED BY <1>1, <1>3, <1>4, <1>5 DEF LogOK, f

LEMMA EmptyOK ==
    ASSUME NEW t \in Trans
    PROVE  LogOK(<<>>, t) /\ LastOf(<<>>, t) = None /\ FirstOf(<<>>, t) = None
  <1> DEFINE l == <<>>
  <1>1. l \in Seq(LogRecord) /\ Len(l) = 0 /\ DOMAIN l = {}
    BY EmptySeq
  <1> HIDE DEF l
  <1>2. OpsOf(l, t) = {} /\ Standing(l, t) = {} /\ ~CommittedIn(l, t)
    BY <1>1 DEF OpsOf, Standing, CommittedIn
  <1>3. Good(l, t)
    BY <1>1, <1>2 DEF Good, Undoes, Once, Chained
  <1>4. \A n \in 0 .. Len(l) : n = Len(l)
    BY <1>1
  <1>5. \A n \in 0 .. Len(l) : Good(SubSeq(l, 1, n), t)
    BY <1>1, <1>3, <1>4, PrefixWhole
  <1>6. LogOK(l, t)
    BY <1>1, <1>5 DEF LogOK
  <1>7. LastOf(l, t) = None
    BY <1>1, <1>2, LastIs
  <1>8. FirstOf(l, t) = None
    BY <1>7 DEF FirstOf
  <1> QED BY <1>6, <1>7, <1>8 DEF l

\* The recursion of syncTransInfoFromLocal has a function that satisfies it,
\* whatever the log is: were there none up to k and k the least, the one up
\* to k - 1 could be continued.
Replays(f, l, n) ==
    /\ f[0] = NoTable
    /\ \A i \in 1 .. n : f[i] = SaveTransInfo(f[i - 1], l[i], i, FALSE)

LEMMA ReplayExists ==
    ASSUME NEW l \in Seq(LogRecord)
    PROVE  \E f : Replays(f, l, Len(l))
  <1> DEFINE S == {k \in 0 .. Len(l) : ~ \E f : Replays(f, l, k)}
  <1>0. Len(l) \in Nat
    OBVIOUS
  <1> SUFFICES ASSUME ~ \E f : Replays(f, l, Len(l)) PROVE FALSE
    OBVIOUS
  <1>1. S \in SUBSET Nat /\ Len(l) \in S
    BY <1>0
  <1>2. PICK k \in Nat : k \in S /\ \A n \in Int : n < k => n \notin S
    <2> HIDE DEF S
    <2> QED BY <1>1, MinIn
  <1>3. k \in 0 .. Len(l) /\ ~ \E f : Replays(f, l, k)
    BY <1>2
  <1>4. k # 0
    <2> SUFFICES ASSUME k = 0 PROVE FALSE
      OBVIOUS
    <2> DEFINE g == [i \in {0} |-> NoTable]
    <2>1. g[0] = NoTable
      OBVIOUS
    <2> HIDE DEF g
    <2>2. Replays(g, l, 0)
      BY <2>1 DEF Replays
    <2> QED BY <1>3, <2>2
  <1>5. k - 1 \in 0 .. Len(l) /\ k - 1 \in Int /\ k - 1 < k
    BY <1>3, <1>4
  <1>6. k - 1 \notin S
    BY <1>2, <1>5
  <1>7. PICK f : Replays(f, l, k - 1)
    BY <1>5, <1>6
  <1>v. PICK v : v = SaveTransInfo(f[k - 1], l[k], k, FALSE)
    OBVIOUS
  <1> DEFINE g == [i \in 0 .. k |-> IF i = k THEN v ELSE f[i]]
  <1>8. g[0] = f[0] /\ g[k] = SaveTransInfo(f[k - 1], l[k], k, FALSE)
        /\ \A i \in 0 .. k - 1 : g[i] = f[i]
    <2>1. g[k] = v
      BY <1>3
    <2>2. \A i \in 0 .. k - 1 : i \in 0 .. k /\ i # k
      BY <1>3
    <2>3. \A i \in 0 .. k - 1 : g[i] = f[i]
      BY <2>2
    <2>4. 0 \in 0 .. k - 1
      BY <1>3, <1>4
    <2> QED BY <1>v, <2>1, <2>3, <2>4
  <1> HIDE DEF g
  <1>9. ASSUME NEW i \in 1 .. k
        PROVE  g[i] = SaveTransInfo(g[i - 1], l[i], i, FALSE)
    <2>1. i - 1 \in 0 .. k - 1
      OBVIOUS
    <2>2. g[i - 1] = f[i - 1]
      BY <1>8, <2>1
    <2>3. CASE i = k
      BY <1>8, <2>2, <2>3
    <2>4. CASE i # k
      <3>1. i \in 1 .. k - 1 /\ i \in 0 .. k - 1
        BY <2>4
      <3> QED BY <1>7, <1>8, <2>2, <3>1 DEF Replays
    <2> QED BY <2>3, <2>4
  <1>10. Replays(g, l, k)
    BY <1>7, <1>8, <1>9 DEF Replays
  <1> QED BY <1>3, <1>10

LEMMA SyncedReplays ==
    ASSUME NEW l \in Seq(LogRecord)
    PROVE  \E f : Replays(f, l, Len(l)) /\ SyncFromLocal(l) = f[Len(l)]
  <1>0. Len(l) \in Nat
    OBVIOUS
  <1>1. PICK e : Replays(e, l, Len(l))
    BY ReplayExists
  <1> DEFINE g == [i \in 0 .. Len(l) |-> e[i]]
  <1>2. \A i \in 0 .. Len(l) : g[i] = e[i]
    OBVIOUS
  <1>3. g = [i \in 0 .. Len(l) |-> g[i]]
    OBVIOUS
  <1> HIDE DEF g
  <1>4. ASSUME NEW i \in 0 .. Len(l)
        PROVE  g[i] = IF i = 0 THEN NoTable
                      ELSE SaveTransInfo(g[i - 1], l[i], i, FALSE)
    <2>1. CASE i = 0
      BY <1>1, <1>2, <2>1 DEF Replays
    <2>2. CASE i # 0
      <3>1. i \in 1 .. Len(l) /\ i - 1 \in 0 .. Len(l)
        BY <1>0, <2>2
      <3> QED BY <1>1, <1>2, <2>2, <3>1 DEF Replays
    <2> QED BY <2>1, <2>2
  <1>5. g = [i \in 0 .. Len(l) |-> IF i = 0 THEN NoTable
                                  ELSE SaveTransInfo(g[i - 1], l[i], i, FALSE)]
    BY <1>3, <1>4
  <1>6. PICK f : /\ f = [i \in 0 .. Len(l) |-> IF i = 0 THEN NoTable
                            ELSE SaveTransInfo(f[i - 1], l[i], i, FALSE)]
                 /\ SyncFromLocal(l) = f[Len(l)]
    BY <1>5 DEF SyncFromLocal
  <1>7. Replays(f, l, Len(l))
    BY <1>0, <1>6 DEF Replays
  <1> QED BY <1>6, <1>7

\* syncTransInfoFromLocal makes a table; and what it says of a transaction
\* whose log is in order, is what the log says.
LEMMA SyncedTable ==
    ASSUME NEW l \in Seq(LogRecord)
    PROVE  SyncFromLocal(l) \in Table
  <1>0. Len(l) \in Nat
    OBVIOUS
  <1>1. PICK f : Replays(f, l, Len(l)) /\ SyncFromLocal(l) = f[Len(l)]
    BY SyncedReplays
  <1> DEFINE a == [i \in 0 .. Len(l) |-> f[i] \in Table]
             b == [i \in 0 .. Len(l) |-> TRUE]
  <1>2. NoTable \in Table
    BY DEF NoTable, Table, None
  <1>3. \A i \in 0 .. Len(l) : (a[i] <=> f[i] \in Table) /\ b[i]
    OBVIOUS
  <1>4. \A i \in 0 .. Len(l) : a[i] \in BOOLEAN /\ b[i] \in BOOLEAN
    OBVIOUS
  <1> HIDE DEF a, b
  <1>5. 0 \in 0 .. Len(l) /\ Len(l) \in 0 .. Len(l)
    BY <1>0
  <1>6. a[0] = b[0]
    BY <1>1, <1>2, <1>3, <1>4, <1>5 DEF Replays
  <1>7. ASSUME NEW i \in 1 .. Len(l), a[i - 1] = b[i - 1] PROVE a[i] = b[i]
    <2>1. i - 1 \in 0 .. Len(l) /\ i \in 0 .. Len(l) /\ i \in Nat
          /\ l[i] \in LogRecord /\ FALSE \in BOOLEAN
      BY <1>0
    <2>2. f[i - 1] \in Table
      BY <1>3, <1>7, <2>1
    <2>3. f[i] = SaveTransInfo(f[i - 1], l[i], i, FALSE)
      BY <1>1 DEF Replays
    <2>4. f[i] \in Table
      BY <2>1, <2>2, <2>3, SavedIs
    <2> QED BY <1>3, <1>4, <2>1, <2>4
  <1>8. a[Len(l)] = b[Len(l)]
    BY <1>0, <1>6, <1>7, SameFromStart
  <1> QED BY <1>1, <1>3, <1>5, <1>8

LEMMA SyncedIs ==
    ASSUME NEW l, NEW t \in Trans, LogOK(l, t)
    PROVE  /\ SyncFromLocal(l).map[t] = LastOf(l, t)
           /\ SyncFromLocal(l).begin[t] = FirstOf(l, t)
  <1>0. l \in Seq(LogRecord) /\ Len(l) \in Nat
    BY OKGood
  <1>1. PICK f : Replays(f, l, Len(l)) /\ SyncFromLocal(l) = f[Len(l)]
    BY <1>0, SyncedReplays
  <1> DEFINE P(i) == /\ f[i] \in Table
                     /\ f[i].map[t] = LastOf(SubSeq(l, 1, i), t)
                     /\ f[i].begin[t] = FirstOf(SubSeq(l, 1, i), t)
             a == [i \in 0 .. Len(l) |-> P(i)]
             b == [i \in 0 .. Len(l) |-> TRUE]
  <1>2. \A i \in 0 .. Len(l) : a[i] = P(i) /\ b[i] = TRUE
    OBVIOUS
  <1>3. 0 \in 0 .. Len(l) /\ Len(l) \in 0 .. Len(l)
    BY <1>0
  <1>4. P(0)
    <2>1. SubSeq(l, 1, 0) = <<>>
      BY <1>0, SubSeqEmpty
    <2>2. NoTable \in Table /\ NoTable.map[t] = None /\ NoTable.begin[t] = None
      BY DEF NoTable, Table, None
    <2> QED BY <1>1, <2>1, <2>2, EmptyOK DEF Replays
  <1>5. ASSUME NEW i \in 1 .. Len(l), P(i - 1) PROVE P(i)
    <2>1. i - 1 \in 0 .. Len(l) /\ i \in 0 .. Len(l) /\ i \in Nat
          /\ l[i] \in LogRecord
      BY <1>0
    <2>2. PICK p : p = SubSeq(l, 1, i - 1)
      OBVIOUS
    <2>3. /\ p \in Seq(LogRecord) /\ Len(p) + 1 = i /\ Good(p, t)
          /\ l[i].tr = t => Continues(p, t, l[i])
      BY <1>0, <2>1, <2>2, PrefixIs DEF LogOK
    <2>4. SubSeq(l, 1, i) = Append(p, l[i])
      BY <1>0, <2>2, PrefixNext
    <2>5. PICK tab \in Table : /\ tab = f[i - 1] /\ tab.map[t] = LastOf(p, t)
                               /\ tab.begin[t] = FirstOf(p, t)
      BY <1>5, <2>2
    <2>6. PICK rec \in LogRecord : rec = l[i]
      BY <2>1
    <2>7. PICK no \in BOOLEAN : no = FALSE
      OBVIOUS
    <2>8. f[i] = SaveTransInfo(tab, rec, i, no)
      BY <1>1, <2>5, <2>6, <2>7 DEF Replays
    <2>9. /\ f[i] \in Table
          /\ \A u \in Trans : u # rec.tr => /\ f[i].map[u] = tab.map[u]
                                            /\ f[i].begin[u] = tab.begin[u]
          /\ f[i].map[rec.tr] = LastAfter(rec, i)
          /\ f[i].begin[rec.tr] = IF IsFirstOp(rec) THEN i
                                  ELSE IF LastAfter(rec, i) = None
                                       THEN None ELSE tab.begin[rec.tr]
      <3>1. LET saved == SaveTransInfo(tab, rec, i, no)
            IN  /\ saved \in Table
                /\ \A u \in Trans : u # rec.tr =>
                      /\ saved.map[u] = tab.map[u]
                      /\ saved.begin[u] = tab.begin[u]
                /\ saved.map[rec.tr] = IF no THEN tab.map[rec.tr]
                                       ELSE LastAfter(rec, i)
                /\ saved.begin[rec.tr] = IF IsFirstOp(rec) THEN i
                                         ELSE IF LastAfter(rec, i) = None
                                              THEN None ELSE tab.begin[rec.tr]
        BY <2>1, SavedIs
      <3> QED BY <2>7, <2>8, <3>1
    <2>10. CASE rec.tr = t
      <3>1. Continues(p, t, rec)
        BY <2>3, <2>6, <2>10
      <3>2. /\ LastOf(Append(p, rec), t) = LastAfter(rec, i)
            /\ FirstOf(Append(p, rec), t) = IF IsFirstOp(rec) THEN i
                                            ELSE IF LastAfter(rec, i) = None
                                                 THEN None ELSE FirstOf(p, t)
        BY <2>3, <3>1, AfterIs
      <3> QED BY <2>4, <2>5, <2>6, <2>9, <2>10, <3>2
    <2>11. CASE rec.tr # t
      <3>1. /\ LastOf(Append(p, rec), t) = LastOf(p, t)
            /\ FirstOf(Append(p, rec), t) = FirstOf(p, t)
        BY <2>3, <2>11, OthersSame
      <3> QED BY <2>4, <2>5, <2>6, <2>9, <2>11, <3>1
    <2> QED BY <2>10, <2>11
  <1> HIDE DEF P, a, b
  <1>6. a[0] = b[0]
    BY <1>2, <1>3, <1>4
  <1>7. ASSUME NEW i \in 1 .. Len(l), a[i - 1] = b[i - 1] PROVE a[i] = b[i]
    <2>1. i - 1 \in 0 .. Len(l) /\ i \in 0 .. Len(l)
      BY <1>0
    <2>2. P(i - 1)
      BY <1>2, <1>7, <2>1
    <2>3. P(i)
      BY <1>5, <2>2
    <2> QED BY <1>2, <2>1, <2>3
  <1>8. a[Len(l)] = b[Len(l)]
    BY <1>0, <1>6, <1>7, SameFromStart
  <1>9. P(Len(l))
    BY <1>2, <1>3, <1>8
  <1>10. SubSeq(l, 1, Len(l)) = l
    BY <1>0, PrefixWhole
  <1> QED BY <1>1, <1>9, <1>10 DEF P

----------------------------------------------------------------------------
(* The invariant.                                                          *)

SessionState ==
    [pc : {"none", "open", "writing", "commit", "undo", "undoing"},
     cur : Nat, pre : Nat]
TaskState ==
    {At("idle"), At("run"), At("end")}
        \cup [pc : {"undo", "undoing"}, tr : Trans, cur : Nat, pre : Nat]

Typed ==
    /\ log \in Seq(LogRecord) /\ table \in Table
    /\ primary \in BOOLEAN /\ doRollback \in BOOLEAN /\ fresh \in BOOLEAN
    /\ turn \in {"none", "gain", "loss"} /\ (turn # "none" => ~primary)
    /\ task \in TaskState /\ posted \in Nat
    /\ session \in [Trans -> SessionState]
    /\ used \subseteq Trans /\ remote \subseteq used /\ late \subseteq used
    /\ changes \in 0 .. MaxChanges

\* Whatever is known of a transaction, it has begun.
Begun ==
    /\ \A i \in DOMAIN log : log[i].tr \in used
    /\ \A t \in Trans : session[t].pc # "none" => t \in used
    /\ task.pc \in {"undo", "undoing"} => task.tr \in used

\* The log of t is in order, and so is the note of its first record.
Logged(t) == LogOK(log, t) /\ table.begin[t] = FirstOf(log, t)

\* A session knows the last record of its transaction.  The map knows it when
\* the session wrote after the role was lost, and otherwise nothing.
Served(t) ==
    /\ t \notin remote
    /\ session[t].cur = LastOf(log, t)
    /\ session[t].pc \in {"open", "writing", "commit"} => Open(log, t)
    /\ session[t].pc \in {"undo", "undoing"} => session[t].cur # None
    /\ session[t].pc = "undoing" => session[t].pre = log[session[t].cur].pre
    /\ table.map[t] \in {None, session[t].cur}
    /\ primary \/ session[t].pc \in {"writing", "commit", "undoing"}
          => table.map[t] = None

\* The map knows the last record of a transaction without a session.
Left(t) == session[t] = NoSession /\ table.map[t] = LastOf(log, t)

\* The task stands at the last record of its transaction, nobody else does.
Undone(t) ==
    /\ session[t].pc = "none" /\ t \notin remote
    /\ task.cur # None /\ task.cur = LastOf(log, t)
    /\ task.pc = "undoing" => task.pre = log[task.cur].pre

\* A primary that lets anybody write, or is about to, has an empty map.
Cleaned(t) ==
    primary /\ (~doRollback \/ task.pc = "end") => table.map[t] = None

Own(t) ==
    /\ Logged(t)
    /\ session[t].pc # "none" => Served(t)
    /\ session[t].pc = "none" => Left(t)
    /\ TaskAt(t) => Undone(t)
    /\ t \in remote => Open(log, t)
    /\ Cleaned(t)

Inv == Typed /\ Begun /\ \A t \in Sound : Own(t)

LEMMA InvInit ==
    Init => Inv
  <1> SUFFICES ASSUME Init PROVE Inv
    OBVIOUS
  <1>1. log = <<>> /\ table = NoTable /\ task = NoTask
        /\ session = [t \in Trans |-> NoSession]
    BY DEF Init
  <1>2. log \in Seq(LogRecord) /\ DOMAIN log = {}
    BY <1>1, EmptySeq
  <1>3. NoTask = At("idle") /\ NoTask.pc = "idle"
    BY DEF NoTask, At
  <1>4. NoSession \in SessionState /\ NoSession.pc = "none"
    BY DEF NoSession, SessionState, None
  <1>5. Typed
    <2>1. table \in Table
      BY <1>1 DEF NoTable, Table, None
    <2>2. session \in [Trans -> SessionState]
      BY <1>1, <1>4
    <2>3. task \in TaskState
      BY <1>1, <1>3 DEF TaskState
    <2>4. /\ primary \in BOOLEAN /\ doRollback \in BOOLEAN /\ fresh \in BOOLEAN
          /\ turn \in {"none", "gain", "loss"} /\ turn = "none"
          /\ used \subseteq Trans /\ remote \subseteq used
          /\ late \subseteq used
      BY Zenon DEF Init
    <2>5. changes \in 0 .. MaxChanges /\ posted \in Nat
      BY TableAssumption DEF Init
    <2> QED BY <1>2, <2>1, <2>2, <2>3, <2>4, <2>5 DEF Typed
  <1>6. Begun
    BY <1>1, <1>2, <1>3, <1>4 DEF Begun
  <1>7. ASSUME NEW t \in Trans PROVE Own(t)
    <2>1. session[t] = NoSession /\ session[t].pc = "none"
      BY <1>1, <1>4
    <2>2. NoTable.map[t] = None /\ NoTable.begin[t] = None
      BY DEF NoTable
    <2>3. Logged(t) /\ Left(t)
      BY <1>1, <2>1, <2>2, EmptyOK DEF Logged, Left
    <2>4. ~TaskAt(t) /\ t \notin remote /\ ~primary
      BY <1>1, <1>3 DEF TaskAt, Init
    <2> QED BY <2>1, <2>3, <2>4 DEF Own, Cleaned
  <1> QED BY <1>5, <1>6, <1>7 DEF Inv, Sound

LEMMA MapAtIs ==
    ASSUME NEW tab \in Table, NEW t \in Trans, NEW lsn \in Nat
    PROVE  /\ MapAt(tab, t, lsn) \in Table
           /\ MapAt(tab, t, lsn).begin = tab.begin
           /\ MapAt(tab, t, lsn).map[t] = lsn
           /\ \A u \in Trans : u # t => MapAt(tab, t, lsn).map[u] = tab.map[u]
  <1>1. tab.map \in [Trans -> Nat]
    BY DEF Table
  <1>2. PICK m : m = MapAt(tab, t, lsn)
    OBVIOUS
  <1>3. /\ m \in Table /\ m.map = [tab.map EXCEPT ![t] = lsn]
        /\ m.begin = tab.begin
    BY <1>2, MapAtParts
  <1>4. m.map[t] = lsn /\ \A u \in Trans : u # t => m.map[u] = tab.map[u]
    BY <1>1, <1>3
  <1> QED BY <1>2, <1>3, <1>4

\* What the types say of the last records.
LEMMA Here ==
    ASSUME Typed, Begun
    PROVE  /\ Len(log) \in Nat /\ DOMAIN log = 1 .. Len(log)
           /\ Len(log) + 1 \in Nat /\ Len(log) + 1 # None
           /\ \A t \in Trans : LastOf(log, t) \in Nat /\ FirstOf(log, t) \in Nat
           /\ \A t \in Trans : LastOf(log, t) # None
                 => /\ Found(t, LastOf(log, t)) /\ t \in used
                    /\ log[LastOf(log, t)].pre \in Nat
           /\ \A t \in Trans : t \notin used
                 => LastOf(log, t) = None /\ Open(log, t)
  <1>1. log \in Seq(LogRecord) /\ Len(log) \in Nat /\ DOMAIN log = 1 .. Len(log)
    BY DEF Typed
  <1>2. Len(log) + 1 \in Nat /\ Len(log) + 1 # None
    BY <1>1 DEF None
  <1>3. \A t \in Trans : LastOf(log, t) \in Nat /\ FirstOf(log, t) \in Nat
    BY <1>1, PlacesIn
  <1>4. ASSUME NEW t \in Trans, LastOf(log, t) # None
        PROVE  /\ Found(t, LastOf(log, t)) /\ t \in used
               /\ log[LastOf(log, t)].pre \in Nat
    BY <1>1, <1>4, PlacesIn DEF Found, Begun
  <1>5. ASSUME NEW t \in Trans, t \notin used
        PROVE  LastOf(log, t) = None /\ Open(log, t)
    BY <1>4, <1>5 DEF Begun, Open
  <1> QED BY <1>1, <1>2, <1>3, <1>4, <1>5

\* Nothing is known of a transaction that has not begun.
LEMMA Unused ==
    ASSUME Inv, NEW t \in Trans, t \notin used
    PROVE  /\ session[t] = NoSession /\ table.map[t] = None
           /\ LastOf(log, t) = None /\ Open(log, t)
           /\ t \in Sound /\ Own(t) /\ ~TaskAt(t) /\ t \notin remote
  <1>1. Typed /\ Begun
    BY DEF Inv
  <1>2. t \in Sound /\ t \notin remote
    BY <1>1 DEF Typed, Sound
  <1>3. Own(t) /\ session[t].pc = "none" /\ ~TaskAt(t)
    BY <1>1, <1>2 DEF Inv, Begun, TaskAt
  <1> QED BY <1>1, <1>2, <1>3, Here DEF Own, Left

----------------------------------------------------------------------------
(* What a step leaves alone of a transaction.                              *)

SameLog(u) ==
    /\ LogOK(log', u)
    /\ LastOf(log', u) = LastOf(log, u) /\ FirstOf(log', u) = FirstOf(log, u)
    /\ Open(log, u) => Open(log', u)
    /\ LastOf(log, u) # None => log'[LastOf(log, u)] = log[LastOf(log, u)]
SameTable(u) ==
    table'.map[u] = table.map[u] /\ table'.begin[u] = table.begin[u]

LEMMA OwnSame ==
    ASSUME NEW u \in Trans, Own(u), SameLog(u), SameTable(u),
           session'[u] = session[u], primary' => primary,
           u \in remote' => u \in remote, TaskAt(u)' => task' = task,
           Cleaned(u)'
    PROVE  Own(u)'
  <1>1. Logged(u)'
    BY DEF Own, Logged, SameLog, SameTable
  <1>2. ASSUME session[u].pc # "none" PROVE Served(u)'
    <2>1. Served(u)
      BY <1>2 DEF Own
    <2>2. session[u].pc = "undoing" => session[u].pre = log'[session[u].cur].pre
      BY <2>1 DEF Served, SameLog
    <2> QED BY <2>1, <2>2 DEF Served, SameLog, SameTable
  <1>3. ASSUME session[u].pc = "none" PROVE Left(u)'
    BY <1>3 DEF Own, Left, SameLog, SameTable
  <1>4. ASSUME TaskAt(u)' PROVE Undone(u)'
    <2>1. task' = task /\ TaskAt(u)
      BY <1>4 DEF TaskAt
    <2>2. Undone(u)
      BY <2>1 DEF Own
    <2> QED BY <2>1, <2>2 DEF Undone, SameLog
  <1>5. u \in remote' => Open(log', u)
    BY DEF Own, SameLog
  <1> QED BY <1>1, <1>2, <1>3, <1>4, <1>5 DEF Own

\* The log is left alone, or gets or loses a record of another transaction.
LEMMA LogKept ==
    ASSUME NEW u, LogOK(log, u), log' = log
    PROVE  SameLog(u)
  BY DEF SameLog

LEMMA LogGrown ==
    ASSUME NEW u \in Trans, LogOK(log, u), NEW rec \in LogRecord, rec.tr # u,
           log' = Append(log, rec)
    PROVE  SameLog(u)
  <1>0. log \in Seq(LogRecord)
    BY OKGood
  <1>1. LogOK(log', u)
    BY OKAppend
  <1>2. /\ LastOf(log', u) = LastOf(log, u) /\ FirstOf(log', u) = FirstOf(log, u)
        /\ Open(log', u) <=> Open(log, u)
    BY <1>0, OthersSame
  <1>3. \A i \in DOMAIN log : log'[i] = log[i]
    BY <1>0, LogAppend
  <1> QED BY <1>0, <1>1, <1>2, <1>3, PlacesIn DEF SameLog

LEMMA LogCut ==
    ASSUME NEW u \in Trans, LogOK(log, u), log # <<>>, Last(log).tr # u,
           log' = Front(log)
    PROVE  SameLog(u)
  <1>0. log \in Seq(LogRecord)
    BY OKGood
  <1>1. /\ log' \in Seq(LogRecord) /\ Last(log) \in LogRecord
        /\ log = Append(log', Last(log))
    BY <1>0, FrontIs
  <1>2. LogOK(log', u)
    BY OKFront
  <1>3. PICK m \in Seq(LogRecord) : m = log'
    BY <1>1
  <1>4. PICK rec \in LogRecord : rec = Last(log)
    BY <1>1
  <1>5. log = Append(m, rec) /\ rec.tr # u
    BY <1>1, <1>3, <1>4
  <1>6. /\ LastOf(log, u) = LastOf(m, u) /\ FirstOf(log, u) = FirstOf(m, u)
        /\ Open(log, u) <=> Open(m, u)
    BY <1>5, OthersSame
  <1>7. \A i \in DOMAIN m : log[i] = m[i]
    BY <1>5, LogAppend
  <1>8. LastOf(m, u) # None => LastOf(m, u) \in DOMAIN m
    BY PlacesIn
  <1> QED BY <1>2, <1>3, <1>6, <1>7, <1>8 DEF SameLog

\* A record of t that continues the log: the table keeps up (writeData).
LEMMA LogContinued ==
    ASSUME Typed, NEW t \in Trans, Logged(t), NEW rec, Continues(log, t, rec),
           log' = Append(log, rec), NEW p \in BOOLEAN, NEW saved,
           saved = SaveTransInfo(table, rec, Len(log) + 1, p)
    PROVE  /\ LogOK(log', t) /\ rec \in LogRecord /\ rec.tr = t
           /\ saved \in Table
           /\ LastOf(log', t) = LastAfter(rec, Len(log) + 1)
           /\ saved.begin[t] = FirstOf(log', t)
           /\ saved.map[t] = IF p THEN table.map[t] ELSE LastOf(log', t)
  <1>0. LogOK(log, t) /\ Good(log, t) /\ log \in Seq(LogRecord)
        /\ Len(log) + 1 \in Nat
    BY OKGood DEF Logged
  <1>1. rec \in LogRecord /\ rec.tr = t
    BY <1>0, ContinuesIs
  <1>2. LogOK(log', t)
    BY <1>0, <1>1, OKAppend
  <1>3. PICK n \in Nat : n = Len(log) + 1
    BY <1>0
  <1>4. /\ LastOf(log', t) = LastAfter(rec, n)
        /\ FirstOf(log', t) = IF IsFirstOp(rec) THEN n
                              ELSE IF LastAfter(rec, n) = None
                                   THEN None ELSE FirstOf(log, t)
    BY <1>0, <1>3, AfterIs
  <1>5. PICK tab \in Table : tab = table /\ tab.begin[t] = FirstOf(log, t)
    BY DEF Typed, Logged
  <1>6. /\ saved \in Table
        /\ saved.map[t] = IF p THEN tab.map[t] ELSE LastAfter(rec, n)
        /\ saved.begin[t] = IF IsFirstOp(rec) THEN n
                            ELSE IF LastAfter(rec, n) = None
                                 THEN None ELSE tab.begin[t]
    BY <1>1, <1>3, <1>5, SavedIs
  <1> QED BY <1>1, <1>2, <1>3, <1>4, <1>5, <1>6

\* A record of t, whatever it is.
LEMMA Grown ==
    ASSUME Typed, Begun, NEW rec \in LogRecord, log' = Append(log, rec),
           used \subseteq used', rec.tr \in used'
    PROVE  /\ log' \in Seq(LogRecord)
           /\ \A i \in DOMAIN log' : log'[i].tr \in used'
           /\ \A p \in BOOLEAN :
                LET saved == SaveTransInfo(table, rec, Len(log) + 1, p)
                IN  /\ saved \in Table
                    /\ \A u \in Trans : u # rec.tr =>
                          /\ saved.map[u] = table.map[u]
                          /\ saved.begin[u] = table.begin[u]
  <1>0. log \in Seq(LogRecord) /\ table \in Table /\ Len(log) + 1 \in Nat
    BY DEF Typed
  <1>1. /\ log' \in Seq(LogRecord)
        /\ DOMAIN log' = DOMAIN log \cup {Len(log) + 1}
        /\ \A i \in DOMAIN log : log'[i] = log[i]
        /\ log'[Len(log) + 1] = rec
    BY <1>0, LogAppend
  <1>2. \A i \in DOMAIN log' : log'[i].tr \in used'
    BY <1>1 DEF Begun
  <1> QED BY <1>0, <1>1, <1>2, SavedIs

----------------------------------------------------------------------------
(* The steps of sessions.                                                  *)

\* One session goes to the state s.
Goes(t, s) ==
    /\ session' \in [Trans -> SessionState]
    /\ session'[t] = s
    /\ \A u \in Trans : u # t => session'[u] = session[u]

LEMMA GoesIs ==
    ASSUME Typed, NEW t \in Trans
    PROVE  /\ NoSession.pc = "none"
           /\ Over(t) => Goes(t, NoSession)
           /\ \A pc \in {"open", "writing", "commit", "undo"} :
                 Go(t, pc) => Goes(t, [pc |-> pc, cur |-> session[t].cur,
                                       pre |-> session[t].pre])
           /\ \A n \in Nat : session' = [session EXCEPT ![t] =
                                 [@ EXCEPT !.pc = "open", !.cur = n]]
                 => Goes(t, [pc |-> "open", cur |-> n, pre |-> session[t].pre])
           /\ \A n \in Nat : session' = [session EXCEPT ![t] =
                                 [@ EXCEPT !.pc = "undoing", !.pre = n]]
                 => Goes(t, [pc |-> "undoing", cur |-> session[t].cur,
                             pre |-> n])
           /\ \A n \in Nat : session' = [session EXCEPT ![t] =
                          [@ EXCEPT !.pc = "undo", !.cur = n, !.pre = None]]
                 => Goes(t, [pc |-> "undo", cur |-> n, pre |-> None])
  <1>1. session[t] \in SessionState /\ session \in [Trans -> SessionState]
    BY DEF Typed
  <1>2. NoSession \in SessionState /\ NoSession.pc = "none" /\ None \in Nat
    BY DEF NoSession, SessionState, None
  <1>3. Over(t) => Goes(t, NoSession)
    BY <1>1, <1>2 DEF Over, Goes
  <1>4. ASSUME NEW pc \in {"open", "writing", "commit", "undo"}, Go(t, pc)
        PROVE  Goes(t, [pc |-> pc, cur |-> session[t].cur,
                        pre |-> session[t].pre])
    BY <1>1, <1>4 DEF Go, Goes, SessionState
  <1>5. ASSUME NEW n \in Nat, session' = [session EXCEPT ![t] =
                                 [@ EXCEPT !.pc = "open", !.cur = n]]
        PROVE  Goes(t, [pc |-> "open", cur |-> n, pre |-> session[t].pre])
    BY <1>1, <1>5 DEF Goes, SessionState
  <1>6. ASSUME NEW n \in Nat, session' = [session EXCEPT ![t] =
                                 [@ EXCEPT !.pc = "undoing", !.pre = n]]
        PROVE  Goes(t, [pc |-> "undoing", cur |-> session[t].cur, pre |-> n])
    BY <1>1, <1>6 DEF Goes, SessionState
  <1>7. ASSUME NEW n \in Nat, session' = [session EXCEPT ![t] =
                          [@ EXCEPT !.pc = "undo", !.cur = n, !.pre = None]]
        PROVE  Goes(t, [pc |-> "undo", cur |-> n, pre |-> None])
    BY <1>1, <1>2, <1>7 DEF Goes, SessionState
  <1> QED BY <1>2, <1>3, <1>4, <1>5, <1>6, <1>7

\* What every step of the session of t leaves alone.
Alone(t) ==
    /\ UNCHANGED <<primary, turn, doRollback, task, posted, remote, changes,
                   late>>
    /\ fresh' \in BOOLEAN
    /\ used \subseteq used' /\ t \in used' /\ used' \subseteq Trans
    /\ log' \in Seq(LogRecord) /\ table' \in Table
    /\ \A i \in DOMAIN log' : log'[i].tr \in used'
    /\ \A u \in Trans : u # t =>
          SameTable(u) /\ (LogOK(log, u) => SameLog(u))

LEMMA SessionMoves ==
    ASSUME Inv, NEW t \in Trans, NEW s, Goes(t, s), Alone(t),
           t \in Sound => Own(t)'
    PROVE  Inv'
  <1>1. Typed /\ Begun
    BY DEF Inv
  <1>2. Typed'
    BY <1>1 DEF Typed, Goes, Alone
  <1>3. Begun'
    <2>1. \A u \in Trans : session'[u].pc # "none" => u \in used'
      BY <1>1 DEF Begun, Goes, Alone
    <2> QED BY <1>1, <2>1 DEF Begun, Alone
  <1>4. ASSUME NEW u \in Trans, u \notin late' PROVE Own(u)'
    <2>1. u \in Sound
      BY <1>4 DEF Sound, Alone
    <2>2. CASE u = t
      BY <2>1, <2>2
    <2>3. CASE u # t
      <3>1. Own(u)
        BY <2>1 DEF Inv
      <3>2. SameTable(u) /\ SameLog(u) /\ session'[u] = session[u]
        BY <2>3, <3>1 DEF Alone, Goes, Own, Logged
      <3>3. Cleaned(u)'
        BY <3>1, <3>2 DEF Own, Cleaned, Alone, SameTable
      <3> QED BY <3>1, <3>2, <3>3, OwnSame DEF Alone
    <2> QED BY <2>2, <2>3
  <1> QED BY <1>2, <1>3, <1>4 DEF Inv, Sound

\* What is to be shown of t itself.
LEMMA SessionOwn ==
    ASSUME Inv, NEW t \in Trans, Own(t), NEW s, Goes(t, s), Alone(t),
           session[t].pc # "none" \/ t \notin used,
           Logged(t)', s.pc # "none" => Served(t)', s.pc = "none" => Left(t)',
           primary => table'.map[t] = None
    PROVE  Own(t)'
  <1>1. t \notin remote /\ ~TaskAt(t)
    <2>1. CASE session[t].pc # "none"
      BY <2>1 DEF Own, Served, Undone
    <2>2. CASE t \notin used
      BY <2>2, Unused
    <2> QED BY <2>1, <2>2
  <1>2. t \notin remote' /\ ~TaskAt(t)'
    BY <1>1 DEF Alone, TaskAt
  <1>3. Cleaned(t)'
    BY DEF Cleaned, Alone
  <1> QED BY <1>2, <1>3 DEF Own, Goes

\* The log and the table are left alone.
LEMMA QuietAlone ==
    ASSUME Inv, NEW t \in Trans, used \subseteq used', t \in used',
           used' \subseteq Trans,
           UNCHANGED <<log, table, primary, turn, doRollback, task, posted,
                       remote, fresh, changes, late>>
    PROVE  Alone(t)
  <1>1. Typed /\ Begun
    BY DEF Inv
  <1>2. \A u \in Trans : SameTable(u) /\ (LogOK(log, u) => SameLog(u))
    BY LogKept DEF SameTable
  <1> QED BY <1>1, <1>2 DEF Alone, Typed, Begun

\* A record is written (writeData).
LEMMA WriteAlone ==
    ASSUME Inv, NEW t \in Trans, t \in used, NEW rec \in LogRecord,
           rec.tr = t, WriteHere(rec),
           UNCHANGED <<primary, turn, doRollback, task, posted, used, remote,
                       changes, late>>
    PROVE  Alone(t)
  <1>1. Typed /\ Begun
    BY DEF Inv
  <1>2. log' = Append(log, rec)
        /\ table' = SaveTransInfo(table, rec, Len(log) + 1, primary)
    BY DEF WriteHere, Write
  <1>3. primary \in BOOLEAN /\ fresh' \in BOOLEAN
    <2>1. primary \in BOOLEAN
      BY <1>1 DEF Typed
    <2>2. fresh' = (fresh \/ ~primary)
      BY DEF WriteHere
    <2> QED BY <2>1, <2>2, Zenon
  <1>4. /\ log' \in Seq(LogRecord)
        /\ \A i \in DOMAIN log' : log'[i].tr \in used'
        /\ table' \in Table
        /\ \A u \in Trans : u # t => SameTable(u)
    BY <1>1, <1>2, <1>3, Grown DEF SameTable
  <1>5. \A u \in Trans : u # t => (LogOK(log, u) => SameLog(u))
    BY <1>2, LogGrown
  <1> QED BY <1>1, <1>3, <1>4, <1>5 DEF Alone, Typed

LEMMA BeginStep ==
    ASSUME Inv, NEW t \in Trans, Begin(t)
    PROVE  Inv'
  <1>0. Typed /\ t \notin used /\ used' = used \cup {t} /\ Go(t, "open")
    BY DEF Inv, Begin
  <1> DEFINE s == [pc |-> "open", cur |-> session[t].cur, pre |-> session[t].pre]
  <1>1. Goes(t, s)
    BY <1>0, GoesIs
  <1>2. Alone(t)
    BY <1>0, QuietAlone DEF Begin, Typed
  <1>3. /\ Own(t) /\ session[t] = NoSession /\ table.map[t] = None
        /\ LastOf(log, t) = None /\ Open(log, t) /\ t \notin remote
    BY <1>0, Unused
  <1>4. session'[t].cur = None /\ session'[t].pc = "open"
    BY <1>1, <1>3 DEF Goes, NoSession
  <1>5. UNCHANGED <<log, table, primary, remote>>
    BY DEF Begin
  <1>6. Logged(t)'
    BY <1>3, <1>5 DEF Own, Logged
  <1>7. Served(t)'
    BY <1>3, <1>4, <1>5 DEF Served
  <1>8. s.pc = "open"
    OBVIOUS
  <1> HIDE DEF s
  <1>9. Own(t)'
    BY <1>0, <1>1, <1>2, <1>3, <1>5, <1>6, <1>7, <1>8, SessionOwn
  <1> QED BY <1>1, <1>2, <1>9, SessionMoves

\* Steps that only move the session: a write and a commit begin, a rollback
\* begins or reads its next record.
LEMMA QuietStep ==
    ASSUME Inv, NEW t \in Trans,
           \/ StartWrite(t) \/ StartCommit(t) \/ StartRollback(t)
           \/ RollbackLooks(t)
    PROVE  Inv'
  <1>0. Typed /\ Begun
    BY DEF Inv
  <1>1. /\ UNCHANGED <<log, table, primary, turn, doRollback, task, posted,
                       used, remote, fresh, changes, late>>
        /\ session[t].pc \in {"open", "undo"}
    BY DEF StartWrite, StartCommit, StartRollback, RollbackLooks
  <1>2. t \in used
    BY <1>0, <1>1 DEF Begun
  <1>3. Alone(t)
    BY <1>0, <1>1, <1>2, QuietAlone DEF Typed
  <1>4. ASSUME NEW s, Goes(t, s), t \in Sound => IF s.pc = "none" THEN Left(t)'
                                                ELSE Served(t)'
        PROVE  Inv'
    <2>1. ASSUME t \in Sound PROVE Own(t)'
      <3>1. Own(t)
        BY <2>1 DEF Inv
      <3>2. Logged(t)' /\ (primary => table'.map[t] = None)
        BY <1>1, <3>1 DEF Own, Logged, Served
      <3> QED BY <1>1, <1>3, <1>4, <2>1, <3>1, <3>2, SessionOwn
    <2> QED BY <1>3, <1>4, <2>1, SessionMoves
  <1>5. ASSUME t \in Sound PROVE Served(t)
    BY <1>1, <1>5 DEF Inv, Own
  <1>6. CASE StartWrite(t) \/ StartCommit(t)
    <2>1. PICK pc \in {"writing", "commit"} :
              Go(t, pc) /\ primary /\ session[t].pc = "open"
      BY <1>6 DEF StartWrite, StartCommit, Writable
    <2> DEFINE s == [pc |-> pc, cur |-> session[t].cur, pre |-> session[t].pre]
    <2>2. Goes(t, s)
      BY <1>0, <2>1, GoesIs
    <2>3. s.pc = pc /\ session'[t].pc = pc /\ session'[t].cur = session[t].cur
      BY <2>2 DEF Goes
    <2>4. ASSUME t \in Sound PROVE Served(t)'
      BY <1>1, <1>5, <2>1, <2>3, <2>4 DEF Served
    <2> HIDE DEF s
    <2> QED BY <1>4, <2>1, <2>2, <2>3, <2>4
  <1>7. CASE StartRollback(t)
    <2>1. CASE session[t].cur = None
      <3>1. Goes(t, NoSession) /\ NoSession.pc = "none"
        BY <1>0, <1>7, <2>1, GoesIs DEF StartRollback
      <3>2. ASSUME t \in Sound PROVE Left(t)'
        BY <1>1, <1>5, <2>1, <3>1, <3>2 DEF Left, Served, Goes
      <3> QED BY <1>4, <3>1, <3>2
    <2>2. CASE session[t].cur # None
      <3> DEFINE s == [pc |-> "undo", cur |-> session[t].cur,
                       pre |-> session[t].pre]
      <3>1. Goes(t, s)
        BY <1>0, <1>7, <2>2, GoesIs DEF StartRollback
      <3>2. s.pc = "undo" /\ session'[t].pc = "undo"
            /\ session'[t].cur = session[t].cur
        BY <3>1 DEF Goes
      <3>3. ASSUME t \in Sound PROVE Served(t)'
        BY <1>1, <1>5, <2>2, <3>2, <3>3 DEF Served
      <3> HIDE DEF s
      <3> QED BY <1>4, <3>1, <3>2, <3>3
    <2> QED BY <2>1, <2>2
  <1>8. CASE RollbackLooks(t)
    <2>1. /\ primary /\ Found(t, session[t].cur) /\ session[t].pc = "undo"
          /\ session' = [session EXCEPT ![t] = [@ EXCEPT !.pc = "undoing",
                                             !.pre = log[session[t].cur].pre]]
      BY <1>8 DEF RollbackLooks
    <2>2. PICK n \in Nat : n = log[session[t].cur].pre
      BY <1>0, <2>1, RecordFacts DEF Found, Typed
    <2> DEFINE s == [pc |-> "undoing", cur |-> session[t].cur, pre |-> n]
    <2>3. Goes(t, s)
      BY <1>0, <2>1, <2>2, GoesIs
    <2>4. s.pc = "undoing" /\ session'[t].pc = "undoing"
          /\ session'[t].cur = session[t].cur /\ session'[t].pre = n
      BY <2>3 DEF Goes
    <2>5. ASSUME t \in Sound PROVE Served(t)'
      BY <1>1, <1>5, <2>1, <2>2, <2>4, <2>5 DEF Served
    <2> HIDE DEF s
    <2> QED BY <1>4, <2>3, <2>4, <2>5
  <1> QED BY <1>6, <1>7, <1>8

\* A step that writes a record of its transaction.
LEMMA WriteStep ==
    ASSUME Inv, NEW t \in Trans, session[t].pc # "none",
           NEW rec \in LogRecord, rec.tr = t, WriteHere(rec),
           UNCHANGED <<primary, turn, doRollback, task, posted, used, remote,
                       changes, late>>,
           NEW s, Goes(t, s),
           t \in Sound =>
              /\ Continues(log, t, rec) /\ table.map[t] = None
              /\ LogOK(log', t) /\ LastOf(log', t) = LastAfter(rec, Len(log) + 1)
                 /\ table'.map[t] = (IF primary THEN None ELSE LastOf(log', t))
                 => IF s.pc = "none" THEN Left(t)' ELSE Served(t)'
    PROVE  Inv'
  <1>0. Typed /\ Begun /\ t \in used
    BY DEF Inv, Begun
  <1>1. Alone(t)
    BY <1>0, WriteAlone
  <1>2. ASSUME t \in Sound PROVE Own(t)'
    <2>1. Own(t) /\ Logged(t) /\ Continues(log, t, rec) /\ table.map[t] = None
      BY <1>2 DEF Inv, Own
    <2>2. PICK p \in BOOLEAN : p = primary
      BY <1>0 DEF Typed
    <2>3. log' = Append(log, rec)
          /\ table' = SaveTransInfo(table, rec, Len(log) + 1, p)
      BY <2>2 DEF WriteHere, Write
    <2>4. /\ LogOK(log', t)
          /\ LastOf(log', t) = LastAfter(rec, Len(log) + 1)
          /\ table'.begin[t] = FirstOf(log', t)
          /\ table'.map[t] = IF p THEN table.map[t] ELSE LastOf(log', t)
      BY <1>0, <2>1, <2>3, LogContinued
    <2>5. Logged(t)'
      BY <2>4 DEF Logged
    <2>6. table'.map[t] = (IF primary THEN None ELSE LastOf(log', t))
      BY <2>1, <2>2, <2>4
    <2> QED BY <1>1, <1>2, <2>1, <2>4, <2>5, <2>6, SessionOwn
  <1> QED BY <1>1, <1>2, SessionMoves

LEMMA EndWriteStep ==
    ASSUME Inv, NEW t \in Trans, EndWrite(t)
    PROVE  Inv'
  <1>0. /\ Typed /\ Begun /\ session[t].pc = "writing"
        /\ WriteHere(Op(t, session[t].cur))
        /\ UNCHANGED <<primary, turn, doRollback, task, posted, used, remote,
                       changes, late>>
    BY DEF Inv, EndWrite
  <1>1. PICK n \in Nat : n = Len(log) + 1 /\ n # None
    BY <1>0, Here
  <1> DEFINE s == [pc |-> "open", cur |-> n, pre |-> session[t].pre]
  <1>2. Goes(t, s)
    BY <1>0, <1>1, GoesIs DEF EndWrite
  <1>3. s.pc = "open" /\ session'[t].pc = "open" /\ session'[t].cur = n
    BY <1>2 DEF Goes
  <1>4. session[t].cur \in Nat
    BY <1>0 DEF Typed, SessionState
  <1>5. PICK rec \in LogRecord : rec = Op(t, session[t].cur) /\ rec.tr = t
    BY <1>4, RecordIs
  <1>6. rec.kind = "op"
    BY <1>5 DEF Op
  <1> HIDE DEF s
  <1>7. ASSUME t \in Sound
        PROVE  /\ Continues(log, t, rec) /\ table.map[t] = None
               /\ LogOK(log', t) /\ LastOf(log', t) = LastAfter(rec, Len(log) + 1)
                  /\ table'.map[t] = (IF primary THEN None ELSE LastOf(log', t))
                  => Served(t)'
    <2>1. Served(t) /\ LogOK(log, t)
      BY <1>0, <1>7 DEF Inv, Own, Logged
    <2>2. Open(log, t) /\ rec = Op(t, LastOf(log, t)) /\ table.map[t] = None
          /\ t \notin remote
      BY <1>0, <1>5, <2>1 DEF Served
    <2>3. Open(log', t)
      <3>1. log' = Append(log, rec)
        BY <1>0, <1>5 DEF WriteHere, Write
      <3> QED BY <2>1, <2>2, <3>1, OKGood, OpAppended
    <2>4. LastAfter(rec, Len(log) + 1) = n
      BY <1>1, <1>6 DEF LastAfter
    <2>5. ASSUME LastOf(log', t) = n,
                 table'.map[t] = (IF primary THEN None ELSE LastOf(log', t))
          PROVE  Served(t)'
      BY <1>0, <1>3, <2>2, <2>3, <2>5 DEF Served
    <2> QED BY <2>2, <2>4, <2>5 DEF Continues
  <1> QED BY <1>0, <1>2, <1>3, <1>5, <1>7, WriteStep

LEMMA EndCommitStep ==
    ASSUME Inv, NEW t \in Trans, EndCommit(t)
    PROVE  Inv'
  <1>0. /\ Typed /\ Begun /\ session[t].pc = "commit" /\ t \in used
        /\ UNCHANGED <<primary, turn, doRollback, task, posted, used, remote,
                       changes, late>>
    BY DEF Inv, EndCommit, Begun
  <1>1. Goes(t, NoSession) /\ NoSession.pc = "none"
    BY <1>0, GoesIs DEF EndCommit
  <1>2. ASSUME t \in Sound PROVE Served(t) /\ Own(t)
    BY <1>0, <1>2 DEF Inv, Own
  <1>3. CASE session[t].cur = None /\ UNCHANGED <<log, table, fresh>>
    <2>1. Alone(t)
      BY <1>0, <1>3, QuietAlone DEF Typed
    <2>2. ASSUME t \in Sound PROVE Own(t)'
      <3>1. Left(t)' /\ Logged(t)' /\ table'.map[t] = None
        BY <1>0, <1>1, <1>2, <1>3, <2>2 DEF Left, Served, Goes, Own, Logged
      <3> QED BY <1>0, <1>1, <1>2, <2>1, <2>2, <3>1, SessionOwn
    <2> QED BY <1>1, <2>1, <2>2, SessionMoves
  <1>4. CASE /\ session[t].cur # None
             /\ WriteHere(Commit(t, session[t].cur, table.begin[t]))
    <2>1. session[t].cur \in Nat /\ table.begin[t] \in Nat
      BY <1>0 DEF Typed, SessionState, Table
    <2>2. PICK rec \in LogRecord :
              rec = Commit(t, session[t].cur, table.begin[t]) /\ rec.tr = t
      BY <2>1, RecordIs
    <2>3. rec.kind = "commit"
      BY <2>2 DEF Commit
    <2>4. ASSUME t \in Sound
          PROVE  /\ Continues(log, t, rec) /\ table.map[t] = None
                 /\ LogOK(log', t) /\ LastOf(log', t) = LastAfter(rec, Len(log) + 1)
                    /\ table'.map[t] = (IF primary THEN None ELSE LastOf(log', t))
                    => Left(t)'
      <3>1. /\ Open(log, t) /\ table.map[t] = None /\ LastOf(log, t) # None
            /\ rec = Commit(t, LastOf(log, t), FirstOf(log, t))
        BY <1>0, <1>2, <1>4, <2>2, <2>4 DEF Served, Own, Logged
      <3>2. LastAfter(rec, Len(log) + 1) = None
        BY <2>3 DEF LastAfter
      <3>3. ASSUME LastOf(log', t) = None,
                   table'.map[t] = (IF primary THEN None ELSE LastOf(log', t))
            PROVE  Left(t)'
        BY <1>1, <3>3 DEF Left, Goes
      <3> QED BY <3>1, <3>2, <3>3 DEF Continues
    <2> QED BY <1>0, <1>1, <1>4, <2>2, <2>4, WriteStep
  <1> QED BY <1>3, <1>4 DEF EndCommit

LEMMA RollbackStepStep ==
    ASSUME Inv, NEW t \in Trans, RollbackStep(t)
    PROVE  Inv'
  <1>0. /\ Typed /\ Begun /\ session[t].pc = "undoing"
        /\ WriteHere(Undo(t, session[t].pre, session[t].cur))
        /\ UNCHANGED <<primary, turn, doRollback, task, posted, used, remote,
                       changes, late>>
    BY DEF Inv, RollbackStep
  <1>1. PICK pre \in Nat : pre = session[t].pre
    BY <1>0 DEF Typed, SessionState
  <1>2. session[t].cur \in Nat
    BY <1>0 DEF Typed, SessionState
  <1>3. PICK rec \in LogRecord :
            rec = Undo(t, pre, session[t].cur) /\ rec.tr = t
    BY <1>2, RecordIs
  <1>4. rec.kind = "undo" /\ rec.pre = pre
    BY <1>3 DEF Undo
  <1>5. LastAfter(rec, Len(log) + 1) = pre
    BY <1>4 DEF LastAfter
  <1>6. ASSUME t \in Sound
        PROVE  Continues(log, t, rec) /\ table.map[t] = None /\ t \notin remote
    <2>1. Served(t)
      BY <1>0, <1>6 DEF Inv, Own
    <2>2. /\ table.map[t] = None /\ LastOf(log, t) # None /\ t \notin remote
          /\ rec = Undo(t, log[LastOf(log, t)].pre, LastOf(log, t))
      BY <1>0, <1>1, <1>3, <2>1 DEF Served
    <2> QED BY <2>2 DEF Continues
  <1>7. CASE pre = None
    <2>1. Goes(t, NoSession) /\ NoSession.pc = "none"
      BY <1>0, <1>1, <1>7, GoesIs DEF RollbackStep
    <2>2. ASSUME LastOf(log', t) = pre,
                 table'.map[t] = (IF primary THEN None ELSE LastOf(log', t))
          PROVE  Left(t)'
      BY <1>7, <2>1, <2>2 DEF Left, Goes
    <2> QED BY <1>0, <1>1, <1>3, <1>5, <1>6, <2>1, <2>2, WriteStep
  <1>8. CASE pre # None
    <2> DEFINE s == [pc |-> "undo", cur |-> pre, pre |-> None]
    <2>1. Goes(t, s)
      BY <1>0, <1>1, <1>8, GoesIs DEF RollbackStep
    <2>2. s.pc = "undo" /\ session'[t].pc = "undo" /\ session'[t].cur = pre
      BY <2>1 DEF Goes
    <2>3. ASSUME LastOf(log', t) = pre, t \in Sound,
                 table'.map[t] = (IF primary THEN None ELSE LastOf(log', t))
          PROVE  Served(t)'
      BY <1>0, <1>6, <1>8, <2>2, <2>3 DEF Served
    <2> HIDE DEF s
    <2> QED BY <1>0, <1>1, <1>3, <1>5, <1>6, <2>1, <2>2, <2>3, WriteStep
  <1> QED BY <1>7, <1>8

LEMMA RollbackLeavesStep ==
    ASSUME Inv, NEW t \in Trans, RollbackLeaves(t)
    PROVE  Inv'
  <1>0. /\ Typed /\ Begun /\ session[t].pc = "undo" /\ t \in used
        /\ ~(primary /\ Found(t, session[t].cur))
        /\ UNCHANGED <<log, primary, turn, doRollback, task, posted, used,
                       remote, fresh, changes, late>>
    BY DEF Inv, RollbackLeaves, Begun
  <1>1. Goes(t, NoSession) /\ NoSession.pc = "none"
    BY <1>0, GoesIs DEF RollbackLeaves
  <1>2. PICK cur \in Nat : cur = session[t].cur
    BY <1>0 DEF Typed, SessionState
  <1>3. table' = IF Found(t, cur) /\ table.map[t] = None
                 THEN MapAt(table, t, cur) ELSE table
    BY <1>2 DEF RollbackLeaves, UpdateTransInfo, MapAt
  <1>4. /\ table' \in Table /\ table'.begin = table.begin
        /\ \A u \in Trans : u # t => table'.map[u] = table.map[u]
        /\ Found(t, cur) /\ table.map[t] = None => table'.map[t] = cur
        /\ ~(Found(t, cur) /\ table.map[t] = None)
              => table'.map[t] = table.map[t]
    <2>1. table \in Table /\ table.map \in [Trans -> Nat]
      BY <1>0 DEF Typed, Table
    <2>2. PICK tab : tab = MapAt(table, t, cur)
      OBVIOUS
    <2>3. /\ tab \in Table /\ tab.begin = table.begin /\ tab.map[t] = cur
          /\ \A u \in Trans : u # t => tab.map[u] = table.map[u]
      BY <2>1, <2>2, MapAtIs
    <2> QED BY <1>3, <2>1, <2>2, <2>3
  <1>5. Alone(t)
    <2>1. \A u \in Trans : u # t => SameTable(u)
      BY <1>4 DEF SameTable
    <2>2. \A u \in Trans : LogOK(log, u) => SameLog(u)
      BY <1>0, LogKept
    <2>3. \A i \in DOMAIN log' : log'[i].tr \in used'
      BY <1>0 DEF Begun
    <2> QED BY <1>0, <1>4, <2>1, <2>2, <2>3 DEF Alone, Typed
  <1>6. ASSUME t \in Sound PROVE Own(t)'
    <2>1. Own(t) /\ Served(t)
      BY <1>0, <1>6 DEF Inv, Own
    <2>2. cur = LastOf(log, t) /\ cur # None /\ table.map[t] \in {None, cur}
      BY <1>0, <1>2, <2>1 DEF Served
    <2>3. Found(t, cur) /\ ~primary
      BY <1>0, <1>2, <2>2, Here
    <2>4. Left(t)'
      BY <1>0, <1>1, <1>4, <2>2, <2>3 DEF Left, Goes
    <2>5. Logged(t)'
      BY <1>0, <1>4, <2>1 DEF Own, Logged
    <2> QED BY <1>0, <1>1, <1>5, <2>1, <2>3, <2>4, <2>5, SessionOwn
  <1> QED BY <1>1, <1>5, <1>6, SessionMoves

----------------------------------------------------------------------------
(* The steps of the rollback task.                                         *)

\* The task moves, and the log and the table are left alone.
LEMMA TaskQuiet ==
    ASSUME Inv,
           UNCHANGED <<log, table, primary, turn, session, used, remote,
                       fresh, changes, late>>,
           task' \in {At("idle"), At("run"), At("end")}, posted' \in Nat,
           doRollback' \in BOOLEAN,
           \A u \in Trans : u \in Sound => Cleaned(u)'
    PROVE  Inv'
  <1>1. Typed /\ Begun
    BY DEF Inv
  <1>2. task'.pc \in {"idle", "run", "end"} /\ task' \in TaskState
    BY DEF At, TaskState
  <1>3. Typed' /\ Begun'
    BY <1>1, <1>2 DEF Typed, Begun
  <1>4. ASSUME NEW u \in Trans, u \in Sound PROVE Own(u)'
    <2>1. Own(u)
      BY <1>4 DEF Inv
    <2>2. SameLog(u) /\ SameTable(u) /\ ~TaskAt(u)'
      BY <1>2, <2>1, LogKept DEF Own, Logged, SameTable, TaskAt
    <2> QED BY <1>4, <2>1, <2>2, OwnSame
  <1> QED BY <1>3, <1>4 DEF Inv, Sound

LEMMA TaskStartsStep ==
    ASSUME Inv, TaskStarts
    PROVE  Inv'
  <1>1. Typed
    BY DEF Inv
  <1>2. posted' \in Nat /\ doRollback' \in BOOLEAN
        /\ task' \in {At("idle"), At("run"), At("end")}
    BY <1>1 DEF TaskStarts, Typed
  <1>3. task'.pc = "run"
    BY DEF TaskStarts, At
  <1>4. \A u \in Trans : u \in Sound => Cleaned(u)'
    BY <1>3 DEF TaskStarts, Cleaned, Inv, Own
  <1> QED BY <1>2, <1>4, TaskQuiet DEF TaskStarts

LEMMA TaskDoneStep ==
    ASSUME Inv, TaskDone
    PROVE  Inv'
  <1>1. Typed
    BY DEF Inv
  <1>2. posted' \in Nat /\ doRollback' \in BOOLEAN
        /\ task' \in {At("idle"), At("run"), At("end")}
    BY <1>1 DEF TaskDone, Typed
  <1>3. \A u \in Trans : u \in Sound => Cleaned(u)'
    BY DEF TaskDone, Cleaned
  <1> QED BY <1>2, <1>3, TaskQuiet DEF TaskDone

LEMMA TaskEndsStep ==
    ASSUME Inv, TaskEnds
    PROVE  Inv'
  <1>1. Typed
    BY DEF Inv
  <1>2. posted' \in Nat /\ doRollback' \in BOOLEAN
        /\ task' \in {At("idle"), At("run"), At("end")}
    BY <1>1 DEF TaskEnds, Typed, NoTask
  <1>3. \A u \in Trans : u \in Sound => Cleaned(u)'
    BY DEF TaskEnds, Cleaned, Inv, Own
  <1> QED BY <1>2, <1>3, TaskQuiet DEF TaskEnds

\* The head of the inner loop.
LEMMA LooksStep ==
    ASSUME Inv, NEW t \in Trans, t \in used, NEW cur \in Nat,
           TaskLooks(t, cur),
           UNCHANGED <<log, primary, turn, doRollback, posted, session, used,
                       remote, fresh, changes>>,
           late \subseteq late', late' \subseteq used,
           t \notin late' => /\ session[t].pc = "none" /\ t \notin remote
                             /\ cur # None /\ cur = LastOf(log, t)
    PROVE  Inv'
  <1>1. Typed /\ Begun
    BY DEF Inv
  <1>2. CASE ~doRollback
    <2>1. task' = At("end") /\ table' = table
      BY <1>2 DEF TaskLooks
    <2>2. task'.pc = "end" /\ task' \in TaskState
      BY <2>1 DEF At, TaskState
    <2>3. Typed' /\ Begun'
      BY <1>1, <2>1, <2>2 DEF Typed, Begun
    <2>4. ASSUME NEW u \in Trans, u \notin late' PROVE Own(u)'
      <3>1. Own(u)
        BY <2>4 DEF Inv, Sound
      <3>2. SameLog(u) /\ SameTable(u) /\ ~TaskAt(u)'
        BY <2>1, <2>2, <3>1, LogKept DEF Own, Logged, SameTable, TaskAt
      <3>3. Cleaned(u)'
        BY <1>2, <2>1, <3>1 DEF Own, Cleaned
      <3> QED BY <3>1, <3>2, <3>3, OwnSame
    <2> QED BY <2>3, <2>4 DEF Inv, Sound
  <1>3. CASE doRollback /\ ~Found(t, cur)
    <2>1. task' = At("run") /\ table' = MapAt(table, t, None)
      BY <1>3 DEF TaskLooks, UpdateTransInfo, MapAt
    <2>2. task'.pc = "run" /\ task' \in TaskState
      BY <2>1 DEF At, TaskState
    <2>3. table \in Table /\ None \in Nat
      BY <1>1 DEF Typed, None
    <2>4. table' \in Table /\ \A u \in Trans : u # t => SameTable(u)
      BY <2>1, <2>3, MapAtIs DEF SameTable
    <2>5. Typed' /\ Begun'
      BY <1>1, <2>2, <2>4 DEF Typed, Begun
    <2>6. t \in late'
      BY <1>1, <1>3, Here
    <2>7. ASSUME NEW u \in Trans, u \notin late' PROVE Own(u)'
      <3>1. Own(u) /\ u # t
        BY <2>6, <2>7 DEF Inv, Sound
      <3>2. SameLog(u) /\ SameTable(u) /\ ~TaskAt(u)'
        BY <2>2, <2>4, <3>1, LogKept DEF Own, Logged, TaskAt
      <3>3. Cleaned(u)'
        BY <1>3, <2>2 DEF Cleaned
      <3> QED BY <3>1, <3>2, <3>3, OwnSame
    <2> QED BY <2>5, <2>7 DEF Inv, Sound
  <1>4. CASE doRollback /\ Found(t, cur)
    <2>1. /\ task' = [pc |-> "undoing", tr |-> t, cur |-> cur,
                      pre |-> log[cur].pre]
          /\ table' = table
      BY <1>4 DEF TaskLooks
    <2>2. log[cur].pre \in Nat
      BY <1>1, <1>4, RecordFacts DEF Found, Typed
    <2>3. /\ task'.pc = "undoing" /\ task'.tr = t /\ task'.cur = cur
          /\ task'.pre = log[cur].pre
      BY <2>1
    <2>4. task' \in TaskState
      BY <2>1, <2>2 DEF TaskState
    <2>5. Typed' /\ Begun'
      BY <1>1, <2>1, <2>3, <2>4 DEF Typed, Begun
    <2>6. ASSUME NEW u \in Trans, u \notin late' PROVE Own(u)'
      <3>1. Own(u)
        BY <2>6 DEF Inv, Sound
      <3>2. SameLog(u) /\ SameTable(u)
        BY <2>1, <3>1, LogKept DEF Own, Logged, SameTable
      <3>3. Cleaned(u)'
        BY <1>4, <2>3 DEF Cleaned
      <3>4. CASE u # t
        <4>1. ~TaskAt(u)'
          BY <2>3, <3>4 DEF TaskAt
        <4> QED BY <3>1, <3>2, <3>3, <4>1, OwnSame
      <3>5. CASE u = t
        <4>1. /\ session[t].pc = "none" /\ t \notin remote
              /\ cur # None /\ cur = LastOf(log, t)
          BY <2>6, <3>5
        <4>2. Undone(t)'
          BY <2>3, <4>1 DEF Undone
        <4>3. Logged(t)' /\ Left(t)'
          BY <2>1, <3>1, <3>5, <4>1 DEF Own, Logged, Left
        <4> QED BY <3>3, <3>5, <4>1, <4>2, <4>3 DEF Own
      <3> QED BY <3>4, <3>5
    <2> QED BY <2>5, <2>6 DEF Inv, Sound
  <1> QED BY <1>2, <1>3, <1>4

LEMMA TaskTakesStep ==
    ASSUME Inv, TaskTakes
    PROVE  Inv'
  <1>1. Typed /\ Begun
    BY DEF Inv
  <1>2. PICK t \in Trans :
          /\ table.map[t] # None
          /\ TaskLooks(t, table.map[t])
          /\ late' = IF session[t].pc # "none" \/ t \in remote
                     THEN late \cup {t} ELSE late
    BY DEF TaskTakes
  <1>3. PICK cur \in Nat : cur = table.map[t]
    BY <1>1 DEF Typed, Table
  <1>4. t \in used
    BY <1>2, Unused
  <1>5. late \subseteq late' /\ late' \subseteq used
    BY <1>1, <1>2, <1>4 DEF Typed
  <1>6. ASSUME t \notin late'
        PROVE  /\ session[t].pc = "none" /\ t \notin remote
               /\ cur # None /\ cur = LastOf(log, t)
    <2>1. session[t].pc = "none" /\ t \notin remote /\ t \in Sound
      BY <1>2, <1>6 DEF Sound
    <2>2. Left(t)
      BY <2>1 DEF Inv, Own
    <2> QED BY <1>2, <1>3, <2>1, <2>2 DEF Left
  <1> QED BY <1>2, <1>3, <1>4, <1>5, <1>6, LooksStep DEF TaskTakes

LEMMA TaskStands ==
    ASSUME Typed, Begun, task.pc \in {"undo", "undoing"}
    PROVE  /\ task.tr \in Trans /\ task.tr \in used /\ TaskAt(task.tr)
           /\ task.cur \in Nat /\ task.pre \in Nat
  <1>1. task \notin {At("idle"), At("run"), At("end")}
    BY DEF At
  <1>2. task \in [pc : {"undo", "undoing"}, tr : Trans, cur : Nat, pre : Nat]
    BY <1>1 DEF Typed, TaskState
  <1>3. task.tr \in Trans /\ task.cur \in Nat /\ task.pre \in Nat
    BY <1>2
  <1> QED BY <1>3 DEF Begun, TaskAt

LEMMA TaskGoesOnStep ==
    ASSUME Inv, TaskGoesOn
    PROVE  Inv'
  <1>1. Typed /\ Begun /\ task.pc = "undo"
    BY DEF Inv, TaskGoesOn
  <1>2. PICK t \in Trans, cur \in Nat :
            t = task.tr /\ cur = task.cur /\ t \in used /\ TaskAt(t)
    BY <1>1, TaskStands
  <1>3. ASSUME t \notin late'
        PROVE  /\ session[t].pc = "none" /\ t \notin remote
               /\ cur # None /\ cur = LastOf(log, t)
    <2>1. t \in Sound
      BY <1>3 DEF TaskGoesOn, Sound
    <2>2. Undone(t)
      BY <1>2, <2>1 DEF Inv, Own
    <2> QED BY <1>2, <2>2 DEF Undone
  <1> QED BY <1>1, <1>2, <1>3, LooksStep DEF TaskGoesOn, Typed

LEMMA TaskUndoesStep ==
    ASSUME Inv, TaskUndoes
    PROVE  Inv'
  <1>1. Typed /\ Begun /\ task.pc = "undoing"
    BY DEF Inv, TaskUndoes
  <1>2. PICK t \in Trans, cur \in Nat, pre \in Nat :
            /\ t = task.tr /\ cur = task.cur /\ pre = task.pre
            /\ t \in used /\ TaskAt(t)
    BY <1>1, TaskStands
  <1>3. PICK rec \in LogRecord : rec = Undo(t, pre, cur) /\ rec.tr = t
    BY RecordIs
  <1>4. PICK p \in BOOLEAN : p = primary
    BY <1>1 DEF Typed
  <1>5. /\ log' = Append(log, rec)
        /\ UNCHANGED <<primary, turn, doRollback, posted, session, used,
                       remote, changes, late>>
    BY <1>2, <1>3 DEF TaskUndoes
  <1>6. Len(log') = Len(log) + 1
    BY <1>1, <1>5, LogAppend DEF Typed
  <1>7. PICK saved : saved = SaveTransInfo(table, rec, Len(log) + 1, p)
    OBVIOUS
  <1>8. table' = MapAt(saved, t, pre)
    BY <1>2, <1>3, <1>4, <1>6, <1>7 DEF TaskUndoes, UpdateTransInfo, MapAt
  <1>9. /\ log' \in Seq(LogRecord)
        /\ \A i \in DOMAIN log' : log'[i].tr \in used'
        /\ saved \in Table
        /\ \A u \in Trans : u # t =>
              saved.map[u] = table.map[u] /\ saved.begin[u] = table.begin[u]
    BY <1>1, <1>2, <1>3, <1>5, <1>7, Grown
  <1>10. /\ table' \in Table /\ table'.map[t] = pre
         /\ table'.begin[t] = saved.begin[t]
         /\ \A u \in Trans : u # t => SameTable(u)
    BY <1>8, <1>9, MapAtIs DEF SameTable
  <1>11. task' = IF pre = None THEN At("run")
                 ELSE [pc |-> "undo", tr |-> t, cur |-> pre, pre |-> None]
    BY <1>2 DEF TaskUndoes
  <1>12. /\ task' \in TaskState /\ task'.pc \in {"run", "undo"}
         /\ pre = None => task'.pc = "run"
         /\ task'.pc = "undo" => task'.tr = t /\ task'.cur = pre
    BY <1>11 DEF TaskState, At, None
  <1>13. fresh' \in BOOLEAN
    <2>1. fresh' = (fresh \/ ~primary)
      BY DEF TaskUndoes
    <2> QED BY <2>1, Zenon
  <1>14. Typed'
    BY <1>1, <1>5, <1>9, <1>10, <1>12, <1>13 DEF Typed
  <1>15. Begun'
    BY <1>1, <1>2, <1>5, <1>9, <1>12 DEF Begun
  <1>16. ASSUME NEW u \in Trans, u \notin late' PROVE Own(u)'
    <2>1. Own(u)
      BY <1>5, <1>16 DEF Inv, Sound
    <2>2. CASE u # t
      <3>1. SameLog(u) /\ SameTable(u) /\ ~TaskAt(u)'
        BY <1>3, <1>5, <1>10, <1>12, <2>1, <2>2, LogGrown
           DEF Own, Logged, TaskAt
      <3>2. Cleaned(u)'
        BY <1>5, <1>12, <2>1, <3>1 DEF Own, Cleaned, SameTable
      <3> QED BY <1>5, <2>1, <3>1, <3>2, OwnSame
    <2>3. CASE u = t
      <3>1. /\ Logged(t) /\ Undone(t) /\ Left(t) /\ Cleaned(t)
        BY <1>2, <2>1, <2>3 DEF Own, Undone
      <3>2. /\ session[t].pc = "none" /\ t \notin remote
            /\ cur # None /\ cur = LastOf(log, t) /\ pre = log[cur].pre
        BY <1>1, <1>2, <3>1 DEF Undone
      <3>3. Continues(log, t, rec)
        BY <1>3, <3>2 DEF Continues
      <3>4. rec.kind = "undo" /\ rec.pre = pre
        BY <1>3 DEF Undo
      <3>5. /\ LogOK(log', t)
            /\ LastOf(log', t) = LastAfter(rec, Len(log) + 1)
            /\ saved.begin[t] = FirstOf(log', t)
        BY <1>1, <1>5, <1>7, <3>1, <3>3, LogContinued
      <3>6. LastOf(log', t) = pre
        BY <3>4, <3>5 DEF LastAfter
      <3>7. Logged(t)' /\ Left(t)'
        BY <1>5, <1>10, <3>1, <3>5, <3>6 DEF Logged, Left
      <3>8. TaskAt(t)' => Undone(t)'
        BY <1>5, <1>12, <3>2, <3>6 DEF TaskAt, Undone
      <3>9. Cleaned(t)'
        <4>1. table.map[t] # None
          BY <3>1, <3>2 DEF Left
        <4>2. ~(primary /\ ~doRollback)
          BY <3>1, <4>1 DEF Cleaned
        <4> QED BY <1>5, <1>12, <4>2 DEF Cleaned
      <3> QED BY <1>5, <2>3, <3>2, <3>7, <3>8, <3>9 DEF Own
    <2> QED BY <2>2, <2>3
  <1> QED BY <1>14, <1>15, <1>16 DEF Inv, Sound

----------------------------------------------------------------------------
(* Changes of role, and the log of another primary.                        *)

\* The role is not gained, and the log and the table are left alone.
LEMMA RoleQuiet ==
    ASSUME Inv,
           UNCHANGED <<log, table, task, posted, session, used, late>>,
           primary' \in BOOLEAN, doRollback' \in BOOLEAN, fresh' \in BOOLEAN,
           turn' \in {"none", "gain", "loss"}, turn' # "none" => ~primary',
           ~primary', remote' \subseteq remote, changes' \in 0 .. MaxChanges
    PROVE  Inv'
  <1>1. Typed /\ Begun
    BY DEF Inv
  <1>2. Typed' /\ Begun'
    BY <1>1 DEF Typed, Begun
  <1>3. ASSUME NEW u \in Trans, u \in Sound PROVE Own(u)'
    <2>1. Own(u)
      BY <1>3 DEF Inv
    <2>2. SameLog(u) /\ SameTable(u) /\ Cleaned(u)'
      BY <2>1, LogKept DEF Own, Logged, SameTable, Cleaned
    <2> QED BY <2>1, <2>2, OwnSame
  <1> QED BY <1>2, <1>3 DEF Inv, Sound

LEMMA ChangeIs ==
    ASSUME Typed, Change
    PROVE  changes' \in 0 .. MaxChanges
  <1>1. MaxChanges \in Nat
    BY TableAssumption
  <1> QED BY <1>1 DEF Typed, Change

LEMMA BeforeGainStep ==
    ASSUME Inv, BeforeGain
    PROVE  Inv'
  <1>1. Typed /\ ~primary
    BY DEF Inv, BeforeGain
  <1>2. changes' \in 0 .. MaxChanges
    BY <1>1, ChangeIs DEF BeforeGain
  <1> QED BY <1>1, <1>2, RoleQuiet DEF BeforeGain, Typed

LEMMA LosePrimaryStep ==
    ASSUME Inv, LosePrimary
    PROVE  Inv'
  <1>1. Typed
    BY DEF Inv
  <1>2. changes' \in 0 .. MaxChanges
    BY <1>1, ChangeIs DEF LosePrimary
  <1> QED BY <1>1, <1>2, RoleQuiet DEF LosePrimary, Typed

LEMMA AfterLossStep ==
    ASSUME Inv, AfterLoss
    PROVE  Inv'
  <1>1. Typed /\ ~primary
    BY DEF Inv, AfterLoss, Typed
  <1> QED BY <1>1, RoleQuiet DEF AfterLoss, Typed

LEMMA OtherPrimaryStep ==
    ASSUME Inv, OtherPrimary
    PROVE  Inv'
  <1>1. Typed /\ ~primary
    BY DEF Inv, OtherPrimary
  <1>2. changes' \in 0 .. MaxChanges
    BY <1>1, ChangeIs DEF OtherPrimary
  <1> QED BY <1>1, <1>2, RoleQuiet DEF OtherPrimary, Typed

\* The role is gained: what is not late now is in the map or has a session,
\* and a run that ends leaves nothing.
LEMMA GainPrimaryStep ==
    ASSUME Inv, GainPrimary
    PROVE  Inv'
  <1>1. Typed /\ Begun
    BY DEF Inv
  <1>2. /\ UNCHANGED <<log, table, task, session, used, fresh, changes>>
        /\ turn' = "none" /\ primary' = TRUE /\ doRollback' = TRUE
        /\ posted' = posted + 1 /\ remote' = {}
        /\ late' = late \cup LateAtGain
    BY DEF GainPrimary
  <1>3. LateAtGain \subseteq used
    <2> SUFFICES ASSUME NEW u \in LateAtGain, u \notin used PROVE FALSE
      OBVIOUS
    <2>1. u \in Trans /\ table.map[u] # None
      BY DEF LateAtGain
    <2> QED BY <2>1, Unused
  <1>4. Typed'
    BY <1>1, <1>2, <1>3 DEF Typed
  <1>5. Begun'
    BY <1>1, <1>2 DEF Begun
  <1>6. ASSUME NEW u \in Trans, u \notin late' PROVE Own(u)'
    <2>1. Own(u) /\ u \notin LateAtGain
      BY <1>2, <1>6 DEF Inv, Sound
    <2>2. /\ session[u].pc # "none" => table.map[u] = None
          /\ task.pc = "end" => table.map[u] = None
      BY <2>1 DEF LateAtGain
    <2>3. Logged(u)'
      BY <1>2, <2>1 DEF Own, Logged
    <2>4. session[u].pc # "none" => Served(u)'
      BY <1>2, <2>1, <2>2 DEF Own, Served
    <2>5. session[u].pc = "none" => Left(u)'
      BY <1>2, <2>1 DEF Own, Left
    <2>6. TaskAt(u)' => Undone(u)'
      BY <1>2, <2>1 DEF Own, Undone, TaskAt
    <2>7. Cleaned(u)'
      BY <1>2, <2>2 DEF Cleaned
    <2> QED BY <1>2, <2>3, <2>4, <2>5, <2>6, <2>7 DEF Own
  <1> QED BY <1>4, <1>5, <1>6 DEF Inv, Sound

LEMMA RestartStep ==
    ASSUME Inv, Restart
    PROVE  Inv'
  <1>1. Typed /\ Begun
    BY DEF Inv
  <1>2. /\ UNCHANGED <<log, used, late>>
        /\ table' = SyncFromLocal(log)
        /\ primary' = FALSE /\ turn' = "none" /\ doRollback' = FALSE
        /\ remote' = {} /\ task' = NoTask /\ posted' = 0 /\ fresh' = TRUE
        /\ session' = [t \in Trans |-> NoSession]
    BY DEF Restart
  <1>3. changes' \in 0 .. MaxChanges
    BY <1>1, ChangeIs DEF Restart
  <1>4. NoTask \in TaskState /\ NoTask.pc = "idle"
    BY DEF NoTask, At, TaskState
  <1>5. NoSession \in SessionState /\ NoSession.pc = "none"
    BY DEF NoSession, SessionState, None
  <1>6. table' \in Table
    BY <1>1, <1>2, SyncedTable DEF Typed
  <1>7. /\ session' \in [Trans -> SessionState]
        /\ \A u \in Trans : session'[u] = NoSession
    BY <1>2, <1>5
  <1>8. Typed'
    BY <1>1, <1>2, <1>3, <1>4, <1>6, <1>7 DEF Typed
  <1>9. Begun'
    BY <1>1, <1>2, <1>4, <1>5, <1>7 DEF Begun
  <1>10. ASSUME NEW u \in Trans, u \notin late' PROVE Own(u)'
    <2>1. LogOK(log, u)
      BY <1>2, <1>10 DEF Inv, Sound, Own, Logged
    <2>2. /\ table'.map[u] = LastOf(log, u)
          /\ table'.begin[u] = FirstOf(log, u)
      BY <1>2, <2>1, SyncedIs
    <2>3. Logged(u)' /\ Left(u)'
      BY <1>2, <1>7, <2>1, <2>2 DEF Logged, Left
    <2>4. session'[u].pc = "none" /\ ~TaskAt(u)' /\ u \notin remote'
          /\ Cleaned(u)'
      BY <1>2, <1>4, <1>5, <1>7 DEF TaskAt, Cleaned
    <2> QED BY <2>3, <2>4 DEF Own
  <1> QED BY <1>8, <1>9, <1>10 DEF Inv, Sound

\* A record is taken back: of a transaction that nobody here holds, or of one
\* that is late from now on.
LEMMA TakeBackStep ==
    ASSUME Inv, TakeBack
    PROVE  Inv'
  <1>1. Typed /\ Begun
    BY DEF Inv
  <1>2. /\ ~primary /\ log # <<>> /\ log' = Front(log)
        /\ remote' \subseteq remote
        /\ UNCHANGED <<primary, turn, doRollback, task, posted, session, used,
                       fresh, changes>>
    BY DEF TakeBack, Synchronizes
  <1>3. PICK rec \in LogRecord : rec = Last(log)
    BY <1>1, <1>2, FrontIs DEF Typed
  <1>4. PICK t \in Trans : t = rec.tr
    BY <1>3 DEF LogRecord
  <1>5. /\ table' = RollbackTransInfo(table, rec)
        /\ late' = IF Held(t) THEN late \cup {t} ELSE late
    BY <1>3, <1>4 DEF TakeBack
  <1>6. /\ log' \in Seq(LogRecord) /\ Len(log) \in Nat \ {0}
        /\ Len(log') = Len(log) - 1
        /\ \A i \in 1 .. Len(log) - 1 : log'[i] = log[i]
        /\ log = Append(log', rec)
    BY <1>1, <1>2, <1>3, FrontIs DEF Typed
  <1>7. /\ table' \in Table
        /\ \A u \in Trans : u # t => SameTable(u)
    BY <1>1, <1>4, <1>5, TakenBackIs DEF Typed, SameTable
  <1>8. \A i \in DOMAIN log' : i \in DOMAIN log /\ log'[i] = log[i]
    <2>1. DOMAIN log = 1 .. Len(log) /\ DOMAIN log' = 1 .. Len(log')
      BY <1>1, <1>6 DEF Typed
    <2> QED BY <1>6, <2>1
  <1>9. t \in used
    <2>1. Len(log) \in DOMAIN log
      BY <1>1, <1>6 DEF Typed
    <2> QED BY <1>1, <1>3, <1>4, <2>1 DEF Begun, Last
  <1>10. late \subseteq late' /\ late' \subseteq used
    BY <1>1, <1>5, <1>9 DEF Typed
  <1>11. Typed'
    BY <1>1, <1>2, <1>6, <1>7, <1>10 DEF Typed
  <1>12. Begun'
    BY <1>1, <1>2, <1>8 DEF Begun
  <1>13. ASSUME NEW u \in Trans, u \notin late' PROVE Own(u)'
    <2>1. Own(u) /\ LogOK(log, u)
      BY <1>10, <1>13 DEF Inv, Sound, Own, Logged
    <2>2. Cleaned(u)'
      BY <1>2 DEF Cleaned
    <2>3. CASE u # t
      <3>1. SameLog(u)
        BY <1>2, <1>3, <1>4, <2>1, <2>3, LogCut
      <3>2. TaskAt(u)' => task' = task
        BY <1>2
      <3> QED BY <1>2, <1>7, <2>1, <2>2, <2>3, <3>1, <3>2, OwnSame
    <2>4. CASE u = t
      <3>1. session[t].pc = "none" /\ ~TaskAt(t)
        BY <1>5, <1>13, <2>4 DEF Held
      <3>2. Left(t)
        BY <2>1, <2>4, <3>1 DEF Own
      <3>3. LogOK(log', t) /\ Continues(log', t, rec)
        BY <1>2, <1>3, <1>4, <2>1, <2>4, OKFront
      <3>4. PICK m : m = log' /\ Good(m, t) /\ log = Append(m, rec)
        BY <1>6, <3>3, OKGood
      <3>5. PICK tab \in Table : tab = table
        BY <1>1 DEF Typed
      <3>6. tab.begin[t] = FirstOf(Append(m, rec), t)
        BY <2>1, <2>4, <3>4, <3>5 DEF Own, Logged
      <3>7. /\ RollbackTransInfo(tab, rec).map[t] = LastOf(m, t)
            /\ RollbackTransInfo(tab, rec).begin[t] = FirstOf(m, t)
        BY <3>3, <3>4, <3>6, TakenBackFollows
      <3>8. Logged(t)' /\ Left(t)'
        BY <1>2, <1>5, <3>2, <3>3, <3>4, <3>5, <3>7 DEF Logged, Left
      <3>9. ~TaskAt(t)' /\ session'[t].pc = "none"
        BY <1>2, <3>1 DEF TaskAt
      <3>10. t \in remote' => Open(log', t)
        <4>1. t \in remote' => Open(log, t)
          BY <1>2, <2>1, <2>4 DEF Own
        <4> QED BY <1>8, <4>1 DEF Open
      <3> QED BY <2>2, <2>4, <3>8, <3>9, <3>10 DEF Own
    <2> QED BY <2>3, <2>4
  <1> QED BY <1>11, <1>12, <1>13 DEF Inv, Sound

\* A record comes: of a transaction that nobody here holds, or of one that is
\* late from now on.
LEMMA ReceiveStep ==
    ASSUME Inv, Receive
    PROVE  Inv'
  <1>1. Typed /\ Begun
    BY DEF Inv
  <1>2. /\ ~primary /\ fresh' = FALSE
        /\ UNCHANGED <<primary, turn, doRollback, task, posted, session,
                       changes>>
    BY DEF Receive, Synchronizes
  <1>3. PICK t \in Trans :
        LET last == LastOf(log, t)
            lost == Unfinished(log) \ remote
        IN  /\ \/ /\ lost = {} /\ (t \in remote \/ t \notin used) /\ Room
                  /\ Write(Op(t, last))
                  /\ remote' = remote \cup {t} /\ used' = used \cup {t}
               \/ /\ t \in remote /\ last # None /\ Room
                  /\ Write(Commit(t, last, FirstOf(log, t)))
                  /\ remote' = remote \ {t} /\ UNCHANGED used
               \/ /\ last # None /\ Space(t)
                  /\ Write(Undo(t, log[last].pre, last))
                  /\ remote' = remote \ {t} /\ UNCHANGED used
            /\ late' = IF Held(t) THEN late \cup {t} ELSE late
    BY DEF Receive
  <1>4. PICK last \in Nat : last = LastOf(log, t)
    BY <1>1, Here
  <1>5. last # None => t \in used /\ log[last].pre \in Nat
    BY <1>1, <1>4, Here
  <1>6. t \in remote => t \in used
    BY <1>1 DEF Typed
  <1>7. PICK rec \in LogRecord :
          /\ Write(rec) /\ rec.tr = t
          /\ used \subseteq used' /\ t \in used' /\ used' \subseteq Trans
          /\ remote' \subseteq used'
          /\ \A u \in Trans : u # t => (u \in remote' => u \in remote)
          /\ \/ /\ t \in remote \/ t \notin used
                /\ rec = Op(t, last)
             \/ /\ t \in remote /\ last # None /\ t \notin remote'
                /\ rec = Commit(t, last, FirstOf(log, t))
             \/ /\ last # None /\ t \notin remote'
                /\ rec = Undo(t, log[last].pre, last)
    <2>1. CASE /\ t \in remote \/ t \notin used
               /\ Write(Op(t, last))
               /\ remote' = remote \cup {t} /\ used' = used \cup {t}
      <3>1. PICK rec \in LogRecord : rec = Op(t, last) /\ rec.tr = t
        BY RecordIs
      <3> QED BY <1>1, <2>1, <3>1 DEF Typed
    <2>2. CASE /\ t \in remote /\ last # None
               /\ Write(Commit(t, last, FirstOf(log, t)))
               /\ remote' = remote \ {t} /\ UNCHANGED used
      <3>1. FirstOf(log, t) \in Nat
        BY <1>1, Here
      <3>2. PICK rec \in LogRecord :
                rec = Commit(t, last, FirstOf(log, t)) /\ rec.tr = t
        BY <3>1, RecordIs
      <3> QED BY <1>1, <1>6, <2>2, <3>2 DEF Typed
    <2>3. CASE /\ last # None
               /\ Write(Undo(t, log[last].pre, last))
               /\ remote' = remote \ {t} /\ UNCHANGED used
      <3>1. PICK rec \in LogRecord :
                rec = Undo(t, log[last].pre, last) /\ rec.tr = t
        BY <1>5, <2>3, RecordIs
      <3> QED BY <1>1, <1>5, <2>3, <3>1 DEF Typed
    <2> QED BY <1>3, <1>4, <2>1, <2>2, <2>3
  <1>8. late \subseteq late' /\ late' \subseteq used'
    BY <1>1, <1>3, <1>7 DEF Typed
  <1>9. PICK p \in BOOLEAN : p = FALSE /\ p = primary
    BY <1>1, <1>2 DEF Typed
  <1>10. /\ log' = Append(log, rec)
         /\ table' = SaveTransInfo(table, rec, Len(log) + 1, p)
    BY <1>7, <1>9 DEF Write
  <1>11. /\ log' \in Seq(LogRecord)
         /\ \A i \in DOMAIN log' : log'[i].tr \in used'
         /\ table' \in Table
         /\ \A u \in Trans : u # t => SameTable(u)
    BY <1>1, <1>7, <1>10, Grown DEF SameTable
  <1>12. Typed'
    BY <1>1, <1>2, <1>7, <1>8, <1>11 DEF Typed
  <1>13. Begun'
    BY <1>1, <1>2, <1>7, <1>11 DEF Begun
  <1>14. ASSUME NEW u \in Trans, u \notin late' PROVE Own(u)'
    <2>1. Own(u) /\ Logged(u)
      BY <1>8, <1>14 DEF Inv, Sound, Own
    <2>2. Cleaned(u)'
      BY <1>2 DEF Cleaned
    <2>3. CASE u # t
      <3>1. SameLog(u)
        BY <1>7, <1>10, <2>1, <2>3, LogGrown DEF Logged
      <3>2. TaskAt(u)' => task' = task
        BY <1>2
      <3> QED BY <1>2, <1>7, <1>11, <2>1, <2>2, <2>3, <3>1, <3>2, OwnSame
    <2>4. CASE u = t
      <3>1. session[t].pc = "none" /\ ~TaskAt(t)
        BY <1>3, <1>14, <2>4 DEF Held
      <3>2. Left(t) /\ (t \in remote => Open(log, t))
        BY <2>1, <2>4, <3>1 DEF Own
      <3>3. t \in remote \/ t \notin used => Open(log, t)
        BY <3>2, Unused
      <3>4. Continues(log, t, rec)
        BY <1>4, <1>7, <3>3 DEF Continues
      <3>5. /\ LogOK(log', t)
            /\ table'.begin[t] = FirstOf(log', t)
            /\ table'.map[t] = IF p THEN table.map[t] ELSE LastOf(log', t)
        BY <1>1, <1>10, <2>1, <2>4, <3>4, LogContinued
      <3>6. Logged(t)' /\ Left(t)'
        BY <1>2, <1>9, <3>2, <3>5 DEF Logged, Left
      <3>7. ~TaskAt(t)' /\ session'[t].pc = "none"
        BY <1>2, <3>1 DEF TaskAt
      <3>8. t \in remote' => Open(log', t)
        <4> SUFFICES ASSUME t \in remote' PROVE Open(log', t)
          OBVIOUS
        <4>1. Open(log, t) /\ rec = Op(t, LastOf(log, t)) /\ Good(log, t)
          BY <1>4, <1>7, <2>1, <2>4, <3>3, OKGood DEF Logged
        <4> QED BY <1>10, <4>1, OpAppended
      <3> QED BY <2>2, <2>4, <3>6, <3>7, <3>8 DEF Own
    <2> QED BY <2>3, <2>4
  <1> QED BY <1>12, <1>13, <1>14 DEF Inv, Sound

----------------------------------------------------------------------------
(* The theorems.                                                           *)

LEMMA InvNext ==
    Inv /\ [Next]_vars => Inv'
  <1> SUFFICES ASSUME Inv, [Next]_vars PROVE Inv'
    OBVIOUS
  <1>1. ASSUME NEW t \in Trans, SessionStep(t) PROVE Inv'
    BY <1>1, BeginStep, QuietStep, EndWriteStep, EndCommitStep,
       RollbackStepStep, RollbackLeavesStep DEF SessionStep
  <1>2. CASE TaskStep
    BY <1>2, TaskStartsStep, TaskTakesStep, TaskGoesOnStep, TaskUndoesStep,
       TaskDoneStep, TaskEndsStep DEF TaskStep
  <1>3. CASE \/ BeforeGain \/ GainPrimary \/ LosePrimary \/ AfterLoss
             \/ OtherPrimary \/ Restart \/ TakeBack \/ Receive
    BY <1>3, BeforeGainStep, GainPrimaryStep, LosePrimaryStep, AfterLossStep,
       OtherPrimaryStep, RestartStep, TakeBackStep, ReceiveStep
  <1>4. CASE UNCHANGED vars
    <2>1. /\ log' = log /\ table' = table /\ primary' = primary /\ turn' = turn
          /\ doRollback' = doRollback /\ task' = task /\ posted' = posted
          /\ session' = session /\ used' = used /\ remote' = remote
          /\ fresh' = fresh /\ changes' = changes /\ late' = late
      BY <1>4 DEF vars
    <2>2. Typed' /\ Begun'
      BY <2>1 DEF Inv, Typed, Begun
    <2>3. ASSUME NEW u \in Trans, u \in Sound PROVE Own(u)'
      <3>1. Own(u)
        BY <2>3 DEF Inv
      <3>2. SameLog(u) /\ SameTable(u) /\ Cleaned(u)'
        BY <2>1, <3>1, LogKept DEF Own, Logged, SameTable, Cleaned
      <3> QED BY <2>1, <3>1, <3>2, OwnSame
    <2> QED BY <2>1, <2>2, <2>3 DEF Inv, Sound
  <1> QED BY <1>1, <1>2, <1>3, <1>4 DEF Next

LEMMA Invariant == Spec => []Inv
  BY InvInit, InvNext, PTL DEF Spec

\* The types, and what every LSN that is kept refers to: the table, the task
\* and the sessions only name records that are in the log, for as long as
\* nobody here holds the transaction across the records of another primary.
THEOREM TypeCorrect == Spec => []TypeOK
  <1>1. Inv => TypeOK
    <2> SUFFICES ASSUME Inv PROVE TypeOK
      OBVIOUS
    <2>1. Typed /\ Begun
      BY DEF Inv
    <2>2. log \in Seq(LogRecord)
      BY <2>1 DEF Typed
    <2>3. ASSUME NEW i \in DOMAIN log
          PROVE  /\ log[i].kind \in {"op", "commit", "undo"}
                 /\ log[i].tr \in Trans /\ log[i].pre \in Nat
                 /\ log[i].tr \in Sound => log[i].pre < i
      <3>1. /\ log[i].kind \in {"op", "commit", "undo"}
            /\ log[i].tr \in Trans /\ log[i].pre \in Nat
        BY <2>2, RecordFacts
      <3>2. ASSUME log[i].tr \in Sound PROVE log[i].pre < i
        <4>1. LogOK(log, log[i].tr)
          BY <3>2 DEF Inv, Own, Logged
        <4>2. Good(log, log[i].tr)
          BY <4>1, OKGood
        <4> QED BY <4>2 DEF Good
      <3> QED BY <3>1, <3>2
    <2>4. ASSUME NEW t \in Sound
          PROVE  /\ {table.map[t], table.begin[t], session[t].cur}
                       \subseteq LsnOf(log)
                 /\ TaskAt(t) => task.cur \in DOMAIN log
      <3>1. t \in Trans /\ Own(t)
        BY DEF Inv, Sound
      <3>2. /\ LastOf(log, t) \in LsnOf(log) /\ FirstOf(log, t) \in LsnOf(log)
            /\ None \in LsnOf(log)
            /\ LastOf(log, t) # None => LastOf(log, t) \in DOMAIN log
        BY <2>2, <3>1, PlacesIn DEF LsnOf
      <3>3. table.begin[t] \in LsnOf(log)
        BY <3>1, <3>2 DEF Own, Logged
      <3>4. table.map[t] \in LsnOf(log) /\ session[t].cur \in LsnOf(log)
        <4>1. CASE session[t].pc # "none"
          BY <3>1, <3>2, <4>1 DEF Own, Served
        <4>2. CASE session[t].pc = "none"
          BY <3>1, <3>2, <4>2 DEF Own, Left, NoSession
        <4> QED BY <4>1, <4>2
      <3>5. TaskAt(t) => task.cur \in DOMAIN log
        BY <3>1, <3>2 DEF Own, Undone
      <3> QED BY <3>3, <3>4, <3>5
    <2>5. \/ task \in {At("idle"), At("run"), At("end")}
          \/ task \in [pc : {"undo", "undoing"}, tr : Trans, cur : Nat, pre : Nat]
      BY <2>1 DEF Typed, TaskState
    <2>6. table \in [map : [Trans -> Nat], begin : [Trans -> Nat]]
          /\ session \in [Trans -> [pc : {"none", "open", "writing", "commit",
                                          "undo", "undoing"},
                                    cur : Nat, pre : Nat]]
      BY <2>1 DEF Typed, Table, SessionState
    <2>7. /\ primary \in BOOLEAN /\ turn \in {"none", "gain", "loss"}
          /\ doRollback \in BOOLEAN /\ posted \in Nat
          /\ used \subseteq Trans /\ remote \subseteq used /\ late \subseteq used
          /\ fresh \in BOOLEAN /\ changes \in 0 .. MaxChanges
      BY <2>1 DEF Typed
    <2> QED BY <2>3, <2>4, <2>5, <2>6, <2>7 DEF TypeOK
  <1> QED BY <1>1, Invariant, PTL

\* A node that is not primary knows exactly the transactions its log leaves
\* unfinished, with their last records, however writing, receiving, undoing,
\* taking back (rollbackTransInfoFromLog) and crashes
\* (syncTransInfoFromLocal) were mixed, whatever the others did in the same
\* log that were held too long.
THEOREM TableIsOfLog == Spec => []TableFollowsLog
  <1>1. Inv => TableFollowsLog
    BY DEF Inv, Own, Left, TableFollowsLog, Sound
  <1> QED BY <1>1, Invariant, PTL

\* The first record of every unfinished transaction is known, in both roles
\* (_idBeginLsnMap).
THEOREM BeginIsOfLog == Spec => []BeginFollowsLog
  <1>1. Inv => BeginFollowsLog
    BY DEF Inv, Own, Logged, BeginFollowsLog, Sound
  <1> QED BY <1>1, Invariant, PTL

\* Whoever undoes, nothing is undone twice, nor after a commit
\* (rtnTransRollback, rtnTransRollbackAll, and the records of other
\* primaries), of a transaction nobody here held too long.
THEOREM NothingUndoneTwice == Spec => []UndoneOnce
  <1>1. Inv => UndoneOnce
    <2> SUFFICES ASSUME Inv, NEW i \in DOMAIN log, NEW j \in DOMAIN log,
                        log[j].kind = "undo", log[i].tr = log[j].tr,
                        log[j].tr \in Sound
                 PROVE  /\ log[i].kind = "undo" /\ log[i].rel = log[j].rel
                              => i = j
                        /\ log[i].kind # "commit"
      BY DEF UndoneOnce
    <2>1. LogOK(log, log[j].tr)
      BY DEF Inv, Own, Logged
    <2>2. Once(log, log[j].tr)
      BY <2>1, OKGood DEF Good
    <2> QED BY <2>2 DEF Once
  <1> QED BY <1>1, Invariant, PTL

\* A primary that lets anybody write has undone what earlier primaries left
\* (stopRollbackTask); what is unfinished has its session here.
THEOREM LeftoversUndone == Spec => []OnlyOwnUnfinished
  <1>1. Inv => OnlyOwnUnfinished
    <2> SUFFICES ASSUME Inv, Writable, NEW t \in Unfinished(log) \cap Sound
                 PROVE  session[t].pc # "none" /\ session[t].cur = LastOf(log, t)
      BY DEF OnlyOwnUnfinished
    <2>1. Own(t) /\ LastOf(log, t) # None
      BY DEF Inv, Unfinished
    <2>2. table.map[t] = None
      BY <2>1 DEF Own, Cleaned, Writable
    <2>3. session[t].pc # "none"
      BY <2>1, <2>2 DEF Own, Left
    <2> QED BY <2>1, <2>3 DEF Own, Served
  <1> QED BY <1>1, Invariant, PTL
=============================================================================
