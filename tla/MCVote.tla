------------------------------- MODULE MCVote -------------------------------
EXTENDS Vote

MCWeight == [n \in Nodes |-> 10]
EqualLogs == [n \in Nodes |-> 1]
(* The node of the largest id, which wins every tie, is behind the others. *)
UnequalLogs ==
  LET last == CHOOSE n \in Nodes : \A m \in Nodes : m <= n
  IN [n \in Nodes |-> IF n = last THEN 1 ELSE 2]

Quiet == [up |-> 0, down |-> 0, restart |-> 0, cut |-> 0, replicating |-> FALSE]
Start(logs, faults) == [logs |-> logs, faults |-> faults]

(* The links change while replication is busy, around a reelection, around a
   restart, or with logs of different length. *)
CutAndMore ==
  {Start(EqualLogs, [Quiet EXCEPT !.cut = 1, !.replicating = TRUE]),
   Start(EqualLogs, [Quiet EXCEPT !.cut = 1, !.down = 1]),
   Start(EqualLogs, [Quiet EXCEPT !.cut = 1, !.restart = 1]),
   Start(UnequalLogs, [Quiet EXCEPT !.cut = 1])}
(* The links change, or a step-up is forced. *)
CutOrStepUp ==
  {Start(EqualLogs, [Quiet EXCEPT !.cut = 1]),
   Start(EqualLogs, [Quiet EXCEPT !.up = 1])}
=============================================================================
