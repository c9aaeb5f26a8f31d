----------------------------- MODULE LockTable -----------------------------
(***************************************************************************)
(* What the transaction lock manager promises: a table of granted locks in *)
(* which no two owners of a lock conflict, and for every lock a queue that *)
(* owners-to-be join at the tail.  A waiter may be granted out of turn (a  *)
(* request that arrives when the lock is free does not look at the queue), *)
(* or may give up, but nobody ever changes places in a queue.              *)
(***************************************************************************)
EXTENDS Integers, Sequences

CONSTANTS Owners, Locks, Modes, None, Conflict(_, _)

VARIABLES
  grants,  \* grants[l][o]: the mode o owns l in, or None
  queue    \* queue[l]: who waits for l, first come first

tableVars == <<grants, queue>>

Free(o, l, m) == \A p \in Owners \ {o} :
                   grants[l][p] # None => ~Conflict(grants[l][p], m)

Waiting(o, l) == \E i \in 1 .. Len(queue[l]) : queue[l][i] = o

(* The others in their order: who is behind o moves up by one. *)
Without(q, o) == [i \in 1 .. Len(q) - 1 |->
                    IF \E j \in 1 .. i : q[j] = o THEN q[i + 1] ELSE q[i]]

TableInit ==
  /\ grants = [l \in Locks |-> [o \in Owners |-> None]]
  /\ queue = [l \in Locks |-> <<>>]

(* A new lock, or a stronger mode of one that is owned already. *)
Take(o, l, m) ==
  /\ ~Waiting(o, l) /\ Free(o, l, m)
  /\ grants' = [grants EXCEPT ![l][o] = m]
  /\ UNCHANGED queue

Join(o, l, m) ==
  /\ ~Waiting(o, l) /\ grants[l][o] = None /\ ~Free(o, l, m)
  /\ queue' = [queue EXCEPT ![l] = Append(@, o)]
  /\ UNCHANGED grants

TakeQueued(o, l, m) ==
  /\ Waiting(o, l) /\ Free(o, l, m)
  /\ grants' = [grants EXCEPT ![l][o] = m]
  /\ queue' = [queue EXCEPT ![l] = Without(@, o)]

Quit(o, l) ==
  /\ Waiting(o, l)
  /\ queue' = [queue EXCEPT ![l] = Without(@, o)]
  /\ UNCHANGED grants

Drop(o, l) ==
  /\ grants[l][o] # None
  /\ grants' = [grants EXCEPT ![l][o] = None]
  /\ UNCHANGED queue

TableNext ==
  \E o \in Owners, l \in Locks :
    \/ \E m \in Modes : Take(o, l, m) \/ Join(o, l, m) \/ TakeQueued(o, l, m)
    \/ Quit(o, l)
    \/ Drop(o, l)

TableSpec == TableInit /\ [][TableNext]_tableVars
=============================================================================
