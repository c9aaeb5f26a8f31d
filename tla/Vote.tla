-------------------------------- MODULE Vote --------------------------------
(***************************************************************************)
(* Election of the primary in a replica group of SequoiaDB data nodes: the *)
(* vote machine (cls/clsVoteMachine.cpp) with its five statuses            *)
(* (cls/clsVS*.cpp), the ballots (cls/clsVoteStatus.cpp), and the sharing  *)
(* beats, break detection, step-up and step-down of the replica set        *)
(* (cls/clsReplicateSet.cpp).                                              *)
(*                                                                         *)
(* One thread of a node, the CLUSTER EDU, runs the timer and every message *)
(* and event handler to its end, so each handler is one action.  There are *)
(* no terms: safety rests on the lengths of the time-outs.  Time goes on   *)
(* in rounds of one timer interval (CLS_REPL_SEC_TIME).  In each round     *)
(* every node's timer fires once, in any order, and a message is handled   *)
(* in the round in which it was sent, beats first, or lost on a cut link.  *)
(* Links are cut and healed, for both directions, between rounds.          *)
(***************************************************************************)
EXTENDS Integers, FiniteSets

CONSTANTS
  Nodes,         \* node ids; ties between candidates go to the larger id
  None,          \* MSG_INVALID_ROUTEID: no primary is known
  Weight,        \* option weight of every node
  VoteTime,      \* CLS_VOTE_CS_TIME, in timer intervals
  BeatInterval,  \* CLS_SHARING_BETA_INTERVAL
  BreakTime,     \* option sharingBreakTime
  MaxSilence,    \* maxSliceTime of the silence status
  StartShift,    \* option startShiftTime
  DeadBeats,     \* beats a peer misses that could not be reached (deadtime)
  ForceTime,     \* seconds of a forced step-up
  Scenarios      \* what a behaviour starts from and may meet with, see Faults

ASSUME NodesAssumption ==
  Nodes \subseteq Nat /\ IsFiniteSet(Nodes) /\ Cardinality(Nodes) > 1
ASSUME NoneAssumption == None \notin Nodes
ASSUME WeightAssumption == Weight \in [Nodes -> 1 .. 100]
ASSUME TimeAssumption ==
  {VoteTime, BeatInterval, BreakTime, MaxSilence, ForceTime} \subseteq Nat \ {0}
ASSUME CountAssumption == {StartShift, DeadBeats} \subseteq Nat

(* The bounds of one behaviour: forced step-ups and reelections asked for,
   restarts of nodes and changes of the links that may still happen, and
   whether replication sessions exchange messages or are quiet. *)
Faults == [up : Nat, down : Nat, restart : Nat, cut : Nat, replicating : BOOLEAN]

(* logs: the expectLsn of every node at the start. *)
ASSUME ScenarioAssumption == Scenarios \subseteq [logs : [Nodes -> Nat], faults : Faults]

VARIABLES
  node,    \* node[n]: vote machine and group info of n
  lsn,     \* lsn[n]: expectLsn, in the order of (version, offset)
  normal,  \* normal[n]: pmdGetStartup().isOK()
  msgs,    \* messages on the way, and events posted to a CLUSTER EDU
  ticked,  \* nodes whose timer fired in this round
  cut,     \* links that are cut in this round
  left     \* the bounded operations that may still happen

vars == <<node, lsn, normal, msgs, ticked, cut, left>>

Peers(n) == Nodes \ {n}
Links == {{m, n} : m, n \in Nodes} \ {{n} : n \in Nodes}

Statuses == {"silence", "sec", "vote", "announce", "primary"}

(* _clsGroupBeat, as kept of the last beat of a peer.  serviceStatus is
   SERVICE_UNKNOWN exactly when beatID is CLS_BEATID_INVALID. *)
Beats == [lsn : Nat, weight : 0 .. 100, service : {"normal", "abnormal", "unknown"}]
NoBeat == [lsn |-> 0, weight |-> 0, service |-> "unknown"]

(* Silence lasts for the smaller of the two times. *)
SilenceTime == IF BreakTime + 1 < MaxSilence THEN BreakTime + 1 ELSE MaxSilence

(* Mutant: half is enough. *)
IsMajorityHalf(k) == Cardinality(Nodes) \div 2 <= k

(* CLS_IS_MAJORITY *)
IsMajority(k) == Cardinality(Nodes) \div 2 < k

(* _clsGroupInfo::alives of a node with group info v *)
Alives(v) == {m \in DOMAIN v.age : v.age[m] < BreakTime}
AliveSize(v) == Cardinality(Alives(v)) + 1

(* Mutant: a node starts as a secondary. *)
SecondaryFirst == "sec"

(* CLS_VOTE_FIRST_STATUS *)
FirstStatus == "silence"

(* A node that has downloaded its group info: _clsVoteMachine::init, and
   _setGroupSet, which takes every peer for alive. *)
Started(n) ==
  [status |-> FirstStatus, \* _clsVoteMachine::_current
   time |-> 0,             \* _clsVoteStatus::_time
   accepted |-> 0,         \* _clsVoteStatus::_acceptedNum
   primary |-> None,       \* _clsGroupInfo::primary
   age |-> [m \in Peers(n) |-> 0],        \* _clsSharingStatus::timeout
   beat |-> [m \in Peers(n) |-> NoBeat],  \* _clsSharingStatus::beat
   dead |-> [m \in Peers(n) |-> 0],       \* _clsSharingStatus::deadtime
   beatTime |-> 0,         \* _clsReplicateSet::_beatTime
   force |-> 0,            \* _clsVoteMachine::_forceMillis
   stepped |-> FALSE,      \* the shadow weight is CLS_ELECTION_WEIGHT_MIN
   shift |-> TRUE,         \* g_startShiftTime has not passed
   reelecting |-> FALSE]   \* _clsReelection::_level, until the step-down

(* Messages over a link that is cut are lost. *)
OnWire(out) == {x \in out : {x.from, x.to} \notin cut}

(* Mutant: the shadow weight is not looked at. *)
GetWeightOption(n) == Weight[n]

(* CLS_GET_WEIGHT *)
GetWeight(n) == IF node[n].stepped THEN 0 ELSE Weight[n]

-----------------------------------------------------------------------------
(* Ballots: _clsVoteStatus. *)

IsAllNodeAbnormal(v) == \A m \in DOMAIN v.beat : v.beat[m].service = "abnormal"

(* _launch( round ): the ballots n sends when its group info is v.  The replay
   of the log is up to date: the checks of the bucket and of the transaction
   table are left out. *)
Launch(n, v, round) ==
  LET compared == {m \in Alives(v) : ~(normal[n] /\ v.beat[m].service = "abnormal")}
  IN IF /\ v.primary = None
        /\ IsMajority(AliveSize(v))
        /\ normal[n] \/ IsAllNodeAbnormal(v)
        /\ \A m \in compared : lsn[n] >= v.beat[m].lsn
     THEN {[type |-> "ballot", from |-> n, to |-> m, round |-> round,
            lsn |-> lsn[n]] : m \in Alives(v)}
     ELSE {}

(* Between equal logs, weights and then ids decide. *)
Outranks(n, cand) ==
  LET remote == node[n].beat[cand].weight
  IN \/ remote < GetWeight(n)
     \/ remote = GetWeight(n) /\ (remote < Weight[n] \/ cand < n)

(* _launch( lsn, id, round ): the answer to ballot b. *)
Answer(n, b) ==
  LET v == node[n]
      peerAbnormal == v.beat[b.from].service # "normal"
      compared == {m \in Alives(v) : peerAbnormal \/ v.beat[m].service # "abnormal"}
      refused == \/ \E m \in compared : b.lsn < v.beat[m].lsn
                 \/ /\ normal[n] \/ peerAbnormal
                    /\ b.lsn < lsn[n] \/ (b.lsn = lsn[n] /\ Outranks(n, b.from))
  IN CASE v.primary # None -> "refuse"
       [] v.primary = None /\ ~IsMajority(AliveSize(v)) -> "silent"
       [] OTHER -> IF refused THEN "refuse" ELSE "accept"

Reply(n, b) ==
  IF Answer(n, b) = "silent" THEN {}
  ELSE {[type |-> "reply", from |-> n, to |-> b.from, round |-> b.round,
         ok |-> Answer(n, b) = "accept"]}

-----------------------------------------------------------------------------
(* CLS_VOTE_ACTIVE_STATUS( next ): when a handler leaves the state v, the
   active() of the next status, after the deactive() of the old one. *)

(* Mutant: the primary forgets to clear itself. *)
DeactivatedKeep(n, v) == v

(* deactive() of the primary status *)
Deactivated(n, v) ==
  IF v.status = "primary" /\ v.primary = n THEN [v EXCEPT !.primary = None] ELSE v

(* active() of the vote, announce and primary statuses *)
VoteActive(n, v) == Launch(n, v, 1)
AnnounceActive(n, v) == Launch(n, v, 2)
PrimaryActive(n, v) == [v EXCEPT !.primary = n, !.stepped = FALSE]

Activate(n, v, next) ==
  IF next = v.status THEN [v EXCEPT !.force = 0]
  ELSE LET w == [Deactivated(n, v) EXCEPT !.status = next, !.time = 0,
                                          !.accepted = 0, !.force = 0]
       IN IF next = "primary" THEN PrimaryActive(n, w) ELSE w

Sent(n, v, next) ==
  CASE next # v.status /\ next = "vote" -> VoteActive(n, Deactivated(n, v))
    [] next # v.status /\ next = "announce" -> AnnounceActive(n, Deactivated(n, v))
    [] OTHER -> {}

-----------------------------------------------------------------------------
(* handleInput of the five statuses. *)

(* Who promises in the first round gives up its own vote, who accepts in the
   second keeps silent. *)
SecondaryBallot(n, b) ==
  IF b.round = 2 /\ Answer(n, b) = "accept" THEN "silence" ELSE "sec"

VoteBallot(n, b) ==
  IF Answer(n, b) # "accept" THEN "vote"
  ELSE IF b.round = 1 THEN "sec" ELSE "silence"

(* The other statuses do not listen to ballots. *)
AfterBallot(n, b) ==
  CASE node[n].status = "sec" -> SecondaryBallot(n, b)
    [] node[n].status = "vote" -> VoteBallot(n, b)
    [] OTHER -> node[n].status

HandleBallot(n, b) ==
  LET v == [node[n] EXCEPT !.shift = IF node[n].status = "sec" THEN FALSE ELSE @]
      listens == v.status \in {"sec", "vote"}
  IN /\ node' = [node EXCEPT ![n] = Activate(n, v, AfterBallot(n, b))]
     /\ msgs' = (msgs \ {b}) \cup OnWire(IF listens THEN Reply(n, b) ELSE {})
     /\ UNCHANGED <<lsn, normal, ticked, cut, left>>

(* The status after reply r, which v has counted: by acceptance of all the vote
   is over before its time. *)
AllAccepted(v) == Cardinality(Nodes) <= v.accepted + 1

VoteReply(v, r) ==
  CASE r.round = 1 /\ ~r.ok -> "sec"
    [] r.round = 1 /\ r.ok /\ AllAccepted(v) -> "announce"
    [] OTHER -> "vote"

AnnounceReply(v, r) ==
  CASE r.round = 2 /\ ~r.ok -> "silence"
    [] r.round = 2 /\ r.ok /\ AllAccepted(v) -> "primary"
    [] OTHER -> "announce"

(* Votes are counted, voters are not. *)
HandleReply(n, r) ==
  LET s == node[n].status
      asked == s = (IF r.round = 1 THEN "vote" ELSE "announce")
      v == [node[n] EXCEPT !.accepted = IF asked /\ r.ok THEN @ + 1 ELSE @]
      next == CASE s = "vote" -> VoteReply(v, r)
                [] s = "announce" -> AnnounceReply(v, r)
                [] OTHER -> s
  IN /\ node' = [node EXCEPT ![n] = Activate(n, v, next)]
     /\ msgs' = (msgs \ {r}) \cup OnWire(Sent(n, v, next))
     /\ UNCHANGED <<lsn, normal, ticked, cut, left>>

-----------------------------------------------------------------------------
(* Beats: _clsReplicateSet. *)

(* _alive *)
Alive(v, m) == [v EXCEPT !.age[m] = 0, !.dead[m] = 0]

(* Mutant: between equal logs nobody yields. *)
YieldsBehind(n, b) == lsn[n] < b.lsn

(* Of two primaries, the one whose log is not ahead steps down. *)
Yields(n, b) == lsn[n] <= b.lsn

(* _handleSharingBeat: learn who is primary. *)
HandleBeat(n, b) ==
  LET m == b.from
      v == [node[n] EXCEPT !.beat[m] = [lsn |-> b.lsn, weight |-> b.weight,
                                        service |-> b.service]]
      heard == [v EXCEPT !.shift = FALSE, !.stepped = FALSE]
      yield == Activate(n, [heard EXCEPT !.primary = m], "silence")
      found == [Activate(n, heard, "silence") EXCEPT !.primary = m]
      after == CASE b.primary /\ v.primary = n -> IF Yields(n, b) THEN yield ELSE heard
                 [] b.primary /\ v.primary \notin {n, m} -> found
                 [] b.primary /\ v.primary = m -> heard
                 [] OTHER -> IF v.primary = m THEN [v EXCEPT !.primary = None] ELSE v
  IN /\ node' = [node EXCEPT ![n] = Alive(after, m)]
     /\ msgs' = (msgs \ {b}) \cup OnWire({[type |-> "beatRes", from |-> n, to |-> m]})
     /\ UNCHANGED <<lsn, normal, ticked, cut, left>>

HandleBeatRes(n, r) ==
  /\ node' = [node EXCEPT ![n] = Alive(@, r.from)]
  /\ msgs' = msgs \ {r}
  /\ UNCHANGED <<lsn, normal, ticked, cut, left>>

(* _handleStepDown *)
HandleStepDown(n, ev) ==
  /\ node' = [node EXCEPT ![n] = Activate(n, [@ EXCEPT !.stepped = TRUE], "sec")]
  /\ msgs' = msgs \ {ev}
  /\ UNCHANGED <<lsn, normal, ticked, cut, left>>

(* _handleStepUp *)
HandleStepUp(n, ev) ==
  /\ node' = [node EXCEPT ![n] = [Activate(n, @, "primary") EXCEPT !.force = ForceTime]]
  /\ msgs' = msgs \ {ev}
  /\ UNCHANGED <<lsn, normal, ticked, cut, left>>

-----------------------------------------------------------------------------
(* onTimer. *)

(* _sharingBeat: to every peer, except those whose deadtime is not over. *)
SharingBeats(n) ==
  {[type |-> "beat", from |-> n, to |-> m, primary |-> node[n].primary = n,
    lsn |-> lsn[n], weight |-> GetWeight(n),
    service |-> IF normal[n] THEN "normal" ELSE "abnormal"] :
     m \in {m \in Peers(n) : node[n].dead[m] = 0}}

(* Sending to a peer that is not alive failed: set its deadtime. *)
AfterBeats(n) ==
  [node[n] EXCEPT
     !.beatTime = 0,
     !.dead = [m \in Peers(n) |->
                 IF @[m] > 0 THEN @[m] - 1
                 ELSE IF {n, m} \in cut /\ m \notin Alives(node[n]) THEN DeadBeats
                 ELSE 0]]

(* Mutant: ages go on. *)
CheckBreakAges(v) == [v EXCEPT !.age = [m \in DOMAIN v.age |-> v.age[m] + 1]]

(* Mutant: a broken primary is remembered. *)
CheckBreakKeep(v) ==
  [v EXCEPT !.age = [m \in DOMAIN v.age |-> IF v.age[m] < BreakTime THEN v.age[m] + 1
                                            ELSE BreakTime]]

(* _checkBreak: forget the peers that have been silent for BreakTime. *)
CheckBreak(v) ==
  LET ages == [m \in DOMAIN v.age |-> IF v.age[m] < BreakTime THEN v.age[m] + 1
                                      ELSE BreakTime]
      broken == {m \in Alives(v) : ages[m] = BreakTime}
  IN [v EXCEPT !.age = ages,
               !.primary = IF @ \in broken THEN None ELSE @,
               !.beat = [m \in DOMAIN v.beat |->
                           IF m \in broken THEN [v.beat[m] EXCEPT !.service = "unknown"]
                           ELSE v.beat[m]]]

(* handleTimeout: the next status when v.time has passed in the present one. *)
SilenceTimeout(v) == IF SilenceTime <= v.time THEN "sec" ELSE "silence"

SecondaryTimeout(v) == IF VoteTime <= v.time /\ ~v.shift THEN "vote" ELSE "sec"

VoteTimeout(n, v) ==
  CASE v.time < VoteTime -> "vote"
    [] VoteTime <= v.time /\ ~normal[n] /\ IsAllNodeAbnormal(v) -> "sec"
    [] OTHER -> IF IsMajority(v.accepted + 1) THEN "announce" ELSE "sec"

AnnounceTimeout(v) ==
  IF v.time < VoteTime THEN "announce"
  ELSE IF IsMajority(v.accepted + 1) THEN "primary" ELSE "silence"

PrimaryTimeout(v) ==
  IF VoteTime <= v.time /\ ~IsMajority(AliveSize(v)) THEN "silence" ELSE "primary"

AfterTimeout(n, v) ==
  CASE v.status = "silence" -> SilenceTimeout(v)
    [] v.status = "sec" -> SecondaryTimeout(v)
    [] v.status = "vote" -> VoteTimeout(n, v)
    [] v.status = "announce" -> AnnounceTimeout(v)
    [] v.status = "primary" -> PrimaryTimeout(v)

(* _timeout() += millisec.  A secondary's time need not go on once it may vote,
   and a primary's starts again at VoteTime. *)
Passed(v) ==
  LET enough == IF VoteTime < StartShift THEN StartShift ELSE VoteTime
  IN [v EXCEPT !.time = IF v.status = "sec" /\ @ >= enough THEN @ ELSE @ + 1]

(* The secondary's wait for the first beats of all nodes, StartShift at most. *)
Shifted(v) ==
  LET allBeat == \A m \in DOMAIN v.beat : v.beat[m].service # "unknown"
      over == StartShift <= v.time /\ VoteTime <= v.time
  IN [v EXCEPT !.shift = @ /\ ~(v.status = "sec" /\ (allBeat \/ over))]

(* onTimer: beats, then breaks, then the vote machine, whose time-outs a forced
   step-up suspends. *)
Timer(n) ==
  LET due == node[n].beatTime + 1 >= BeatInterval
      v == CheckBreak(IF due THEN AfterBeats(n) ELSE [node[n] EXCEPT !.beatTime = @ + 1])
      w == Shifted(Passed(v))
      next == AfterTimeout(n, w)
      again == next = "primary" /\ w.status = "primary" /\ VoteTime <= w.time
  IN /\ n \notin ticked
     /\ node' = [node EXCEPT ![n] = IF v.force > 0 THEN [v EXCEPT !.force = @ - 1]
                                    ELSE IF again THEN [w EXCEPT !.time = 0]
                                    ELSE Activate(n, w, next)]
     /\ msgs' = msgs \cup OnWire( (IF due THEN SharingBeats(n) ELSE {})
                             \cup (IF v.force > 0 THEN {} ELSE Sent(n, w, next)))
     /\ ticked' = ticked \cup {n}
     /\ UNCHANGED <<lsn, normal, cut, left>>

-----------------------------------------------------------------------------
(* Requests of clients, and the environment. *)

Post(type, n) == msgs' = msgs \cup {[type |-> type, from |-> n, to |-> n]}

(* _clsReelection::run: the primary is to move.  The client's EDU then waits for
   writers and replicas, for a while; a second request meanwhile is refused. *)
Reelect(n) ==
  /\ left.down > 0
  /\ node[n].primary = n /\ ~node[n].reelecting
  /\ node' = [node EXCEPT ![n].reelecting = TRUE]
  /\ left' = [left EXCEPT !.down = @ - 1]
  /\ UNCHANGED <<lsn, normal, msgs, ticked, cut>>

(* _stepDown: posted whoever is primary by now. *)
StepDown(n) ==
  /\ node[n].reelecting
  /\ node' = [node EXCEPT ![n].reelecting = FALSE]
  /\ Post("stepDown", n)
  /\ UNCHANGED <<lsn, normal, ticked, cut, left>>

(* The wait timed out. *)
ReelectFailed(n) ==
  /\ node[n].reelecting
  /\ node' = [node EXCEPT ![n].reelecting = FALSE]
  /\ UNCHANGED <<lsn, normal, msgs, ticked, cut, left>>

(* stepUp: the check is made by the client's EDU, the event handled later.  No
   peer that pulls the log from this node is ahead of it (atLeastOne). *)
StepUp(n) ==
  /\ left.up > 0
  /\ node[n].primary = None
  /\ Post("stepUp", n)
  /\ left' = [left EXCEPT !.up = @ - 1]
  /\ UNCHANGED <<node, lsn, normal, ticked, cut>>

(* A node restarts, after a clean stop or a crash. *)
Restart(n) ==
  /\ left.restart > 0
  /\ left' = [left EXCEPT !.restart = @ - 1]
  /\ node' = [node EXCEPT ![n] = Started(n)]
  /\ \E clean \in BOOLEAN : normal' = [normal EXCEPT ![n] = clean]
  /\ msgs' = {x \in msgs : x.to # n}
  /\ UNCHANGED <<lsn, ticked, cut>>

(* A secondary takes the primary's log: replication, rollback of a diverged
   tail, or the full synchronisation that makes an abnormal node normal. *)
Synchronise(n) ==
  LET p == node[n].primary
  IN /\ p # None
     /\ {n, p} \notin cut
     /\ lsn[n] # lsn[p] \/ ~normal[n]
     /\ lsn' = [lsn EXCEPT ![n] = lsn[p]]
     /\ normal' = [normal EXCEPT ![n] = TRUE]
     /\ UNCHANGED <<node, msgs, ticked, cut, left>>

(* aliveNode: a message of a replication session shows that m is alive, unless
   it is taken for broken. *)
AliveNode(n, m) ==
  /\ left.replicating
  /\ {n, m} \notin cut
  /\ m \in Alives(node[n]) /\ node[n].age[m] > 0
  /\ node' = [node EXCEPT ![n] = Alive(@, m)]
  /\ UNCHANGED <<lsn, normal, msgs, ticked, cut, left>>

(* The next timer interval; links may change. *)
EndRound ==
  /\ ticked = Nodes /\ msgs = {}
  /\ ticked' = {}
  /\ \/ UNCHANGED <<cut, left>>
     \/ /\ left.cut > 0
        /\ cut' \in SUBSET Links \ {cut}
        /\ left' = [left EXCEPT !.cut = @ - 1]
  /\ UNCHANGED <<node, lsn, normal, msgs>>

HandleBeats ==
  \E x \in msgs : \/ x.type = "beat" /\ HandleBeat(x.to, x)
                  \/ x.type = "beatRes" /\ HandleBeatRes(x.to, x)

HandleMsg ==
  \E x \in msgs : \/ x.type = "ballot" /\ HandleBallot(x.to, x)
                  \/ x.type = "reply" /\ HandleReply(x.to, x)
                  \/ x.type = "stepDown" /\ HandleStepDown(x.to, x)
                  \/ x.type = "stepUp" /\ HandleStepUp(x.to, x)

Init ==
  /\ node = [n \in Nodes |-> Started(n)]
  /\ \E s \in Scenarios : lsn = s.logs /\ left = s.faults
  /\ normal = [n \in Nodes |-> TRUE]
  /\ msgs = {}
  /\ ticked = {}
  /\ cut = {}

(* Beats and their answers are exchanged before anything else happens. *)
BeatsDone == \A x \in msgs : x.type \notin {"beat", "beatRes"}

Protocol == \/ HandleBeats
            \/ BeatsDone /\ HandleMsg
            \/ BeatsDone /\ \E n \in Nodes : Timer(n)
            \/ BeatsDone /\ EndRound

Environment ==
  \E n \in Nodes : Reelect(n) \/ StepDown(n) \/ ReelectFailed(n) \/ StepUp(n)
                     \/ Restart(n) \/ Synchronise(n)
                     \/ \E m \in Peers(n) : AliveNode(n, m)

Next == Protocol \/ (BeatsDone /\ Environment)

Spec == Init /\ [][Next]_vars

(* Timers fire, messages are handled, and time goes on. *)
Fairness == WF_vars(Protocol)

FairSpec == Spec /\ Fairness

-----------------------------------------------------------------------------
(* Properties. *)

NodeStates(n) ==
  [status : Statuses, time : Nat, accepted : 0 .. Cardinality(Nodes) - 2,
   primary : Nodes \cup {None}, age : [Peers(n) -> 0 .. BreakTime],
   beat : [Peers(n) -> Beats], dead : [Peers(n) -> 0 .. DeadBeats],
   beatTime : 0 .. BeatInterval, force : 0 .. ForceTime,
   stepped : BOOLEAN, shift : BOOLEAN, reelecting : BOOLEAN]

Messages ==
       [type : {"ballot"}, from : Nodes, to : Nodes, round : {1, 2}, lsn : Nat]
  \cup [type : {"reply"}, from : Nodes, to : Nodes, round : {1, 2}, ok : BOOLEAN]
  \cup [type : {"beat"}, from : Nodes, to : Nodes, primary : BOOLEAN, lsn : Nat,
        weight : 0 .. 100, service : {"normal", "abnormal"}]
  \cup [type : {"beatRes"}, from : Nodes, to : Nodes]

Events == {[type |-> t, from |-> n, to |-> n] : t \in {"stepUp", "stepDown"}, n \in Nodes}

(* Every variable has its type. *)
TypeOK ==
  /\ DOMAIN node = Nodes /\ \A n \in Nodes : node[n] \in NodeStates(n)
  /\ lsn \in [Nodes -> Nat]
  /\ normal \in [Nodes -> BOOLEAN]
  /\ msgs \subseteq {x \in Messages : x.from # x.to} \cup Events
  /\ ticked \subseteq Nodes
  /\ cut \subseteq Links
  /\ left \in Faults

Primaries == {n \in Nodes : node[n].status = "primary"}

(* A node is in the primary status exactly when it names itself as primary,
   which is what the sessions ask (primaryIsMe) before they write. *)
PrimaryIsSelf ==
  \A n \in Nodes : node[n].status = "primary" <=> node[n].primary = n

(* The time-outs keep elections apart: a primary that lost its majority has
   stepped down before anyone else can have won, and who accepted one
   announcement is deaf to others until the winner's beats arrive.  (With
   links that do not come back, and without forced step-ups.) *)
AtMostOnePrimary == Cardinality(Primaries) <= 1

(* Reelection moves the primary: as long as all logs are equal, the node that
   stepped down does not win before another has. *)
StepDownYields ==
  [][\A n \in Nodes : node[n].stepped => n \notin Primaries' \ Primaries]_vars

(* More than half of the group, as a reader counts it. *)
Most(q) == 2 * Cardinality(q) > Cardinality(Nodes)

(* Who wins an election has a log as long as those of a majority, so that what
   a majority has written survives the change of the primary. *)
WinnerUpToDate ==
  [][\A n \in Primaries' \ Primaries :
       Most({m \in Nodes : lsn[m] <= lsn[n]})]_vars

(* Some majority whose links are up. *)
Connected == \E q \in SUBSET Nodes : Most(q) /\ \A l \in cut : ~(l \subseteq q)

(* With a connected majority, the group ends up with a primary. *)
Elected == <>[]Connected => <>[](Primaries # {})

(* Two primaries, which a forced step-up brings about, do not stay. *)
ConflictResolved == []<>AtMostOnePrimary
=============================================================================
