---------------------------- MODULE Vote_proofs ----------------------------
(***************************************************************************)
(* Theorems about the election: the types, the agreement of a node's vote  *)
(* status with the primary it names, what the winner of a vote has in its  *)
(* log, that the time-outs leave room for one primary at most, and that    *)
(* who stepped down lets another win.                                      *)
(***************************************************************************)
EXTENDS Vote, FiniteSetTheorems, TLAPS

(* The primary status and the primary field of one node agree. *)
SelfOK(n, v) == v.status = "primary" <=> v.primary = n

(* A node in the middle of a handler, with a vote just counted. *)
Counting(n) ==
  [status : Statuses, time : Nat, accepted : Nat,
   primary : Nodes \cup {None}, age : [Peers(n) -> 0 .. BreakTime],
   beat : [Peers(n) -> Beats], dead : [Peers(n) -> 0 .. DeadBeats],
   beatTime : 0 .. BeatInterval, force : 0 .. ForceTime,
   stepped : BOOLEAN, shift : BOOLEAN, reelecting : BOOLEAN]

Wire == {x \in Messages : x.from # x.to} \cup Events

Inv == TypeOK /\ PrimaryIsSelf

-----------------------------------------------------------------------------
(* What a node does to itself. *)

(* The size of the group. *)
LEMMA GroupSize == Cardinality(Nodes) \in Nat /\ Cardinality(Nodes) > 1
BY NodesAssumption, FS_CardinalityType

(* The bounds of the counters. *)
LEMMA Bounds ==
  /\ BreakTime \in Nat /\ BreakTime > 0 /\ BeatInterval \in Nat /\ BeatInterval > 0
  /\ ForceTime \in Nat /\ DeadBeats \in Nat /\ VoteTime \in Nat
  /\ 0 \in 0 .. ForceTime /\ 0 \in 0 .. DeadBeats /\ 0 \in 0 .. BreakTime
  /\ 0 \in 0 .. BeatInterval /\ 0 \in 0 .. Cardinality(Nodes) - 2
BY TimeAssumption, CountAssumption, GroupSize

(* A state between handlers is also one in the middle of a handler. *)
LEMMA CountingStates ==
  ASSUME NEW n \in Nodes PROVE NodeStates(n) \subseteq Counting(n)
BY GroupSize DEF NodeStates, Counting

(* A change of the status leaves a node that names itself primary exactly when
   it is: the old primary clears its name, the new one sets it. *)
LEMMA ActivateOther ==
  ASSUME NEW n \in Nodes, NEW v \in Counting(n), NEW next \in Statuses,
         next # v.status, v.primary = n => v.status = "primary"
  PROVE Activate(n, v, next) \in NodeStates(n) /\ SelfOK(n, Activate(n, v, next))
<1> DEFINE d == Deactivated(n, v)
           w == [d EXCEPT !.status = next, !.time = 0, !.accepted = 0, !.force = 0]
<1>1. d \in Counting(n) /\ d.primary # n
  BY NoneAssumption DEF Deactivated, Counting
<1> HIDE DEF d
<1>2. w \in NodeStates(n) /\ w.status = next /\ w.primary # n
  <2> DEFINE c == [d EXCEPT !.status = next, !.time = 0]
  <2>1. c \in Counting(n) /\ c.status = next /\ c.primary # n
    BY <1>1 DEF Counting
  <2>2. w = [c EXCEPT !.accepted = 0, !.force = 0]
    BY <1>1 DEF Counting
  <2> HIDE DEF c, w
  <2> QED BY <2>1, <2>2, Bounds DEF Counting, NodeStates
<1> HIDE DEF w
<1>3. Activate(n, v, next) = IF next = "primary" THEN PrimaryActive(n, w) ELSE w
  BY DEF Activate, w, d
<1>4. CASE next = "primary"
  <2>1. Activate(n, v, next) = [w EXCEPT !.primary = n, !.stepped = FALSE]
    BY <1>3, <1>4 DEF PrimaryActive
  <2> QED BY <1>2, <1>4, <2>1 DEF NodeStates, SelfOK
<1>5. CASE next # "primary"
  BY <1>2, <1>3, <1>5 DEF SelfOK
<1> QED BY <1>4, <1>5

(* Staying in the status ends a forced step-up and nothing else. *)
LEMMA ActivateSame ==
  ASSUME NEW n \in Nodes, NEW v \in NodeStates(n), SelfOK(n, v)
  PROVE Activate(n, v, v.status) \in NodeStates(n) /\ SelfOK(n, Activate(n, v, v.status))
BY TimeAssumption DEF Activate, NodeStates, SelfOK

(* Both together. *)
LEMMA ActivateOK ==
  ASSUME NEW n \in Nodes, NEW v \in NodeStates(n), SelfOK(n, v), NEW next \in Statuses
  PROVE Activate(n, v, next) \in NodeStates(n) /\ SelfOK(n, Activate(n, v, next))
BY ActivateSame, ActivateOther, CountingStates DEF SelfOK

(* Hearing of a peer. *)
LEMMA AliveOK ==
  ASSUME NEW n \in Nodes, NEW v \in NodeStates(n), SelfOK(n, v), NEW m \in Peers(n)
  PROVE Alive(v, m) \in NodeStates(n) /\ SelfOK(n, Alive(v, m))
<1>1. /\ [v.age EXCEPT ![m] = 0] \in [Peers(n) -> 0 .. BreakTime]
      /\ [v.dead EXCEPT ![m] = 0] \in [Peers(n) -> 0 .. DeadBeats]
  BY Bounds DEF NodeStates
<1>2. Alive(v, m) = [v EXCEPT !.age = [v.age EXCEPT ![m] = 0],
                              !.dead = [v.dead EXCEPT ![m] = 0]]
  BY DEF Alive, NodeStates
<1> QED BY <1>1, <1>2 DEF NodeStates, SelfOK

(* Only a broken peer loses the primary's name. *)
LEMMA CheckBreakOK ==
  ASSUME NEW n \in Nodes, NEW v \in NodeStates(n), SelfOK(n, v)
  PROVE /\ CheckBreak(v) \in NodeStates(n) /\ SelfOK(n, CheckBreak(v))
        /\ CheckBreak(v).beatTime = v.beatTime
<1> DEFINE ages == [m \in DOMAIN v.age |-> IF v.age[m] < BreakTime THEN v.age[m] + 1
                                          ELSE BreakTime]
           broken == {m \in Alives(v) : ages[m] = BreakTime}
           beats == [m \in DOMAIN v.beat |->
                       IF m \in broken THEN [v.beat[m] EXCEPT !.service = "unknown"]
                       ELSE v.beat[m]]
           prim == IF v.primary \in broken THEN None ELSE v.primary
<1>1. ages \in [Peers(n) -> 0 .. BreakTime]
  BY TimeAssumption DEF NodeStates
<1>2. broken \subseteq Peers(n)
  BY DEF NodeStates, Alives
<1>3. beats \in [Peers(n) -> Beats]
  <2> HIDE DEF broken
  <2> QED BY DEF NodeStates, Beats
<1>4. prim \in Nodes \cup {None} /\ (prim = n <=> v.primary = n)
  BY <1>2, NoneAssumption DEF NodeStates, Peers
<1>5. CheckBreak(v) = [v EXCEPT !.age = ages, !.primary = prim, !.beat = beats]
  BY DEF CheckBreak
<1> HIDE DEF ages, broken, beats, prim
<1> QED BY <1>1, <1>3, <1>4, <1>5 DEF NodeStates, SelfOK

(* The other variables have their types. *)
RestOK ==
  /\ lsn \in [Nodes -> Nat] /\ normal \in [Nodes -> BOOLEAN] /\ msgs \subseteq Wire
  /\ ticked \subseteq Nodes /\ cut \subseteq Links
  /\ left \in Faults

(* The invariant, node by node. *)
LEMMA InvParts ==
  Inv <=> /\ DOMAIN node = Nodes /\ RestOK
          /\ \A n \in Nodes : node[n] \in NodeStates(n) /\ SelfOK(n, node[n])
BY DEF Inv, TypeOK, PrimaryIsSelf, SelfOK, RestOK, Wire

-----------------------------------------------------------------------------
(* Messages. *)

(* Messages go between two nodes, events from a node to itself. *)
LEMMA WireKinds ==
  ASSUME NEW x \in Wire
  PROVE /\ x.to \in Nodes /\ x.from \in Nodes
        /\ x.type \in {"ballot", "reply", "beat", "beatRes"} => x.from \in Peers(x.to)
        /\ x.type \in {"ballot", "reply"} => x.round \in {1, 2}
        /\ x.type = "reply" => x.ok \in BOOLEAN
        /\ x.type = "beat" => /\ x.lsn \in Nat /\ x.weight \in 0 .. 100
                              /\ x.service \in {"normal", "abnormal"}
<1>1. CASE x \in {y \in Messages : y.from # y.to}
  <2>1. CASE x \in [type : {"ballot"}, from : Nodes, to : Nodes, round : {1, 2}, lsn : Nat]
    BY <1>1, <2>1 DEF Peers
  <2>2. CASE x \in [type : {"reply"}, from : Nodes, to : Nodes, round : {1, 2}, ok : BOOLEAN]
    BY <1>1, <2>2 DEF Peers
  <2>3. CASE x \in [type : {"beat"}, from : Nodes, to : Nodes, primary : BOOLEAN, lsn : Nat,
                    weight : 0 .. 100, service : {"normal", "abnormal"}]
    BY <1>1, <2>3 DEF Peers
  <2>4. CASE x \in [type : {"beatRes"}, from : Nodes, to : Nodes]
    BY <1>1, <2>4 DEF Peers
  <2> QED BY <1>1, <2>1, <2>2, <2>3, <2>4 DEF Messages
<1>2. CASE x \in Events
  BY <1>2 DEF Events
<1> QED BY <1>1, <1>2 DEF Wire

(* Ballots go to peers. *)
LEMMA LaunchWire ==
  ASSUME RestOK, NEW n \in Nodes, NEW v \in Counting(n), NEW round \in {1, 2}
  PROVE Launch(n, v, round) \subseteq Wire
<1>1. Alives(v) \subseteq Peers(n)
  BY DEF Alives, Counting
<1>2. \A m \in Peers(n) : [type |-> "ballot", from |-> n, to |-> m, round |-> round,
                            lsn |-> lsn[n]] \in Wire
  BY DEF Wire, Messages, Peers, RestOK
<1> QED BY <1>1, <1>2 DEF Launch

(* What entering a status sends. *)
LEMMA SentWire ==
  ASSUME RestOK, NEW n \in Nodes, NEW v \in Counting(n), NEW next \in Statuses
  PROVE Sent(n, v, next) \subseteq Wire
<1>1. Deactivated(n, v) \in Counting(n)
  BY DEF Deactivated, Counting
<1>2. \A round \in {1, 2} : Launch(n, Deactivated(n, v), round) \subseteq Wire
  BY <1>1, LaunchWire
<1> QED BY <1>2 DEF Sent, VoteActive, AnnounceActive

(* Answers go back to the candidate. *)
LEMMA ReplyWire ==
  ASSUME NEW n \in Nodes, NEW b, b.from \in Peers(n), b.round \in {1, 2}
  PROVE Reply(n, b) \subseteq Wire
<1>1. [type |-> "reply", from |-> n, to |-> b.from, round |-> b.round,
       ok |-> Answer(n, b) = "accept"] \in Wire
  BY DEF Wire, Messages, Peers
<1> QED BY <1>1 DEF Reply

(* Beats go to peers. *)
LEMMA BeatsWire ==
  ASSUME RestOK, NEW n \in Nodes
  PROVE SharingBeats(n) \subseteq Wire
<1>1. GetWeight(n) \in 0 .. 100
  BY WeightAssumption DEF GetWeight
<1>2. \A m \in Peers(n) :
        [type |-> "beat", from |-> n, to |-> m, primary |-> node[n].primary = n,
         lsn |-> lsn[n], weight |-> GetWeight(n),
         service |-> IF normal[n] THEN "normal" ELSE "abnormal"] \in Wire
  BY <1>1 DEF Wire, Messages, Peers, RestOK
<1> QED BY <1>2 DEF SharingBeats

(* Cut links lose messages. *)
LEMMA OnWireSubset == \A S : OnWire(S) \subseteq S
BY DEF OnWire

-----------------------------------------------------------------------------
(* One lemma per handler. *)

(* One node changes, within its type and in agreement with itself. *)
LEMMA NodeStep ==
  ASSUME Inv, NEW n \in Nodes, NEW w, w \in NodeStates(n), SelfOK(n, w),
         node' = [node EXCEPT ![n] = w], RestOK'
  PROVE Inv'
<1>1. DOMAIN node' = Nodes /\ \A m \in Nodes : node'[m] \in NodeStates(m) /\ SelfOK(m, node'[m])
  BY InvParts
<1> QED BY <1>1 DEF Inv, TypeOK, PrimaryIsSelf, SelfOK, RestOK, Wire

(* Handlers consume a message, send some and change nothing else. *)
LEMMA HandlerRest ==
  ASSUME RestOK, NEW x, NEW out, out \subseteq Wire, msgs' = (msgs \ {x}) \cup OnWire(out),
         UNCHANGED <<lsn, normal, ticked, cut, left>>
  PROVE RestOK'
BY OnWireSubset DEF RestOK, Wire

(* A ballot. *)
LEMMA BallotInv ==
  ASSUME Inv, NEW b \in msgs, b.type = "ballot", HandleBallot(b.to, b)
  PROVE Inv'
<1> DEFINE n == b.to
           v == [node[n] EXCEPT !.shift = IF node[n].status = "sec" THEN FALSE ELSE @]
           next == AfterBallot(n, b)
<1>1. RestOK /\ b \in Wire
  BY InvParts DEF RestOK
<1>2. n \in Nodes /\ b.from \in Peers(n) /\ b.round \in {1, 2}
  BY <1>1, WireKinds
<1> HIDE DEF n
<1>3. v \in NodeStates(n) /\ SelfOK(n, v)
  <2> DEFINE shift == IF node[n].status = "sec" THEN FALSE ELSE node[n].shift
  <2>1. node[n] \in NodeStates(n) /\ SelfOK(n, node[n])
    BY <1>2, InvParts
  <2>2. shift \in BOOLEAN
    BY <2>1 DEF NodeStates
  <2>3. v = [node[n] EXCEPT !.shift = shift]
    OBVIOUS
  <2> HIDE DEF shift, v
  <2> QED BY <2>1, <2>2, <2>3 DEF NodeStates, SelfOK
<1>4. next \in Statuses
  <2>1. node[n].status \in Statuses
    BY <1>2, InvParts DEF NodeStates
  <2>2. SecondaryBallot(n, b) \in Statuses /\ VoteBallot(n, b) \in Statuses
    BY DEF SecondaryBallot, VoteBallot, Statuses
  <2> QED BY <2>1, <2>2 DEF AfterBallot
<1>5. node' = [node EXCEPT ![n] = Activate(n, v, next)]
  BY DEF HandleBallot, n
<1>6. \E out : /\ out \subseteq Wire /\ msgs' = (msgs \ {b}) \cup OnWire(out)
               /\ UNCHANGED <<lsn, normal, ticked, cut, left>>
  <2>1. Reply(n, b) \subseteq Wire
    BY <1>2, ReplyWire
  <2> DEFINE out == IF v.status \in {"sec", "vote"} THEN Reply(n, b) ELSE {}
  <2>2. out \subseteq Wire
    BY <2>1
  <2>3. /\ msgs' = (msgs \ {b}) \cup OnWire(out)
        /\ UNCHANGED <<lsn, normal, ticked, cut, left>>
    BY DEF HandleBallot, n
  <2> QED BY <2>2, <2>3
<1>7. RestOK'
  BY <1>1, <1>6, HandlerRest
<1> HIDE DEF v, next
<1> QED BY <1>2, <1>3, <1>4, <1>5, <1>7, ActivateOK, NodeStep

(* A reply: the count stays below the group, because the last vote ends it. *)
LEMMA ReplyInv ==
  ASSUME Inv, NEW r \in msgs, r.type = "reply", HandleReply(r.to, r)
  PROVE Inv'
<1> DEFINE n == r.to
           s == node[n].status
           asked == s = (IF r.round = 1 THEN "vote" ELSE "announce")
           v == [node[n] EXCEPT !.accepted = IF asked /\ r.ok THEN @ + 1 ELSE @]
           next == CASE s = "vote" -> VoteReply(v, r)
                     [] s = "announce" -> AnnounceReply(v, r)
                     [] OTHER -> s
<1>1. RestOK /\ r \in Wire
  BY InvParts DEF RestOK
<1>2. n \in Nodes /\ r.round \in {1, 2} /\ r.ok \in BOOLEAN
  BY <1>1, WireKinds
<1> HIDE DEF n
<1>3. node[n] \in NodeStates(n) /\ SelfOK(n, node[n])
  BY <1>2, InvParts
<1>4. v \in Counting(n) /\ v.status = s /\ SelfOK(n, v) /\ s \in Statuses
  BY <1>2, <1>3, GroupSize DEF NodeStates, Counting, SelfOK
<1>5. next \in Statuses
  BY <1>4 DEF VoteReply, AnnounceReply, Statuses
<1>6. next = s => v \in NodeStates(n)
  <2> SUFFICES ASSUME next = s PROVE v \in NodeStates(n)
    OBVIOUS
  <2>1. CASE ~(asked /\ r.ok)
    BY <1>2, <1>3, <2>1 DEF NodeStates
  <2>2. CASE asked /\ r.ok
    <3>1. ~AllAccepted(v)
      BY <1>2, <2>2 DEF VoteReply, AnnounceReply
    <3>2. v.accepted \in 0 .. Cardinality(Nodes) - 2
      BY <1>4, <3>1, GroupSize DEF AllAccepted, Counting
    <3> HIDE DEF v
    <3> QED BY <1>4, <3>2 DEF Counting, NodeStates
  <2> QED BY <2>1, <2>2
<1>7. /\ node' = [node EXCEPT ![n] = Activate(n, v, next)]
      /\ msgs' = (msgs \ {r}) \cup OnWire(Sent(n, v, next))
      /\ UNCHANGED <<lsn, normal, ticked, cut, left>>
  BY DEF HandleReply, n
<1> HIDE DEF v, next
<1>8. Activate(n, v, next) \in NodeStates(n) /\ SelfOK(n, Activate(n, v, next))
  <2>1. CASE next = s
    BY <1>2, <1>4, <1>5, <1>6, <2>1, ActivateOK
  <2>2. CASE next # s
    BY <1>2, <1>4, <1>5, <2>2, ActivateOther DEF SelfOK
  <2> QED BY <2>1, <2>2
<1>9. RestOK'
  BY <1>1, <1>2, <1>4, <1>5, <1>7, SentWire, HandlerRest
<1> QED BY <1>2, <1>7, <1>8, <1>9, NodeStep

(* A beat: of two primaries the one that yields names the other and falls
   silent in one step. *)
LEMMA BeatInv ==
  ASSUME Inv, NEW b \in msgs, b.type = "beat", HandleBeat(b.to, b)
  PROVE Inv'
<1> DEFINE n == b.to
           m == b.from
           v == [node[n] EXCEPT !.beat[m] = [lsn |-> b.lsn, weight |-> b.weight,
                                             service |-> b.service]]
           heard == [v EXCEPT !.shift = FALSE, !.stepped = FALSE]
           yield == Activate(n, [heard EXCEPT !.primary = m], "silence")
           found == [Activate(n, heard, "silence") EXCEPT !.primary = m]
           lost == IF v.primary = m THEN [v EXCEPT !.primary = None] ELSE v
           after == CASE b.primary /\ v.primary = n -> IF Yields(n, b) THEN yield ELSE heard
                      [] b.primary /\ v.primary \notin {n, m} -> found
                      [] b.primary /\ v.primary = m -> heard
                      [] OTHER -> lost
<1>1. RestOK /\ b \in Wire
  BY InvParts DEF RestOK
<1>2. /\ n \in Nodes /\ m \in Peers(n) /\ m \in Nodes /\ m # n
      /\ b.lsn \in Nat /\ b.weight \in 0 .. 100 /\ b.service \in {"normal", "abnormal"}
  BY <1>1, WireKinds DEF Peers
<1>3. /\ node' = [node EXCEPT ![n] = Alive(after, m)]
      /\ msgs' = (msgs \ {b}) \cup OnWire({[type |-> "beatRes", from |-> n, to |-> m]})
      /\ UNCHANGED <<lsn, normal, ticked, cut, left>>
  BY DEF HandleBeat
<1> HIDE DEF n, m
<1>4. node[n] \in NodeStates(n) /\ SelfOK(n, node[n])
  BY <1>2, InvParts
<1>5. v \in NodeStates(n) /\ SelfOK(n, v)
  <2> DEFINE beats == [node[n].beat EXCEPT ![m] = [lsn |-> b.lsn, weight |-> b.weight,
                                                   service |-> b.service]]
  <2>1. beats \in [Peers(n) -> Beats]
    BY <1>2, <1>4 DEF NodeStates, Beats
  <2>2. v = [node[n] EXCEPT !.beat = beats]
    BY <1>4 DEF NodeStates
  <2> HIDE DEF beats, v
  <2> QED BY <1>4, <2>1, <2>2 DEF NodeStates, SelfOK
<1> HIDE DEF v
<1>6. heard \in NodeStates(n) /\ SelfOK(n, heard) /\ heard.primary = v.primary
                              /\ heard.status = v.status
  BY <1>5 DEF NodeStates, SelfOK
<1> HIDE DEF heard
<1>7. v.primary = n => yield \in NodeStates(n) /\ SelfOK(n, yield)
  <2> SUFFICES ASSUME v.primary = n PROVE yield \in NodeStates(n) /\ SelfOK(n, yield)
    OBVIOUS
  <2> DEFINE u == [heard EXCEPT !.primary = m]
  <2>1. u \in NodeStates(n) /\ u.primary # n /\ u.status = "primary"
    BY <1>2, <1>5, <1>6 DEF NodeStates, SelfOK
  <2>2. yield = Activate(n, u, "silence")
    OBVIOUS
  <2> HIDE DEF u, yield
  <2> QED BY <1>2, <2>1, <2>2, CountingStates, ActivateOther DEF Statuses
<1>8. v.primary # n => found \in NodeStates(n) /\ SelfOK(n, found)
  <2> SUFFICES ASSUME v.primary # n PROVE found \in NodeStates(n) /\ SelfOK(n, found)
    OBVIOUS
  <2> DEFINE u == Activate(n, heard, "silence")
  <2>1. u \in NodeStates(n) /\ SelfOK(n, u)
    BY <1>2, <1>6, ActivateOK DEF Statuses
  <2>2. u.status = "silence"
    <3>1. CASE heard.status = "silence"
      BY <1>6, <3>1 DEF Activate, NodeStates
    <3>2. CASE heard.status # "silence"
      BY <1>6, <3>2 DEF Activate, Deactivated, NodeStates
    <3> QED BY <3>1, <3>2
  <2>3. found = [u EXCEPT !.primary = m]
    OBVIOUS
  <2> HIDE DEF u, found
  <2> QED BY <1>2, <2>1, <2>2, <2>3 DEF NodeStates, SelfOK
<1>9. lost \in NodeStates(n) /\ SelfOK(n, lost)
  BY <1>2, <1>5, NoneAssumption DEF NodeStates, SelfOK
<1> HIDE DEF yield, found, lost
<1>10. after \in NodeStates(n) /\ SelfOK(n, after)
  BY <1>6, <1>7, <1>8, <1>9
<1> HIDE DEF after
<1>11. RestOK'
  <2>1. {[type |-> "beatRes", from |-> n, to |-> m]} \subseteq Wire
    BY <1>2 DEF Wire, Messages
  <2> QED BY <1>1, <1>3, <2>1, HandlerRest
<1> QED BY <1>2, <1>3, <1>10, <1>11, AliveOK, NodeStep

(* The answer to a beat. *)
LEMMA BeatResInv ==
  ASSUME Inv, NEW r \in msgs, r.type = "beatRes", HandleBeatRes(r.to, r)
  PROVE Inv'
<1>1. RestOK /\ r \in Wire
  BY InvParts DEF RestOK
<1>2. r.to \in Nodes /\ r.from \in Peers(r.to)
  BY <1>1, WireKinds
<1>3. RestOK'
  BY <1>1 DEF HandleBeatRes, RestOK, Wire
<1> QED BY <1>2, <1>3, InvParts, AliveOK, NodeStep DEF HandleBeatRes

(* A step-down: secondary, with the least weight. *)
LEMMA StepDownInv ==
  ASSUME Inv, NEW x \in msgs, HandleStepDown(x.to, x)
  PROVE Inv'
<1> DEFINE n == x.to
           v == [node[n] EXCEPT !.stepped = TRUE]
<1>1. RestOK /\ n \in Nodes
  BY InvParts, WireKinds DEF RestOK
<1>2. node' = [node EXCEPT ![n] = Activate(n, v, "sec")]
  BY <1>1, InvParts DEF HandleStepDown
<1> HIDE DEF n
<1>3. v \in NodeStates(n) /\ SelfOK(n, v)
  <2>1. node[n] \in NodeStates(n) /\ SelfOK(n, node[n])
    BY <1>1, InvParts
  <2> QED BY <2>1 DEF NodeStates, SelfOK
<1>4. RestOK'
  BY <1>1 DEF HandleStepDown, RestOK, Wire
<1> HIDE DEF v
<1> QED BY <1>1, <1>2, <1>3, <1>4, ActivateOK, NodeStep DEF Statuses

(* A forced step-up. *)
LEMMA StepUpInv ==
  ASSUME Inv, NEW x \in msgs, HandleStepUp(x.to, x)
  PROVE Inv'
<1> DEFINE n == x.to
           v == Activate(n, node[n], "primary")
           w == [v EXCEPT !.force = ForceTime]
<1>1. RestOK /\ n \in Nodes
  BY InvParts, WireKinds DEF RestOK
<1>2. node' = [node EXCEPT ![n] = w]
  BY <1>1, InvParts DEF HandleStepUp
<1> HIDE DEF n
<1>3. v \in NodeStates(n) /\ SelfOK(n, v)
  BY <1>1, InvParts, ActivateOK DEF Statuses
<1>4. RestOK'
  BY <1>1 DEF HandleStepUp, RestOK, Wire
<1> HIDE DEF v
<1>5. w \in NodeStates(n) /\ SelfOK(n, w)
  BY <1>3, Bounds DEF NodeStates, SelfOK
<1> HIDE DEF w
<1> QED BY <1>1, <1>2, <1>4, <1>5, NodeStep

-----------------------------------------------------------------------------
(* The timer. *)

(* Sending beats sets dead times. *)
LEMMA AfterBeatsOK ==
  ASSUME NEW n \in Nodes, node[n] \in NodeStates(n), SelfOK(n, node[n])
  PROVE AfterBeats(n) \in NodeStates(n) /\ SelfOK(n, AfterBeats(n))
<1> DEFINE d == node[n].dead
           times == [m \in Peers(n) |->
                       IF d[m] > 0 THEN d[m] - 1
                       ELSE IF {n, m} \in cut /\ m \notin Alives(node[n]) THEN DeadBeats
                       ELSE 0]
<1>1. d \in [Peers(n) -> 0 .. DeadBeats]
  BY DEF NodeStates
<1> HIDE DEF d
<1>2. times \in [Peers(n) -> 0 .. DeadBeats]
  BY <1>1, Bounds
<1>3. AfterBeats(n) = [node[n] EXCEPT !.beatTime = 0, !.dead = times]
  BY DEF AfterBeats, d
<1> HIDE DEF times
<1> QED BY <1>2, <1>3, Bounds DEF NodeStates, SelfOK

(* Time passes in the present status. *)
LEMMA PassedOK ==
  ASSUME NEW n \in Nodes, NEW v \in NodeStates(n), SelfOK(n, v)
  PROVE Shifted(Passed(v)) \in NodeStates(n) /\ SelfOK(n, Shifted(Passed(v)))
<1> DEFINE enough == IF VoteTime < StartShift THEN StartShift ELSE VoteTime
           time == IF v.status = "sec" /\ v.time >= enough THEN v.time ELSE v.time + 1
           u == Passed(v)
<1>1. time \in Nat
  BY DEF NodeStates
<1>2. u = [v EXCEPT !.time = time]
  BY DEF Passed
<1> HIDE DEF time, u
<1>3. u \in NodeStates(n) /\ SelfOK(n, u)
  BY <1>1, <1>2 DEF NodeStates, SelfOK
<1> DEFINE allBeat == \A m \in DOMAIN u.beat : u.beat[m].service # "unknown"
           over == StartShift <= u.time /\ VoteTime <= u.time
           shift == u.shift /\ ~(u.status = "sec" /\ (allBeat \/ over))
<1>4. shift \in BOOLEAN
  OBVIOUS
<1>5. Shifted(u) = [u EXCEPT !.shift = shift]
  BY DEF Shifted
<1> HIDE DEF shift
<1>6. Shifted(u) \in NodeStates(n) /\ SelfOK(n, Shifted(u))
  BY <1>3, <1>4, <1>5 DEF NodeStates, SelfOK
<1> QED BY <1>6 DEF u

(* A time-out leads to a status. *)
LEMMA AfterTimeoutOK ==
  ASSUME NEW n \in Nodes, NEW v \in NodeStates(n)
  PROVE AfterTimeout(n, v) \in Statuses
<1>1. v.status \in Statuses
  BY DEF NodeStates
<1>2. /\ SilenceTimeout(v) \in Statuses /\ SecondaryTimeout(v) \in Statuses
      /\ AnnounceTimeout(v) \in Statuses /\ PrimaryTimeout(v) \in Statuses
  BY DEF SilenceTimeout, SecondaryTimeout, AnnounceTimeout, PrimaryTimeout, Statuses
<1>3. VoteTimeout(n, v) \in Statuses
  BY DEF VoteTimeout, Statuses
<1> QED BY <1>1, <1>2, <1>3 DEF AfterTimeout, Statuses

(* The timer. *)
LEMMA TimerInv ==
  ASSUME Inv, NEW n \in Nodes, Timer(n)
  PROVE Inv'
<1> DEFINE due == node[n].beatTime + 1 >= BeatInterval
           u == IF due THEN AfterBeats(n) ELSE [node[n] EXCEPT !.beatTime = @ + 1]
           v == CheckBreak(u)
           w == Shifted(Passed(v))
           next == AfterTimeout(n, w)
           again == next = "primary" /\ w.status = "primary" /\ VoteTime <= w.time
           after == IF v.force > 0 THEN [v EXCEPT !.force = @ - 1]
                    ELSE IF again THEN [w EXCEPT !.time = 0]
                    ELSE Activate(n, w, next)
           out == (IF due THEN SharingBeats(n) ELSE {})
                    \cup (IF v.force > 0 THEN {} ELSE Sent(n, w, next))
<1>1. RestOK /\ node[n] \in NodeStates(n) /\ SelfOK(n, node[n])
  BY InvParts
<1>2. u \in NodeStates(n) /\ SelfOK(n, u)
  <2>1. CASE due
    BY <1>1, <2>1, AfterBeatsOK
  <2>2. CASE ~due
    <3>1. node[n].beatTime + 1 \in 0 .. BeatInterval
      BY <1>1, <2>2, Bounds DEF NodeStates
    <3>2. u = [node[n] EXCEPT !.beatTime = node[n].beatTime + 1]
      BY <2>2
    <3> HIDE DEF u
    <3> QED BY <1>1, <3>1, <3>2 DEF NodeStates, SelfOK
  <2> QED BY <2>1, <2>2
<1>3. /\ node' = [node EXCEPT ![n] = after]
      /\ msgs' = msgs \cup OnWire(out)
      /\ ticked' = ticked \cup {n}
      /\ UNCHANGED <<lsn, normal, cut, left>>
  BY DEF Timer
<1> HIDE DEF u
<1>4. v \in NodeStates(n) /\ SelfOK(n, v)
  BY <1>2, CheckBreakOK
<1> HIDE DEF v
<1>5. w \in NodeStates(n) /\ SelfOK(n, w)
  BY <1>4, PassedOK
<1> HIDE DEF w
<1>6. next \in Statuses
  BY <1>5, AfterTimeoutOK
<1> HIDE DEF next
<1>7. after \in NodeStates(n) /\ SelfOK(n, after)
  <2>1. CASE v.force > 0
    <3>1. v.force - 1 \in 0 .. ForceTime
      BY <1>4, <2>1, Bounds DEF NodeStates
    <3>2. after = [v EXCEPT !.force = v.force - 1]
      BY <2>1
    <3> HIDE DEF after
    <3> QED BY <1>4, <3>1, <3>2 DEF NodeStates, SelfOK
  <2>2. CASE ~(v.force > 0) /\ again
    <3>1. after = [w EXCEPT !.time = 0]
      BY <2>2
    <3> HIDE DEF after
    <3> QED BY <1>5, <3>1 DEF NodeStates, SelfOK
  <2>3. CASE ~(v.force > 0) /\ ~again
    <3>1. after = Activate(n, w, next)
      BY <2>3
    <3> HIDE DEF after
    <3> QED BY <1>5, <1>6, <3>1, ActivateOK
  <2> HIDE DEF after, again
  <2> QED BY <2>1, <2>2, <2>3
<1>8. out \subseteq Wire
  <2>1. SharingBeats(n) \subseteq Wire
    BY <1>1, BeatsWire
  <2>2. Sent(n, w, next) \subseteq Wire
    BY <1>1, <1>5, <1>6, CountingStates, SentWire
  <2> QED BY <2>1, <2>2
<1> HIDE DEF out, after
<1>9. RestOK'
  BY <1>1, <1>3, <1>8, OnWireSubset DEF RestOK, Wire
<1> QED BY <1>3, <1>7, <1>9, NodeStep

-----------------------------------------------------------------------------
(* Requests and the environment. *)

(* A node starts silent, without a primary. *)
LEMMA StartedOK ==
  ASSUME NEW n \in Nodes
  PROVE Started(n) \in NodeStates(n) /\ SelfOK(n, Started(n))
<1>1. /\ [m \in Peers(n) |-> 0] \in [Peers(n) -> 0 .. BreakTime]
      /\ [m \in Peers(n) |-> 0] \in [Peers(n) -> 0 .. DeadBeats]
      /\ [m \in Peers(n) |-> NoBeat] \in [Peers(n) -> Beats]
  BY Bounds DEF NoBeat, Beats
<1>2. None # n
  BY NoneAssumption
<1> QED BY <1>1, <1>2, Bounds DEF Started, NodeStates, SelfOK, FirstStatus, Statuses

(* Asking for a reelection, and its end. *)
LEMMA ReelectInv ==
  ASSUME Inv, NEW n \in Nodes, Reelect(n) \/ StepDown(n) \/ ReelectFailed(n)
  PROVE Inv'
<1>1. RestOK /\ node[n] \in NodeStates(n) /\ SelfOK(n, node[n])
  BY InvParts
<1>2. \E r \in BOOLEAN : node' = [node EXCEPT ![n] = [node[n] EXCEPT !.reelecting = r]]
  BY InvParts DEF Reelect, StepDown, ReelectFailed
<1>3. PICK r \in BOOLEAN : node' = [node EXCEPT ![n] = [node[n] EXCEPT !.reelecting = r]]
  BY <1>2
<1> DEFINE w == [node[n] EXCEPT !.reelecting = r]
<1>4. w \in NodeStates(n) /\ SelfOK(n, w)
  BY <1>1 DEF NodeStates, SelfOK
<1>5. [type |-> "stepDown", from |-> n, to |-> n] \in Wire
  BY DEF Wire, Events
<1>6. RestOK'
  BY <1>1, <1>5 DEF Reelect, StepDown, ReelectFailed, Post, RestOK, Wire, Faults
<1> HIDE DEF w
<1> QED BY <1>3, <1>4, <1>6, NodeStep DEF w

(* Asking for a forced step-up. *)
LEMMA AskStepUpInv ==
  ASSUME Inv, NEW n \in Nodes, StepUp(n)
  PROVE Inv'
<1>1. [type |-> "stepUp", from |-> n, to |-> n] \in Wire
  BY DEF Wire, Events
<1>2. RestOK'
  BY <1>1, InvParts DEF StepUp, Post, RestOK, Wire, Faults
<1>3. node' = node
  BY DEF StepUp
<1> QED BY <1>2, <1>3 DEF Inv, TypeOK, PrimaryIsSelf, RestOK, Wire

(* A restart. *)
LEMMA RestartInv ==
  ASSUME Inv, NEW n \in Nodes, Restart(n)
  PROVE Inv'
<1>1. RestOK'
  BY InvParts DEF Restart, RestOK, Wire, Faults
<1> QED BY <1>1, StartedOK, NodeStep DEF Restart

(* Replication. *)
LEMMA SynchroniseInv ==
  ASSUME Inv, NEW n \in Nodes, Synchronise(n)
  PROVE Inv'
<1>1. node[n].primary \in Nodes
  BY InvParts DEF Synchronise, NodeStates
<1>2. RestOK'
  BY <1>1, InvParts DEF Synchronise, RestOK, Wire
<1>3. node' = node
  BY DEF Synchronise
<1> QED BY <1>2, <1>3 DEF Inv, TypeOK, PrimaryIsSelf, RestOK, Wire

(* A message of a replication session. *)
LEMMA AliveNodeInv ==
  ASSUME Inv, NEW n \in Nodes, NEW m \in Peers(n), AliveNode(n, m)
  PROVE Inv'
<1>1. RestOK'
  BY InvParts DEF AliveNode, RestOK, Wire
<1>2. node' = [node EXCEPT ![n] = Alive(node[n], m)]
  BY InvParts DEF AliveNode
<1> QED BY <1>1, <1>2, InvParts, AliveOK, NodeStep

(* The next round. *)
LEMMA EndRoundInv ==
  ASSUME Inv, EndRound
  PROVE Inv'
<1>1. RestOK'
  BY InvParts DEF EndRound, RestOK, Wire, Faults
<1>2. node' = node
  BY DEF EndRound
<1> QED BY <1>1, <1>2 DEF Inv, TypeOK, PrimaryIsSelf, RestOK, Wire

-----------------------------------------------------------------------------

(* The group starts in the invariant. *)
LEMMA InvInit == Init => Inv
<1> SUFFICES ASSUME Init PROVE Inv
  OBVIOUS
<1>1. lsn \in [Nodes -> Nat] /\ left \in Faults
  <2>1. PICK s \in Scenarios : lsn = s.logs /\ left = s.faults
    BY DEF Init
  <2>2. s.logs \in [Nodes -> Nat] /\ s.faults \in Faults
    BY ScenarioAssumption
  <2> QED BY <2>1, <2>2
<1>2. RestOK
  BY <1>1 DEF Init, RestOK
<1>3. DOMAIN node = Nodes /\ \A n \in Nodes : node[n] = Started(n)
  BY DEF Init
<1> QED BY <1>2, <1>3, StartedOK, InvParts

(* Every step keeps the invariant. *)
LEMMA InvNext == Inv /\ [Next]_vars => Inv'
<1> SUFFICES ASSUME Inv, [Next]_vars PROVE Inv'
  OBVIOUS
<1>1. CASE HandleBeats
  BY <1>1, BeatInv, BeatResInv DEF HandleBeats
<1>2. CASE HandleMsg
  BY <1>2, BallotInv, ReplyInv, StepDownInv, StepUpInv DEF HandleMsg
<1>3. CASE \E n \in Nodes : Timer(n)
  BY <1>3, TimerInv
<1>4. CASE EndRound
  BY <1>4, EndRoundInv
<1>5. CASE Environment
  BY <1>5, ReelectInv, AskStepUpInv, RestartInv, SynchroniseInv, AliveNodeInv
     DEF Environment
<1>6. CASE UNCHANGED vars
  BY <1>6 DEF vars, Inv, TypeOK, PrimaryIsSelf
<1> QED BY <1>1, <1>2, <1>3, <1>4, <1>5, <1>6 DEF Next, Protocol

(* The vote machine, its counters and its messages keep their types: a count of
   votes never reaches the whole group, because _clsVSVote and _clsVSAnnounce
   leave the status with the last acceptance. *)
THEOREM TypeCorrect == Spec => []TypeOK
<1>1. Inv => TypeOK
  BY DEF Inv
<1> QED BY <1>1, InvInit, InvNext, PTL DEF Spec

(* Whatever the handlers, restarts and forced steps do, the vote status of a
   node is primary exactly when primaryIsMe holds for the sessions. *)
THEOREM PrimaryNamesItself == Spec => []PrimaryIsSelf
<1>1. Inv => PrimaryIsSelf
  BY DEF Inv
<1> QED BY <1>1, InvInit, InvNext, PTL DEF Spec

-----------------------------------------------------------------------------
(* Who wins has a log as long as those of a majority. *)

(* The messages of the second round that n has on the way in S. *)
Asked(n, S) ==
  {x \in S : \/ x.type = "ballot" /\ x.round = 2 /\ x.from = n
             \/ x.type = "reply" /\ x.round = 2 /\ x.to = n}

(* The peers that may have answered n already, with logs L not ahead of n's. *)
Granted(n, S, L) ==
  {m \in Peers(n) : L[m] <= L[n] /\ \A x \in Asked(n, S) : m # x.from /\ m # x.to}

(* What is on the way of a candidate: its present log on the ballots, acceptance
   only by logs that are not ahead, and one message for each peer. *)
AskedOK(n, S, L) ==
  /\ \A x \in Asked(n, S) : /\ x.type = "ballot" => x.lsn = L[n]
                            /\ x.type = "reply" /\ x.ok => L[x.from] <= L[n]
  /\ \A x, y \in Asked(n, S) : {x.from, x.to} = {y.from, y.to} => x = y

(* A candidate in the announce status. *)
Candidate(n, v, S, L) ==
  v.status = "announce" =>
    /\ v.accepted <= Cardinality(Granted(n, S, L))
    /\ v.primary = None \/ (v.accepted = 0 /\ Asked(n, S) = {})
    /\ AskedOK(n, S, L)

(* Messages of an announcement that is over meet a node that cannot announce
   again in this round; T are the nodes whose timers have fired. *)
Late(n, v, T) ==
  \/ v.status \in {"silence", "primary"}
  \/ v.status = "sec" /\ v.time < VoteTime /\ (n \notin T => v.time = 0)

Idle(n, v, S, T) == v.status # "announce" /\ Asked(n, S) # {} => Late(n, v, T)

(* Nobody was or will be forced to step up. *)
NoForce == left.up = 0 /\ \A x \in msgs : x.type # "stepUp"

WinInv ==
  /\ Inv /\ NoForce
  /\ \A n \in Nodes : Candidate(n, node[n], msgs, lsn) /\ Idle(n, node[n], msgs, ticked)

(* No log passes that of a node that is announcing: nobody else is primary then
   and sends its log. *)
LogsStay ==
  \A n, m \in Nodes : node[n].status = "announce" /\ lsn[m] <= lsn[n] => lsn'[m] <= lsn[n]

AllNormal == \A n \in Nodes : normal[n]

-----------------------------------------------------------------------------

(* Peers are finitely many. *)
LEMMA PeersFinite ==
  ASSUME NEW n \in Nodes
  PROVE /\ IsFiniteSet(Peers(n)) /\ Cardinality(Peers(n)) = Cardinality(Nodes) - 1
        /\ \A Q \in SUBSET Peers(n) : /\ IsFiniteSet(Q) /\ Cardinality(Q) \in Nat
                                      /\ Cardinality(Q) <= Cardinality(Nodes) - 1
<1>1. IsFiniteSet(Peers(n)) /\ Cardinality(Peers(n)) = Cardinality(Nodes) - 1
  BY NodesAssumption, FS_RemoveElement DEF Peers
<1>2. ASSUME NEW Q \in SUBSET Peers(n)
      PROVE /\ IsFiniteSet(Q) /\ Cardinality(Q) \in Nat
            /\ Cardinality(Q) <= Cardinality(Nodes) - 1
  BY <1>1, FS_Subset, FS_CardinalityType
<1> QED BY <1>1, <1>2

(* Fewer messages on the way are fewer peers that have not answered. *)
LEMMA GrantedGrows ==
  ASSUME NEW n \in Nodes, NEW S, NEW S2, NEW L \in [Nodes -> Nat], NEW L2 \in [Nodes -> Nat],
         L2[n] = L[n], \A m \in Nodes : L[m] <= L[n] => L2[m] <= L[n],
         Asked(n, S2) \subseteq Asked(n, S)
  PROVE /\ Granted(n, S, L) \subseteq Granted(n, S2, L2)
        /\ Cardinality(Granted(n, S, L)) <= Cardinality(Granted(n, S2, L2))
        /\ Cardinality(Granted(n, S, L)) \in Nat /\ Cardinality(Granted(n, S2, L2)) \in Nat
<1>1. Granted(n, S, L) \subseteq Granted(n, S2, L2)
  BY DEF Granted, Peers
<1>2. Granted(n, S2, L2) \in SUBSET Peers(n) /\ Granted(n, S, L) \in SUBSET Peers(n)
  BY DEF Granted
<1>3. IsFiniteSet(Granted(n, S2, L2)) /\ Cardinality(Granted(n, S2, L2)) \in Nat
      /\ Cardinality(Granted(n, S, L)) \in Nat
  BY <1>2, PeersFinite
<1> QED BY <1>1, <1>3, FS_Subset

(* A candidate that goes on, with fewer messages on the way. *)
LEMMA CandidateKept ==
  ASSUME NEW n \in Nodes, NEW v, NEW w, NEW S, NEW S2,
         NEW L \in [Nodes -> Nat], NEW L2 \in [Nodes -> Nat],
         Candidate(n, v, S, L), v.accepted \in Nat,
         w.status = "announce" => /\ v.status = "announce" /\ w.accepted = v.accepted
                                  /\ w.primary \in {v.primary, None}
                                  /\ L2[n] = L[n]
                                  /\ \A m \in Nodes : L[m] <= L[n] => L2[m] <= L[n],
         Asked(n, S2) \subseteq Asked(n, S),
         \A x \in S2 : x.type = "reply" => x.from \in Nodes
  PROVE Candidate(n, w, S2, L2)
<1> SUFFICES ASSUME w.status = "announce"
             PROVE /\ w.accepted <= Cardinality(Granted(n, S2, L2))
                   /\ w.primary = None \/ (w.accepted = 0 /\ Asked(n, S2) = {})
                   /\ AskedOK(n, S2, L2)
  BY DEF Candidate
<1>1. /\ v.accepted <= Cardinality(Granted(n, S, L))
      /\ v.primary = None \/ (v.accepted = 0 /\ Asked(n, S) = {})
      /\ AskedOK(n, S, L)
  BY DEF Candidate
<1>2. w.accepted <= Cardinality(Granted(n, S2, L2))
  BY <1>1, GrantedGrows
<1>3. w.primary = None \/ (w.accepted = 0 /\ Asked(n, S2) = {})
  BY <1>1
<1>4. AskedOK(n, S2, L2)
  <2>1. \A x \in Asked(n, S2) : x \in Asked(n, S) /\ (x.type = "reply" => x.from \in Nodes)
    BY DEF Asked
  <2> QED BY <1>1, <2>1 DEF AskedOK
<1> QED BY <1>2, <1>3, <1>4

(* A node that is not announcing, with fewer messages on the way. *)
LEMMA IdleKept ==
  ASSUME NEW n, NEW v, NEW w, NEW S, NEW S2, NEW T, NEW T2,
         Idle(n, v, S, T), Asked(n, S2) \subseteq Asked(n, S),
         w.status # "announce" =>
           \/ w.status = v.status /\ w.time = v.time /\ (n \in T => n \in T2)
           \/ Late(n, w, T2)
  PROVE Idle(n, w, S2, T2)
BY DEF Idle, Late

(* What a change of the status does to the fields the argument looks at. *)
LEMMA ActivateFields ==
  ASSUME NEW n \in Nodes, NEW v \in Counting(n), NEW next \in Statuses
  PROVE /\ Activate(n, v, next).status = next
        /\ next = v.status => /\ Activate(n, v, next).time = v.time
                              /\ Activate(n, v, next).accepted = v.accepted
                              /\ Activate(n, v, next).primary = v.primary
        /\ next # v.status => /\ Activate(n, v, next).time = 0
                              /\ Activate(n, v, next).accepted = 0
        /\ next # v.status /\ next # "primary" =>
             Activate(n, v, next).primary = Deactivated(n, v).primary
<1>1. CASE next = v.status
  <2>1. Activate(n, v, next) = [v EXCEPT !.force = 0]
    BY <1>1 DEF Activate
  <2> QED BY <1>1, <2>1 DEF Counting
<1>2. CASE next # v.status
  <2> DEFINE d == Deactivated(n, v)
             w == [d EXCEPT !.status = next, !.time = 0, !.accepted = 0, !.force = 0]
  <2>1. d \in Counting(n)
    BY DEF Deactivated, Counting
  <2>2. Activate(n, v, next) = IF next = "primary" THEN PrimaryActive(n, w) ELSE w
    BY <1>2 DEF Activate
  <2> HIDE DEF d
  <2>3. w.status = next /\ w.time = 0 /\ w.accepted = 0 /\ w.primary = d.primary
    BY <2>1 DEF Counting
  <2>4. w \in Counting(n)
    <3> DEFINE c == [d EXCEPT !.status = next, !.time = 0]
    <3>1. c \in Counting(n)
      BY <2>1 DEF Counting
    <3>2. w = [c EXCEPT !.accepted = 0, !.force = 0]
      BY <2>1 DEF Counting
    <3> HIDE DEF c, w
    <3> QED BY <3>1, <3>2, Bounds DEF Counting
  <2> HIDE DEF w
  <2>5. CASE next = "primary"
    BY <1>2, <2>2, <2>3, <2>4, <2>5 DEF PrimaryActive, Counting
  <2>6. CASE next # "primary"
    BY <1>2, <2>2, <2>3, <2>6 DEF d
  <2> QED BY <2>5, <2>6
<1> QED BY <1>1, <1>2

(* Only a primary loses its own name. *)
LEMMA DeactivatedPrimary ==
  ASSUME NEW n \in Nodes, NEW v \in Counting(n)
  PROVE /\ Deactivated(n, v).primary \in {v.primary, None}
        /\ v.status # "primary" => Deactivated(n, v) = v
        /\ Deactivated(n, v) \in Counting(n)
BY DEF Deactivated, Counting

(* A step of one node that leaves the other candidates alone. *)
LEMMA WinStep ==
  ASSUME WinInv, Inv', NoForce', NEW k \in Nodes, NEW w,
         node' = [node EXCEPT ![k] = w], lsn' = lsn, ticked \subseteq ticked',
         \A n \in Nodes \ {k} : Asked(n, msgs') \subseteq Asked(n, msgs),
         Candidate(k, w, msgs', lsn), Idle(k, w, msgs', ticked')
  PROVE WinInv'
<1>1. /\ DOMAIN node = Nodes /\ lsn \in [Nodes -> Nat]
      /\ \A n \in Nodes : node[n] \in NodeStates(n)
  BY InvParts DEF WinInv, RestOK
<1>2. \A x \in msgs' : x.type = "reply" => x.from \in Nodes
  <2>1. msgs' \subseteq Wire
    BY DEF Inv, TypeOK, Wire
  <2> QED BY <2>1, WireKinds
<1>3. ASSUME NEW n \in Nodes
      PROVE Candidate(n, node'[n], msgs', lsn) /\ Idle(n, node'[n], msgs', ticked')
  <2>1. CASE n = k
    BY <1>1, <2>1
  <2>2. CASE n # k
    <3>1. node'[n] = node[n] /\ Asked(n, msgs') \subseteq Asked(n, msgs)
      BY <1>1, <2>2
    <3>2. Candidate(n, node[n], msgs, lsn) /\ Idle(n, node[n], msgs, ticked)
      BY DEF WinInv
    <3>3. node[n].accepted \in Nat /\ node[n].status = node[n].status
      BY <1>1, GroupSize DEF NodeStates
    <3>4. Candidate(n, node[n], msgs', lsn)
      BY <1>1, <1>2, <3>1, <3>2, <3>3, CandidateKept
    <3>5. Idle(n, node[n], msgs', ticked')
      BY <3>1, <3>2, IdleKept
    <3> QED BY <3>1, <3>4, <3>5
  <2> QED BY <2>1, <2>2
<1> QED BY <1>3 DEF WinInv

(* What WinnerUpToDate says of a step. *)
Winners ==
  \A n \in Primaries' \ Primaries : Most({m \in Nodes : lsn[m] <= lsn[n]})

(* Enough votes are enough logs. *)
LEMMA GrantedMost ==
  ASSUME NEW n \in Nodes, NEW S, NEW k \in Nat, lsn \in [Nodes -> Nat],
         k <= Cardinality(Granted(n, S, lsn)), IsMajority(k + 1)
  PROVE Most({m \in Nodes : lsn[m] <= lsn[n]})
<1> DEFINE G == Granted(n, S, lsn)
           Q == {m \in Nodes : lsn[m] <= lsn[n]}
<1>1. G \in SUBSET Peers(n) /\ n \notin G
  BY DEF Granted, Peers
<1>2. IsFiniteSet(G) /\ Cardinality(G) \in Nat
  BY <1>1, PeersFinite
<1>3. IsFiniteSet(Q) /\ Cardinality(Q) \in Nat
  BY NodesAssumption, FS_Subset, FS_CardinalityType
<1>4. G \cup {n} \subseteq Q
  BY DEF Granted, Peers
<1> HIDE DEF G, Q
<1>5. Cardinality(G \cup {n}) = Cardinality(G) + 1 /\ Cardinality(G \cup {n}) <= Cardinality(Q)
  BY <1>1, <1>2, <1>3, <1>4, FS_AddElement, FS_Subset
<1>6. k + 1 <= Cardinality(Q)
  BY <1>2, <1>3, <1>5 DEF G
<1>7. 2 * Cardinality(Q) > Cardinality(Nodes)
  BY <1>3, <1>6, GroupSize DEF IsMajority
<1> QED BY <1>7 DEF Most, Q

(* A step of one node that does not get into the announce status and takes no
   message of a second round, and changes nothing else. *)
LEMMA PlainStep ==
  ASSUME WinInv, Inv', NoForce', NEW k \in Nodes, NEW w,
         node' = [node EXCEPT ![k] = w], lsn' = lsn, ticked \subseteq ticked',
         \A n \in Nodes : Asked(n, msgs') \subseteq Asked(n, msgs),
         w.status = "announce" => /\ node[k].status = "announce"
                                  /\ w.accepted = node[k].accepted
                                  /\ w.primary \in {node[k].primary, None},
         w.status # "announce" => \/ w.status = node[k].status /\ w.time = node[k].time
                                  \/ Late(k, w, ticked'),
         w.status = "primary" => node[k].status = "primary"
  PROVE WinInv' /\ Primaries' \subseteq Primaries
<1>1. lsn \in [Nodes -> Nat] /\ node[k].accepted \in Nat
  BY InvParts, GroupSize DEF WinInv, RestOK, NodeStates
<1>2. \A x \in msgs' : x.type = "reply" => x.from \in Nodes
  <2>1. msgs' \subseteq Wire
    BY DEF Inv, TypeOK, Wire
  <2> QED BY <2>1, WireKinds
<1>3. Candidate(k, node[k], msgs, lsn) /\ Idle(k, node[k], msgs, ticked)
  BY DEF WinInv
<1>4. Candidate(k, w, msgs', lsn)
  BY <1>1, <1>2, <1>3, CandidateKept
<1>5. Idle(k, w, msgs', ticked')
  BY <1>3, IdleKept
<1>6. Primaries' \subseteq Primaries
  BY InvParts DEF WinInv, Primaries
<1> QED BY <1>4, <1>5, <1>6, WinStep

(* Messages that are not of a second round do not count. *)
LEMMA AskedFewer ==
  ASSUME NEW n, NEW S, NEW S2, NEW out, S2 \subseteq S \cup out,
         \A x \in out : x.type \notin {"ballot", "reply"} \/ x.round # 2
  PROVE Asked(n, S2) \subseteq Asked(n, S)
BY DEF Asked

-----------------------------------------------------------------------------

(* A beat ends an announcement or leaves it as it is. *)
LEMMA BeatWin ==
  ASSUME WinInv, NEW b \in msgs, b.type = "beat", HandleBeat(b.to, b)
  PROVE WinInv' /\ Primaries' \subseteq Primaries
<1> DEFINE n == b.to
           m == b.from
           v == [node[n] EXCEPT !.beat[m] = [lsn |-> b.lsn, weight |-> b.weight,
                                             service |-> b.service]]
           heard == [v EXCEPT !.shift = FALSE, !.stepped = FALSE]
           yield == Activate(n, [heard EXCEPT !.primary = m], "silence")
           found == [Activate(n, heard, "silence") EXCEPT !.primary = m]
           lost == IF v.primary = m THEN [v EXCEPT !.primary = None] ELSE v
           after == CASE b.primary /\ v.primary = n -> IF Yields(n, b) THEN yield ELSE heard
                      [] b.primary /\ v.primary \notin {n, m} -> found
                      [] b.primary /\ v.primary = m -> heard
                      [] OTHER -> lost
           w == Alive(after, m)
<1>1. Inv /\ RestOK /\ b \in Wire
  BY InvParts DEF RestOK, WinInv
<1>2. /\ n \in Nodes /\ m \in Peers(n) /\ m \in Nodes /\ m # n
      /\ b.lsn \in Nat /\ b.weight \in 0 .. 100 /\ b.service \in {"normal", "abnormal"}
  BY <1>1, WireKinds DEF Peers
<1>3. /\ node' = [node EXCEPT ![n] = w]
      /\ msgs' = (msgs \ {b}) \cup OnWire({[type |-> "beatRes", from |-> n, to |-> m]})
      /\ UNCHANGED <<lsn, normal, ticked, cut, left>>
  BY DEF HandleBeat
<1>4. Inv'
  BY <1>1, BeatInv
<1> HIDE DEF n, m
<1>5. node[n] \in NodeStates(n) /\ SelfOK(n, node[n])
  BY <1>1, <1>2, InvParts
<1> DEFINE Same(u) == /\ u.status = node[n].status /\ u.time = node[n].time
                      /\ u.accepted = node[n].accepted
<1>6. v \in NodeStates(n) /\ Same(v) /\ v.primary = node[n].primary
  <2> DEFINE beats == [node[n].beat EXCEPT ![m] = [lsn |-> b.lsn, weight |-> b.weight,
                                                   service |-> b.service]]
  <2>1. beats \in [Peers(n) -> Beats]
    BY <1>2, <1>5 DEF NodeStates, Beats
  <2>2. v = [node[n] EXCEPT !.beat = beats]
    BY <1>5 DEF NodeStates
  <2> HIDE DEF beats, v
  <2> QED BY <1>5, <2>1, <2>2 DEF NodeStates
<1> HIDE DEF v
<1>7. heard \in NodeStates(n) /\ Same(heard) /\ heard.primary = v.primary
  BY <1>6 DEF NodeStates
<1> HIDE DEF heard
<1>8. yield.status = "silence" /\ DOMAIN yield = DOMAIN v
  <2> DEFINE u == [heard EXCEPT !.primary = m]
  <2>1. u \in NodeStates(n)
    BY <1>2, <1>7 DEF NodeStates
  <2>2. yield = Activate(n, u, "silence")
    OBVIOUS
  <2> HIDE DEF u, yield
  <2>3. yield.status = "silence"
    BY <1>2, <2>1, <2>2, CountingStates, ActivateFields DEF Statuses
  <2> QED BY <2>1, <2>2, <2>3, <1>6 DEF Activate, Deactivated, PrimaryActive, NodeStates
<1>9. found.status = "silence" /\ DOMAIN found = DOMAIN v
  <2> DEFINE u == Activate(n, heard, "silence")
  <2>1. u.status = "silence"
    BY <1>2, <1>7, CountingStates, ActivateFields DEF Statuses
  <2>2. DOMAIN u = DOMAIN v
    BY <1>7, <1>6 DEF Activate, Deactivated, PrimaryActive, NodeStates
  <2>3. found = [u EXCEPT !.primary = m]
    OBVIOUS
  <2> HIDE DEF u, found
  <2> QED BY <2>1, <2>2, <2>3
<1>10. lost \in NodeStates(n) /\ Same(lost) /\ lost.primary \in {node[n].primary, None}
  BY <1>6 DEF NodeStates
<1> HIDE DEF yield, found, lost
<1>11. \/ after.status = "silence"
       \/ Same(after) /\ after.primary \in {node[n].primary, None}
  BY <1>6, <1>7, <1>8, <1>9, <1>10
<1>12. DOMAIN after = DOMAIN v
  BY <1>6, <1>7, <1>8, <1>9, <1>10 DEF NodeStates
<1> HIDE DEF after
<1>13. /\ w.status = after.status /\ w.time = after.time /\ w.accepted = after.accepted
       /\ w.primary = after.primary
  BY <1>6, <1>12 DEF Alive, NodeStates
<1> HIDE DEF w
<1>14. NoForce'
  BY <1>3, OnWireSubset DEF NoForce, WinInv
<1>15. \A k \in Nodes : Asked(k, msgs') \subseteq Asked(k, msgs)
  <2> DEFINE out == {[type |-> "beatRes", from |-> n, to |-> m]}
  <2>1. msgs' \subseteq msgs \cup out
    BY <1>3, OnWireSubset
  <2>2. \A x \in out : x.type = "beatRes"
    OBVIOUS
  <2> HIDE DEF out
  <2> QED BY <2>1, <2>2, AskedFewer
<1>16. w.status # "announce" => \/ w.status = node[n].status /\ w.time = node[n].time
                                \/ Late(n, w, ticked')
  BY <1>11, <1>13 DEF Late
<1>17. w.status = "announce" => /\ node[n].status = "announce"
                                /\ w.accepted = node[n].accepted
                                /\ w.primary \in {node[n].primary, None}
  BY <1>11, <1>13
<1>18. lsn' = lsn /\ ticked \subseteq ticked' /\ node' = [node EXCEPT ![n] = w]
  BY <1>3
<1>19. w.status = "primary" => node[n].status = "primary"
  BY <1>11, <1>13
<1> QED BY <1>2, <1>4, <1>14, <1>15, <1>16, <1>17, <1>18, <1>19, PlainStep

(* Steps that change fields of a node the argument does not look at. *)
LEMMA FieldsWin ==
  ASSUME WinInv, Inv', NoForce', NEW k \in Nodes, NEW w,
         node' = [node EXCEPT ![k] = w], lsn' = lsn, ticked' = ticked,
         \A x \in msgs' : x \in msgs \/ x.type \notin {"ballot", "reply"},
         \/ Late(k, w, ticked)
         \/ /\ w.status = node[k].status /\ w.time = node[k].time
            /\ w.accepted = node[k].accepted /\ w.primary = node[k].primary,
         w.status = "primary" => node[k].status = "primary"
  PROVE WinInv' /\ Primaries' \subseteq Primaries
<1>1. \A n \in Nodes : Asked(n, msgs') \subseteq Asked(n, msgs)
  BY DEF Asked
<1>2. w.status = "announce" => /\ node[k].status = "announce"
                               /\ w.accepted = node[k].accepted
                               /\ w.primary \in {node[k].primary, None}
  BY DEF Late
<1> QED BY <1>1, <1>2, PlainStep

(* The answer to a beat. *)
LEMMA BeatResWin ==
  ASSUME WinInv, NEW r \in msgs, r.type = "beatRes", HandleBeatRes(r.to, r)
  PROVE WinInv' /\ Primaries' \subseteq Primaries
<1> DEFINE n == r.to
           w == Alive(node[n], r.from)
<1>1. Inv /\ RestOK /\ r \in Wire /\ NoForce
  BY InvParts DEF RestOK, WinInv
<1>2. n \in Nodes /\ node[n] \in NodeStates(n)
  BY <1>1, WireKinds, InvParts
<1>3. Inv'
  BY <1>1, BeatResInv
<1>4. node' = [node EXCEPT ![n] = w] /\ msgs' = msgs \ {r} /\ UNCHANGED <<lsn, ticked, left>>
  BY DEF HandleBeatRes
<1>5. /\ w.status = node[n].status /\ w.time = node[n].time
      /\ w.accepted = node[n].accepted /\ w.primary = node[n].primary
  BY <1>2 DEF Alive, NodeStates
<1>6. NoForce'
  BY <1>1, <1>4 DEF NoForce
<1> HIDE DEF n, w
<1> QED BY <1>2, <1>3, <1>4, <1>5, <1>6, FieldsWin

(* A message of a replication session. *)
LEMMA AliveNodeWin ==
  ASSUME WinInv, NEW n \in Nodes, NEW m \in Peers(n), AliveNode(n, m)
  PROVE WinInv' /\ Primaries' \subseteq Primaries
<1> DEFINE w == Alive(node[n], m)
<1>1. Inv /\ NoForce /\ node[n] \in NodeStates(n)
  BY InvParts DEF WinInv
<1>2. Inv'
  BY <1>1, AliveNodeInv
<1>3. node' = [node EXCEPT ![n] = w] /\ UNCHANGED <<lsn, ticked, left, msgs>>
  BY DEF AliveNode
<1>4. /\ w.status = node[n].status /\ w.time = node[n].time
      /\ w.accepted = node[n].accepted /\ w.primary = node[n].primary
  BY <1>1 DEF Alive, NodeStates
<1>5. NoForce'
  BY <1>1, <1>3 DEF NoForce
<1> HIDE DEF w
<1> QED BY <1>2, <1>3, <1>4, <1>5, FieldsWin

(* A step-down, after which VoteTime has to pass. *)
LEMMA StepDownWin ==
  ASSUME WinInv, VoteTime > 1, NEW x \in msgs, x.type = "stepDown", HandleStepDown(x.to, x)
  PROVE WinInv' /\ Primaries' \subseteq Primaries
<1> DEFINE n == x.to
           v == [node[n] EXCEPT !.stepped = TRUE]
           w == Activate(n, v, "sec")
<1>1. Inv /\ RestOK /\ NoForce /\ n \in Nodes
  BY InvParts, WireKinds DEF RestOK, WinInv
<1>2. node' = [node EXCEPT ![n] = w] /\ msgs' = msgs \ {x} /\ UNCHANGED <<lsn, ticked, left>>
  BY <1>1, InvParts DEF HandleStepDown
<1>3. Inv'
  BY <1>1, StepDownInv
<1> HIDE DEF n
<1>4. node[n] \in NodeStates(n)
  BY <1>1, InvParts
<1>5. v \in Counting(n) /\ v.status = node[n].status /\ v.time = node[n].time
      /\ v.accepted = node[n].accepted /\ v.primary = node[n].primary
  <2>1. v \in NodeStates(n) /\ v.status = node[n].status /\ v.time = node[n].time
        /\ v.accepted = node[n].accepted /\ v.primary = node[n].primary
    BY <1>4 DEF NodeStates
  <2> QED BY <1>1, <2>1, CountingStates
<1> HIDE DEF v
<1>6. /\ w.status = "sec"
      /\ "sec" = v.status => w.time = v.time /\ w.accepted = v.accepted /\ w.primary = v.primary
      /\ "sec" # v.status => w.time = 0
  BY <1>1, <1>5, ActivateFields DEF Statuses
<1> HIDE DEF w
<1>7. \/ Late(n, w, ticked)
      \/ /\ w.status = node[n].status /\ w.time = node[n].time
         /\ w.accepted = node[n].accepted /\ w.primary = node[n].primary
  BY <1>5, <1>6, Bounds DEF Late
<1>8. NoForce'
  BY <1>1, <1>2 DEF NoForce
<1> QED BY <1>1, <1>2, <1>3, <1>6, <1>7, <1>8, FieldsWin

(* Requests for a reelection. *)
LEMMA ReelectWin ==
  ASSUME WinInv, NEW n \in Nodes, Reelect(n) \/ StepDown(n) \/ ReelectFailed(n)
  PROVE WinInv' /\ Primaries' \subseteq Primaries
<1>1. Inv /\ NoForce /\ node[n] \in NodeStates(n)
  BY InvParts DEF WinInv
<1>2. Inv'
  BY <1>1, ReelectInv
<1>3. \E r \in BOOLEAN : node' = [node EXCEPT ![n] = [node[n] EXCEPT !.reelecting = r]]
  BY <1>1, InvParts DEF Reelect, StepDown, ReelectFailed
<1>4. PICK r \in BOOLEAN : node' = [node EXCEPT ![n] = [node[n] EXCEPT !.reelecting = r]]
  BY <1>3
<1> DEFINE w == [node[n] EXCEPT !.reelecting = r]
<1>5. /\ w.status = node[n].status /\ w.time = node[n].time
      /\ w.accepted = node[n].accepted /\ w.primary = node[n].primary
  BY <1>1 DEF NodeStates
<1>6. UNCHANGED <<lsn, ticked>> /\ left'.up = left.up
  <2>1. left \in Faults
    BY <1>1 DEF Inv, TypeOK
  <2> QED BY <2>1 DEF Reelect, StepDown, ReelectFailed, Faults
<1>7. \A x \in msgs' : x \in msgs \/ x.type = "stepDown"
  BY DEF Reelect, StepDown, ReelectFailed, Post
<1>8. NoForce'
  BY <1>1, <1>6, <1>7 DEF NoForce
<1>9. \A x \in msgs' : x \in msgs \/ x.type \notin {"ballot", "reply"}
  BY <1>7
<1>10. node' = [node EXCEPT ![n] = w] /\ lsn' = lsn /\ ticked' = ticked
  BY <1>4, <1>6
<1> HIDE DEF w
<1> QED BY <1>2, <1>5, <1>8, <1>9, <1>10, FieldsWin

(* A restart. *)
LEMMA RestartWin ==
  ASSUME WinInv, NEW n \in Nodes, Restart(n)
  PROVE WinInv' /\ Primaries' \subseteq Primaries
<1>1. Inv /\ NoForce
  BY DEF WinInv
<1>2. Inv'
  BY <1>1, RestartInv
<1>3. /\ node' = [node EXCEPT ![n] = Started(n)] /\ msgs' \subseteq msgs
      /\ UNCHANGED <<lsn, ticked>>
  BY DEF Restart
<1>4. left'.up = left.up
  <2>1. left \in Faults
    BY <1>1 DEF Inv, TypeOK
  <2> QED BY <2>1 DEF Restart, Faults
<1>5. NoForce'
  BY <1>1, <1>3, <1>4 DEF NoForce
<1>6. Late(n, Started(n), ticked)
  BY DEF Late, Started, FirstStatus
<1>7. \A x \in msgs' : x \in msgs \/ x.type \notin {"ballot", "reply"}
  BY <1>3
<1>8. Started(n).status # "primary"
  BY DEF Started, FirstStatus
<1> QED BY <1>2, <1>3, <1>5, <1>6, <1>7, <1>8, FieldsWin

(* A new round begins when nothing is on the way. *)
LEMMA EndRoundWin ==
  ASSUME WinInv, EndRound
  PROVE WinInv' /\ Primaries' \subseteq Primaries
<1>1. Inv /\ NoForce
  BY DEF WinInv
<1>2. Inv'
  BY <1>1, EndRoundInv
<1>3. node' = node /\ lsn' = lsn /\ msgs = {} /\ msgs' = {}
  BY DEF EndRound
<1>4. left'.up = left.up
  <2>1. left \in Faults
    BY <1>1 DEF Inv, TypeOK
  <2> QED BY <2>1 DEF EndRound, Faults
<1>5. NoForce'
  BY <1>1, <1>3, <1>4 DEF NoForce
<1>6. ASSUME NEW n \in Nodes
      PROVE Candidate(n, node[n], msgs', lsn) /\ Idle(n, node[n], msgs', ticked')
  <2>1. Asked(n, msgs') = {}
    BY <1>3 DEF Asked
  <2>2. Candidate(n, node[n], msgs', lsn)
    BY <1>3 DEF WinInv
  <2> QED BY <2>1, <2>2 DEF Idle
<1> QED BY <1>2, <1>3, <1>5, <1>6 DEF WinInv, Primaries

(* Replication: a candidate has no primary whose log it could take. *)
LEMMA SynchroniseWin ==
  ASSUME WinInv, LogsStay, NEW k \in Nodes, Synchronise(k)
  PROVE WinInv' /\ Primaries' \subseteq Primaries
<1>1. Inv /\ NoForce /\ DOMAIN node = Nodes /\ lsn \in [Nodes -> Nat]
  BY InvParts DEF WinInv, RestOK
<1>2. Inv'
  BY <1>1, SynchroniseInv
<1>3. /\ node' = node /\ msgs' = msgs /\ ticked' = ticked /\ left' = left
      /\ \A n \in Nodes \ {k} : lsn'[n] = lsn[n]
      /\ node[k].primary # None
  BY <1>1 DEF Synchronise
<1>4. lsn' \in [Nodes -> Nat]
  BY <1>2 DEF Inv, TypeOK
<1>5. NoForce'
  BY <1>1, <1>3 DEF NoForce
<1>6. \A x \in msgs : x.type = "reply" => x.from \in Nodes
  <2>1. msgs \subseteq Wire
    BY <1>1 DEF Inv, TypeOK, Wire
  <2> QED BY <2>1, WireKinds
<1>7. ASSUME NEW n \in Nodes
      PROVE Candidate(n, node[n], msgs, lsn')
  <2>1. Candidate(n, node[n], msgs, lsn) /\ node[n].accepted \in Nat
    BY <1>1, InvParts, GroupSize DEF WinInv, NodeStates
  <2>2. CASE n # k
    <3>1. node[n].status = "announce" =>
            /\ lsn'[n] = lsn[n]
            /\ \A m \in Nodes : lsn[m] <= lsn[n] => lsn'[m] <= lsn[n]
      BY <1>3, <2>2 DEF LogsStay
    <3> DEFINE L2 == lsn'
    <3>2. L2 \in [Nodes -> Nat]
      BY <1>4
    <3> HIDE DEF L2
    <3>3. Candidate(n, node[n], msgs, L2)
      BY <1>1, <1>6, <2>1, <3>1, <3>2, CandidateKept DEF L2
    <3> QED BY <3>3 DEF L2
  <2>3. CASE n = k
    <3> SUFFICES ASSUME node[n].status = "announce"
                 PROVE /\ node[n].accepted <= Cardinality(Granted(n, msgs, lsn'))
                       /\ node[n].accepted = 0 /\ Asked(n, msgs) = {}
                       /\ AskedOK(n, msgs, lsn')
      BY DEF Candidate
    <3>1. node[n].accepted = 0 /\ Asked(n, msgs) = {}
      BY <1>3, <2>1, <2>3 DEF Candidate
    <3>2. Granted(n, msgs, lsn') \in SUBSET Peers(n)
      BY DEF Granted
    <3>3. Cardinality(Granted(n, msgs, lsn')) \in Nat
      BY <3>2, PeersFinite
    <3> QED BY <3>1, <3>3 DEF AskedOK
  <2> QED BY <2>2, <2>3
<1> QED BY <1>2, <1>3, <1>5, <1>7 DEF WinInv, Primaries

-----------------------------------------------------------------------------
(* Ballots and replies of the second round. *)

(* A normal node accepts no log behind its own. *)
LEMMA AcceptLog ==
  ASSUME NEW n \in Nodes, NEW b, normal[n], lsn[n] \in Nat, b.lsn \in Nat,
         Answer(n, b) = "accept"
  PROVE lsn[n] <= b.lsn
<1>1. ~(b.lsn < lsn[n])
  BY Zenon DEF Answer
<1> QED BY <1>1

(* The reply takes the place of the ballot. *)
LEMMA ReplyCandidate ==
  ASSUME WinInv, AllNormal, NEW n \in Nodes, NEW m \in Nodes, NEW b \in msgs,
         b.type = "ballot", b.round = 2, b.from = n, b.to = m, m # n,
         NEW S2, S2 \subseteq (msgs \ {b}) \cup Reply(m, b)
  PROVE Candidate(n, node[n], S2, lsn) /\ Idle(n, node[n], S2, ticked)
<1> DEFINE r == [type |-> "reply", from |-> m, to |-> n, round |-> 2,
                 ok |-> Answer(m, b) = "accept"]
<1>1. b \in Asked(n, msgs)
  BY DEF Asked
<1>2. S2 \subseteq (msgs \ {b}) \cup {r}
  BY DEF Reply
<1>3. r.from = m /\ r.to = n /\ r.type = "reply" /\ (r.ok => Answer(m, b) = "accept")
  OBVIOUS
<1> HIDE DEF r
<1>4. \A x \in Asked(n, S2) : x = r \/ (x \in Asked(n, msgs) /\ x # b)
  BY <1>2 DEF Asked
<1>5. Idle(n, node[n], S2, ticked)
  <2>1. Idle(n, node[n], msgs, ticked)
    BY DEF WinInv
  <2> QED BY <1>1, <2>1 DEF Idle
<1>6. Candidate(n, node[n], S2, lsn)
  <2> SUFFICES ASSUME node[n].status = "announce"
               PROVE /\ node[n].accepted <= Cardinality(Granted(n, S2, lsn))
                     /\ node[n].primary = None
                     /\ AskedOK(n, S2, lsn)
    BY DEF Candidate
  <2>1. /\ node[n].accepted <= Cardinality(Granted(n, msgs, lsn))
        /\ node[n].primary = None
        /\ AskedOK(n, msgs, lsn)
    <3>1. Candidate(n, node[n], msgs, lsn)
      BY DEF WinInv
    <3> QED BY <1>1, <3>1 DEF Candidate
  <2>2. lsn \in [Nodes -> Nat] /\ node[n].accepted \in Nat
    BY InvParts, GroupSize DEF WinInv, RestOK, NodeStates
  <2>3. Granted(n, msgs, lsn) \subseteq Granted(n, S2, lsn)
    BY <1>1, <1>3, <1>4 DEF Granted
  <2>4. Granted(n, msgs, lsn) \in SUBSET Peers(n) /\ Granted(n, S2, lsn) \in SUBSET Peers(n)
    BY DEF Granted
  <2>5. /\ IsFiniteSet(Granted(n, S2, lsn)) /\ Cardinality(Granted(n, S2, lsn)) \in Nat
        /\ Cardinality(Granted(n, msgs, lsn)) \in Nat
    BY <2>4, PeersFinite
  <2>6. Cardinality(Granted(n, msgs, lsn)) <= Cardinality(Granted(n, S2, lsn))
    BY <2>3, <2>5, FS_Subset
  <2>7. node[n].accepted <= Cardinality(Granted(n, S2, lsn))
    BY <2>1, <2>2, <2>5, <2>6
  <2>8. b.lsn = lsn[n]
    BY <1>1, <2>1 DEF AskedOK
  <2>9. r.ok => lsn[m] <= lsn[n]
    <3>1. normal[m] /\ lsn[m] \in Nat /\ b.lsn \in Nat
      BY <2>2, <2>8 DEF AllNormal
    <3> QED BY <1>3, <2>8, <3>1, AcceptLog
  <2>10. \A x \in Asked(n, S2) : /\ x.type = "ballot" => x.lsn = lsn[n]
                                 /\ x.type = "reply" /\ x.ok => lsn[x.from] <= lsn[n]
    BY <1>3, <1>4, <2>1, <2>9 DEF AskedOK
  <2>11. ASSUME NEW x \in Asked(n, S2), NEW y \in Asked(n, S2),
                {x.from, x.to} = {y.from, y.to}
         PROVE x = y
    <3>1. \A z \in Asked(n, msgs) \ {b} : {z.from, z.to} # {r.from, r.to}
      <4>1. {b.from, b.to} = {r.from, r.to}
        BY <1>3
      <4> QED BY <1>1, <2>1, <4>1 DEF AskedOK
    <3>2. CASE x = r \/ y = r
      BY <1>4, <2>11, <3>1, <3>2
    <3>3. CASE x # r /\ y # r
      BY <1>4, <2>1, <2>11, <3>3 DEF AskedOK
    <3> QED BY <3>2, <3>3
  <2>12. AskedOK(n, S2, lsn)
    BY <2>10, <2>11 DEF AskedOK
  <2> QED BY <2>1, <2>7, <2>12
<1> QED BY <1>5, <1>6

(* A ballot. *)
LEMMA BallotWin ==
  ASSUME WinInv, AllNormal, VoteTime > 1, NEW b \in msgs, b.type = "ballot",
         HandleBallot(b.to, b)
  PROVE WinInv' /\ Primaries' \subseteq Primaries
<1> DEFINE n == b.to
           cand == b.from
           v == [node[n] EXCEPT !.shift = IF node[n].status = "sec" THEN FALSE ELSE @]
           next == AfterBallot(n, b)
           w == Activate(n, v, next)
           out == IF v.status \in {"sec", "vote"} THEN Reply(n, b) ELSE {}
<1>1. Inv /\ RestOK /\ NoForce /\ b \in Wire
  BY InvParts DEF RestOK, WinInv
<1>2. n \in Nodes /\ cand \in Nodes /\ cand # n /\ b.round \in {1, 2}
  BY <1>1, WireKinds DEF Peers
<1>3. /\ node' = [node EXCEPT ![n] = w] /\ msgs' = (msgs \ {b}) \cup OnWire(out)
      /\ UNCHANGED <<lsn, ticked, left>>
  BY DEF HandleBallot
<1>4. Inv'
  BY <1>1, BallotInv
<1> HIDE DEF n, cand
<1>5. node[n] \in NodeStates(n) /\ DOMAIN node = Nodes /\ lsn \in [Nodes -> Nat]
  BY <1>1, <1>2, InvParts DEF RestOK
<1>6. v \in Counting(n) /\ v.status = node[n].status /\ v.time = node[n].time
      /\ v.accepted = node[n].accepted /\ v.primary = node[n].primary
  <2> DEFINE shift == IF node[n].status = "sec" THEN FALSE ELSE node[n].shift
  <2>1. shift \in BOOLEAN
    BY <1>5 DEF NodeStates
  <2>2. v = [node[n] EXCEPT !.shift = shift]
    OBVIOUS
  <2> HIDE DEF shift, v
  <2> QED BY <1>5, <2>1, <2>2, GroupSize DEF NodeStates, Counting
<1>7. next \in Statuses /\ (next # v.status => next \in {"sec", "silence"})
  <2>1. SecondaryBallot(n, b) \in {"sec", "silence"}
    BY DEF SecondaryBallot
  <2>2. VoteBallot(n, b) \in {"vote", "sec", "silence"}
    BY DEF VoteBallot
  <2>3. node[n].status \in Statuses
    BY <1>5 DEF NodeStates
  <2> HIDE DEF v
  <2> QED BY <1>6, <2>1, <2>2, <2>3 DEF AfterBallot, Statuses
<1>8. out \subseteq Reply(n, b) /\ msgs' \subseteq (msgs \ {b}) \cup Reply(n, b)
  <2> HIDE DEF v
  <2>1. out \subseteq Reply(n, b)
    OBVIOUS
  <2> HIDE DEF out
  <2> QED BY <1>3, <2>1, OnWireSubset
<1>9. \A x \in Reply(n, b) : x.type = "reply" /\ x.to = cand /\ x.round = b.round
  BY DEF Reply, cand
<1> HIDE DEF out, v, next
<1>10. /\ w.status = next
       /\ next = v.status => w.time = v.time /\ w.accepted = v.accepted /\ w.primary = v.primary
       /\ next # v.status => w.time = 0
  BY <1>2, <1>6, <1>7, ActivateFields
<1> HIDE DEF w
<1>11. NoForce'
  BY <1>1, <1>3, <1>8, <1>9 DEF NoForce
<1>12. \A x \in msgs' : x.type = "reply" => x.from \in Nodes
  <2>1. msgs' \subseteq Wire
    BY <1>4 DEF Inv, TypeOK, Wire
  <2> QED BY <2>1, WireKinds
<1>13. \A k \in Nodes : k # cand \/ b.round = 1 => Asked(k, msgs') \subseteq Asked(k, msgs)
  BY <1>2, <1>8, <1>9 DEF Asked
<1>14. Candidate(n, w, msgs', lsn) /\ Idle(n, w, msgs', ticked)
  <2>1. Candidate(n, node[n], msgs, lsn) /\ Idle(n, node[n], msgs, ticked)
    BY <1>2 DEF WinInv
  <2>2. node[n].accepted \in Nat
    BY <1>5, GroupSize DEF NodeStates
  <2>3. Asked(n, msgs') \subseteq Asked(n, msgs)
    BY <1>2, <1>13
  <2>4. w.status = "announce" => /\ node[n].status = "announce"
                                 /\ w.accepted = node[n].accepted
                                 /\ w.primary \in {node[n].primary, None}
    BY <1>6, <1>7, <1>10
  <2>5. w.status # "announce" => \/ w.status = node[n].status /\ w.time = node[n].time
                                 \/ Late(n, w, ticked)
    BY <1>6, <1>7, <1>10, Bounds DEF Late
  <2>6. Candidate(n, w, msgs', lsn)
    BY <1>2, <1>5, <1>12, <2>1, <2>2, <2>3, <2>4, CandidateKept
  <2>7. Idle(n, w, msgs', ticked)
    BY <2>1, <2>3, <2>5, IdleKept
  <2> QED BY <2>6, <2>7
<1>15. ASSUME NEW k \in Nodes, k # n
       PROVE Candidate(k, node[k], msgs', lsn) /\ Idle(k, node[k], msgs', ticked)
  <2>1. CASE k # cand \/ b.round = 1
    <3>1. Candidate(k, node[k], msgs, lsn) /\ Idle(k, node[k], msgs, ticked)
      BY DEF WinInv
    <3>2. node[k].accepted \in Nat
      BY <1>1, InvParts, GroupSize DEF NodeStates
    <3>3. Asked(k, msgs') \subseteq Asked(k, msgs)
      BY <1>13, <2>1
    <3>4. Candidate(k, node[k], msgs', lsn)
      BY <1>5, <1>12, <3>1, <3>2, <3>3, CandidateKept
    <3>5. Idle(k, node[k], msgs', ticked)
      BY <3>1, <3>3, IdleKept
    <3> QED BY <3>4, <3>5
  <2>2. CASE k = cand /\ b.round = 2
    BY <1>2, <1>8, <2>2, ReplyCandidate DEF cand, n
  <2> QED BY <1>2, <2>1, <2>2
<1>16. \A k \in Nodes : node'[k] = IF k = n THEN w ELSE node[k]
  BY <1>2, <1>3, <1>5
<1>17. Primaries' \subseteq Primaries
  BY <1>6, <1>7, <1>10, <1>16 DEF Primaries
<1> QED BY <1>3, <1>4, <1>11, <1>14, <1>15, <1>16, <1>17 DEF WinInv

(* A candidate that enters the announce status with nothing on the way. *)
LEMMA AnnounceEntered ==
  ASSUME NEW n \in Nodes, NEW v \in Counting(n), NEW w, NEW S, NEW S2,
         lsn \in [Nodes -> Nat], Asked(n, S) = {},
         S2 \subseteq S \cup Launch(n, v, 2) \cup {x \in S2 : x.type = "beat"},
         w.accepted = 0, w.primary = v.primary
  PROVE Candidate(n, w, S2, lsn)
<1>1. 0 <= Cardinality(Granted(n, S2, lsn))
  <2>1. Granted(n, S2, lsn) \in SUBSET Peers(n)
    BY DEF Granted
  <2> QED BY <2>1, PeersFinite
<1>2. Asked(n, S2) \subseteq Launch(n, v, 2)
  BY DEF Asked
<1>3. v.primary # None => Launch(n, v, 2) = {}
  BY DEF Launch
<1>4. \A x \in Launch(n, v, 2) :
         \E m \in Peers(n) : x = [type |-> "ballot", from |-> n, to |-> m, round |-> 2,
                                  lsn |-> lsn[n]]
  <2>1. Alives(v) \subseteq Peers(n)
    BY DEF Alives, Counting
  <2> QED BY <2>1 DEF Launch
<1>5. AskedOK(n, S2, lsn)
  <2>1. \A x \in Asked(n, S2) : x.type = "ballot" /\ x.lsn = lsn[n]
    BY <1>2, <1>4
  <2>2. ASSUME NEW x \in Asked(n, S2), NEW y \in Asked(n, S2),
               {x.from, x.to} = {y.from, y.to}
        PROVE x = y
    <3>1. PICK i \in Peers(n) : x = [type |-> "ballot", from |-> n, to |-> i, round |-> 2,
                                     lsn |-> lsn[n]]
      BY <1>2, <1>4
    <3>2. PICK j \in Peers(n) : y = [type |-> "ballot", from |-> n, to |-> j, round |-> 2,
                                     lsn |-> lsn[n]]
      BY <1>2, <1>4
    <3>3. {n, i} = {n, j} /\ i # n /\ j # n
      BY <2>2, <3>1, <3>2 DEF Peers
    <3>4. i = j
      BY <3>3
    <3> QED BY <3>1, <3>2, <3>4
  <2> QED BY <2>1, <2>2 DEF AskedOK
<1> QED BY <1>1, <1>2, <1>3, <1>5 DEF Candidate

(* The peer whose acceptance arrives is counted for the first time. *)
LEMMA AcceptedCandidate ==
  ASSUME WinInv, NEW n \in Nodes, NEW r \in msgs, r.type = "reply", r.round = 2, r.ok,
         r.to = n, r.from \in Peers(n), node[n].status = "announce",
         NEW S2, S2 \subseteq msgs \ {r}
  PROVE /\ node[n].accepted + 1 <= Cardinality(Granted(n, S2, lsn))
        /\ node[n].primary = None /\ AskedOK(n, S2, lsn)
<1>1. r \in Asked(n, msgs)
  BY DEF Asked
<1>2. /\ node[n].accepted <= Cardinality(Granted(n, msgs, lsn))
      /\ node[n].primary = None
      /\ AskedOK(n, msgs, lsn)
  <2>1. Candidate(n, node[n], msgs, lsn)
    BY DEF WinInv
  <2> QED BY <1>1, <2>1 DEF Candidate
<1>3. lsn \in [Nodes -> Nat] /\ node[n].accepted \in Nat
  BY InvParts, GroupSize DEF WinInv, RestOK, NodeStates
<1>4. Asked(n, S2) \subseteq Asked(n, msgs) \ {r}
  BY DEF Asked
<1> DEFINE G == Granted(n, msgs, lsn)
           H == Granted(n, S2, lsn)
<1>5. G \in SUBSET Peers(n) /\ H \in SUBSET Peers(n)
  BY DEF Granted
<1>6. r.from \notin G
  BY <1>1 DEF Granted
<1>7. G \subseteq H
  BY <1>4 DEF Granted
<1>8. r.from \in H
  <2>1. lsn[r.from] <= lsn[n]
    BY <1>1, <1>2 DEF AskedOK
  <2>2. ASSUME NEW x \in Asked(n, S2)
        PROVE r.from # x.from /\ r.from # x.to
    <3>1. x \in Asked(n, msgs) /\ x # r
      BY <1>4
    <3>2. {x.from, x.to} # {r.from, r.to}
      BY <1>1, <1>2, <3>1 DEF AskedOK
    <3>3. x.from = n \/ x.to = n
      BY <3>1 DEF Asked
    <3>4. r.from # n /\ r.to = n
      BY DEF Peers
    <3> QED BY <3>2, <3>3, <3>4
  <2> QED BY <2>1, <2>2 DEF Granted
<1>9. IsFiniteSet(H) /\ IsFiniteSet(G) /\ Cardinality(H) \in Nat /\ Cardinality(G) \in Nat
  BY <1>5, PeersFinite
<1> HIDE DEF G, H
<1>10. Cardinality(G) + 1 <= Cardinality(H)
  <2>1. /\ IsFiniteSet(G \cup {r.from})
        /\ Cardinality(G \cup {r.from}) = Cardinality(G) + 1
    BY <1>6, <1>9, FS_AddElement
  <2>2. G \cup {r.from} \subseteq H
    BY <1>7, <1>8
  <2>3. Cardinality(G \cup {r.from}) <= Cardinality(H)
    BY <1>9, <2>2, FS_Subset
  <2> QED BY <2>1, <2>3
<1>11. node[n].accepted + 1 <= Cardinality(H)
  BY <1>2, <1>3, <1>9, <1>10 DEF G
<1>12. AskedOK(n, S2, lsn)
  BY <1>2, <1>4 DEF AskedOK
<1> QED BY <1>2, <1>11, <1>12 DEF H

(* A reply. *)
LEMMA ReplyWin ==
  ASSUME WinInv, VoteTime > 1, NEW r \in msgs, r.type = "reply", HandleReply(r.to, r)
  PROVE WinInv' /\ Winners
<1> DEFINE n == r.to
           s == node[n].status
           asked == s = (IF r.round = 1 THEN "vote" ELSE "announce")
           v == [node[n] EXCEPT !.accepted = IF asked /\ r.ok THEN @ + 1 ELSE @]
           next == CASE s = "vote" -> VoteReply(v, r)
                     [] s = "announce" -> AnnounceReply(v, r)
                     [] OTHER -> s
           w == Activate(n, v, next)
<1>1. Inv /\ RestOK /\ NoForce /\ r \in Wire
  BY InvParts DEF RestOK, WinInv
<1>2. n \in Nodes /\ r.from \in Peers(n) /\ r.round \in {1, 2} /\ r.ok \in BOOLEAN
  BY <1>1, WireKinds
<1>3. /\ node' = [node EXCEPT ![n] = w] /\ msgs' = (msgs \ {r}) \cup OnWire(Sent(n, v, next))
      /\ UNCHANGED <<lsn, ticked, left>>
  BY DEF HandleReply
<1>4. Inv'
  BY <1>1, ReplyInv
<1> HIDE DEF n
<1>5. /\ node[n] \in NodeStates(n) /\ DOMAIN node = Nodes /\ lsn \in [Nodes -> Nat]
      /\ node[n].accepted \in Nat
  BY <1>1, <1>2, InvParts, GroupSize DEF RestOK, NodeStates
<1>6. /\ v \in Counting(n) /\ v.status = s /\ v.time = node[n].time
      /\ v.primary = node[n].primary /\ s \in Statuses
      /\ v.accepted = IF asked /\ r.ok THEN node[n].accepted + 1 ELSE node[n].accepted
  BY <1>2, <1>5, GroupSize DEF NodeStates, Counting
<1>7. /\ next \in Statuses
      /\ s = "vote" => next \in {"sec", "announce", "vote"}
      /\ s = "announce" => next \in {"silence", "primary", "announce"}
      /\ s \notin {"vote", "announce"} => next = s
      /\ s = "announce" /\ r.round = 2 /\ ~r.ok => next = "silence"
  BY <1>6 DEF VoteReply, AnnounceReply, Statuses
<1>8. s # "primary" => Deactivated(n, v) = v
  BY <1>2, <1>6, DeactivatedPrimary
<1> DEFINE out == Sent(n, v, next)
<1> HIDE DEF v, next
<1>9. /\ w.status = next
      /\ next = s => w.time = v.time /\ w.accepted = v.accepted /\ w.primary = v.primary
      /\ next # s => w.time = 0 /\ w.accepted = 0
      /\ next # s /\ next # "primary" /\ s # "primary" => w.primary = v.primary
  BY <1>2, <1>6, <1>7, <1>8, ActivateFields
<1>10. out \subseteq (IF s = "vote" /\ next = "announce" THEN Launch(n, v, 2) ELSE {})
  BY <1>6, <1>7, <1>8 DEF Sent, AnnounceActive, Statuses
<1> HIDE DEF w, out
<1>11. msgs' \subseteq (msgs \ {r}) \cup out
  BY <1>3, OnWireSubset DEF out
<1>12. \A x \in Launch(n, v, 2) : x.type = "ballot" /\ x.from = n
  BY DEF Launch
<1>13. NoForce'
  BY <1>1, <1>3, <1>10, <1>11, <1>12 DEF NoForce
<1>14. \A k \in Nodes \ {n} : Asked(k, msgs') \subseteq Asked(k, msgs)
  BY <1>10, <1>11, <1>12 DEF Asked
<1>15. Candidate(n, node[n], msgs, lsn) /\ Idle(n, node[n], msgs, ticked)
  BY <1>2 DEF WinInv
<1>16. Candidate(n, w, msgs', lsn) /\ Idle(n, w, msgs', ticked)
  <2>1. CASE s = "vote" /\ next = "announce"
    <3>1. Asked(n, msgs) = {}
      BY <1>15, <2>1 DEF Idle, Late
    <3>2. msgs' \subseteq msgs \cup Launch(n, v, 2) \cup {x \in msgs' : x.type = "beat"}
      BY <1>10, <1>11, <2>1
    <3>3. Candidate(n, w, msgs', lsn)
      BY <1>2, <1>5, <1>6, <1>9, <2>1, <3>1, <3>2, AnnounceEntered
    <3> QED BY <1>9, <2>1, <3>3 DEF Idle
  <2>2. CASE s = "announce" /\ next = "announce" /\ r.round = 2
    <3>1. msgs' \subseteq msgs \ {r}
      BY <1>10, <1>11, <2>2
    <3>2. r.ok
      BY <1>2, <1>7, <2>2
    <3>3. w.accepted = node[n].accepted + 1 /\ w.primary = node[n].primary
      BY <1>6, <1>9, <2>2, <3>2
    <3>4. /\ node[n].accepted + 1 <= Cardinality(Granted(n, msgs', lsn))
          /\ node[n].primary = None /\ AskedOK(n, msgs', lsn)
      BY <1>2, <2>2, <3>1, <3>2, AcceptedCandidate DEF n
    <3> QED BY <1>9, <2>2, <3>3, <3>4 DEF Candidate, Idle
  <2>3. CASE ~(s = "vote" /\ next = "announce")
             /\ ~(s = "announce" /\ next = "announce" /\ r.round = 2)
    <3>1. Asked(n, msgs') \subseteq Asked(n, msgs)
      BY <1>10, <1>11, <2>3 DEF Asked
    <3>2. \A x \in msgs' : x.type = "reply" => x.from \in Nodes
      <4>1. msgs' \subseteq Wire
        BY <1>4 DEF Inv, TypeOK, Wire
      <4> QED BY <4>1, WireKinds
    <3>3. w.status = "announce" => /\ node[n].status = "announce"
                                   /\ w.accepted = node[n].accepted
                                   /\ w.primary \in {node[n].primary, None}
      BY <1>2, <1>6, <1>7, <1>9, <2>3
    <3>4. w.status # "announce" => \/ w.status = node[n].status /\ w.time = node[n].time
                                   \/ Late(n, w, ticked)
      BY <1>6, <1>7, <1>9, Bounds DEF Late
    <3>5. Candidate(n, w, msgs', lsn)
      BY <1>2, <1>5, <1>15, <3>1, <3>2, <3>3, CandidateKept
    <3>6. Idle(n, w, msgs', ticked)
      BY <1>15, <3>1, <3>4, IdleKept
    <3> QED BY <3>5, <3>6
  <2> QED BY <2>1, <2>2, <2>3
<1>17. lsn' = lsn /\ ticked' = ticked
  BY <1>3
<1>18. WinInv'
  BY <1>2, <1>3, <1>4, <1>13, <1>14, <1>16, <1>17, WinStep
<1>19. \A k \in Nodes : node'[k] = IF k = n THEN w ELSE node[k]
  BY <1>2, <1>3, <1>5
<1>p. \A k \in Primaries' \ Primaries : k = n /\ w.status = "primary" /\ s # "primary"
  BY <1>19 DEF Primaries
<1>20. CASE s = "announce" /\ next = "primary"
  <2>1. r.round = 2 /\ r.ok /\ AllAccepted(v)
    BY <1>2, <1>20 DEF next, AnnounceReply
  <2>2. v.accepted = node[n].accepted + 1
    BY <1>6, <1>20, <2>1
  <2>3. node[n].accepted + 1 <= Cardinality(Granted(n, msgs \ {r}, lsn))
    BY <1>2, <1>20, <2>1, AcceptedCandidate DEF n
  <2>4. IsMajority(v.accepted + 1)
    BY <1>5, <2>1, <2>2, GroupSize DEF AllAccepted, IsMajority
  <2>5. Most({m \in Nodes : lsn[m] <= lsn[n]})
    BY <1>2, <1>5, <2>2, <2>3, <2>4, GrantedMost
  <2> QED BY <1>18, <1>p, <2>5 DEF Winners
<1>21. CASE ~(s = "announce" /\ next = "primary")
  BY <1>18, <1>p, <1>6, <1>7, <1>9, <1>21 DEF Winners, Statuses
<1> QED BY <1>18, <1>20, <1>21

-----------------------------------------------------------------------------
(* The timer. *)

(* The state of n when its time-out is looked at. *)
Broken(n) ==
  CheckBreak(IF node[n].beatTime + 1 >= BeatInterval THEN AfterBeats(n)
             ELSE [node[n] EXCEPT !.beatTime = @ + 1])
Elapsed(n) == Shifted(Passed(Broken(n)))

(* What a timer finds, before the time-out. *)
LEMMA TimerState ==
  ASSUME NEW n \in Nodes, node[n] \in NodeStates(n), SelfOK(n, node[n])
  PROVE /\ Broken(n) \in NodeStates(n) /\ Elapsed(n) \in NodeStates(n)
        /\ SelfOK(n, Broken(n)) /\ SelfOK(n, Elapsed(n))
        /\ Broken(n).status = node[n].status /\ Elapsed(n).status = node[n].status
        /\ Broken(n).time = node[n].time
        /\ Broken(n).accepted = node[n].accepted /\ Elapsed(n).accepted = node[n].accepted
        /\ Elapsed(n).primary = Broken(n).primary
        /\ Broken(n).primary \in {node[n].primary, None}
        /\ Broken(n).force = node[n].force
        /\ Elapsed(n).age = Broken(n).age /\ Elapsed(n).beat = Broken(n).beat
        /\ \/ Elapsed(n).time = node[n].time + 1
           \/ /\ node[n].status = "sec" /\ Elapsed(n).time = node[n].time
              /\ VoteTime <= node[n].time
<1> DEFINE u == IF node[n].beatTime + 1 >= BeatInterval THEN AfterBeats(n)
                ELSE [node[n] EXCEPT !.beatTime = @ + 1]
<1>1. /\ u \in NodeStates(n) /\ SelfOK(n, u)
      /\ u.status = node[n].status /\ u.time = node[n].time /\ u.accepted = node[n].accepted
      /\ u.primary = node[n].primary /\ u.force = node[n].force
  <2>1. CASE node[n].beatTime + 1 >= BeatInterval
    <3>1. u = AfterBeats(n) /\ u \in NodeStates(n) /\ SelfOK(n, u)
      BY <2>1, AfterBeatsOK
    <3>2. /\ u.status = node[n].status /\ u.time = node[n].time
          /\ u.accepted = node[n].accepted
          /\ u.primary = node[n].primary /\ u.force = node[n].force
      <4> HIDE DEF u
      <4> QED BY <3>1 DEF AfterBeats, NodeStates
    <3> QED BY <3>1, <3>2
  <2>2. CASE ~(node[n].beatTime + 1 >= BeatInterval)
    <3>1. node[n].beatTime + 1 \in 0 .. BeatInterval
      BY <2>2, Bounds DEF NodeStates
    <3>2. u = [node[n] EXCEPT !.beatTime = node[n].beatTime + 1]
      BY <2>2
    <3> HIDE DEF u
    <3> QED BY <3>1, <3>2 DEF NodeStates, SelfOK
  <2> QED BY <2>1, <2>2
<1> HIDE DEF u
<1> DEFINE v == CheckBreak(u)
<1>2. /\ v \in NodeStates(n) /\ SelfOK(n, v)
      /\ v.status = u.status /\ v.time = u.time /\ v.accepted = u.accepted
      /\ v.primary \in {u.primary, None} /\ v.force = u.force
  <2>1. v \in NodeStates(n) /\ SelfOK(n, v)
    BY <1>1, CheckBreakOK
  <2>2. /\ v.status = u.status /\ v.time = u.time /\ v.accepted = u.accepted
        /\ v.force = u.force
    BY <1>1 DEF CheckBreak, NodeStates
  <2>3. v.primary \in {u.primary, None}
    BY <1>1 DEF CheckBreak, NodeStates
  <2> QED BY <2>1, <2>2, <2>3
<1> HIDE DEF v
<1> DEFINE p == Passed(v)
<1>3. /\ p \in NodeStates(n) /\ p.status = v.status /\ p.accepted = v.accepted
      /\ p.primary = v.primary /\ p.age = v.age /\ p.beat = v.beat
      /\ \/ p.time = v.time + 1
         \/ v.status = "sec" /\ p.time = v.time /\ VoteTime <= v.time
  <2> DEFINE enough == IF VoteTime < StartShift THEN StartShift ELSE VoteTime
             time == IF v.status = "sec" /\ v.time >= enough THEN v.time ELSE v.time + 1
  <2>1. VoteTime \in Nat /\ StartShift \in Nat /\ v.time \in Nat
    BY <1>2, TimeAssumption, CountAssumption DEF NodeStates
  <2>2. time \in Nat
    BY <2>1
  <2>3. time = v.time + 1 \/ (v.status = "sec" /\ time = v.time /\ VoteTime <= v.time)
    BY <2>1
  <2>4. p = [v EXCEPT !.time = time]
    BY DEF Passed
  <2> HIDE DEF time, p
  <2> QED BY <1>2, <2>2, <2>3, <2>4 DEF NodeStates
<1> HIDE DEF p
<1>4. /\ Shifted(p).status = p.status /\ Shifted(p).accepted = p.accepted
      /\ Shifted(p).primary = p.primary /\ Shifted(p).time = p.time
      /\ Shifted(p).age = p.age /\ Shifted(p).beat = p.beat
  BY <1>3 DEF Shifted, NodeStates
<1>5. Shifted(p) \in NodeStates(n) /\ SelfOK(n, Shifted(p))
  BY <1>2, PassedOK DEF p
<1>6. Broken(n) = v /\ Elapsed(n) = Shifted(p)
  BY DEF Broken, Elapsed, u, v, p
<1> QED BY <1>1, <1>2, <1>3, <1>4, <1>5, <1>6

(* What a timer does, in the words of the lemma above. *)
LEMMA TimerStep ==
  ASSUME Inv, NEW n \in Nodes, Timer(n)
  PROVE /\ n \notin ticked /\ ticked' = ticked \cup {n} /\ UNCHANGED <<lsn, normal, cut, left>>
        /\ node' = [node EXCEPT ![n] =
             IF Broken(n).force > 0 THEN [Broken(n) EXCEPT !.force = @ - 1]
             ELSE IF AfterTimeout(n, Elapsed(n)) = "primary" /\ Elapsed(n).status = "primary"
                       /\ VoteTime <= Elapsed(n).time
                  THEN [Elapsed(n) EXCEPT !.time = 0]
                  ELSE Activate(n, Elapsed(n), AfterTimeout(n, Elapsed(n)))]
        /\ msgs' = msgs \cup OnWire(
             (IF node[n].beatTime + 1 >= BeatInterval THEN SharingBeats(n) ELSE {})
             \cup (IF Broken(n).force > 0 THEN {}
                   ELSE Sent(n, Elapsed(n), AfterTimeout(n, Elapsed(n)))))
BY DEF Timer, Broken, Elapsed

(* Where a time-out leads. *)
LEMMA TimeoutNext ==
  ASSUME NEW n \in Nodes, NEW v \in NodeStates(n)
  PROVE /\ AfterTimeout(n, v) \in Statuses
        /\ v.status = "silence" => AfterTimeout(n, v) \in {"sec", "silence"}
        /\ v.status = "sec" => \/ AfterTimeout(n, v) = "sec"
                               \/ AfterTimeout(n, v) = "vote" /\ VoteTime <= v.time
        /\ v.status = "vote" =>
             \/ AfterTimeout(n, v) = "vote" /\ v.time < VoteTime
             \/ AfterTimeout(n, v) = "sec" /\ ~(v.time < VoteTime)
             \/ /\ AfterTimeout(n, v) = "announce" /\ ~(v.time < VoteTime)
                /\ IsMajority(v.accepted + 1)
        /\ v.status = "announce" =>
             \/ AfterTimeout(n, v) = "announce" /\ v.time < VoteTime
             \/ AfterTimeout(n, v) = "silence" /\ ~(v.time < VoteTime)
             \/ /\ AfterTimeout(n, v) = "primary" /\ ~(v.time < VoteTime)
                /\ IsMajority(v.accepted + 1)
        /\ v.status = "primary" =>
             \/ AfterTimeout(n, v) = "silence" /\ VoteTime <= v.time
             \/ /\ AfterTimeout(n, v) = "primary"
                /\ VoteTime <= v.time => IsMajority(AliveSize(v))
<1>1. v.status \in Statuses
  BY DEF NodeStates
<1>2. AfterTimeout(n, v) \in Statuses
  BY AfterTimeoutOK
<1>3. CASE v.status = "silence"
  BY <1>2, <1>3 DEF AfterTimeout, SilenceTimeout
<1>4. CASE v.status = "sec"
  BY <1>2, <1>4 DEF AfterTimeout, SecondaryTimeout
<1>5. CASE v.status = "vote"
  <2>1. AfterTimeout(n, v) = VoteTimeout(n, v)
    BY <1>5 DEF AfterTimeout
  <2>2. v.time \in Int /\ VoteTime \in Int
    BY Bounds DEF NodeStates
  <2>3. v.time < VoteTime <=> ~(VoteTime <= v.time)
    BY <2>2
  <2> QED BY <1>2, <1>5, <2>1, <2>3 DEF VoteTimeout
<1>6. CASE v.status = "announce"
  BY <1>2, <1>6 DEF AfterTimeout, AnnounceTimeout
<1>7. CASE v.status = "primary"
  BY <1>2, <1>7 DEF AfterTimeout, PrimaryTimeout
<1> QED BY <1>1, <1>2, <1>3, <1>4, <1>5, <1>6, <1>7 DEF Statuses

(* The timer and the candidate. *)
LEMMA TimerWin ==
  ASSUME WinInv, VoteTime > 1, NEW n \in Nodes, Timer(n)
  PROVE WinInv' /\ Winners
<1> DEFINE v == Broken(n)
           e == Elapsed(n)
           next == AfterTimeout(n, e)
           again == next = "primary" /\ e.status = "primary" /\ VoteTime <= e.time
           w == IF v.force > 0 THEN [v EXCEPT !.force = @ - 1]
                ELSE IF again THEN [e EXCEPT !.time = 0]
                ELSE Activate(n, e, next)
           beats == IF node[n].beatTime + 1 >= BeatInterval THEN SharingBeats(n) ELSE {}
           sent == IF v.force > 0 THEN {} ELSE Sent(n, e, next)
           s == node[n].status
<1>1. Inv /\ NoForce /\ DOMAIN node = Nodes /\ lsn \in [Nodes -> Nat]
  BY InvParts DEF WinInv, RestOK
<1>2. node[n] \in NodeStates(n) /\ SelfOK(n, node[n]) /\ node[n].accepted \in Nat
  BY <1>1, InvParts, GroupSize DEF NodeStates
<1>3. Inv'
  BY <1>1, TimerInv
<1>4. /\ n \notin ticked /\ ticked' = ticked \cup {n} /\ UNCHANGED <<lsn, left>>
      /\ node' = [node EXCEPT ![n] = w] /\ msgs' = msgs \cup OnWire(beats \cup sent)
  BY <1>1, TimerStep
<1>5. /\ v \in NodeStates(n) /\ e \in NodeStates(n)
      /\ v.status = s /\ e.status = s /\ v.time = node[n].time
      /\ v.accepted = node[n].accepted /\ e.accepted = node[n].accepted
      /\ e.primary = v.primary /\ v.primary \in {node[n].primary, None}
      /\ \/ e.time = node[n].time + 1
         \/ s = "sec" /\ e.time = node[n].time /\ VoteTime <= node[n].time
  BY <1>2, TimerState
<1>s. s \in Statuses
  BY <1>2 DEF NodeStates
<1> HIDE DEF v, e
<1>6. /\ next \in Statuses
      /\ s = "silence" => next \in {"sec", "silence"}
      /\ s = "sec" => next = "sec" \/ (next = "vote" /\ VoteTime <= e.time)
      /\ s = "vote" => next \in {"vote", "sec", "announce"}
      /\ s = "announce" => next \in {"announce", "silence", "primary"}
      /\ s = "primary" => next \in {"silence", "primary"}
  BY <1>5, TimeoutNext
<1> HIDE DEF next
<1>7. e \in Counting(n) /\ (s # "primary" => Deactivated(n, e) = e)
  BY <1>5, CountingStates, DeactivatedPrimary
<1>8. \/ v.force > 0 /\ /\ w.status = s /\ w.time = node[n].time
                        /\ w.accepted = node[n].accepted /\ w.primary = v.primary
      \/ ~(v.force > 0) /\ w.status = "primary" /\ s = "primary"
      \/ ~(v.force > 0) /\
         /\ w.status = next
         /\ next = s => w.time = e.time /\ w.accepted = e.accepted /\ w.primary = e.primary
         /\ next # s => w.time = 0 /\ w.accepted = 0
         /\ next # s /\ next # "primary" /\ s # "primary" => w.primary = e.primary
  <2>1. CASE v.force > 0
    <3>1. w = [v EXCEPT !.force = v.force - 1]
      BY <2>1
    <3> HIDE DEF w
    <3> QED BY <1>5, <2>1, <3>1 DEF NodeStates
  <2>2. CASE ~(v.force > 0) /\ again
    <3>1. w = [e EXCEPT !.time = 0] /\ s = "primary"
      BY <1>5, <2>2
    <3> HIDE DEF w
    <3> QED BY <1>5, <2>2, <3>1 DEF NodeStates
  <2>3. CASE ~(v.force > 0) /\ ~again
    <3>1. w = Activate(n, e, next)
      BY <2>3
    <3> HIDE DEF w
    <3> QED BY <1>5, <1>6, <1>7, <2>3, <3>1, ActivateFields
  <2> QED BY <2>1, <2>2, <2>3
<1> HIDE DEF w
<1>9. /\ \A x \in beats : x.type = "beat"
      /\ \A x \in sent : x.type = "ballot" /\ x.from = n
      /\ s = "vote" /\ next = "announce" => sent \subseteq Launch(n, e, 2)
      /\ ~(s = "vote" /\ next = "announce") => \A x \in sent : x.round = 1
  <2>1. \A x \in beats : x.type = "beat"
    BY DEF SharingBeats
  <2>2. \A q : \A x \in Launch(n, e, q) : x.type = "ballot" /\ x.from = n /\ x.round = q
    BY DEF Launch
  <2>3. sent \subseteq (IF s = "vote" /\ next = "announce" THEN Launch(n, e, 2)
                        ELSE IF s = "sec" /\ next = "vote" THEN Launch(n, e, 1) ELSE {})
    BY <1>s, <1>5, <1>6, <1>7 DEF Sent, AnnounceActive, VoteActive, Statuses
  <2> HIDE DEF sent
  <2> QED BY <2>1, <2>2, <2>3
<1>10. msgs' \subseteq msgs \cup beats \cup sent
  BY <1>4, OnWireSubset
<1> HIDE DEF beats, sent
<1>11. NoForce'
  BY <1>1, <1>4, <1>9, <1>10 DEF NoForce
<1>12. \A k \in Nodes \ {n} : Asked(k, msgs') \subseteq Asked(k, msgs)
  BY <1>9, <1>10 DEF Asked
<1>13. Candidate(n, node[n], msgs, lsn) /\ Idle(n, node[n], msgs, ticked)
  BY DEF WinInv
<1>14. Candidate(n, w, msgs', lsn) /\ Idle(n, w, msgs', ticked')
  <2>1. CASE s = "vote" /\ next = "announce" /\ ~(v.force > 0)
    <3>1. Asked(n, msgs) = {}
      BY <1>13, <2>1 DEF Idle, Late
    <3>2. msgs' \subseteq msgs \cup Launch(n, e, 2) \cup {x \in msgs' : x.type = "beat"}
      BY <1>9, <1>10, <2>1
    <3>3. w.status = "announce" /\ w.accepted = 0 /\ w.primary = e.primary
      BY <1>8, <2>1
    <3>4. Candidate(n, w, msgs', lsn)
      BY <1>1, <1>7, <3>1, <3>2, <3>3, AnnounceEntered
    <3> QED BY <3>3, <3>4 DEF Idle
  <2>2. CASE ~(s = "vote" /\ next = "announce" /\ ~(v.force > 0))
    <3>1. Asked(n, msgs') \subseteq Asked(n, msgs)
      <4>1. \A x \in sent : x.round = 1
        BY <1>9, <2>2 DEF sent
      <4> QED BY <1>9, <1>10, <4>1 DEF Asked
    <3>2. \A x \in msgs' : x.type = "reply" => x.from \in Nodes
      <4>1. msgs' \subseteq Wire
        BY <1>3 DEF Inv, TypeOK, Wire
      <4> QED BY <4>1, WireKinds
    <3>3. w.status = "announce" => /\ node[n].status = "announce"
                                   /\ w.accepted = node[n].accepted
                                   /\ w.primary \in {node[n].primary, None}
      BY <1>s, <1>5, <1>6, <1>8, <2>2 DEF Statuses
    <3>4. Candidate(n, w, msgs', lsn)
      BY <1>1, <1>2, <1>13, <3>1, <3>2, <3>3, CandidateKept
    <3>5. Idle(n, w, msgs', ticked')
      <4> SUFFICES ASSUME w.status # "announce", Asked(n, msgs') # {}
                   PROVE Late(n, w, ticked')
        BY DEF Idle
      <4>1. Asked(n, msgs) # {}
        BY <3>1
      <4>2. s = "announce" \/ (s # "announce" /\ Late(n, node[n], ticked))
        BY <1>13, <4>1 DEF Idle
      <4>3. n \in ticked'
        BY <1>4
      <4>4. CASE s = "sec"
        <5>1. node[n].time = 0 /\ VoteTime \in Nat
          BY <1>4, <4>2, <4>4, Bounds DEF Late
        <5>2. e.time = 1
          BY <1>5, <5>1
        <5>3. next = "sec"
          BY <1>6, <4>4, <5>1, <5>2
        <5>4. w.status = "sec" /\ w.time \in {0, 1}
          BY <1>5, <1>8, <4>4, <5>1, <5>2, <5>3
        <5> QED BY <4>3, <5>1, <5>4 DEF Late
      <4>5. CASE s # "sec"
        <5>1. w.status \in {"silence", "primary"} \/ (w.status = "sec" /\ w.time = 0)
          <6>1. s \in {"announce", "silence", "primary"}
            BY <4>2, <4>5 DEF Late
          <6> QED BY <1>6, <1>8, <6>1
        <5> QED BY <4>3, <5>1, Bounds DEF Late
      <4> QED BY <4>4, <4>5
    <3> QED BY <3>4, <3>5
  <2> QED BY <2>1, <2>2
<1>15. lsn' = lsn /\ ticked \subseteq ticked'
  BY <1>4
<1>16. WinInv'
  BY <1>3, <1>4, <1>11, <1>12, <1>14, <1>15, WinStep
<1>17. \A k \in Nodes : node'[k] = IF k = n THEN w ELSE node[k]
  BY <1>1, <1>4
<1>p. \A k \in Primaries' \ Primaries : k = n /\ w.status = "primary" /\ s # "primary"
  BY <1>17 DEF Primaries
<1>18. CASE s = "announce" /\ next = "primary"
  <2>1. IsMajority(node[n].accepted + 1)
    BY <1>5, <1>18, TimeoutNext DEF next
  <2>2. node[n].accepted <= Cardinality(Granted(n, msgs, lsn))
    BY <1>13, <1>18 DEF Candidate
  <2>3. Most({m \in Nodes : lsn[m] <= lsn[n]})
    BY <1>1, <1>2, <2>1, <2>2, GrantedMost
  <2> QED BY <1>16, <1>p, <2>3 DEF Winners
<1>19. CASE ~(s = "announce" /\ next = "primary")
  <2>1. w.status = "primary" => s = "primary"
    BY <1>s, <1>6, <1>8, <1>19 DEF Statuses
  <2> QED BY <1>16, <1>p, <2>1 DEF Winners
<1> QED BY <1>16, <1>18, <1>19

-----------------------------------------------------------------------------

(* A group starts without candidates. *)
LEMMA WinInit ==
  ASSUME \A s \in Scenarios : s.faults.up = 0, Init
  PROVE WinInv
<1>1. Inv /\ NoForce
  BY InvInit DEF Init, NoForce
<1>2. \A n \in Nodes : node[n].status = "silence"
  BY DEF Init, Started, FirstStatus
<1>3. \A n \in Nodes : Candidate(n, node[n], msgs, lsn) /\ Idle(n, node[n], msgs, ticked)
  BY <1>2 DEF Candidate, Idle, Late
<1> QED BY <1>1, <1>3 DEF WinInv

(* Every step keeps the invariant, and who wins in it has the log. *)
LEMMA WinNext ==
  ASSUME WinInv, AllNormal, VoteTime > 1, LogsStay, Next
  PROVE WinInv' /\ Winners
<1>0. NoForce
  BY DEF WinInv
<1>1. CASE HandleBeats
  BY <1>1, BeatWin, BeatResWin DEF HandleBeats, Winners
<1>2. CASE HandleMsg
  BY <1>0, <1>2, BallotWin, ReplyWin, StepDownWin DEF HandleMsg, Winners, NoForce
<1>3. CASE \E n \in Nodes : Timer(n)
  BY <1>3, TimerWin
<1>4. CASE EndRound
  BY <1>4, EndRoundWin DEF Winners
<1>5. CASE Environment
  <2>1. ASSUME NEW n \in Nodes, StepUp(n) PROVE FALSE
    BY <1>0, <2>1 DEF StepUp, NoForce
  <2> QED BY <1>5, <2>1, ReelectWin, RestartWin, SynchroniseWin, AliveNodeWin
      DEF Environment, Winners
<1> QED BY <1>1, <1>2, <1>3, <1>4, <1>5 DEF Next, Protocol

(* A step that changes nothing. *)
LEMMA WinStutter == WinInv /\ UNCHANGED vars => WinInv'
BY DEF vars, WinInv, Inv, TypeOK, PrimaryIsSelf, NoForce

(* As long as every node is normal, nobody is forced to step up and no log passes
   that of a candidate, the node that _clsVSAnnounce makes primary has a log as
   long as those of a majority: each vote it counted is that of another peer,
   which had compared the logs. *)
THEOREM WinnerHasLog ==
  ASSUME \A s \in Scenarios : s.faults.up = 0, VoteTime > 1
  PROVE Spec /\ []AllNormal /\ [][LogsStay]_vars => WinnerUpToDate
<1>1. Init => WinInv
  BY WinInit
<1>2. WinInv /\ AllNormal /\ [Next]_vars /\ [LogsStay]_vars => WinInv'
  BY WinNext, WinStutter
<1>3. WinInv /\ AllNormal /\ [Next]_vars /\ [LogsStay]_vars => [Winners]_vars
  BY WinNext
<1>4. Spec /\ []AllNormal /\ [][LogsStay]_vars => [][Winners]_vars
  BY <1>1, <1>2, <1>3, PTL DEF Spec
<1>5. [][Winners]_vars => WinnerUpToDate
  BY DEF Winners, WinnerUpToDate
<1> QED BY <1>4, <1>5

-----------------------------------------------------------------------------
(* At most one primary. *)

(* What the proof remembers of a node, in rounds: when it sent the ballots of
   its last vote and of its last announcement, and who accepted them, itself
   included; when it won; when it last sent each peer a beat as the primary over
   a link that was up, and when the first one since it won. *)
Histories ==
  [asked1 : Int, yes1 : SUBSET Nodes, asked2 : Int, yes2 : SUBSET Nodes,
   won : Int, told : [Nodes -> Int], began : Int]

(* The time-outs that keep elections apart: a vote is over before who accepted
   it speaks again, beats are as frequent as the looks of a primary at its
   majority, and it does not look at a moment when it takes peers for alive that
   have not heard of it yet. *)
TimesApart ==
  /\ SilenceTime = BreakTime + 1
  /\ VoteTime + 2 <= BreakTime
  /\ BeatInterval <= VoteTime
  /\ \A i \in Nat : i * VoteTime \notin BreakTime .. BreakTime + BeatInterval - 2

(* k[n] counts how often the timer of n fired.  When its present status began,
   and when its last beats were due. *)
Since(k, N, n) == k[n] - N[n].time
LastBeat(k, N, n) == k[n] - N[n].beatTime - 1

Silenced(k, N, c, r) == N[c].status = "silence" /\ Since(k, N, c) >= r

(* The messages on the way of a round of n's vote. *)
Polled(n, q, S) ==
  {x \in S : \/ x.type = "ballot" /\ x.round = q /\ x.from = n
             \/ x.type = "reply" /\ x.round = q /\ x.to = n}

(* Whose vote a message is about. *)
Voter(x) == IF x.type = "ballot" THEN x.to ELSE x.from

(* Who accepted and is counted already. *)
Counted(n, q, S, yes) == {c \in yes : \A x \in Polled(n, q, S) : Voter(x) # c}

(* The count of n is that of voters who accepted, each counted once. *)
CountOK(n, q, S, yes, accepted) ==
  \/ accepted = 0 /\ Polled(n, q, S) = {}
  \/ /\ n \in yes
     /\ accepted < Cardinality(Counted(n, q, S, yes))
     /\ \A x \in Polled(n, q, S) : x.type = "ballot" => x.to \notin yes
     /\ \A x \in Polled(n, q, S) : x.type = "reply" /\ x.ok => x.from \in yes
     /\ \A x, y \in Polled(n, q, S) : Voter(x) = Voter(y) => x = y

(* The count of the vote or of the announcement that goes on. *)
TallyOK(H, N, S, n) ==
  /\ N[n].status = "vote" => CountOK(n, 1, S, H[n].yes1, N[n].accepted)
  /\ N[n].status = "announce" => CountOK(n, 2, S, H[n].yes2, N[n].accepted)

(* Who accepted an announcement is silent as long as it goes on. *)
HushOK(k, H, N, n) ==
  N[n].status = "announce" => \A c \in H[n].yes2 \ {n} : Silenced(k, N, c, H[n].asked2)

(* The timers of all nodes are within a round of each other. *)
ClockOK(R, k, H, N, C, n) ==
  /\ k[n] \in {R, R + 1}
  /\ N[n].beatTime < BeatInterval /\ N[n].force = 0
  /\ \A m \in Peers(n) : N[n].dead[m] > 0 => {n, m} \in C
  /\ \A m \in Nodes : H[n].told[m] <= LastBeat(k, N, n)
  /\ H[n].asked1 <= R /\ H[n].asked2 <= R

(* Polls are handled in the round in which they were sent. *)
PollsOK(R, k, H, N, S, n) ==
  /\ Polled(n, 1, S) # {} => /\ k[n] = R + 1
                             /\ N[n].status = "vote" => H[n].asked1 = R
  /\ Polled(n, 2, S) # {} => /\ k[n] = R + 1 /\ N[n].status # "vote"
                             /\ N[n].status = "announce" => H[n].asked2 = R

(* How long votes, announcements and the looks of a primary take. *)
SpanOK(k, H, N, n) ==
  /\ N[n].status \in {"vote", "announce", "primary"} => N[n].time <= VoteTime
  /\ N[n].status = "vote" => Since(k, N, n) = H[n].asked1 + 1
  /\ N[n].status = "announce" =>
       /\ Since(k, N, n) = H[n].asked2 + 1
       /\ Most(H[n].yes1)
       /\ \/ H[n].asked2 = H[n].asked1 + VoteTime
          \/ H[n].asked2 = H[n].asked1 /\ H[n].yes1 = Nodes

Multiples == {i * VoteTime : i \in Nat}

(* What a primary had when it won, and when it last looked at its majority. *)
ReignOK(k, H, N, p) ==
  N[p].status = "primary" =>
    /\ p \in H[p].yes2 /\ Most(H[p].yes2)
    /\ \A c \in H[p].yes2 \ {p} : \/ Silenced(k, N, c, H[p].asked2)
                                  \/ k[c] >= H[p].asked2 + SilenceTime
    /\ H[p].won <= H[p].asked2 + VoteTime + 1
    /\ Since(k, N, p) - H[p].won \in Multiples
    /\ Since(k, N, p) - BreakTime + 1 >= H[p].won + BeatInterval =>
         Most({p} \cup {c \in Peers(p) :
                H[p].told[c] >= Since(k, N, p) - BreakTime + 1 - BeatInterval})
    /\ LastBeat(k, N, p) >= H[p].won => H[p].began <= H[p].won + BeatInterval - 1

(* A beat of the primary p is on the way to c. *)
BeatTo(S, p, c) == \E b \in S : b.type = "beat" /\ b.primary /\ b.from = p /\ b.to = c

(* From the beat of a primary on, a peer names it or keeps silent, for BreakTime. *)
Heeds(k, H, N, S, p, c) ==
  \/ BeatTo(S, p, c)
  \/ Silenced(k, N, c, H[p].told[c])
  \/ k[c] >= H[p].told[c] + BreakTime
  \/ N[c].primary = p /\ k[c] - N[c].age[p] >= H[p].told[c]

(* A primary that takes c for alive has told it so, and c heeds it. *)
ToldOK(k, H, N, S, C, p, c) ==
  N[p].status = "primary" =>
    /\ N[p].age[c] < BreakTime /\ k[p] - N[p].age[c] >= H[p].won + BeatInterval =>
         H[p].told[c] >= k[p] - N[p].age[c] - BeatInterval
    /\ {p, c} \notin C /\ LastBeat(k, N, p) >= H[p].won => H[p].told[c] = LastBeat(k, N, p)
    /\ H[p].told[c] >= H[p].won => H[p].told[c] >= H[p].began /\ Heeds(k, H, N, S, p, c)

Candid(N, a) == N[a].status \in {"vote", "announce"}

(* Two candidates have no common voter, unless the other vote was over. *)
RivalsOK(H, N, a, b) ==
  N[b].status = "announce" =>
    /\ N[a].status = "announce" => H[a].yes2 \cap H[b].yes2 = {}
    /\ Candid(N, a) /\ H[a].yes1 \cap H[b].yes2 # {} => H[a].asked1 <= H[b].asked2

(* Voter c of candidate a, who also voted for p or heard its beat. *)
Vote1OK(H, p, a, c) ==
  /\ c \in H[p].yes2 => \/ H[a].asked1 <= H[p].asked2
                        \/ c # p /\ H[a].asked1 >= H[p].asked2 + BreakTime
  /\ c # p /\ H[p].told[c] >= H[p].won => \/ H[a].asked1 >= H[p].told[c] + BreakTime - 1
                                          \/ H[a].asked1 <= H[p].began

(* The same of the voters of an announcement. *)
Vote2OK(H, p, a, c) ==
  /\ c \in H[p].yes2 => H[a].asked2 >= H[p].asked2 + BreakTime
  /\ c # p /\ H[p].told[c] >= H[p].won => \/ H[a].asked2 >= H[p].told[c] + BreakTime - 1
                                          \/ H[a].asked2 <= H[p].began

(* Candidate a against the primary p. *)
ChallengeOK(H, N, p, a) ==
  N[p].status = "primary" =>
    /\ Candid(N, a) => \A c \in H[a].yes1 : Vote1OK(H, p, a, c)
    /\ N[a].status = "announce" => \A c \in H[a].yes2 : Vote2OK(H, p, a, c)

Alone(N) == \A p, q \in Nodes : N[p].status = "primary" /\ N[q].status = "primary" => p = q

(* Beats in the name of a primary are those of the only one. *)
WireOK(k, H, N, C, x) ==
  /\ x.from # x.to => {x.from, x.to} \notin C
  /\ x.type = "beat" /\ x.primary => \A p \in Nodes : N[p].status = "primary" => p = x.from
  /\ x.type = "beat" /\ ~x.primary /\ N[x.from].status = "primary" =>
       LastBeat(k, N, x.from) < H[x.from].won

NodeOK(R, k, H, N, S, C, n) ==
  /\ ClockOK(R, k, H, N, C, n) /\ PollsOK(R, k, H, N, S, n)
  /\ SpanOK(k, H, N, n) /\ ReignOK(k, H, N, n)

PairOK(k, H, N, S, C, p, c) ==
  ToldOK(k, H, N, S, C, p, c) /\ RivalsOK(H, N, p, c) /\ ChallengeOK(H, N, p, c)

Core(R, k, H, N, S, C) ==
  /\ R \in Nat /\ k \in [Nodes -> Int] /\ H \in [Nodes -> Histories]
  /\ \A n \in Nodes : NodeOK(R, k, H, N, S, C, n)
  /\ \A p \in Nodes : \A c \in Peers(p) : PairOK(k, H, N, S, C, p, c)
  /\ Alone(N)
  /\ \A x \in S : WireOK(k, H, N, C, x)

(* The numbers of a node's state are numbers. *)
Sized(N) ==
  \A n \in Nodes :
    /\ N[n].status \in Statuses /\ N[n].time \in Nat /\ N[n].accepted \in Nat
    /\ N[n].beatTime \in Nat
    /\ \A m \in Peers(n) : N[n].age[m] \in 0 .. BreakTime /\ N[n].dead[m] \in Nat

(* A node that did not miss its time-out. *)
InTime(N, n) == N[n].status \in {"vote", "announce", "primary"} => N[n].time < VoteTime

-----------------------------------------------------------------------------

(* The lengths of the time-outs. *)
LEMMA TimesFacts ==
  ASSUME TimesApart
  PROVE /\ VoteTime \in Nat /\ VoteTime > 0 /\ BreakTime \in Nat /\ BeatInterval \in Nat
        /\ BeatInterval > 0 /\ SilenceTime = BreakTime + 1 /\ VoteTime + 2 <= BreakTime
        /\ BeatInterval <= VoteTime
BY TimeAssumption DEF TimesApart

(* What is remembered of a node. *)
LEMMA HistoryFacts ==
  ASSUME NEW H \in [Nodes -> Histories], NEW n \in Nodes
  PROVE /\ H[n].asked1 \in Int /\ H[n].asked2 \in Int /\ H[n].won \in Int /\ H[n].began \in Int
        /\ H[n].yes1 \subseteq Nodes /\ H[n].yes2 \subseteq Nodes
        /\ \A m \in Nodes : H[n].told[m] \in Int
BY DEF Histories

(* The clocks of two nodes differ by one at most, and a beat was sent before. *)
LEMMA ClockFacts ==
  ASSUME NEW R, NEW k, NEW H, NEW N, NEW S, NEW C, Core(R, k, H, N, S, C), Sized(N),
         NEW n \in Nodes
  PROVE /\ R \in Nat /\ k[n] \in Int /\ k[n] \in {R, R + 1}
        /\ LastBeat(k, N, n) \in Int /\ LastBeat(k, N, n) < k[n] /\ LastBeat(k, N, n) <= R
        /\ Since(k, N, n) \in Int /\ Since(k, N, n) <= k[n]
        /\ \A m \in Nodes : H[n].told[m] \in Int /\ H[n].told[m] <= LastBeat(k, N, n)
<1>1. R \in Nat /\ k[n] \in Int /\ k[n] \in {R, R + 1}
  BY DEF Core, NodeOK, ClockOK
<1>2. N[n].time \in Nat /\ N[n].beatTime \in Nat
  BY DEF Sized
<1>3. \A m \in Nodes : H[n].told[m] \in Int /\ H[n].told[m] <= LastBeat(k, N, n)
  BY HistoryFacts DEF Core, NodeOK, ClockOK
<1> QED BY <1>1, <1>2, <1>3 DEF LastBeat, Since

(* Node n does not go on in an election: its status stays, or it becomes a
   secondary or silent. *)
Calm(k, H, N, N1, S, S1, C, n) ==
  /\ \A m \in Peers(n) : N1[m] = N[m]
  /\ \/ N1[n].status = N[n].status /\ N1[n].time = N[n].time
     \/ N1[n].status \in {"sec", "silence"} /\ N1[n].time = 0
  /\ N[n].status = "silence" => N1[n].status = "silence" \/ N[n].time >= SilenceTime
  /\ N1[n].force = 0 /\ N1[n].beatTime <= N[n].beatTime
  /\ N1[n].status = "primary" => N1[n].beatTime = N[n].beatTime
  /\ \A m \in Peers(n) : N1[n].dead[m] > 0 => N[n].dead[m] > 0
  /\ \A m \in Peers(n) : \/ N1[n].status # "primary" \/ N1[n].age[m] = N[n].age[m]
                         \/ N1[n].age[m] = 0 /\ {n, m} \notin C
  /\ \A x \in S1 \ S : x.type # "beat" /\ (x.from # x.to => {x.from, x.to} \notin C)
  /\ \A x \in S \ S1 : x.type = "beat" => x.to = n
  /\ \A m \in Nodes : \A q \in {1, 2} : Polled(m, q, S) = {} => Polled(m, q, S1) = {}
  /\ \A p \in Peers(n) :
       N[p].status = "primary" /\ H[p].told[n] >= H[p].won /\ Heeds(k, H, N, S, p, n) =>
         Heeds(k, H, N1, S1, p, n)

(* Who is silent stays silent, or was so for SilenceTime. *)
LEMMA CalmSilence ==
  ASSUME TimesApart, NEW R, NEW k, NEW H, NEW N, NEW S, NEW C, Core(R, k, H, N, S, C), Sized(N),
         NEW N1, NEW S1, Sized(N1), NEW n \in Nodes, Calm(k, H, N, N1, S, S1, C, n),
         NEW c \in Nodes, NEW r \in Int, Silenced(k, N, c, r)
  PROVE Silenced(k, N1, c, r) \/ (c = n /\ k[c] >= r + SilenceTime)
<1>1. CASE c # n
  BY <1>1 DEF Calm, Silenced, Since, Peers
<1>2. CASE c = n
  <2>1. k[n] \in Int /\ N[n].time \in Nat /\ N1[n].time \in Nat /\ SilenceTime \in Nat
    BY ClockFacts, TimesFacts DEF Sized
  <2>2. N[n].status = "silence" /\ k[n] - N[n].time >= r
    BY <1>2 DEF Silenced, Since
  <2>3. CASE N1[n].status = "silence"
    BY <1>2, <2>1, <2>2, <2>3 DEF Calm, Silenced, Since
  <2>4. CASE N1[n].status # "silence"
    BY <1>2, <2>1, <2>2, <2>4 DEF Calm
  <2> QED BY <2>3, <2>4
<1> QED BY <1>1, <1>2

(* A calm step keeps what holds of each node. *)
LEMMA CalmNode ==
  ASSUME TimesApart, NEW R, NEW k, NEW H, NEW N, NEW S, NEW C, Core(R, k, H, N, S, C), Sized(N),
         NEW N1, NEW S1, Sized(N1), NEW n \in Nodes, Calm(k, H, N, N1, S, S1, C, n),
         NEW m \in Nodes
  PROVE NodeOK(R, k, H, N1, S1, C, m)
<1>0. /\ NodeOK(R, k, H, N, S, C, m) /\ (m # n => N1[m] = N[m])
      /\ H \in [Nodes -> Histories]
  BY DEF Core, Calm, Peers
<1>1. ClockOK(R, k, H, N1, C, m)
  <2>1. CASE m # n
    BY <1>0, <2>1 DEF NodeOK, ClockOK, LastBeat
  <2>2. CASE m = n
    <3>1. k[n] \in Int /\ N[n].beatTime \in Nat /\ N1[n].beatTime \in Nat
          /\ N1[n].beatTime <= N[n].beatTime /\ N1[n].force = 0 /\ BeatInterval \in Nat
      BY ClockFacts, TimesFacts DEF Sized, Calm
    <3>2. \A i \in Peers(n) : N1[n].dead[i] > 0 => {n, i} \in C
      BY <1>0, <2>2 DEF NodeOK, ClockOK, Calm
    <3>3. \A i \in Nodes : H[n].told[i] \in Int
      BY <1>0, HistoryFacts
    <3> QED BY <1>0, <2>2, <3>1, <3>2, <3>3 DEF NodeOK, ClockOK, LastBeat
  <2> QED BY <2>1, <2>2
<1>2. /\ N1[m].status \in {"vote", "announce", "primary"} =>
           N1[m].status = N[m].status /\ N1[m].time = N[m].time
      /\ N1[m].status = "primary" => N1[m].beatTime = N[m].beatTime
  BY <1>0 DEF Calm
<1>3. PollsOK(R, k, H, N1, S1, m)
  BY <1>0, <1>2 DEF NodeOK, PollsOK, Calm
<1>4. SpanOK(k, H, N1, m)
  BY <1>0, <1>2 DEF NodeOK, SpanOK, Since
<1>5. ReignOK(k, H, N1, m)
  <2> SUFFICES ASSUME N1[m].status = "primary" PROVE ReignOK(k, H, N1, m)
    BY DEF ReignOK
  <2>1. N[m].status = "primary" /\ Since(k, N1, m) = Since(k, N, m)
        /\ LastBeat(k, N1, m) = LastBeat(k, N, m)
    BY <1>2 DEF Since, LastBeat
  <2>2. ReignOK(k, H, N, m)
    BY <1>0 DEF NodeOK
  <2>3. \A c \in H[m].yes2 \ {m} : \/ Silenced(k, N1, c, H[m].asked2)
                                   \/ k[c] >= H[m].asked2 + SilenceTime
    BY <1>0, <2>1, <2>2, HistoryFacts, CalmSilence DEF ReignOK
  <2> QED BY <2>1, <2>2, <2>3 DEF ReignOK
<1> QED BY <1>1, <1>3, <1>4, <1>5 DEF NodeOK

(* A calm step keeps what holds of each pair. *)
LEMMA CalmPair ==
  ASSUME TimesApart, NEW R, NEW k, NEW H, NEW N, NEW S, NEW C, Core(R, k, H, N, S, C), Sized(N),
         NEW N1, NEW S1, Sized(N1), NEW n \in Nodes, Calm(k, H, N, N1, S, S1, C, n),
         NEW p \in Nodes, NEW c \in Peers(p)
  PROVE PairOK(k, H, N1, S1, C, p, c)
<1>0. /\ PairOK(k, H, N, S, C, p, c) /\ c \in Nodes /\ c # p
      /\ \A m \in Nodes : m # n => N1[m] = N[m]
      /\ H \in [Nodes -> Histories]
  BY DEF Core, Calm, Peers
<1>1. \A m \in Nodes :
        /\ N1[m].status \in {"vote", "announce", "primary"} =>
             N1[m].status = N[m].status /\ N1[m].time = N[m].time
        /\ N1[m].status = "primary" => N1[m].beatTime = N[m].beatTime
  BY <1>0 DEF Calm
<1>2. RivalsOK(H, N1, p, c)
  BY <1>0, <1>1 DEF PairOK, RivalsOK, Candid
<1>3. ChallengeOK(H, N1, p, c)
  BY <1>0, <1>1 DEF PairOK, ChallengeOK, Candid
<1>4. ToldOK(k, H, N1, S1, C, p, c)
  <2> SUFFICES ASSUME N1[p].status = "primary" PROVE ToldOK(k, H, N1, S1, C, p, c)
    BY DEF ToldOK
  <2>1. N[p].status = "primary" /\ LastBeat(k, N1, p) = LastBeat(k, N, p)
    BY <1>1 DEF LastBeat
  <2>2. ToldOK(k, H, N, S, C, p, c)
    BY <1>0 DEF PairOK
  <2>3. N1[p].age[c] < BreakTime /\ k[p] - N1[p].age[c] >= H[p].won + BeatInterval =>
          H[p].told[c] >= k[p] - N1[p].age[c] - BeatInterval
    <3>1. CASE N1[p].age[c] = N[p].age[c]
      BY <2>1, <2>2, <3>1 DEF ToldOK
    <3>2. CASE N1[p].age[c] = 0 /\ {p, c} \notin C
      <4>1. k[p] \in Int /\ N[p].beatTime \in Nat /\ N[p].beatTime < BeatInterval
            /\ H[p].won \in Int /\ BeatInterval \in Nat
        BY <1>0, ClockFacts, HistoryFacts, TimesFacts DEF Sized, Core, NodeOK, ClockOK
      <4>2. LastBeat(k, N, p) >= H[p].won => H[p].told[c] = LastBeat(k, N, p)
        BY <2>1, <2>2, <3>2 DEF ToldOK
      <4> QED BY <3>2, <4>1, <4>2 DEF LastBeat
    <3> QED BY <1>0, <3>1, <3>2 DEF Calm
  <2>4. H[p].told[c] >= H[p].won => Heeds(k, H, N1, S1, p, c)
    <3> SUFFICES ASSUME H[p].told[c] >= H[p].won PROVE Heeds(k, H, N1, S1, p, c)
      OBVIOUS
    <3>1. Heeds(k, H, N, S, p, c)
      BY <2>1, <2>2 DEF ToldOK
    <3>2. CASE c = n
      BY <1>0, <2>1, <3>1, <3>2 DEF Calm, Peers
    <3>3. CASE c # n
      <4>1. N1[c] = N[c]
        BY <1>0, <3>3
      <4>2. BeatTo(S, p, c) => BeatTo(S1, p, c)
        BY <3>3 DEF BeatTo, Calm
      <4> QED BY <3>1, <4>1, <4>2 DEF Heeds, Silenced, Since
    <3> QED BY <3>2, <3>3
  <2> QED BY <2>1, <2>2, <2>3, <2>4 DEF ToldOK
<1> QED BY <1>2, <1>3, <1>4 DEF PairOK

(* A calm step keeps everything. *)
LEMMA CalmCore ==
  ASSUME TimesApart, NEW R, NEW k, NEW H, NEW N, NEW S, NEW C, Core(R, k, H, N, S, C), Sized(N),
         NEW N1, NEW S1, Sized(N1), NEW n \in Nodes, Calm(k, H, N, N1, S, S1, C, n),
         \A x \in S : x.from \in Nodes
  PROVE Core(R, k, H, N1, S1, C)
<1>1. /\ \A m \in Nodes : NodeOK(R, k, H, N1, S1, C, m)
      /\ \A p \in Nodes : \A c \in Peers(p) : PairOK(k, H, N1, S1, C, p, c)
  BY CalmNode, CalmPair
<1>2. \A m \in Nodes : N1[m].status = "primary" =>
         N[m].status = "primary" /\ N1[m].beatTime = N[m].beatTime
  BY DEF Calm, Peers
<1>3. Alone(N1)
  BY <1>2 DEF Alone, Core
<1>4. ASSUME NEW x \in S1 PROVE WireOK(k, H, N1, C, x)
  <2>1. CASE x \in S
    BY <1>2, <2>1 DEF Core, WireOK, LastBeat
  <2>2. CASE x \notin S
    BY <2>2 DEF Calm, WireOK
  <2> QED BY <2>1, <2>2
<1> QED BY <1>1, <1>3, <1>4 DEF Core

(* An announcement is over before who accepted it may speak again. *)
LEMMA CalmHush ==
  ASSUME TimesApart, NEW R, NEW k, NEW H, NEW N, NEW S, NEW C, Core(R, k, H, N, S, C), Sized(N),
         NEW N1, NEW S1, Sized(N1), NEW n \in Nodes, Calm(k, H, N, N1, S, S1, C, n),
         NEW m \in Nodes, N1[m].status = "announce",
         NEW c \in Nodes, Silenced(k, N, c, H[m].asked2)
  PROVE Silenced(k, N1, c, H[m].asked2)
<1>1. N[m].status = "announce" /\ N1[m].time = N[m].time
  BY DEF Calm, Peers
<1>2. k[m] - N[m].time = H[m].asked2 + 1 /\ N[m].time <= VoteTime
  BY <1>1 DEF Core, NodeOK, SpanOK, Since
<1>3. H[m].asked2 \in Int /\ N[m].time \in Nat
  BY HistoryFacts DEF Core, Sized
<1>4. k[c] <= k[m] + 1 /\ k[c] \in Int /\ k[m] \in Int
  BY ClockFacts
<1>5. ~(k[c] >= H[m].asked2 + SilenceTime)
  BY <1>2, <1>3, <1>4, TimesFacts
<1> QED BY <1>3, <1>5, CalmSilence

(* A node that may vote: it is not silent, names nobody, and no beat of a
   primary is on the way to it. *)
Free(N, S, c) ==
  N[c].status # "silence" /\ N[c].primary = None /\ \A p \in Nodes : ~BeatTo(S, p, c)

(* Whom a free node voted for is neither announcing nor primary for long, and if
   it heard of a primary, that was BreakTime ago. *)
LEMMA FreeVoter ==
  ASSUME TimesApart, NEW R, NEW k, NEW H, NEW N, NEW S, NEW C, Core(R, k, H, N, S, C), Sized(N),
         \A m \in Nodes : HushOK(k, H, N, m), NEW c \in Nodes, Free(N, S, c), NEW p \in Peers(c)
  PROVE /\ N[p].status = "announce" => c \notin H[p].yes2
        /\ N[p].status = "primary" /\ c \in H[p].yes2 => R >= H[p].asked2 + BreakTime
        /\ N[p].status = "primary" /\ H[p].told[c] >= H[p].won =>
             R >= H[p].told[c] + BreakTime - 1
<1>0. /\ p \in Nodes /\ c # p /\ c \in Peers(p)
      /\ R \in Nat /\ k[c] \in Int /\ k[c] <= R + 1
      /\ H[p].told[c] \in Int /\ H[p].asked2 \in Int
      /\ BreakTime \in Nat /\ SilenceTime = BreakTime + 1
  <2>1. p \in Nodes /\ c # p /\ c \in Peers(p)
    BY DEF Peers
  <2>2. R \in Nat /\ k[c] \in Int /\ k[c] <= R + 1
    BY ClockFacts
  <2>3. H[p].told[c] \in Int /\ H[p].asked2 \in Int
    BY <2>1, HistoryFacts DEF Core
  <2> QED BY <2>1, <2>2, <2>3, TimesFacts
<1>1. N[p].status = "announce" => c \notin H[p].yes2
  BY <1>0 DEF HushOK, Silenced, Free
<1>2. ASSUME N[p].status = "primary", c \in H[p].yes2
      PROVE R >= H[p].asked2 + BreakTime
  <2>1. k[c] >= H[p].asked2 + SilenceTime
    BY <1>0, <1>2 DEF Core, NodeOK, ReignOK, Silenced, Free
  <2> QED BY <1>0, <2>1
<1>3. ASSUME N[p].status = "primary", H[p].told[c] >= H[p].won
      PROVE R >= H[p].told[c] + BreakTime - 1
  <2>1. Heeds(k, H, N, S, p, c)
    BY <1>0, <1>3 DEF Core, PairOK, ToldOK
  <2>2. k[c] >= H[p].told[c] + BreakTime
    BY <1>0, <2>1, NoneAssumption DEF Heeds, Silenced, Free
  <2> QED BY <1>0, <2>2
<1> QED BY <1>1, <1>2, <1>3

(* A free node promises in the first round. *)
LEMMA PromiseCore ==
  ASSUME TimesApart, NEW R, NEW k, NEW H, NEW N, NEW S, NEW C, Core(R, k, H, N, S, C), Sized(N),
         \A m \in Nodes : HushOK(k, H, N, m), NEW c \in Nodes, Free(N, S, c),
         N[c].status \in {"sec", "vote"}, NEW a \in Peers(c), N[a].status = "vote",
         H[a].asked1 = R, NEW H1, H1 = [H EXCEPT ![a].yes1 = @ \cup {c}]
  PROVE Core(R, k, H1, N, S, C)
<1>0. H \in [Nodes -> Histories] /\ R \in Nat /\ a \in Nodes /\ a # c
  BY DEF Core, Peers
<1>1. /\ H1 \in [Nodes -> Histories]
      /\ \A m \in Nodes : m # a => H1[m] = H[m]
      /\ H1[a].yes1 = H[a].yes1 \cup {c}
      /\ \A m \in Nodes : /\ H1[m].asked1 = H[m].asked1 /\ H1[m].asked2 = H[m].asked2
                          /\ H1[m].yes2 = H[m].yes2 /\ H1[m].won = H[m].won
                          /\ H1[m].told = H[m].told /\ H1[m].began = H[m].began
                          /\ N[m].status # "vote" => H1[m].yes1 = H[m].yes1
  BY <1>0 DEF Histories
<1>2. ASSUME NEW m \in Nodes PROVE NodeOK(R, k, H1, N, S, C, m)
  <2>1. NodeOK(R, k, H, N, S, C, m)
    BY DEF Core
  <2> QED BY <1>1, <2>1 DEF NodeOK, ClockOK, PollsOK, SpanOK, ReignOK
<1>3. ASSUME NEW p \in Nodes, NEW b \in Peers(p) PROVE PairOK(k, H1, N, S, C, p, b)
  <2>0. b \in Nodes /\ b # p
    BY DEF Peers
  <2>1. PairOK(k, H, N, S, C, p, b)
    BY DEF Core
  <2>2. ToldOK(k, H1, N, S, C, p, b)
    BY <1>1, <2>0, <2>1 DEF PairOK, ToldOK, Heeds
  <2>3. RivalsOK(H1, N, p, b)
    <3>1. CASE p # a
      BY <1>1, <2>0, <2>1, <3>1 DEF PairOK, RivalsOK
    <3>2. CASE p = a
      <4>1. N[b].status = "announce" => c \notin H[b].yes2
        <5>1. b # c \/ N[b].status # "announce"
          OBVIOUS
        <5> QED BY <2>0, <5>1, FreeVoter DEF Peers
      <4> QED BY <1>1, <2>0, <2>1, <3>2, <4>1 DEF PairOK, RivalsOK
    <3> QED BY <3>1, <3>2
  <2>4. ChallengeOK(H1, N, p, b)
    <3>1. CASE b # a
      BY <1>1, <2>0, <2>1, <3>1 DEF PairOK, ChallengeOK, Vote1OK, Vote2OK
    <3>2. CASE b = a /\ N[p].status = "primary"
      <4>1. p # c
        BY <3>2
      <4>2. /\ c \in H[p].yes2 => R >= H[p].asked2 + BreakTime
            /\ H[p].told[c] >= H[p].won => R >= H[p].told[c] + BreakTime - 1
        BY <3>2, <4>1, FreeVoter DEF Peers
      <4>3. Vote1OK(H1, p, a, c)
        BY <1>1, <4>1, <4>2 DEF Vote1OK
      <4>4. \A d \in H[a].yes1 : Vote1OK(H1, p, a, d)
        BY <1>1, <2>1, <3>2 DEF PairOK, ChallengeOK, Candid, Vote1OK
      <4> QED BY <1>1, <3>2, <4>3, <4>4 DEF ChallengeOK
    <3> QED BY <3>1, <3>2 DEF ChallengeOK
  <2> QED BY <2>2, <2>3, <2>4 DEF PairOK
<1>4. \A x \in S : WireOK(k, H1, N, C, x)
  <2>1. \A x \in S : N[x.from].status = "primary" /\ x.from \in Nodes => H1[x.from].won = H[x.from].won
    BY <1>1
  <2> QED BY <1>1, <2>1 DEF Core, WireOK
<1> QED BY <1>1, <1>2, <1>3, <1>4 DEF Core

(* A free node accepts in the second round; it is not silent yet. *)
LEMMA AcceptCore ==
  ASSUME TimesApart, NEW R, NEW k, NEW H, NEW N, NEW S, NEW C, Core(R, k, H, N, S, C), Sized(N),
         \A m \in Nodes : HushOK(k, H, N, m), NEW c \in Nodes, Free(N, S, c),
         N[c].status \in {"sec", "vote"}, NEW a \in Peers(c), N[a].status = "announce",
         H[a].asked2 = R, NEW H1, H1 = [H EXCEPT ![a].yes2 = @ \cup {c}]
  PROVE Core(R, k, H1, N, S, C)
<1>0. H \in [Nodes -> Histories] /\ R \in Nat /\ a \in Nodes /\ a # c
  BY DEF Core, Peers
<1>1. /\ H1 \in [Nodes -> Histories]
      /\ \A m \in Nodes : m # a => H1[m] = H[m]
      /\ H1[a].yes2 = H[a].yes2 \cup {c}
      /\ \A m \in Nodes : /\ H1[m].asked1 = H[m].asked1 /\ H1[m].asked2 = H[m].asked2
                          /\ H1[m].yes1 = H[m].yes1 /\ H1[m].won = H[m].won
                          /\ H1[m].told = H[m].told /\ H1[m].began = H[m].began
                          /\ N[m].status # "announce" => H1[m].yes2 = H[m].yes2
  BY <1>0 DEF Histories
<1>2. ASSUME NEW m \in Nodes PROVE NodeOK(R, k, H1, N, S, C, m)
  <2>1. NodeOK(R, k, H, N, S, C, m)
    BY DEF Core
  <2> QED BY <1>1, <2>1 DEF NodeOK, ClockOK, PollsOK, SpanOK, ReignOK
<1>3. ASSUME NEW p \in Nodes, NEW b \in Peers(p) PROVE PairOK(k, H1, N, S, C, p, b)
  <2>0. b \in Nodes /\ b # p
    BY DEF Peers
  <2>1. PairOK(k, H, N, S, C, p, b)
    BY DEF Core
  <2>2. ToldOK(k, H1, N, S, C, p, b)
    BY <1>1, <2>0, <2>1 DEF PairOK, ToldOK, Heeds
  <2>3. RivalsOK(H1, N, p, b)
    <3>1. CASE p # a /\ b # a
      BY <1>1, <2>0, <2>1, <3>1 DEF PairOK, RivalsOK
    <3>2. \A d \in Nodes : d # a /\ N[d].status = "announce" => c \notin H[d].yes2
      <4> SUFFICES ASSUME NEW d \in Nodes, d # a, N[d].status = "announce"
                   PROVE c \notin H[d].yes2
        OBVIOUS
      <4>1. d # c
        OBVIOUS
      <4> QED BY <4>1, FreeVoter DEF Peers
    <3>3. CASE p = a
      BY <1>1, <2>0, <2>1, <3>2, <3>3 DEF PairOK, RivalsOK
    <3>4. CASE b = a
      <4>1. N[p].status = "announce" => H1[p].yes2 \cap H1[b].yes2 = {}
        BY <1>1, <2>0, <2>1, <3>2, <3>4 DEF PairOK, RivalsOK
      <4>2. H[p].asked1 <= R
        BY DEF Core, NodeOK, ClockOK
      <4> QED BY <1>1, <2>0, <3>4, <4>1, <4>2 DEF RivalsOK
    <3> QED BY <3>1, <3>3, <3>4
  <2>4. ChallengeOK(H1, N, p, b)
    <3>1. CASE b # a
      BY <1>1, <2>0, <2>1, <3>1 DEF PairOK, ChallengeOK, Vote1OK, Vote2OK
    <3>2. CASE b = a /\ N[p].status = "primary"
      <4>1. p # c
        BY <3>2
      <4>2. /\ c \in H[p].yes2 => R >= H[p].asked2 + BreakTime
            /\ H[p].told[c] >= H[p].won => R >= H[p].told[c] + BreakTime - 1
        BY <3>2, <4>1, FreeVoter DEF Peers
      <4>3. Vote2OK(H1, p, a, c)
        BY <1>1, <3>2, <4>1, <4>2 DEF Vote2OK
      <4>4. \A d \in H[a].yes2 : Vote2OK(H1, p, a, d)
        BY <1>1, <2>1, <3>2 DEF PairOK, ChallengeOK, Vote2OK
      <4>5. \A d \in H[a].yes1 : Vote1OK(H1, p, a, d)
        BY <1>1, <2>1, <3>2 DEF PairOK, ChallengeOK, Candid, Vote1OK
      <4> QED BY <1>0, <1>1, <3>2, <4>3, <4>4, <4>5 DEF ChallengeOK
    <3> QED BY <3>1, <3>2 DEF ChallengeOK
  <2> QED BY <2>2, <2>3, <2>4 DEF PairOK
<1>4. \A x \in S : WireOK(k, H1, N, C, x)
  <2>1. \A x \in S : N[x.from].status = "primary" /\ x.from \in Nodes => H1[x.from].won = H[x.from].won
    BY <1>1
  <2> QED BY <1>1, <2>1 DEF Core, WireOK
<1> QED BY <1>1, <1>2, <1>3, <1>4 DEF Core

(* Node n enters status s and sends the ballots of round q, or none. *)
Enters(N, N1, S, S1, C, n, s, q) ==
  /\ \A m \in Peers(n) : N1[m] = N[m]
  /\ N1[n].status = s /\ N1[n].time = 0 /\ N1[n].force = 0
  /\ N1[n].primary = N[n].primary /\ N1[n].beatTime = N[n].beatTime
  /\ N1[n].age = N[n].age /\ N1[n].dead = N[n].dead
  /\ S \subseteq S1 /\ Polled(n, q, S) = {}
  /\ \A x \in S1 \ S : /\ x.type = "ballot" /\ x.round = q /\ x.from = n
                       /\ {x.from, x.to} \notin C

(* The polls of the others stay. *)
LEMMA EntersPolls ==
  ASSUME NEW N, NEW N1, NEW S, NEW S1, NEW C, NEW n \in Nodes, NEW s, NEW q \in {1, 2},
         Enters(N, N1, S, S1, C, n, s, q), NEW m \in Nodes, NEW j \in {1, 2}
  PROVE m # n \/ j # q => Polled(m, j, S1) = Polled(m, j, S)
BY DEF Enters, Polled

(* Beats stay too, so who heeds a primary still does. *)
LEMMA EntersHeeds ==
  ASSUME NEW k, NEW H, NEW N, NEW N1, NEW S, NEW S1, NEW C, NEW n \in Nodes, NEW s,
         NEW q, Enters(N, N1, S, S1, C, n, s, q), N[n].status # "silence",
         NEW H1, NEW p \in Nodes, NEW c \in Nodes, H1[p].told = H[p].told,
         Heeds(k, H, N, S, p, c)
  PROVE Heeds(k, H1, N1, S1, p, c)
<1>1. BeatTo(S, p, c) => BeatTo(S1, p, c)
  BY DEF Enters, BeatTo
<1>2. CASE c # n
  BY <1>1, <1>2 DEF Enters, Heeds, Silenced, Since, Peers
<1>3. CASE c = n
  BY <1>1, <1>3 DEF Enters, Heeds, Silenced
<1> QED BY <1>2, <1>3

(* The promises of the others do not change when n starts a vote. *)
LEMMA EntersTold ==
  ASSUME NEW k, NEW H, NEW N, NEW N1, NEW S, NEW S1, NEW C, NEW n \in Nodes, NEW s,
         NEW q, Enters(N, N1, S, S1, C, n, s, q), N[n].status # "silence",
         NEW H1, NEW p \in Nodes, NEW c \in Peers(p), p # n, H1[p] = H[p],
         ToldOK(k, H, N, S, C, p, c)
  PROVE ToldOK(k, H1, N1, S1, C, p, c)
<1>1. N1[p] = N[p] /\ c \in Nodes
  BY DEF Enters, Peers
<1>2. Heeds(k, H, N, S, p, c) => Heeds(k, H1, N1, S1, p, c)
  BY <1>1, EntersHeeds
<1> QED BY <1>1, <1>2 DEF ToldOK, LastBeat

(* The history of n with the ballots of a vote, or of an announcement. *)
Recalls1(H, H1, n, yes, r) ==
  /\ H1 \in [Nodes -> Histories] /\ \A m \in Peers(n) : H1[m] = H[m]
  /\ H1[n].yes1 = yes /\ H1[n].asked1 = r
  /\ H1[n].yes2 = H[n].yes2 /\ H1[n].asked2 = H[n].asked2
  /\ H1[n].won = H[n].won /\ H1[n].told = H[n].told /\ H1[n].began = H[n].began

Recalls2(H, H1, n, yes, r) ==
  /\ H1 \in [Nodes -> Histories] /\ \A m \in Peers(n) : H1[m] = H[m]
  /\ H1[n].yes1 = H[n].yes1 /\ H1[n].asked1 = H[n].asked1
  /\ H1[n].yes2 = yes /\ H1[n].asked2 = r
  /\ H1[n].won = H[n].won /\ H1[n].told = H[n].told /\ H1[n].began = H[n].began

(* There is such a history. *)
LEMMA RecallsExist ==
  ASSUME NEW H \in [Nodes -> Histories], NEW n \in Nodes, NEW yes \in SUBSET Nodes, NEW r \in Int
  PROVE (\E H1 : Recalls1(H, H1, n, yes, r)) /\ (\E H1 : Recalls2(H, H1, n, yes, r))
<1>1. H[n] \in Histories
  OBVIOUS
<1>2. PICK h : h = [H[n] EXCEPT !.yes1 = yes, !.asked1 = r]
  OBVIOUS
<1>3. Recalls1(H, [H EXCEPT ![n] = h], n, yes, r)
  BY <1>1, <1>2 DEF Recalls1, Histories, Peers
<1>4. PICK g : g = [H[n] EXCEPT !.yes2 = yes, !.asked2 = r]
  OBVIOUS
<1>5. Recalls2(H, [H EXCEPT ![n] = g], n, yes, r)
  BY <1>1, <1>4 DEF Recalls2, Histories, Peers
<1> QED BY <1>3, <1>5

(* A secondary begins to vote. *)
LEMMA VoteCore ==
  ASSUME TimesApart, NEW R, NEW k, NEW H, NEW N, NEW S, NEW C, Core(R, k, H, N, S, C), Sized(N),
         \A m \in Nodes : HushOK(k, H, N, m), NEW N1, NEW S1, NEW n \in Nodes, NEW yes,
         N[n].status = "sec", k[n] = R + 1, Enters(N, N1, S, S1, C, n, "vote", 1),
         Polled(n, 2, S) = {}, yes = {} \/ (yes = {n} /\ Free(N, S, n)),
         NEW H1, Recalls1(H, H1, n, yes, R),
         \A x \in S : x.from \in Nodes
  PROVE Core(R, k, H1, N1, S1, C)
<1>0. H \in [Nodes -> Histories] /\ R \in Nat
  BY DEF Core
<1>1. /\ H1 \in [Nodes -> Histories]
      /\ \A m \in Nodes : m # n => H1[m] = H[m] /\ N1[m] = N[m]
      /\ H1[n].yes1 = yes /\ H1[n].asked1 = R
      /\ \A m \in Nodes : /\ H1[m].asked2 = H[m].asked2 /\ H1[m].yes2 = H[m].yes2
                          /\ H1[m].won = H[m].won /\ H1[m].told = H[m].told
                          /\ H1[m].began = H[m].began
  BY <1>0 DEF Recalls1, Enters, Peers
<1>2. ASSUME NEW m \in Nodes PROVE NodeOK(R, k, H1, N1, S1, C, m)
  <2>1. NodeOK(R, k, H, N, S, C, m)
    BY DEF Core
  <2>2. Polled(m, 2, S1) = Polled(m, 2, S) /\ (m # n => Polled(m, 1, S1) = Polled(m, 1, S))
    BY EntersPolls
  <2>3. CASE m # n
    <3>1. \A c \in Nodes : \A r : Silenced(k, N, c, r) => Silenced(k, N1, c, r)
      BY <1>1 DEF Silenced, Since
    <3>2. ReignOK(k, H1, N1, m)
      BY <1>0, <1>1, <2>1, <2>3, <3>1, HistoryFacts DEF NodeOK, ReignOK, Since, LastBeat
    <3> QED BY <1>1, <2>1, <2>2, <2>3, <3>2 DEF NodeOK, ClockOK, PollsOK, SpanOK, LastBeat, Since
  <2>4. CASE m = n
    <3>1. ClockOK(R, k, H1, N1, C, n)
      BY <1>0, <1>1, <2>1, <2>4 DEF NodeOK, ClockOK, LastBeat, Enters
    <3>2. PollsOK(R, k, H1, N1, S1, n)
      BY <1>1, <2>2, <2>4 DEF PollsOK, Enters
    <3>3. SpanOK(k, H1, N1, n)
      BY <1>0, <1>1, TimesFacts DEF SpanOK, Since, Enters
    <3>4. ReignOK(k, H1, N1, n)
      BY DEF ReignOK, Enters
    <3> QED BY <2>4, <3>1, <3>2, <3>3, <3>4 DEF NodeOK
  <2> QED BY <2>3, <2>4
<1>3. ASSUME NEW p \in Nodes, NEW b \in Peers(p) PROVE PairOK(k, H1, N1, S1, C, p, b)
  <2>0. b \in Nodes /\ b # p
    BY DEF Peers
  <2>1. PairOK(k, H, N, S, C, p, b)
    BY DEF Core
  <2>2. ToldOK(k, H1, N1, S1, C, p, b)
    <3>1. CASE p = n
      BY <3>1 DEF ToldOK, Enters
    <3>2. CASE p # n
      <4>1. ToldOK(k, H, N, S, C, p, b) /\ H1[p] = H[p] /\ N[n].status # "silence"
        BY <1>1, <2>1, <3>2 DEF PairOK
      <4> QED BY <3>2, <4>1, EntersTold
    <3> QED BY <3>1, <3>2
  <2>3. RivalsOK(H1, N1, p, b)
    <3>1. CASE p # n /\ b # n
      BY <1>1, <2>0, <2>1, <3>1 DEF PairOK, RivalsOK, Candid
    <3>2. CASE p = n
      <4>1. N[b].status = "announce" => n \notin H[b].yes2 \/ yes = {}
        BY <2>0, <3>2, FreeVoter DEF Peers
      <4> QED BY <1>1, <2>0, <3>2, <4>1 DEF RivalsOK, Enters
    <3>3. CASE b = n
      BY <3>3 DEF RivalsOK, Enters
    <3> QED BY <3>1, <3>2, <3>3
  <2>4. ChallengeOK(H1, N1, p, b)
    <3>1. CASE p # n /\ b # n
      BY <1>1, <2>0, <2>1, <3>1 DEF PairOK, ChallengeOK, Vote1OK, Vote2OK, Candid
    <3>2. CASE p = n
      BY <3>2 DEF ChallengeOK, Enters
    <3>3. CASE b = n /\ N[p].status = "primary"
      <4>1. ASSUME yes = {n} PROVE Vote1OK(H1, p, n, n)
        BY <1>1, <2>0, <3>3, <4>1, FreeVoter DEF Vote1OK, Peers
      <4> QED BY <1>1, <3>3, <4>1 DEF ChallengeOK, Enters
    <3> QED BY <1>1, <3>1, <3>2, <3>3 DEF ChallengeOK
  <2> QED BY <2>2, <2>3, <2>4 DEF PairOK
<1>4. Alone(N1)
  BY <1>1 DEF Core, Alone, Enters
<1>5. ASSUME NEW x \in S1 PROVE WireOK(k, H1, N1, C, x)
  <2>1. CASE x \in S
    <3>1. WireOK(k, H, N, C, x)
      BY <2>1 DEF Core
    <3> QED BY <1>1, <3>1 DEF WireOK, LastBeat, Enters
  <2>2. CASE x \notin S
    BY <2>2 DEF WireOK, Enters
  <2> QED BY <2>1, <2>2
<1> QED BY <1>1, <1>2, <1>3, <1>4, <1>5 DEF Core

(* A voter with a majority announces. *)
LEMMA AnnounceCore ==
  ASSUME TimesApart, NEW R, NEW k, NEW H, NEW N, NEW S, NEW C, Core(R, k, H, N, S, C), Sized(N),
         \A m \in Nodes : HushOK(k, H, N, m), NEW N1, NEW S1, NEW n \in Nodes, NEW yes,
         N[n].status = "vote", k[n] = R + 1, Enters(N, N1, S, S1, C, n, "announce", 2),
         Most(H[n].yes1), R = H[n].asked1 + VoteTime \/ (R = H[n].asked1 /\ H[n].yes1 = Nodes),
         yes = {} \/ (yes = {n} /\ Free(N, S, n)), NEW H1, Recalls2(H, H1, n, yes, R),
         \A x \in S : x.from \in Nodes
  PROVE Core(R, k, H1, N1, S1, C)
<1>0. H \in [Nodes -> Histories] /\ R \in Nat
  BY DEF Core
<1>1. /\ H1 \in [Nodes -> Histories]
      /\ \A m \in Nodes : m # n => H1[m] = H[m] /\ N1[m] = N[m]
      /\ H1[n].yes2 = yes /\ H1[n].asked2 = R
      /\ \A m \in Nodes : /\ H1[m].asked1 = H[m].asked1 /\ H1[m].yes1 = H[m].yes1
                          /\ H1[m].won = H[m].won /\ H1[m].told = H[m].told
                          /\ H1[m].began = H[m].began
  BY <1>0 DEF Recalls2, Enters, Peers
<1>2. ASSUME NEW m \in Nodes PROVE NodeOK(R, k, H1, N1, S1, C, m)
  <2>1. NodeOK(R, k, H, N, S, C, m)
    BY DEF Core
  <2>2. Polled(m, 1, S1) = Polled(m, 1, S) /\ (m # n => Polled(m, 2, S1) = Polled(m, 2, S))
    BY EntersPolls
  <2>3. CASE m # n
    <3>1. \A c \in Nodes : \A r : Silenced(k, N, c, r) => Silenced(k, N1, c, r)
      BY <1>1 DEF Silenced, Since
    <3>2. ReignOK(k, H1, N1, m)
      BY <1>0, <1>1, <2>1, <2>3, <3>1, HistoryFacts DEF NodeOK, ReignOK, Since, LastBeat
    <3> QED BY <1>1, <2>1, <2>2, <2>3, <3>2 DEF NodeOK, ClockOK, PollsOK, SpanOK, LastBeat, Since
  <2>4. CASE m = n
    <3>1. ClockOK(R, k, H1, N1, C, n)
      BY <1>0, <1>1, <2>1, <2>4 DEF NodeOK, ClockOK, LastBeat, Enters
    <3>2. PollsOK(R, k, H1, N1, S1, n)
      BY <1>1, <2>2, <2>4 DEF PollsOK, Enters
    <3>3. SpanOK(k, H1, N1, n)
      BY <1>0, <1>1, TimesFacts DEF SpanOK, Since, Enters
    <3>4. ReignOK(k, H1, N1, n)
      BY DEF ReignOK, Enters
    <3> QED BY <2>4, <3>1, <3>2, <3>3, <3>4 DEF NodeOK
  <2> QED BY <2>3, <2>4
<1>3. ASSUME NEW p \in Nodes, NEW b \in Peers(p) PROVE PairOK(k, H1, N1, S1, C, p, b)
  <2>0. b \in Nodes /\ b # p
    BY DEF Peers
  <2>1. PairOK(k, H, N, S, C, p, b)
    BY DEF Core
  <2>2. ToldOK(k, H1, N1, S1, C, p, b)
    <3>1. CASE p = n
      BY <3>1 DEF ToldOK, Enters
    <3>2. CASE p # n
      <4>1. ToldOK(k, H, N, S, C, p, b) /\ H1[p] = H[p] /\ N[n].status # "silence"
        BY <1>1, <2>1, <3>2 DEF PairOK
      <4> QED BY <3>2, <4>1, EntersTold
    <3> QED BY <3>1, <3>2
  <2>3. RivalsOK(H1, N1, p, b)
    <3>1. CASE p # n /\ b # n
      BY <1>1, <2>0, <2>1, <3>1 DEF PairOK, RivalsOK, Candid
    <3>2. \A d \in Peers(n) : N[d].status = "announce" => n \notin H[d].yes2 \/ yes = {}
      BY FreeVoter
    <3>3. CASE p = n
      <4>1. N[b].status = "announce" => H1[p].yes2 \cap H1[b].yes2 = {}
        BY <1>1, <2>0, <3>2, <3>3 DEF Peers
      <4> QED BY <1>1, <2>0, <2>1, <3>3, <4>1 DEF PairOK, RivalsOK, Candid, Enters
    <3>4. CASE b = n
      <4>1. N[p].status = "announce" => H1[p].yes2 \cap H1[b].yes2 = {}
        BY <1>1, <2>0, <3>2, <3>4 DEF Peers
      <4>2. H[p].asked1 <= R
        BY DEF Core, NodeOK, ClockOK
      <4> QED BY <1>1, <2>0, <3>4, <4>1, <4>2 DEF RivalsOK
    <3> QED BY <3>1, <3>3, <3>4
  <2>4. ChallengeOK(H1, N1, p, b)
    <3>1. CASE p # n /\ b # n
      BY <1>1, <2>0, <2>1, <3>1 DEF PairOK, ChallengeOK, Vote1OK, Vote2OK, Candid
    <3>2. CASE p = n
      BY <3>2 DEF ChallengeOK, Enters
    <3>3. CASE b = n /\ N[p].status = "primary"
      <4>1. ASSUME yes = {n} PROVE Vote2OK(H1, p, n, n)
        BY <1>1, <2>0, <3>3, <4>1, FreeVoter DEF Vote2OK, Peers
      <4>2. \A c \in H[n].yes1 : Vote1OK(H1, p, n, c)
        BY <1>1, <2>1, <3>3 DEF PairOK, ChallengeOK, Candid, Vote1OK
      <4> QED BY <1>1, <3>3, <4>1, <4>2 DEF ChallengeOK
    <3> QED BY <1>1, <3>1, <3>2, <3>3 DEF ChallengeOK
  <2> QED BY <2>2, <2>3, <2>4 DEF PairOK
<1>4. Alone(N1)
  BY <1>1 DEF Core, Alone, Enters
<1>5. ASSUME NEW x \in S1 PROVE WireOK(k, H1, N1, C, x)
  <2>1. CASE x \in S
    <3>1. WireOK(k, H, N, C, x)
      BY <2>1 DEF Core
    <3> QED BY <1>1, <3>1 DEF WireOK, LastBeat, Enters
  <2>2. CASE x \notin S
    BY <2>2 DEF WireOK, Enters
  <2> QED BY <2>1, <2>2
<1> QED BY <1>1, <1>2, <1>3, <1>4, <1>5 DEF Core

(* A majority of the group has a majority in every larger set, and meets every
   other one. *)
LEMMA MostFacts ==
  ASSUME NEW A \in SUBSET Nodes, Most(A), NEW B \in SUBSET Nodes
  PROVE /\ A \subseteq B => Most(B)
        /\ Most(B) => \E c \in Nodes : c \in A /\ c \in B
<1>1. /\ IsFiniteSet(Nodes) /\ IsFiniteSet(A) /\ IsFiniteSet(B)
      /\ Cardinality(A) \in Nat /\ Cardinality(B) \in Nat /\ Cardinality(Nodes) \in Nat
  BY NodesAssumption, FS_Subset, FS_CardinalityType
<1>2. ASSUME A \subseteq B PROVE Most(B)
  <2>1. Cardinality(A) <= Cardinality(B)
    BY <1>1, <1>2, FS_Subset
  <2> QED BY <1>1, <2>1 DEF Most
<1>3. ASSUME Most(B), A \cap B = {} PROVE FALSE
  <2>0. Cardinality(A \cap B) = 0
    BY <1>3, FS_EmptySet
  <2>1. Cardinality(A \cup B) = Cardinality(A) + Cardinality(B)
    <3>1. Cardinality(A \cup B) = Cardinality(A) + Cardinality(B) - Cardinality(A \cap B)
      BY <1>1, FS_Union
    <3> QED BY <1>1, <2>0, <3>1
  <2>2. A \cup B \subseteq Nodes /\ Cardinality(A \cup B) <= Cardinality(Nodes)
    BY <1>1, FS_Subset
  <2> QED BY <1>1, <1>3, <2>1, <2>2 DEF Most
<1> QED BY <1>2, <1>3

(* Multiples of the vote time, and where none is. *)
LEMMA MultipleFacts ==
  /\ 0 \in Multiples /\ \A i \in Multiples : i \in Nat /\ i + VoteTime \in Multiples
  /\ TimesApart => \A i \in Multiples : i \notin BreakTime .. BreakTime + BeatInterval - 2
<1>1. VoteTime \in Nat
  BY TimeAssumption
<1>2. 0 \in Multiples
  <2>1. 0 = 0 * VoteTime
    BY <1>1
  <2> QED BY <2>1 DEF Multiples
<1>3. ASSUME NEW i \in Multiples PROVE i \in Nat /\ i + VoteTime \in Multiples
  <2>1. PICK j \in Nat : i = j * VoteTime
    BY DEF Multiples
  <2>2. i \in Nat
    BY <1>1, <2>1
  <2>3. (j + 1) * VoteTime = i + VoteTime /\ j + 1 \in Nat
    BY <1>1, <2>1
  <2> QED BY <2>2, <2>3 DEF Multiples
<1>4. TimesApart => \A i \in Multiples : i \notin BreakTime .. BreakTime + BeatInterval - 2
  BY DEF TimesApart, Multiples
<1> QED BY <1>2, <1>3, <1>4

(* When a majority of a primary's peers are alive, they were told of it. *)
LEMMA CheckCore ==
  ASSUME TimesApart, NEW R, NEW k, NEW H, NEW N, NEW S, NEW C, Core(R, k, H, N, S, C), Sized(N),
         NEW N1, NEW n \in Nodes, \A m \in Peers(n) : N1[m] = N[m],
         N[n].status = "primary", N[n].time = VoteTime, N1[n].status = "primary", N1[n].time = 0,
         N1[n].force = 0, N1[n].primary = N[n].primary, N1[n].beatTime = N[n].beatTime,
         N1[n].age = N[n].age, N1[n].dead = N[n].dead,
         Most({n} \cup {c \in Peers(n) : N[n].age[c] < BreakTime}),
         \A x \in S : x.from \in Nodes
  PROVE Core(R, k, H, N1, S, C)
<1>0. /\ H \in [Nodes -> Histories] /\ R \in Nat /\ k \in [Nodes -> Int]
      /\ \A m \in Nodes : m # n => N1[m] = N[m]
      /\ \A m \in Nodes : N1[m].status = N[m].status
      /\ \A m \in Nodes : LastBeat(k, N1, m) = LastBeat(k, N, m)
  BY DEF Core, Peers, LastBeat
<1>1. \A c \in Nodes : \A r : Silenced(k, N, c, r) => Silenced(k, N1, c, r)
  BY <1>0 DEF Silenced, Since
<1>2. ASSUME NEW m \in Nodes PROVE NodeOK(R, k, H, N1, S, C, m)
  <2>1. NodeOK(R, k, H, N, S, C, m)
    BY DEF Core
  <2>2. CASE m # n
    <3>1. ReignOK(k, H, N1, m)
      BY <1>0, <1>1, <2>1, <2>2, HistoryFacts DEF NodeOK, ReignOK, Since, LastBeat
    <3> QED BY <1>0, <2>1, <2>2, <3>1 DEF NodeOK, ClockOK, PollsOK, SpanOK, Since
  <2>3. CASE m = n
    <3>1. ClockOK(R, k, H, N1, C, n) /\ PollsOK(R, k, H, N1, S, n)
      BY <1>0, <2>1, <2>3 DEF NodeOK, ClockOK, PollsOK
    <3>2. SpanOK(k, H, N1, n)
      BY TimesFacts DEF SpanOK
    <3>3. ReignOK(k, H, N, n)
      BY <2>1, <2>3 DEF NodeOK
    <3>4. /\ k[n] \in Int /\ VoteTime \in Nat /\ BreakTime \in Nat /\ BeatInterval \in Nat
          /\ H[n].won \in Int
      BY <1>0, TimesFacts, HistoryFacts
    <3>5. Since(k, N1, n) = k[n] /\ Since(k, N, n) = k[n] - VoteTime
      BY <3>4 DEF Since
    <3>6. Since(k, N1, n) - H[n].won \in Multiples
      <4>1. k[n] - VoteTime - H[n].won \in Multiples
        BY <3>3, <3>5 DEF ReignOK
      <4>2. k[n] - H[n].won = (k[n] - VoteTime - H[n].won) + VoteTime
        BY <3>4
      <4> QED BY <3>5, <4>1, <4>2, MultipleFacts
    <3>7. ASSUME k[n] - BreakTime + 1 >= H[n].won + BeatInterval
          PROVE Most({n} \cup {c \in Peers(n) :
                       H[n].told[c] >= k[n] - BreakTime + 1 - BeatInterval})
      <4> DEFINE A == {n} \cup {c \in Peers(n) : N[n].age[c] < BreakTime}
                 B == {n} \cup {c \in Peers(n) : H[n].told[c] >= k[n] - BreakTime + 1 - BeatInterval}
      <4>1. ASSUME NEW c \in Peers(n), N[n].age[c] < BreakTime
            PROVE H[n].told[c] >= k[n] - BreakTime + 1 - BeatInterval
        <5>1. N[n].age[c] \in Nat /\ H[n].told[c] \in Int
          BY <1>0, HistoryFacts, TimesFacts DEF Sized, Peers
        <5>2. k[n] - N[n].age[c] >= H[n].won + BeatInterval
          BY <3>4, <3>7, <4>1, <5>1
        <5>3. H[n].told[c] >= k[n] - N[n].age[c] - BeatInterval
          BY <4>1, <5>2 DEF Core, PairOK, ToldOK
        <5> QED BY <3>4, <4>1, <5>1, <5>3
      <4>2. A \in SUBSET Nodes /\ B \in SUBSET Nodes /\ A \subseteq B
        BY <4>1 DEF Peers
      <4>3. Most(A)
        OBVIOUS
      <4> HIDE DEF A, B
      <4>4. Most(B)
        BY <4>2, <4>3, MostFacts
      <4> QED BY <4>4 DEF B
    <3>8. \A c \in H[n].yes2 \ {n} : \/ Silenced(k, N1, c, H[n].asked2)
                                     \/ k[c] >= H[n].asked2 + SilenceTime
      BY <1>0, <1>1, <3>3, HistoryFacts DEF ReignOK
    <3>9. ReignOK(k, H, N1, n)
      BY <1>0, <3>3, <3>5, <3>6, <3>7, <3>8 DEF ReignOK
    <3> QED BY <2>3, <3>1, <3>2, <3>9 DEF NodeOK
  <2> QED BY <2>2, <2>3
<1>3. ASSUME NEW p \in Nodes, NEW b \in Peers(p) PROVE PairOK(k, H, N1, S, C, p, b)
  <2>0. b \in Nodes /\ b # p
    BY DEF Peers
  <2>1. PairOK(k, H, N, S, C, p, b)
    BY DEF Core
  <2>2. N1[p].age = N[p].age /\ N1[b].primary = N[b].primary /\ N1[b].age = N[b].age
    BY <1>0, <2>0
  <2>3. Heeds(k, H, N, S, p, b) => Heeds(k, H, N1, S, p, b)
    BY <1>1, <2>0, <2>2 DEF Heeds
  <2> QED BY <1>0, <2>0, <2>1, <2>2, <2>3 DEF PairOK, ToldOK, RivalsOK, ChallengeOK, Candid
<1>4. Alone(N1)
  BY <1>0 DEF Core, Alone
<1>5. \A x \in S : WireOK(k, H, N1, C, x)
  BY <1>0 DEF Core, WireOK, LastBeat
<1> QED BY <1>0, <1>2, <1>3, <1>4, <1>5 DEF Core

(* The argument: while p is primary nobody else has won.  All voters of a are
   silent, so p is none of them and a waited for VoteTime.  Its announcement
   came BreakTime after that of p, for they have a common voter; hence so did its
   first ballots, and p has looked at its majority since it won long enough ago.
   Who was alive then had been told of p, and a common peer refused the first
   ballots of a, or else, had it not heard of p by then, the second ones. *)
LEMMA NoOther ==
  ASSUME TimesApart, NEW R, NEW k, NEW H, NEW N, NEW S, NEW C, Core(R, k, H, N, S, C), Sized(N),
         \A m \in Nodes : HushOK(k, H, N, m), NEW a \in Nodes, NEW p \in Peers(a),
         N[a].status = "announce", N[p].status = "primary", k[a] = R + 1,
         Most(H[a].yes2), N[a].time = VoteTime \/ H[a].yes2 = Nodes, N[p].time < VoteTime
  PROVE FALSE
<1> DEFINE D == Since(k, N, p)
           told == {p} \cup {c \in Peers(p) : H[p].told[c] >= D - BreakTime + 1 - BeatInterval}
<1>0. /\ p \in Nodes /\ a # p /\ a \in Peers(p) /\ H \in [Nodes -> Histories] /\ R \in Nat
      /\ k[p] \in Int /\ k[p] >= R
      /\ N[a].time \in Nat /\ N[p].time \in Nat
  <2>1. p \in Nodes /\ a # p /\ a \in Peers(p)
    BY DEF Peers
  <2>2. R \in Nat /\ k[p] \in Int /\ k[p] >= R
    BY <2>1, ClockFacts
  <2> QED BY <2>1, <2>2 DEF Core, Sized
<1>1. /\ H[a].asked1 \in Int /\ H[a].asked2 \in Int /\ H[p].asked2 \in Int
      /\ H[p].won \in Int /\ H[p].began \in Int
      /\ H[a].yes1 \in SUBSET Nodes /\ H[a].yes2 \in SUBSET Nodes /\ H[p].yes2 \in SUBSET Nodes
      /\ \A c \in Nodes : H[p].told[c] \in Int
  BY <1>0, HistoryFacts
<1>2. /\ VoteTime \in Nat /\ VoteTime > 0 /\ BreakTime \in Nat /\ BeatInterval \in Nat
      /\ BeatInterval > 0 /\ VoteTime + 2 <= BreakTime /\ BeatInterval <= VoteTime
  BY TimesFacts
<1>3. /\ k[a] - N[a].time = H[a].asked2 + 1
      /\ Most(H[a].yes1)
      /\ \/ H[a].asked2 = H[a].asked1 + VoteTime
         \/ H[a].asked2 = H[a].asked1 /\ H[a].yes1 = Nodes
  BY DEF Core, NodeOK, SpanOK, Since
<1>4. p \notin H[a].yes2 /\ R = H[a].asked2 + VoteTime
  <2>1. p \notin H[a].yes2
    BY <1>0 DEF HushOK, Silenced
  <2> QED BY <1>0, <1>1, <1>2, <1>3, <2>1
<1>5. ReignOK(k, H, N, p) /\ ChallengeOK(H, N, p, a)
  BY <1>0 DEF Core, NodeOK, PairOK
<1>6. H[a].asked2 >= H[p].asked2 + BreakTime
  <2>1. PICK c \in Nodes : c \in H[a].yes2 /\ c \in H[p].yes2
    BY <1>1, <1>5, MostFacts DEF ReignOK
  <2> QED BY <1>5, <2>1 DEF ChallengeOK, Vote2OK
<1>7. H[a].asked1 >= H[p].asked2 + BreakTime /\ H[a].asked2 = H[a].asked1 + VoteTime
      /\ p \notin H[a].yes1
  <2>1. PICK c \in Nodes : c \in H[a].yes1 /\ c \in H[p].yes2
    BY <1>1, <1>3, <1>5, MostFacts DEF ReignOK
  <2>2. Vote1OK(H, p, a, c) /\ (p \in H[a].yes1 => Vote1OK(H, p, a, p))
    BY <1>5, <2>1 DEF ChallengeOK, Candid
  <2>3. ~(H[a].asked1 <= H[p].asked2)
    BY <1>1, <1>2, <1>3, <1>6
  <2>4. H[a].asked1 >= H[p].asked2 + BreakTime
    BY <2>1, <2>2, <2>3 DEF Vote1OK
  <2>5. p \notin H[a].yes1
    BY <1>5, <2>2, <2>3 DEF Vote1OK, ReignOK
  <2> QED BY <1>0, <1>3, <2>4, <2>5
<1>8. /\ D \in Int /\ D + VoteTime > R /\ D >= H[p].won + BreakTime
  <2>1. H[p].won <= H[p].asked2 + VoteTime + 1
    BY <1>5 DEF ReignOK
  <2> QED BY <1>0, <1>1, <1>2, <1>4, <1>7, <2>1 DEF Since
<1>9. D - BreakTime + 1 >= H[p].won + BeatInterval
  <2>1. D - H[p].won \in Multiples
    BY <1>5 DEF ReignOK
  <2>2. D - H[p].won \notin BreakTime .. BreakTime + BeatInterval - 2
    BY <2>1, MultipleFacts
  <2> HIDE DEF D
  <2> QED BY <1>1, <1>2, <1>8, <2>2
<1>10. Most(told) /\ told \in SUBSET Nodes
  BY <1>0, <1>5, <1>9 DEF ReignOK, Peers
<1>11. ASSUME NEW c \in told, c # p
       PROVE /\ c \in Peers(p) /\ c \in Nodes /\ H[p].told[c] >= D - BreakTime + 1 - BeatInterval
             /\ H[p].told[c] \in Int /\ H[p].told[c] >= H[p].won /\ H[p].told[c] >= H[p].began
  <2>1. c \in Peers(p) /\ c \in Nodes /\ H[p].told[c] >= D - BreakTime + 1 - BeatInterval
    BY <1>11 DEF Peers
  <2>2. H[p].told[c] \in Int
    BY <1>1, <2>1
  <2> HIDE DEF D
  <2>3. H[p].told[c] >= H[p].won
    BY <1>1, <1>2, <1>8, <1>9, <2>1, <2>2
  <2>4. H[p].told[c] >= H[p].began
    BY <1>0, <2>1, <2>3 DEF Core, PairOK, ToldOK
  <2> QED BY <2>1, <2>2, <2>3, <2>4
<1> HIDE DEF D, told
<1>12. H[a].asked1 <= H[p].began
  <2>1. PICK c \in Nodes : c \in H[a].yes1 /\ c \in told
    BY <1>1, <1>3, <1>10, MostFacts
  <2>2. c # p
    BY <1>7, <2>1
  <2>3. \/ H[a].asked1 >= H[p].told[c] + BreakTime - 1
        \/ H[a].asked1 <= H[p].began
    BY <1>5, <1>11, <2>1, <2>2 DEF ChallengeOK, Candid, Vote1OK
  <2>4. H[p].told[c] >= D - BreakTime + 1 - BeatInterval /\ H[p].told[c] \in Int
    BY <1>11, <2>1, <2>2
  <2> QED BY <1>1, <1>2, <1>4, <1>7, <1>8, <2>3, <2>4
<1>13. PICK c \in Nodes : c \in H[a].yes2 /\ c \in told
  BY <1>1, <1>10, MostFacts
<1>14. c # p
  BY <1>4, <1>13
<1>15. \/ H[a].asked2 >= H[p].told[c] + BreakTime - 1
       \/ H[a].asked2 <= H[p].began
  BY <1>5, <1>11, <1>13, <1>14 DEF ChallengeOK, Vote2OK
<1>16. H[p].told[c] \in Int /\ H[p].told[c] >= H[p].began
       /\ H[p].began <= H[p].won + BeatInterval - 1
  <2>1. H[p].told[c] \in Int /\ H[p].told[c] >= H[p].began /\ H[p].told[c] >= H[p].won
    BY <1>11, <1>13, <1>14
  <2>2. H[p].told[c] <= LastBeat(k, N, p) /\ LastBeat(k, N, p) \in Int
    BY <1>0, ClockFacts
  <2>3. LastBeat(k, N, p) >= H[p].won
    BY <1>1, <2>1, <2>2
  <2> QED BY <1>5, <2>1, <2>3 DEF ReignOK
<1>17. H[p].won <= H[p].asked2 + VoteTime + 1
  BY <1>5 DEF ReignOK
<1> QED BY <1>1, <1>2, <1>7, <1>12, <1>15, <1>16, <1>17

(* A candidate wins. *)
LEMMA WonCore ==
  ASSUME TimesApart, NEW R, NEW k, NEW H, NEW N, NEW S, NEW C, Core(R, k, H, N, S, C), Sized(N),
         \A m \in Nodes : HushOK(k, H, N, m), NEW N1, NEW n \in Nodes,
         \A m \in Peers(n) : N1[m] = N[m], \A m \in Peers(n) : InTime(N, m),
         N[n].status = "announce", k[n] = R + 1, n \in H[n].yes2, Most(H[n].yes2),
         N[n].time = VoteTime \/ H[n].yes2 = Nodes,
         N1[n].status = "primary", N1[n].time = 0, N1[n].force = 0,
         N1[n].beatTime = N[n].beatTime, N1[n].age = N[n].age, N1[n].dead = N[n].dead,
         \A x \in S : x.from \in Nodes /\ (x.type = "beat" => ~x.primary),
         NEW H1 \in [Nodes -> Histories], \A m \in Peers(n) : H1[m] = H[m],
         H1[n].won = k[n], H1[n].yes1 = H[n].yes1, H1[n].asked1 = H[n].asked1,
         H1[n].yes2 = H[n].yes2, H1[n].asked2 = H[n].asked2,
         H1[n].told = H[n].told, H1[n].began = H[n].began
  PROVE Core(R, k, H1, N1, S, C)
<1>0. /\ H \in [Nodes -> Histories] /\ R \in Nat /\ k \in [Nodes -> Int]
      /\ \A m \in Nodes : m # n => N1[m] = N[m] /\ H1[m] = H[m]
      /\ \A m \in Nodes : LastBeat(k, N1, m) = LastBeat(k, N, m)
  BY DEF Core, Peers, LastBeat
<1>1. \A p \in Peers(n) : N[p].status # "primary"
  <2> SUFFICES ASSUME NEW p \in Peers(n), N[p].status = "primary" PROVE FALSE
    OBVIOUS
  <2>1. N[p].time < VoteTime
    BY DEF InTime
  <2> QED BY <2>1, NoOther
<1>2. /\ Since(k, N1, n) = k[n] /\ k[n] \in Int /\ LastBeat(k, N, n) < k[n]
      /\ LastBeat(k, N, n) \in Int /\ BreakTime \in Nat /\ BeatInterval \in Nat
      /\ BeatInterval > 0 /\ VoteTime \in Nat /\ BreakTime > 0
  BY <1>0, ClockFacts, TimesFacts DEF Since
<1>3. ASSUME NEW m \in Nodes PROVE NodeOK(R, k, H1, N1, S, C, m)
  <2>1. NodeOK(R, k, H, N, S, C, m)
    BY DEF Core
  <2>2. CASE m # n
    <3>1. ReignOK(k, H1, N1, m)
      BY <1>0, <1>1, <2>2 DEF ReignOK, Peers
    <3> QED BY <1>0, <2>1, <2>2, <3>1 DEF NodeOK, ClockOK, PollsOK, SpanOK, Since
  <2>3. CASE m = n
    <3>1. ClockOK(R, k, H1, N1, C, n) /\ PollsOK(R, k, H1, N1, S, n)
      BY <1>0, <2>1, <2>3 DEF NodeOK, ClockOK, PollsOK
    <3>2. SpanOK(k, H1, N1, n)
      BY <1>2 DEF SpanOK
    <3>3. \A c \in H1[n].yes2 \ {n} : Silenced(k, N1, c, H1[n].asked2)
      BY <1>0, HistoryFacts DEF HushOK, Silenced, Since
    <3>4. H1[n].won <= H1[n].asked2 + VoteTime + 1
      <4>1. k[n] - N[n].time = H[n].asked2 + 1 /\ N[n].time <= VoteTime
        BY <2>1, <2>3 DEF NodeOK, SpanOK, Since
      <4>2. N[n].time \in Nat /\ H[n].asked2 \in Int
        BY <1>0, HistoryFacts DEF Sized
      <4> QED BY <1>2, <4>1, <4>2
    <3>5. Since(k, N1, n) - H1[n].won = 0
      BY <1>2
    <3>6. ~(Since(k, N1, n) - BreakTime + 1 >= H1[n].won + BeatInterval)
      BY <1>2
    <3>7. ~(LastBeat(k, N1, n) >= H1[n].won)
      BY <1>0, <1>2
    <3>8. ReignOK(k, H1, N1, n)
      BY <3>3, <3>4, <3>5, <3>6, <3>7, MultipleFacts DEF ReignOK
    <3> QED BY <2>3, <3>1, <3>2, <3>8 DEF NodeOK
  <2> QED BY <2>2, <2>3
<1>4. ASSUME NEW p \in Nodes, NEW b \in Peers(p) PROVE PairOK(k, H1, N1, S, C, p, b)
  <2>0. b \in Nodes /\ b # p
    BY DEF Peers
  <2>1. PairOK(k, H, N, S, C, p, b)
    BY DEF Core
  <2>2. ASSUME NEW c \in Nodes PROVE ~(H1[n].told[c] >= H1[n].won) /\ H1[n].told[c] \in Int
    <3>1. H[n].told[c] <= LastBeat(k, N, n) /\ H[n].told[c] \in Int
      BY ClockFacts
    <3> QED BY <1>2, <3>1
  <2>3. ToldOK(k, H1, N1, S, C, p, b)
    <3>1. CASE p # n
      BY <1>0, <1>1, <3>1 DEF ToldOK, Peers
    <3>2. CASE p = n
      <4>1. N[n].age[b] \in Nat
        BY <1>2, <2>0, <3>2 DEF Sized, Peers
      <4>2. ~(k[n] - N1[n].age[b] >= H1[n].won + BeatInterval)
        BY <1>2, <4>1
      <4>3. ~(LastBeat(k, N1, n) >= H1[n].won)
        BY <1>0, <1>2
      <4> QED BY <2>0, <2>2, <3>2, <4>2, <4>3 DEF ToldOK
    <3> QED BY <3>1, <3>2
  <2>4. RivalsOK(H1, N1, p, b)
    BY <1>0, <2>0, <2>1 DEF PairOK, RivalsOK, Candid
  <2>5. ChallengeOK(H1, N1, p, b)
    <3>1. CASE p # n
      BY <1>0, <1>1, <3>1 DEF ChallengeOK, Peers
    <3>2. CASE p = n
      <4>1. RivalsOK(H, N, b, n) /\ N1[b] = N[b] /\ H1[b] = H[b]
        BY <1>0, <2>0, <3>2 DEF Core, PairOK, Peers
      <4>2. H[b].yes1 \subseteq Nodes /\ H[b].yes2 \subseteq Nodes
        BY <1>0, <2>0, HistoryFacts
      <4>3. ASSUME Candid(N1, b), NEW c \in H[b].yes1 PROVE Vote1OK(H1, n, b, c)
        BY <2>2, <4>1, <4>2, <4>3 DEF RivalsOK, Vote1OK, Candid
      <4>4. ASSUME N1[b].status = "announce", NEW c \in H[b].yes2 PROVE Vote2OK(H1, n, b, c)
        BY <2>2, <4>1, <4>2, <4>4 DEF RivalsOK, Vote2OK
      <4> QED BY <3>2, <4>1, <4>3, <4>4 DEF ChallengeOK
    <3> QED BY <3>1, <3>2
  <2> QED BY <2>3, <2>4, <2>5 DEF PairOK
<1>5. Alone(N1)
  BY <1>0, <1>1 DEF Alone, Peers
<1>6. ASSUME NEW x \in S PROVE WireOK(k, H1, N1, C, x)
  <2>1. WireOK(k, H, N, C, x) /\ x.from \in Nodes
    BY DEF Core
  <2>2. x.from = n => LastBeat(k, N1, x.from) < H1[x.from].won
    BY <1>0, <1>2
  <2> QED BY <1>0, <1>1, <2>1, <2>2 DEF WireOK, Peers
<1> QED BY <1>0, <1>3, <1>4, <1>5, <1>6 DEF Core

(* The timer of n fires: ages go on, beats are sent when they are due. *)
Ticks(R, k, k1, H, H1, N, N1, S, S1, C, n, due) ==
  /\ k[n] = R /\ k1 \in [Nodes -> Int] /\ k1[n] = R + 1
  /\ \A m \in Peers(n) : k1[m] = k[m] /\ N1[m] = N[m] /\ H1[m] = H[m]
  /\ N1[n].status = N[n].status /\ N1[n].force = 0
  /\ N[n].status # "sec" => N1[n].time = N[n].time + 1
  /\ \A m \in Peers(n) :
       N1[n].age[m] = IF N[n].age[m] < BreakTime THEN N[n].age[m] + 1 ELSE BreakTime
  /\ \A p \in Peers(n) : N[n].primary = p => N1[n].primary = p \/ N1[n].age[p] = BreakTime
  /\ due \in BOOLEAN /\ (due <=> N[n].beatTime + 1 >= BeatInterval)
  /\ N1[n].beatTime = IF due THEN 0 ELSE N[n].beatTime + 1
  /\ \A m \in Peers(n) : N1[n].dead[m] > 0 => N[n].dead[m] > 0 \/ {n, m} \in C
  /\ S \subseteq S1 /\ \A x \in S : x.type # "beat"
  /\ \A x \in S1 \ S : /\ x.type = "beat" /\ x.from = n /\ {x.from, x.to} \notin C
                       /\ x.primary <=> N[n].status = "primary"
  /\ H1 \in [Nodes -> Histories]
  /\ H1[n].yes1 = H[n].yes1 /\ H1[n].asked1 = H[n].asked1
  /\ H1[n].yes2 = H[n].yes2 /\ H1[n].asked2 = H[n].asked2 /\ H1[n].won = H[n].won
  /\ LET tells == due /\ N[n].status = "primary"
     IN /\ \A m \in Peers(n) : /\ tells /\ {n, m} \notin C => BeatTo(S1, n, m)
                               /\ tells /\ {n, m} \notin C => H1[n].told[m] = R
                               /\ ~(tells /\ {n, m} \notin C) => H1[n].told[m] = H[n].told[m]
        /\ H1[n].told[n] = H[n].told[n]
        /\ tells /\ LastBeat(k, N, n) < H[n].won => H1[n].began = R
        /\ ~(tells /\ LastBeat(k, N, n) < H[n].won) => H1[n].began = H[n].began

(* What of it concerns node m. *)
Ticked(R, k, k1, H, H1, N, N1, n, due, m) ==
  /\ m # n => k1[m] = k[m] /\ N1[m] = N[m] /\ H1[m] = H[m]
  /\ N1[m].status = N[m].status
  /\ H1[m].yes1 = H[m].yes1 /\ H1[m].asked1 = H[m].asked1
  /\ H1[m].yes2 = H[m].yes2 /\ H1[m].asked2 = H[m].asked2 /\ H1[m].won = H[m].won
  /\ k1[m] \in Int /\ k[m] \in Int /\ k1[m] >= k[m]
  /\ N[m].status # "sec" => Since(k1, N1, m) = Since(k, N, m)
  /\ m # n \/ ~due => LastBeat(k1, N1, m) = LastBeat(k, N, m)
  /\ m = n /\ due => LastBeat(k1, N1, m) = R /\ LastBeat(k, N, m) = R - BeatInterval
  /\ \A r : Silenced(k, N, m, r) => Silenced(k1, N1, m, r)

(* What the timer of n changes at m. *)
LEMMA TickFacts ==
  ASSUME TimesApart, NEW R, NEW k, NEW H, NEW N, NEW S, NEW C, Core(R, k, H, N, S, C), Sized(N),
         NEW k1, NEW H1, NEW N1, NEW S1, Sized(N1), NEW n \in Nodes, NEW due,
         Ticks(R, k, k1, H, H1, N, N1, S, S1, C, n, due), NEW m \in Nodes
  PROVE Ticked(R, k, k1, H, H1, N, N1, n, due, m)
<1>1. \A i \in Nodes : i # n => k1[i] = k[i] /\ N1[i] = N[i] /\ H1[i] = H[i]
  BY DEF Ticks, Peers
<1>2. \A i \in Nodes : N1[i].status = N[i].status
  BY <1>1 DEF Ticks
<1>3. \A i \in Nodes : /\ H1[i].yes1 = H[i].yes1 /\ H1[i].asked1 = H[i].asked1
                       /\ H1[i].yes2 = H[i].yes2 /\ H1[i].asked2 = H[i].asked2
                       /\ H1[i].won = H[i].won
  BY <1>1 DEF Ticks
<1>4. R \in Nat /\ \A i \in Nodes : k1[i] \in Int /\ k[i] \in Int /\ k1[i] >= k[i]
  BY <1>1 DEF Ticks, Core
<1>5. \A i \in Nodes : N[i].status # "sec" => Since(k1, N1, i) = Since(k, N, i)
  <2>1. N[n].time \in Nat
    BY DEF Sized
  <2>2. N[n].status # "sec" => Since(k1, N1, n) = Since(k, N, n)
    BY <1>4, <2>1 DEF Ticks, Since
  <2> QED BY <1>1, <2>2 DEF Since
<1>6. N[n].beatTime \in Nat /\ N[n].beatTime < BeatInterval /\ BeatInterval \in Nat
  BY TimesFacts DEF Sized, Core, NodeOK, ClockOK
<1>7. ~due => LastBeat(k1, N1, n) = LastBeat(k, N, n)
  BY <1>4, <1>6 DEF Ticks, LastBeat
<1>8. due => LastBeat(k1, N1, n) = R /\ LastBeat(k, N, n) = R - BeatInterval
  BY <1>4, <1>6 DEF Ticks, LastBeat
<1>9. \A i \in Nodes \ {n} : LastBeat(k1, N1, i) = LastBeat(k, N, i)
  BY <1>1 DEF LastBeat
<1>10. \A c \in Nodes : \A r : Silenced(k, N, c, r) => Silenced(k1, N1, c, r)
  BY <1>2, <1>5 DEF Silenced
<1> QED BY <1>1, <1>2, <1>3, <1>4, <1>5, <1>7, <1>8, <1>9, <1>10 DEF Ticked

(* The timer keeps what holds of each node. *)
LEMMA TickNode ==
  ASSUME TimesApart, NEW R, NEW k, NEW H, NEW N, NEW S, NEW C, Core(R, k, H, N, S, C), Sized(N),
         NEW k1, NEW H1, NEW N1, NEW S1, Sized(N1), NEW n \in Nodes, NEW due,
         Ticks(R, k, k1, H, H1, N, N1, S, S1, C, n, due), InTime(N, n), NEW m \in Nodes
  PROVE NodeOK(R, k1, H1, N1, S1, C, m)
<1>0. NodeOK(R, k, H, N, S, C, m) /\ H \in [Nodes -> Histories] /\ R \in Nat
  BY DEF Core
<1>1. /\ m # n => k1[m] = k[m] /\ N1[m] = N[m] /\ H1[m] = H[m]
      /\ N1[m].status = N[m].status
      /\ H1[m].yes1 = H[m].yes1 /\ H1[m].asked1 = H[m].asked1
      /\ H1[m].yes2 = H[m].yes2 /\ H1[m].asked2 = H[m].asked2 /\ H1[m].won = H[m].won
      /\ N[m].status # "sec" => Since(k1, N1, m) = Since(k, N, m)
      /\ m # n \/ ~due => LastBeat(k1, N1, m) = LastBeat(k, N, m)
      /\ m = n /\ due => LastBeat(k1, N1, m) = R /\ LastBeat(k, N, m) = R - BeatInterval
      /\ \A c \in Nodes : /\ k1[c] \in Int /\ k[c] \in Int /\ k1[c] >= k[c]
                          /\ \A r : Silenced(k, N, c, r) => Silenced(k1, N1, c, r)
  <2>1. \A i \in Nodes : Ticked(R, k, k1, H, H1, N, N1, n, due, i)
    BY TickFacts
  <2> QED BY <2>1 DEF Ticked
<1>2. BeatInterval \in Nat /\ BeatInterval > 0 /\ SilenceTime \in Nat /\ VoteTime \in Nat
      /\ BreakTime \in Nat
  BY TimesFacts
<1>3. ClockOK(R, k1, H1, N1, C, m)
  <2>1. CASE m # n
    BY <1>0, <1>1, <2>1 DEF NodeOK, ClockOK
  <2>2. CASE m = n
    <3>1. N[n].beatTime \in Nat
      BY DEF Sized
    <3>2. /\ k1[n] \in {R, R + 1} /\ N1[n].beatTime < BeatInterval /\ N1[n].force = 0
          /\ \A i \in Peers(n) : N1[n].dead[i] > 0 => {n, i} \in C
      BY <1>0, <1>2, <2>2, <3>1 DEF Ticks, NodeOK, ClockOK
    <3>3. ASSUME NEW i \in Nodes PROVE H1[n].told[i] <= LastBeat(k1, N1, n)
      <4>1. /\ H[n].told[i] \in Int /\ H[n].told[i] <= LastBeat(k, N, n)
            /\ LastBeat(k, N, n) \in Int
        BY ClockFacts
      <4>2. H1[n].told[i] = H[n].told[i] \/ (due /\ H1[n].told[i] = R)
        BY DEF Ticks, Peers
      <4> QED BY <1>0, <1>1, <1>2, <2>2, <4>1, <4>2 DEF Ticks
    <3> QED BY <1>0, <1>1, <2>2, <3>2, <3>3 DEF NodeOK, ClockOK
  <2> QED BY <2>1, <2>2
<1>4. PollsOK(R, k1, H1, N1, S1, m)
  <2>1. \A q : Polled(m, q, S1) = Polled(m, q, S)
    BY DEF Polled, Ticks
  <2>2. CASE m # n
    BY <1>0, <1>1, <2>1, <2>2 DEF NodeOK, PollsOK
  <2>3. CASE m = n
    <3>1. Polled(n, 1, S) = {} /\ Polled(n, 2, S) = {}
      BY <1>0, <2>3 DEF NodeOK, PollsOK, Ticks
    <3> QED BY <2>1, <2>3, <3>1 DEF PollsOK
  <2> QED BY <2>2, <2>3
<1>5. SpanOK(k1, H1, N1, m)
  <2>1. N1[m].status \in {"vote", "announce", "primary"} => N1[m].time <= VoteTime
    <3>1. CASE m # n
      BY <1>0, <1>1, <3>1 DEF NodeOK, SpanOK
    <3>2. CASE m = n
      <4>1. N[n].time \in Nat
        BY DEF Sized
      <4> QED BY <1>1, <1>2, <3>2, <4>1 DEF Ticks, InTime
    <3> QED BY <3>1, <3>2
  <2> QED BY <1>0, <1>1, <2>1 DEF NodeOK, SpanOK
<1>6. ReignOK(k1, H1, N1, m)
  <2> SUFFICES ASSUME N1[m].status = "primary" PROVE ReignOK(k1, H1, N1, m)
    BY DEF ReignOK
  <2>1. ReignOK(k, H, N, m) /\ N[m].status = "primary"
    BY <1>0, <1>1 DEF NodeOK
  <2>2. \A c \in H1[m].yes2 \ {m} : \/ Silenced(k1, N1, c, H1[m].asked2)
                                    \/ k1[c] >= H1[m].asked2 + SilenceTime
    <3> SUFFICES ASSUME NEW c \in H[m].yes2 \ {m}
                 PROVE \/ Silenced(k1, N1, c, H[m].asked2)
                       \/ k1[c] >= H[m].asked2 + SilenceTime
      BY <1>1
    <3>1. c \in Nodes /\ H[m].asked2 \in Int
      BY <1>0, HistoryFacts
    <3>2. Silenced(k, N, c, H[m].asked2) \/ k[c] >= H[m].asked2 + SilenceTime
      BY <2>1 DEF ReignOK
    <3> QED BY <1>1, <1>2, <3>1, <3>2
  <2>3. CASE m # n
    BY <1>1, <2>1, <2>2, <2>3 DEF ReignOK
  <2>4. CASE m = n
    <3>1. Since(k1, N1, n) = Since(k, N, n) /\ Since(k, N, n) \in Int /\ LastBeat(k, N, n) \in Int
          /\ H[n].won \in Int
      BY <1>0, <1>1, <2>1, <2>4, ClockFacts, HistoryFacts
    <3>2. \A c \in Peers(n) : H[n].told[c] \in Int /\ H[n].told[c] <= R
                              /\ (H1[n].told[c] = H[n].told[c] \/ H1[n].told[c] = R)
      <4> SUFFICES ASSUME NEW c \in Peers(n)
                   PROVE /\ H[n].told[c] \in Int /\ H[n].told[c] <= R
                         /\ H1[n].told[c] = H[n].told[c] \/ H1[n].told[c] = R
        OBVIOUS
      <4>1. c \in Nodes
        BY DEF Peers
      <4>2. H[n].told[c] \in Int /\ H[n].told[c] <= LastBeat(k, N, n) /\ LastBeat(k, N, n) <= R
            /\ LastBeat(k, N, n) \in Int
        BY <4>1, ClockFacts
      <4>3. H1[n].told[c] = H[n].told[c] \/ H1[n].told[c] = R
        BY DEF Ticks
      <4> QED BY <1>0, <4>2, <4>3
    <3>3. ASSUME Since(k, N, n) - BreakTime + 1 >= H[n].won + BeatInterval
          PROVE Most({n} \cup {c \in Peers(n) :
                       H1[n].told[c] >= Since(k, N, n) - BreakTime + 1 - BeatInterval})
      <4> DEFINE e == Since(k, N, n) - BreakTime + 1 - BeatInterval
                 A == {n} \cup {c \in Peers(n) : H[n].told[c] >= e}
                 B == {n} \cup {c \in Peers(n) : H1[n].told[c] >= e}
      <4>1. e \in Int /\ Most(A)
        BY <1>2, <2>1, <2>4, <3>1, <3>3 DEF ReignOK
      <4> HIDE DEF e
      <4>2. A \in SUBSET Nodes /\ B \in SUBSET Nodes /\ A \subseteq B
        BY <1>0, <3>2, <4>1 DEF Peers
      <4> HIDE DEF A, B
      <4>3. Most(B)
        BY <4>1, <4>2, MostFacts
      <4> QED BY <4>3 DEF B, e
    <3>4. LastBeat(k1, N1, n) >= H[n].won => H1[n].began <= H[n].won + BeatInterval - 1
      <4>1. CASE due /\ LastBeat(k, N, n) < H[n].won
        <5>1. H1[n].began = R /\ LastBeat(k, N, n) = R - BeatInterval
          BY <1>1, <2>1, <2>4, <4>1 DEF Ticks
        <5> QED BY <1>0, <1>2, <3>1, <4>1, <5>1
      <4>2. CASE ~(due /\ LastBeat(k, N, n) < H[n].won)
        <5>1. H1[n].began = H[n].began
          BY <4>2 DEF Ticks
        <5>2. LastBeat(k1, N1, n) >= H[n].won => LastBeat(k, N, n) >= H[n].won
          BY <1>1, <2>4, <3>1, <4>2 DEF Ticks
        <5> QED BY <2>1, <2>4, <5>1, <5>2 DEF ReignOK
      <4> QED BY <4>1, <4>2
    <3> QED BY <1>1, <2>1, <2>2, <2>4, <3>1, <3>3, <3>4 DEF ReignOK
  <2> QED BY <2>3, <2>4
<1> QED BY <1>3, <1>4, <1>5, <1>6 DEF NodeOK

(* A peer that takes the primary for alive, or hears it no more. *)
LEMMA TickHeeds ==
  ASSUME TimesApart, NEW R, NEW k, NEW H, NEW N, NEW S, NEW C, Core(R, k, H, N, S, C), Sized(N),
         NEW k1, NEW H1, NEW N1, NEW S1, Sized(N1), NEW n \in Nodes, NEW due,
         Ticks(R, k, k1, H, H1, N, N1, S, S1, C, n, due), NEW p \in Nodes, NEW c \in Peers(p),
         Heeds(k, H, N, S, p, c), H1[p].told[c] = H[p].told[c]
  PROVE Heeds(k1, H1, N1, S1, p, c)
<1>0. c \in Nodes /\ c # p /\ p \in Peers(c)
  BY DEF Peers
<1>1. Ticked(R, k, k1, H, H1, N, N1, n, due, c)
  BY <1>0, TickFacts
<1>2. BeatTo(S, p, c) => BeatTo(S1, p, c)
  BY DEF BeatTo, Ticks
<1>3. H[p].told[c] \in Int /\ BreakTime \in Nat
  BY <1>0, ClockFacts, TimesFacts
<1>4. CASE c # n
  BY <1>1, <1>2, <1>4 DEF Heeds, Ticked
<1>5. CASE c = n
  <2>1. CASE N[c].primary = p /\ k[c] - N[c].age[p] >= H[p].told[c]
    <3>1. N[n].age[p] \in Nat /\ N[n].age[p] <= BreakTime
      BY <1>0, <1>3, <1>5 DEF Sized
    <3>2. k[n] = R /\ R \in Int /\ k1[n] = R + 1
      BY DEF Ticks, Core
    <3>3. N1[n].age[p] = IF N[n].age[p] < BreakTime THEN N[n].age[p] + 1 ELSE BreakTime
      BY <1>0, <1>5 DEF Ticks
    <3>4. N1[n].primary = p \/ N1[n].age[p] = BreakTime
      BY <1>0, <1>5, <2>1 DEF Ticks
    <3>5. k1[n] - N1[n].age[p] >= H[p].told[c]
      BY <1>3, <1>5, <2>1, <3>1, <3>2, <3>3
    <3>6. N1[n].age[p] = BreakTime => k1[n] >= H[p].told[c] + BreakTime
      BY <1>3, <3>2, <3>5
    <3> QED BY <1>5, <3>4, <3>5, <3>6 DEF Heeds
  <2>2. CASE k[c] >= H[p].told[c] + BreakTime
    BY <1>1, <1>3, <2>2 DEF Heeds, Ticked
  <2> QED BY <1>1, <1>2, <2>1, <2>2 DEF Heeds, Ticked
<1> QED BY <1>4, <1>5

(* The timer keeps what a primary told its peers. *)
LEMMA TickTold ==
  ASSUME TimesApart, NEW R, NEW k, NEW H, NEW N, NEW S, NEW C, Core(R, k, H, N, S, C), Sized(N),
         NEW k1, NEW H1, NEW N1, NEW S1, Sized(N1), NEW n \in Nodes, NEW due,
         Ticks(R, k, k1, H, H1, N, N1, S, S1, C, n, due), NEW p \in Nodes, NEW c \in Peers(p)
  PROVE ToldOK(k1, H1, N1, S1, C, p, c)
<1>0. c \in Nodes /\ c # p /\ ToldOK(k, H, N, S, C, p, c) /\ R \in Nat
      /\ H \in [Nodes -> Histories]
  BY DEF Peers, Core, PairOK
<1>1. Ticked(R, k, k1, H, H1, N, N1, n, due, p)
  BY TickFacts
<1> SUFFICES ASSUME N1[p].status = "primary" PROVE ToldOK(k1, H1, N1, S1, C, p, c)
  BY DEF ToldOK
<1>2. N[p].status = "primary"
  BY <1>1 DEF Ticked
<1>3. CASE p # n
  <2>1. k1[p] = k[p] /\ N1[p] = N[p] /\ H1[p] = H[p] /\ LastBeat(k1, N1, p) = LastBeat(k, N, p)
    BY <1>1, <1>3 DEF Ticked
  <2>2. Heeds(k, H, N, S, p, c) => Heeds(k1, H1, N1, S1, p, c)
    BY <2>1, TickHeeds
  <2> QED BY <1>0, <1>2, <2>1, <2>2 DEF ToldOK
<1>4. CASE p = n
  <2> DEFINE tells == due /\ {n, c} \notin C
  <2>1. /\ H[n].told[c] \in Int /\ H[n].told[c] <= LastBeat(k, N, n) /\ LastBeat(k, N, n) <= R
        /\ LastBeat(k, N, n) \in Int /\ H[n].won \in Int /\ H[n].began \in Int
        /\ BreakTime \in Nat /\ BeatInterval \in Nat
    <3>1. /\ H[n].told[c] \in Int /\ H[n].told[c] <= LastBeat(k, N, n)
          /\ LastBeat(k, N, n) <= R /\ LastBeat(k, N, n) \in Int
      BY <1>0, ClockFacts
    <3> QED BY <1>0, <3>1, TimesFacts, HistoryFacts
  <2>2. /\ ~due => LastBeat(k1, N1, n) = LastBeat(k, N, n)
        /\ due => LastBeat(k1, N1, n) = R /\ LastBeat(k, N, n) = R - BeatInterval
        /\ H1[n].won = H[n].won
    BY <1>1, <1>4 DEF Ticked
  <2>3. /\ tells => H1[n].told[c] = R /\ BeatTo(S1, n, c)
        /\ ~tells => H1[n].told[c] = H[n].told[c]
    BY <1>2, <1>4 DEF Ticks
  <2>4. /\ due /\ LastBeat(k, N, n) < H[n].won => H1[n].began = R
        /\ ~(due /\ LastBeat(k, N, n) < H[n].won) => H1[n].began = H[n].began
    BY <1>2, <1>4 DEF Ticks
  <2>5. /\ k[n] = R /\ k1[n] = R + 1 /\ N[n].age[c] \in Nat /\ N[n].age[c] <= BreakTime
        /\ N1[n].age[c] = IF N[n].age[c] < BreakTime THEN N[n].age[c] + 1 ELSE BreakTime
    BY <1>4, <2>1 DEF Ticks, Sized
  <2>6. N1[n].age[c] < BreakTime /\ k1[n] - N1[n].age[c] >= H[n].won + BeatInterval =>
          H1[n].told[c] >= k1[n] - N1[n].age[c] - BeatInterval
    <3> SUFFICES ASSUME N1[n].age[c] < BreakTime, k1[n] - N1[n].age[c] >= H[n].won + BeatInterval
                 PROVE H1[n].told[c] >= k1[n] - N1[n].age[c] - BeatInterval
      OBVIOUS
    <3>1. N[n].age[c] < BreakTime /\ k[n] - N[n].age[c] = k1[n] - N1[n].age[c]
      BY <1>0, <2>1, <2>5
    <3>2. H[n].told[c] >= k[n] - N[n].age[c] - BeatInterval
      BY <1>0, <1>2, <1>4, <3>1 DEF ToldOK
    <3> QED BY <1>0, <2>1, <2>3, <2>5, <3>1, <3>2
  <2>7. {n, c} \notin C /\ LastBeat(k1, N1, n) >= H[n].won => H1[n].told[c] = LastBeat(k1, N1, n)
    BY <1>0, <1>2, <1>4, <2>2, <2>3 DEF ToldOK
  <2>8. ASSUME tells PROVE H1[n].told[c] >= H1[n].began /\ Heeds(k1, H1, N1, S1, n, c)
    <3>1. CASE LastBeat(k, N, n) < H[n].won
      BY <1>0, <2>3, <2>4, <2>8, <3>1 DEF Heeds
    <3>2. CASE ~(LastBeat(k, N, n) < H[n].won)
      <4>1. H[n].told[c] = LastBeat(k, N, n)
        BY <1>0, <1>2, <1>4, <2>1, <2>8, <3>2 DEF ToldOK
      <4>2. H[n].told[c] >= H[n].began
        BY <1>0, <1>2, <1>4, <2>1, <3>2, <4>1 DEF ToldOK
      <4> QED BY <1>0, <2>1, <2>3, <2>4, <2>8, <3>2, <4>1, <4>2 DEF Heeds
    <3> QED BY <3>1, <3>2
  <2>9. ASSUME ~tells, H1[n].told[c] >= H[n].won
        PROVE H1[n].told[c] >= H1[n].began /\ Heeds(k1, H1, N1, S1, n, c)
    <3>1. H[n].told[c] >= H[n].won /\ H1[n].told[c] = H[n].told[c]
      BY <2>3, <2>9
    <3>2. H1[n].began = H[n].began
      BY <2>1, <2>4, <3>1
    <3>3. H[n].told[c] >= H[n].began /\ Heeds(k, H, N, S, n, c)
      BY <1>0, <1>2, <1>4, <3>1 DEF ToldOK
    <3>4. Heeds(k1, H1, N1, S1, n, c)
      BY <1>4, <3>1, <3>3, TickHeeds
    <3> QED BY <3>1, <3>2, <3>3, <3>4
  <2> QED BY <1>4, <2>2, <2>6, <2>7, <2>8, <2>9 DEF ToldOK
<1> QED BY <1>3, <1>4

(* Whoever a new beat reaches was reached by the one before, and no candidate
   asked it since. *)
LEMMA TickChallenge ==
  ASSUME TimesApart, NEW R, NEW k, NEW H, NEW N, NEW S, NEW C, Core(R, k, H, N, S, C), Sized(N),
         NEW k1, NEW H1, NEW N1, NEW S1, Sized(N1), NEW n \in Nodes, NEW due,
         Ticks(R, k, k1, H, H1, N, N1, S, S1, C, n, due), N[n].status = "primary",
         NEW c \in Peers(n), NEW r \in Int, r <= R,
         H[n].told[c] >= H[n].won => r >= H[n].told[c] + BreakTime - 1 \/ r <= H[n].began,
         H1[n].told[c] >= H1[n].won
  PROVE r >= H1[n].told[c] + BreakTime - 1 \/ r <= H1[n].began
<1>0. c \in Nodes /\ c # n /\ ToldOK(k, H, N, S, C, n, c) /\ R \in Nat
      /\ H \in [Nodes -> Histories]
  BY DEF Peers, Core, PairOK
<1>1. /\ ~due => LastBeat(k1, N1, n) = LastBeat(k, N, n)
      /\ due => LastBeat(k1, N1, n) = R /\ LastBeat(k, N, n) = R - BeatInterval
      /\ H1[n].won = H[n].won
  <2>1. Ticked(R, k, k1, H, H1, N, N1, n, due, n)
    BY TickFacts
  <2> QED BY <2>1 DEF Ticked
<1>2. /\ H[n].told[c] \in Int /\ H[n].told[c] <= LastBeat(k, N, n)
      /\ LastBeat(k, N, n) \in Int /\ H[n].won \in Int /\ H[n].began \in Int
  BY <1>0, ClockFacts, HistoryFacts
<1>3. /\ VoteTime \in Nat /\ BreakTime \in Nat /\ BeatInterval \in Nat
      /\ VoteTime + 2 <= BreakTime /\ BeatInterval <= VoteTime
  BY TimesFacts
<1>4. /\ due /\ LastBeat(k, N, n) < H[n].won => H1[n].began = R
      /\ ~(due /\ LastBeat(k, N, n) < H[n].won) => H1[n].began = H[n].began
  BY DEF Ticks
<1>5. CASE due /\ {n, c} \notin C
  <2>1. CASE LastBeat(k, N, n) < H[n].won
    BY <1>0, <1>4, <1>5, <2>1
  <2>2. CASE ~(LastBeat(k, N, n) < H[n].won)
    <3>1. H[n].told[c] = LastBeat(k, N, n)
      BY <1>0, <1>2, <1>5, <2>2 DEF ToldOK
    <3>2. r >= R - BeatInterval + BreakTime - 1 \/ r <= H[n].began
      BY <1>1, <1>2, <1>5, <2>2, <3>1
    <3> QED BY <1>0, <1>2, <1>3, <1>4, <2>2, <3>2
  <2> QED BY <2>1, <2>2
<1>6. CASE ~(due /\ {n, c} \notin C)
  <2>1. H1[n].told[c] = H[n].told[c]
    BY <1>6 DEF Ticks
  <2>2. H1[n].began = H[n].began
    BY <1>1, <1>2, <1>4, <2>1
  <2> QED BY <1>1, <2>1, <2>2
<1> QED BY <1>5, <1>6

(* The timer keeps everything. *)
LEMMA TickCore ==
  ASSUME TimesApart, NEW R, NEW k, NEW H, NEW N, NEW S, NEW C, Core(R, k, H, N, S, C), Sized(N),
         NEW k1, NEW H1, NEW N1, NEW S1, Sized(N1), NEW n \in Nodes, NEW due,
         Ticks(R, k, k1, H, H1, N, N1, S, S1, C, n, due), InTime(N, n)
  PROVE Core(R, k1, H1, N1, S1, C)
<1>0. H1 \in [Nodes -> Histories] /\ k1 \in [Nodes -> Int] /\ R \in Nat
      /\ H \in [Nodes -> Histories]
  BY DEF Ticks, Core
<1>1. \A m \in Nodes : NodeOK(R, k1, H1, N1, S1, C, m)
  BY TickNode
<1>2. ASSUME NEW m \in Nodes
      PROVE /\ m # n => H1[m] = H[m]
            /\ N1[m].status = N[m].status
            /\ H1[m].yes1 = H[m].yes1 /\ H1[m].asked1 = H[m].asked1
            /\ H1[m].yes2 = H[m].yes2 /\ H1[m].asked2 = H[m].asked2 /\ H1[m].won = H[m].won
  <2>1. Ticked(R, k, k1, H, H1, N, N1, n, due, m)
    BY TickFacts
  <2> QED BY <2>1 DEF Ticked
<1>3. ASSUME NEW p \in Nodes, NEW b \in Peers(p) PROVE PairOK(k1, H1, N1, S1, C, p, b)
  <2>0. b \in Nodes /\ b # p /\ PairOK(k, H, N, S, C, p, b)
    BY DEF Peers, Core
  <2>1. ToldOK(k1, H1, N1, S1, C, p, b)
    BY TickTold
  <2>2. RivalsOK(H1, N1, p, b)
    BY <1>2, <2>0 DEF PairOK, RivalsOK, Candid
  <2>3. ChallengeOK(H1, N1, p, b)
    <3> SUFFICES ASSUME N1[p].status = "primary" PROVE ChallengeOK(H1, N1, p, b)
      BY DEF ChallengeOK
    <3>0. N[p].status = "primary" /\ ChallengeOK(H, N, p, b)
      BY <1>2, <2>0 DEF PairOK
    <3>1. CASE p # n
      BY <1>2, <2>0, <3>0, <3>1 DEF ChallengeOK, Candid, Vote1OK, Vote2OK
    <3>2. CASE p = n
      <4>0. /\ H[b].yes1 \subseteq Nodes /\ H[b].yes2 \subseteq Nodes
            /\ H[b].asked1 \in Int /\ H[b].asked2 \in Int
            /\ H[b].asked1 <= R /\ H[b].asked2 <= R
        BY <1>0, <2>0, HistoryFacts DEF Core, NodeOK, ClockOK
      <4>1. ASSUME Candid(N1, b), NEW c \in H[b].yes1 PROVE Vote1OK(H1, n, b, c)
        <5>1. Vote1OK(H, n, b, c)
          BY <1>2, <2>0, <3>0, <3>2, <4>1 DEF ChallengeOK, Candid
        <5>2. c # n /\ H1[n].told[c] >= H1[n].won => \/ H[b].asked1 >= H1[n].told[c] + BreakTime - 1
                                                     \/ H[b].asked1 <= H1[n].began
          <6> SUFFICES ASSUME c # n, H1[n].told[c] >= H1[n].won
                       PROVE \/ H[b].asked1 >= H1[n].told[c] + BreakTime - 1
                             \/ H[b].asked1 <= H1[n].began
            OBVIOUS
          <6>1. c \in Peers(n)
            BY <4>0 DEF Peers
          <6>2. H[n].told[c] >= H[n].won =>
                  H[b].asked1 >= H[n].told[c] + BreakTime - 1 \/ H[b].asked1 <= H[n].began
            BY <5>1 DEF Vote1OK
          <6> QED BY <3>0, <3>2, <4>0, <6>1, <6>2, TickChallenge
        <5> QED BY <1>2, <2>0, <5>1, <5>2 DEF Vote1OK
      <4>2. ASSUME N1[b].status = "announce", NEW c \in H[b].yes2 PROVE Vote2OK(H1, n, b, c)
        <5>1. Vote2OK(H, n, b, c)
          BY <1>2, <2>0, <3>0, <3>2, <4>2 DEF ChallengeOK
        <5>2. c # n /\ H1[n].told[c] >= H1[n].won => \/ H[b].asked2 >= H1[n].told[c] + BreakTime - 1
                                                     \/ H[b].asked2 <= H1[n].began
          <6> SUFFICES ASSUME c # n, H1[n].told[c] >= H1[n].won
                       PROVE \/ H[b].asked2 >= H1[n].told[c] + BreakTime - 1
                             \/ H[b].asked2 <= H1[n].began
            OBVIOUS
          <6>1. c \in Peers(n)
            BY <4>0 DEF Peers
          <6>2. H[n].told[c] >= H[n].won =>
                  H[b].asked2 >= H[n].told[c] + BreakTime - 1 \/ H[b].asked2 <= H[n].began
            BY <5>1 DEF Vote2OK
          <6> QED BY <3>0, <3>2, <4>0, <6>1, <6>2, TickChallenge
        <5> QED BY <1>2, <2>0, <5>1, <5>2 DEF Vote2OK
      <4> QED BY <1>2, <2>0, <3>2, <4>1, <4>2 DEF ChallengeOK
    <3> QED BY <3>1, <3>2
  <2> QED BY <2>1, <2>2, <2>3 DEF PairOK
<1>4. Alone(N1)
  BY <1>2 DEF Alone, Core
<1>5. ASSUME NEW x \in S1 PROVE WireOK(k1, H1, N1, C, x)
  <2>1. CASE x \in S
    <3>1. WireOK(k, H, N, C, x) /\ x.type # "beat"
      BY <2>1 DEF Core, Ticks
    <3> QED BY <3>1 DEF WireOK
  <2>2. CASE x \notin S
    <3>1. x.from = n /\ {x.from, x.to} \notin C /\ (x.primary <=> N[n].status = "primary")
      BY <2>2 DEF Ticks
    <3>2. N1[n].status = "primary" => \A p \in Nodes : N1[p].status = "primary" => p = n
      BY <1>4 DEF Alone
    <3> QED BY <1>2, <3>1, <3>2 DEF WireOK
  <2> QED BY <2>1, <2>2
<1> QED BY <1>0, <1>1, <1>3, <1>4, <1>5 DEF Core

(* The timer keeps the silence of those who accepted. *)
LEMMA TickHush ==
  ASSUME TimesApart, NEW R, NEW k, NEW H, NEW N, NEW S, NEW C, Core(R, k, H, N, S, C), Sized(N),
         NEW k1, NEW H1, NEW N1, NEW S1, Sized(N1), NEW n \in Nodes, NEW due,
         Ticks(R, k, k1, H, H1, N, N1, S, S1, C, n, due), NEW m \in Nodes, HushOK(k, H, N, m)
  PROVE HushOK(k1, H1, N1, m)
<1>1. H[m].yes2 \subseteq Nodes
  BY HistoryFacts DEF Core
<1>2. \A c \in Nodes : Ticked(R, k, k1, H, H1, N, N1, n, due, c)
  BY TickFacts
<1> QED BY <1>1, <1>2 DEF HushOK, Ticked

-----------------------------------------------------------------------------
(* The count of votes. *)

(* The counted voters are nodes. *)
LEMMA CountedFinite ==
  ASSUME NEW n, NEW q, NEW S, NEW yes \in SUBSET Nodes
  PROVE IsFiniteSet(Counted(n, q, S, yes)) /\ Cardinality(Counted(n, q, S, yes)) \in Nat
        /\ Counted(n, q, S, yes) \subseteq Nodes
<1>1. Counted(n, q, S, yes) \subseteq Nodes
  BY DEF Counted
<1> QED BY <1>1, NodesAssumption, FS_Subset, FS_CardinalityType

(* Messages are lost, or a voter is added. *)
LEMMA CountedMore ==
  ASSUME NEW n, NEW q, NEW S, NEW S1, NEW yes \in SUBSET Nodes, NEW yes1 \in SUBSET Nodes,
         NEW acc \in Nat, Counted(n, q, S, yes) \subseteq Counted(n, q, S1, yes1),
         acc < Cardinality(Counted(n, q, S, yes))
  PROVE acc < Cardinality(Counted(n, q, S1, yes1))
<1>1. /\ IsFiniteSet(Counted(n, q, S1, yes1)) /\ Cardinality(Counted(n, q, S1, yes1)) \in Nat
      /\ Cardinality(Counted(n, q, S, yes)) \in Nat
  BY CountedFinite
<1>2. Cardinality(Counted(n, q, S, yes)) <= Cardinality(Counted(n, q, S1, yes1))
  BY <1>1, FS_Subset
<1> QED BY <1>1, <1>2

(* A lost message keeps the count. *)
LEMMA CountLess ==
  ASSUME NEW n, NEW q, NEW S, NEW S1, NEW yes \in SUBSET Nodes, NEW acc \in Nat,
         Polled(n, q, S1) \subseteq Polled(n, q, S), CountOK(n, q, S, yes, acc)
  PROVE CountOK(n, q, S1, yes, acc)
<1>1. CASE acc = 0 /\ Polled(n, q, S) = {}
  BY <1>1 DEF CountOK
<1>2. CASE ~(acc = 0 /\ Polled(n, q, S) = {})
  <2>1. Counted(n, q, S, yes) \subseteq Counted(n, q, S1, yes)
    BY DEF Counted
  <2>2. acc < Cardinality(Counted(n, q, S, yes))
    BY <1>2 DEF CountOK
  <2>3. acc < Cardinality(Counted(n, q, S1, yes))
    BY <2>1, <2>2, CountedMore
  <2> QED BY <1>2, <2>3 DEF CountOK
<1> QED BY <1>1, <1>2

(* A ballot is answered. *)
LEMMA CountAnswered ==
  ASSUME NEW n \in Nodes, NEW q, NEW S, NEW S1, NEW yes \in SUBSET Nodes, NEW acc \in Nat,
         NEW b \in S, b.type = "ballot", b.round = q, b.from = n, b.to \in Nodes, b.to # n,
         NEW r, r.type = "reply", r.round = q, r.to = n, r.from = b.to,
         S1 \subseteq (S \ {b}) \cup {r}, CountOK(n, q, S, yes, acc), NEW yes1,
         yes1 = yes \cup {b.to} \/ (~r.ok /\ yes1 = yes)
  PROVE CountOK(n, q, S1, yes1, acc)
<1>1. b \in Polled(n, q, S) /\ Voter(b) = b.to /\ Voter(r) = b.to
  BY DEF Polled, Voter
<1>2. /\ n \in yes /\ acc < Cardinality(Counted(n, q, S, yes))
      /\ \A x \in Polled(n, q, S) : x.type = "ballot" => x.to \notin yes
      /\ \A x \in Polled(n, q, S) : x.type = "reply" /\ x.ok => x.from \in yes
      /\ \A x, y \in Polled(n, q, S) : Voter(x) = Voter(y) => x = y
  BY <1>1 DEF CountOK
<1>3. ASSUME NEW x \in Polled(n, q, S1)
      PROVE x = r \/ (x \in Polled(n, q, S) /\ x # b /\ Voter(x) # b.to)
  <2>1. x = r \/ (x \in Polled(n, q, S) /\ x # b)
    BY DEF Polled
  <2> QED BY <1>1, <1>2, <2>1
<1>4. \A x \in Polled(n, q, S1) : x.type = "ballot" => x.to \notin yes1
  BY <1>2, <1>3 DEF Voter
<1>5. \A x \in Polled(n, q, S1) : x.type = "reply" /\ x.ok => x.from \in yes1
  BY <1>2, <1>3
<1>6. \A x, y \in Polled(n, q, S1) : Voter(x) = Voter(y) => x = y
  BY <1>1, <1>2, <1>3
<1>7. Counted(n, q, S, yes) \subseteq Counted(n, q, S1, yes1)
  BY <1>1, <1>3 DEF Counted
<1>8. yes1 \in SUBSET Nodes
  OBVIOUS
<1>9. acc < Cardinality(Counted(n, q, S1, yes1))
  BY <1>2, <1>7, <1>8, CountedMore
<1> QED BY <1>2, <1>4, <1>5, <1>6, <1>9 DEF CountOK

(* A vote is counted. *)
LEMMA CountMore ==
  ASSUME NEW n \in Nodes, NEW q, NEW S, NEW yes \in SUBSET Nodes, NEW acc \in Nat,
         NEW r \in S, r.type = "reply", r.round = q, r.to = n, r.ok, CountOK(n, q, S, yes, acc)
  PROVE CountOK(n, q, S \ {r}, yes, acc + 1)
<1> DEFINE S1 == S \ {r}
           A == Counted(n, q, S, yes)
           B == Counted(n, q, S1, yes)
<1>1. r \in Polled(n, q, S) /\ Voter(r) = r.from
  BY DEF Polled, Voter
<1>2. /\ n \in yes /\ acc < Cardinality(A) /\ r.from \in yes
      /\ \A x \in Polled(n, q, S) : x.type = "ballot" => x.to \notin yes
      /\ \A x \in Polled(n, q, S) : x.type = "reply" /\ x.ok => x.from \in yes
      /\ \A x, y \in Polled(n, q, S) : Voter(x) = Voter(y) => x = y
  BY <1>1 DEF CountOK
<1>3. Polled(n, q, S1) = Polled(n, q, S) \ {r}
  BY DEF Polled
<1>4. r.from \notin A /\ A \cup {r.from} \subseteq B
  BY <1>1, <1>2, <1>3 DEF Counted
<1>5. IsFiniteSet(A) /\ Cardinality(A) \in Nat /\ IsFiniteSet(B) /\ Cardinality(B) \in Nat
  BY CountedFinite
<1> HIDE DEF A, B
<1>6. Cardinality(A \cup {r.from}) = Cardinality(A) + 1
  BY <1>4, <1>5, FS_AddElement
<1>7. Cardinality(A \cup {r.from}) <= Cardinality(B)
  BY <1>4, <1>5, FS_Subset
<1>8. acc + 1 < Cardinality(B)
  BY <1>2, <1>5, <1>6, <1>7
<1> QED BY <1>2, <1>3, <1>8 DEF CountOK, B

(* The ballots are sent, one to each peer. *)
LEMMA CountNone ==
  ASSUME NEW n \in Nodes, NEW q, NEW S,
         \A x \in Polled(n, q, S) : x.type = "ballot" /\ x.to # n,
         \A x, y \in Polled(n, q, S) : x.to = y.to => x = y
  PROVE CountOK(n, q, S, {n}, 0)
<1>1. Counted(n, q, S, {n}) = {n}
  BY DEF Counted, Voter
<1>2. Cardinality({n}) = 1
  BY FS_Singleton
<1>3. 0 < Cardinality(Counted(n, q, S, {n}))
  BY <1>1, <1>2
<1> QED BY <1>3 DEF CountOK, Voter

(* Enough votes are enough voters. *)
LEMMA CountMost ==
  ASSUME NEW n \in Nodes, NEW q, NEW S, NEW yes \in SUBSET Nodes, NEW acc \in Nat,
         CountOK(n, q, S, yes, acc)
  PROVE /\ IsMajority(acc + 1) => n \in yes /\ Most(yes)
        /\ Cardinality(Nodes) <= acc + 1 => n \in yes /\ Most(yes) /\ yes = Nodes
<1>1. CASE acc = 0 /\ Polled(n, q, S) = {}
  BY <1>1, GroupSize DEF IsMajority
<1>2. CASE ~(acc = 0 /\ Polled(n, q, S) = {})
  <2>1. n \in yes /\ acc < Cardinality(Counted(n, q, S, yes))
    BY <1>2 DEF CountOK
  <2>2. /\ IsFiniteSet(Nodes) /\ IsFiniteSet(yes) /\ Cardinality(yes) \in Nat
        /\ Cardinality(Nodes) \in Nat /\ Cardinality(yes) <= Cardinality(Nodes)
        /\ Cardinality(yes) = Cardinality(Nodes) => yes = Nodes
    BY NodesAssumption, FS_Subset, FS_CardinalityType
  <2>3. Cardinality(Counted(n, q, S, yes)) <= Cardinality(yes)
        /\ Cardinality(Counted(n, q, S, yes)) \in Nat
    <3>1. Counted(n, q, S, yes) \subseteq yes
      BY DEF Counted
    <3> QED BY <2>2, <3>1, FS_Subset, CountedFinite
  <2>4. acc + 1 <= Cardinality(yes)
    BY <2>1, <2>2, <2>3
  <2>5. IsMajority(acc + 1) => Most(yes)
    BY <2>2, <2>4 DEF IsMajority, Most
  <2>6. Cardinality(Nodes) <= acc + 1 => Most(yes) /\ yes = Nodes
    BY <2>2, <2>4, GroupSize DEF Most
  <2> QED BY <2>1, <2>5, <2>6
<1> QED BY <1>1, <1>2

(* A round ends, and links may have been cut. *)
LEMMA RoundCore ==
  ASSUME TimesApart, NEW R, NEW k, NEW H, NEW N, NEW S, NEW C, Core(R, k, H, N, S, C), Sized(N),
         S = {}, NEW C1, C \subseteq C1, \A m \in Nodes : k[m] = R + 1
  PROVE Core(R + 1, k, H, N, S, C1)
<1>0. R \in Nat /\ k \in [Nodes -> Int] /\ H \in [Nodes -> Histories]
  BY DEF Core
<1>1. ASSUME NEW m \in Nodes PROVE NodeOK(R + 1, k, H, N, S, C1, m)
  <2>1. NodeOK(R, k, H, N, S, C, m)
    BY DEF Core
  <2>2. H[m].asked1 \in Int /\ H[m].asked2 \in Int
    BY <1>0, HistoryFacts
  <2>3. ClockOK(R + 1, k, H, N, C1, m)
    BY <1>0, <2>1, <2>2 DEF NodeOK, ClockOK
  <2>4. PollsOK(R + 1, k, H, N, S, m)
    BY DEF PollsOK, Polled
  <2> QED BY <2>1, <2>3, <2>4 DEF NodeOK
<1>2. ASSUME NEW p \in Nodes, NEW c \in Peers(p) PROVE PairOK(k, H, N, S, C1, p, c)
  BY DEF Core, PairOK, ToldOK
<1> QED BY <1>0, <1>1, <1>2 DEF Core

-----------------------------------------------------------------------------
(* The invariant. *)

(* The timers of round R, after those of T fired. *)
Clock(R, T) == [n \in Nodes |-> IF n \in T THEN R + 1 ELSE R]

(* All of it between two steps. *)
Kept(R, k, H, N, S, C) ==
  /\ Core(R, k, H, N, S, C)
  /\ \A n \in Nodes : TallyOK(H, N, S, n) /\ HushOK(k, H, N, n) /\ InTime(N, n)

(* There are histories for which all of it holds. *)
OneInv == Inv /\ NoForce /\ \E R, H : Kept(R, Clock(R, ticked), H, node, msgs, cut)

(* A step-down reaches a node that has not fallen silent meanwhile. *)
TimelyStepDowns == \A x \in msgs : x.type = "stepDown" => node[x.to].status # "silence"

(* The numbers of the nodes' states, and the ends of messages. *)
LEMMA InvSized ==
  ASSUME Inv
  PROVE /\ Sized(node) /\ DOMAIN node = Nodes
        /\ \A x \in msgs : x.from \in Nodes /\ x.to \in Nodes
<1>1. \A n \in Nodes : node[n] \in NodeStates(n)
  BY InvParts
<1>2. ASSUME NEW n \in Nodes
      PROVE /\ node[n].status \in Statuses /\ node[n].time \in Nat /\ node[n].accepted \in Nat
            /\ node[n].beatTime \in Nat
            /\ \A m \in Peers(n) : node[n].age[m] \in 0 .. BreakTime /\ node[n].dead[m] \in Nat
  BY <1>1, GroupSize, Bounds DEF NodeStates
<1>3. msgs \subseteq Wire /\ DOMAIN node = Nodes
  BY InvParts DEF RestOK
<1> QED BY <1>2, <1>3, WireKinds DEF Sized

(* The same of the next state. *)
LEMMA InvSizedNext ==
  ASSUME Inv'
  PROVE Sized(node') /\ DOMAIN node' = Nodes
<1>1. /\ DOMAIN node' = Nodes
      /\ \A n \in Nodes : node'[n] \in NodeStates(n)
  BY DEF Inv, TypeOK
<1>2. ASSUME NEW n \in Nodes
      PROVE /\ node'[n].status \in Statuses /\ node'[n].time \in Nat /\ node'[n].accepted \in Nat
            /\ node'[n].beatTime \in Nat
            /\ \A m \in Peers(n) : node'[n].age[m] \in 0 .. BreakTime /\ node'[n].dead[m] \in Nat
  BY <1>1, GroupSize, Bounds DEF NodeStates
<1> QED BY <1>1, <1>2 DEF Sized

(* A node goes on heeding a primary, unless it was silent for long. *)
LEMMA HeedsKept ==
  ASSUME TimesApart, NEW R, NEW k, NEW H, NEW N, NEW S, NEW C, Core(R, k, H, N, S, C), Sized(N),
         NEW N1, NEW S1, NEW n \in Nodes, NEW p \in Peers(n),
         BeatTo(S, p, n) => BeatTo(S1, p, n),
         \/ N1[n].status = "silence" /\ N1[n].time = 0
         \/ /\ N[n].status = "silence" => \/ N1[n].status = "silence" /\ N1[n].time = N[n].time
                                          \/ N[n].time >= SilenceTime
            /\ N[n].primary = p => N1[n].primary = p
            /\ N1[n].age[p] = N[n].age[p] \/ N1[n].age[p] = 0,
         Heeds(k, H, N, S, p, n)
  PROVE Heeds(k, H, N1, S1, p, n)
<1>1. p \in Nodes /\ n \in Nodes
  BY DEF Peers
<1>2. H[p].told[n] \in Int /\ H[p].told[n] <= R
  <2>1. H[p].told[n] \in Int /\ H[p].told[n] <= LastBeat(k, N, p)
        /\ LastBeat(k, N, p) <= R /\ LastBeat(k, N, p) \in Int /\ R \in Nat
    BY <1>1, ClockFacts
  <2> QED BY <2>1
<1>3. k[n] \in Int /\ k[n] >= R /\ R \in Nat
  BY ClockFacts
<1>4. N[n].time \in Nat /\ BreakTime \in Nat /\ SilenceTime = BreakTime + 1
  BY TimesFacts DEF Sized
<1>5. CASE N1[n].status = "silence" /\ N1[n].time = 0
  BY <1>2, <1>3, <1>5 DEF Heeds, Silenced, Since
<1>6. CASE ~(N1[n].status = "silence" /\ N1[n].time = 0)
  <2>1. CASE Silenced(k, N, n, H[p].told[n])
    <3>1. N[n].status = "silence" /\ k[n] - N[n].time >= H[p].told[n]
      BY <2>1 DEF Silenced, Since
    <3>2. N[n].time >= SilenceTime => k[n] >= H[p].told[n] + BreakTime
      BY <1>2, <1>3, <1>4, <3>1
    <3> QED BY <1>6, <3>1, <3>2 DEF Heeds, Silenced, Since
  <2>2. CASE N[n].primary = p /\ k[n] - N[n].age[p] >= H[p].told[n]
    <3>1. N1[n].primary = p /\ k[n] - N1[n].age[p] >= H[p].told[n]
      BY <1>2, <1>3, <1>6, <2>2
    <3> QED BY <3>1 DEF Heeds
  <2> QED BY <2>1, <2>2 DEF Heeds
<1> QED BY <1>5, <1>6

(* A calm step keeps the invariant, and the count of n, if nothing was counted. *)
LEMMA CalmTally ==
  ASSUME TimesApart, NEW H, H \in [Nodes -> Histories], NEW N, NEW S, Sized(N),
         NEW N1, NEW S1, NEW n \in Nodes, TallyOK(H, N, S, n),
         N1[n].status \in {"vote", "announce"} =>
           N1[n].status = N[n].status /\ N1[n].accepted = N[n].accepted,
         \A q \in {1, 2} : Polled(n, q, S1) \subseteq Polled(n, q, S)
  PROVE TallyOK(H, N1, S1, n)
<1>1. H[n].yes1 \in SUBSET Nodes /\ H[n].yes2 \in SUBSET Nodes /\ N[n].accepted \in Nat
  BY HistoryFacts DEF Sized
<1>2. Polled(n, 1, S1) \subseteq Polled(n, 1, S) /\ Polled(n, 2, S1) \subseteq Polled(n, 2, S)
  OBVIOUS
<1>3. N1[n].status = "vote" => CountOK(n, 1, S1, H[n].yes1, N1[n].accepted)
  BY <1>1, <1>2, CountLess DEF TallyOK
<1>4. N1[n].status = "announce" => CountOK(n, 2, S1, H[n].yes2, N1[n].accepted)
  BY <1>1, <1>2, CountLess DEF TallyOK
<1> QED BY <1>3, <1>4 DEF TallyOK

(* A calm step keeps the invariant. *)
LEMMA CalmKept ==
  ASSUME TimesApart, NEW R, NEW k, NEW H, NEW N, NEW S, NEW C, Kept(R, k, H, N, S, C), Sized(N),
         NEW N1, NEW S1, Sized(N1), NEW n \in Nodes, Calm(k, H, N, N1, S, S1, C, n),
         \A x \in S : x.from \in Nodes, TallyOK(H, N1, S1, n), InTime(N1, n),
         \A m \in Peers(n) : \A q \in {1, 2} : Polled(m, q, S1) \subseteq Polled(m, q, S)
  PROVE Kept(R, k, H, N1, S1, C)
<1>1. Core(R, k, H, N, S, C) /\ H \in [Nodes -> Histories]
  BY DEF Kept, Core
<1>2. Core(R, k, H, N1, S1, C)
  BY <1>1, CalmCore
<1>3. ASSUME NEW m \in Nodes
      PROVE TallyOK(H, N1, S1, m) /\ HushOK(k, H, N1, m) /\ InTime(N1, m)
  <2>1. m # n => m \in Peers(n) /\ N1[m] = N[m]
    BY DEF Calm, Peers
  <2>2. TallyOK(H, N, S, m) /\ HushOK(k, H, N, m) /\ InTime(N, m)
    BY DEF Kept
  <2>3. TallyOK(H, N1, S1, m)
    <3>1. CASE m # n
      BY <1>1, <2>1, <2>2, <3>1, CalmTally
    <3> QED BY <3>1
  <2>4. HushOK(k, H, N1, m)
    <3> SUFFICES ASSUME N1[m].status = "announce", NEW c \in H[m].yes2 \ {m}
                 PROVE Silenced(k, N1, c, H[m].asked2)
      BY DEF HushOK
    <3>1. c \in Nodes
      BY <1>1, HistoryFacts
    <3>2. N[m].status = "announce"
      BY <2>1 DEF Calm
    <3>3. Silenced(k, N, c, H[m].asked2)
      BY <2>2, <3>2 DEF HushOK
    <3> QED BY <1>1, <3>1, <3>3, CalmHush
  <2>5. InTime(N1, m)
    BY <2>1, <2>2 DEF InTime
  <2> QED BY <2>3, <2>4, <2>5
<1> QED BY <1>2, <1>3 DEF Kept

-----------------------------------------------------------------------------
(* Steps in which no node goes on in an election. *)

(* What the invariant says of the state alone. *)
LEMMA OneFacts ==
  ASSUME OneInv
  PROVE /\ Inv /\ NoForce /\ Alone(node) /\ \A n \in Nodes : node[n].force = 0
        /\ \A x \in msgs : /\ x.from # x.to => {x.from, x.to} \notin cut
                           /\ x.type = "beat" /\ x.primary =>
                                \A p \in Nodes : node[p].status = "primary" => p = x.from
<1>1. PICK R, H : Kept(R, Clock(R, ticked), H, node, msgs, cut)
  BY DEF OneInv
<1>2. Core(R, Clock(R, ticked), H, node, msgs, cut)
  BY <1>1 DEF Kept
<1> QED BY <1>2 DEF OneInv, Core, NodeOK, ClockOK, WireOK

(* The new state w of n. *)
PlainNode(n, w) ==
  /\ \/ /\ w.status = node[n].status /\ w.time = node[n].time
        /\ w.accepted = node[n].accepted
     \/ w.status \in {"sec", "silence"} /\ w.time = 0
  /\ node[n].status = "silence" => w.status = "silence"
  /\ w.force = 0 /\ w.beatTime <= node[n].beatTime
  /\ w.status = "primary" => w.beatTime = node[n].beatTime
  /\ \A m \in Peers(n) : w.dead[m] > 0 => node[n].dead[m] > 0
  /\ \A m \in Peers(n) : \/ w.status # "primary" \/ w.age[m] = node[n].age[m]
                         \/ w.age[m] = 0 /\ {n, m} \notin cut

(* What it receives and sends. *)
PlainMsgs(n) ==
  /\ \A x \in msgs' \ msgs : /\ x.type \notin {"ballot", "reply", "beat"}
                             /\ x.from # x.to => {x.from, x.to} \notin cut
  /\ \A x \in msgs \ msgs' : x.type = "beat" => x.to = n

(* It goes on heeding the primary. *)
PlainHeeds(n) ==
  \A R, H : \A p \in Peers(n) :
    (/\ Core(R, Clock(R, ticked), H, node, msgs, cut)
     /\ node[p].status = "primary" /\ H[p].told[n] >= H[p].won
     /\ Heeds(Clock(R, ticked), H, node, msgs, p, n)) =>
       Heeds(Clock(R, ticked), H, node', msgs', p, n)

(* A plain step keeps the invariant. *)
LEMMA PlainOne ==
  ASSUME TimesApart, OneInv, Inv', NoForce', NEW n \in Nodes, NEW w,
         node' = [node EXCEPT ![n] = w], ticked' = ticked, cut' = cut,
         PlainNode(n, w), PlainMsgs(n), PlainHeeds(n)
  PROVE OneInv'
<1>1. PICK R, H : Kept(R, Clock(R, ticked), H, node, msgs, cut)
  BY DEF OneInv
<1> DEFINE k == Clock(R, ticked)
<1>2. Core(R, k, H, node, msgs, cut) /\ H \in [Nodes -> Histories]
      /\ TallyOK(H, node, msgs, n) /\ InTime(node, n)
  BY <1>1 DEF Kept, Core
<1>3. /\ Sized(node) /\ Sized(node') /\ \A x \in msgs : x.from \in Nodes
      /\ \A m \in Nodes : node'[m] = IF m = n THEN w ELSE node[m]
  BY InvSized, InvSizedNext DEF OneInv
<1>4. \A m, q : Polled(m, q, msgs') \subseteq Polled(m, q, msgs)
  BY DEF Polled, PlainMsgs
<1>5. Calm(k, H, node, node', msgs, msgs', cut, n)
  <2>1. \A m \in Peers(n) : node'[m] = node[m]
    BY <1>3 DEF Peers
  <2>2. \A p \in Peers(n) :
          node[p].status = "primary" /\ H[p].told[n] >= H[p].won /\ Heeds(k, H, node, msgs, p, n) =>
            Heeds(k, H, node', msgs', p, n)
    BY <1>2 DEF PlainHeeds
  <2>3. \A m \in Nodes : \A q \in {1, 2} : Polled(m, q, msgs) = {} => Polled(m, q, msgs') = {}
    BY <1>4
  <2>4. node'[n] = w
    BY <1>3
  <2> HIDE DEF k
  <2> QED BY <2>1, <2>2, <2>3, <2>4 DEF Calm, PlainNode, PlainMsgs
<1>6. InTime(node', n)
  BY <1>2, <1>3 DEF InTime, PlainNode
<1>7. TallyOK(H, node', msgs', n)
  BY <1>2, <1>3, <1>4, CalmTally DEF PlainNode
<1> HIDE DEF k
<1>8. Kept(R, k, H, node', msgs', cut)
  BY <1>1, <1>3, <1>4, <1>5, <1>6, <1>7, CalmKept DEF k
<1> QED BY <1>8 DEF OneInv, k

(* The fields that a change of the status leaves alone. *)
LEMMA ActivateRest ==
  ASSUME NEW n \in Nodes, NEW v \in Counting(n), NEW next \in Statuses
  PROVE /\ Activate(n, v, next).force = 0
        /\ Activate(n, v, next).age = v.age /\ Activate(n, v, next).dead = v.dead
        /\ Activate(n, v, next).beatTime = v.beatTime
<1>1. CASE next = v.status
  <2>1. Activate(n, v, next) = [v EXCEPT !.force = 0]
    BY <1>1 DEF Activate
  <2> QED BY <2>1 DEF Counting
<1>2. CASE next # v.status
  <2> DEFINE d == Deactivated(n, v)
             w == [d EXCEPT !.status = next, !.time = 0, !.accepted = 0, !.force = 0]
  <2>1. d \in Counting(n) /\ d.age = v.age /\ d.dead = v.dead /\ d.beatTime = v.beatTime
    BY DEF Deactivated, Counting
  <2>2. Activate(n, v, next) = IF next = "primary" THEN PrimaryActive(n, w) ELSE w
    BY <1>2 DEF Activate
  <2> HIDE DEF d
  <2>3. w.force = 0 /\ w.age = d.age /\ w.dead = d.dead /\ w.beatTime = d.beatTime
        /\ DOMAIN w = DOMAIN d
    BY <2>1 DEF Counting
  <2> HIDE DEF w
  <2>4. /\ PrimaryActive(n, w).force = w.force /\ PrimaryActive(n, w).age = w.age
        /\ PrimaryActive(n, w).dead = w.dead /\ PrimaryActive(n, w).beatTime = w.beatTime
    BY <2>1, <2>3 DEF PrimaryActive, Counting
  <2> QED BY <2>1, <2>2, <2>3, <2>4
<1> QED BY <1>1, <1>2

(* A peer is heard of, over a link that is up. *)
LEMMA AliveOne ==
  ASSUME TimesApart, OneInv, Inv', NoForce', NEW n \in Nodes, NEW m \in Peers(n),
         node' = [node EXCEPT ![n] = Alive(node[n], m)], ticked' = ticked, cut' = cut,
         {n, m} \notin cut, msgs' \subseteq msgs, \A x \in msgs \ msgs' : x.type # "beat"
  PROVE OneInv'
<1> DEFINE w == Alive(node[n], m)
<1>1. Inv /\ Sized(node) /\ node[n] \in NodeStates(n) /\ node[n].force = 0
  BY OneFacts, InvSized, InvParts
<1>2. /\ w.status = node[n].status /\ w.time = node[n].time /\ w.accepted = node[n].accepted
      /\ w.force = node[n].force /\ w.beatTime = node[n].beatTime /\ w.primary = node[n].primary
      /\ \A i \in Peers(n) : /\ w.age[i] = IF i = m THEN 0 ELSE node[n].age[i]
                             /\ w.dead[i] = IF i = m THEN 0 ELSE node[n].dead[i]
  BY <1>1 DEF Alive, NodeStates
<1>3. node' = [node EXCEPT ![n] = w] /\ node'[n] = w
  BY <1>1, InvSized
<1> HIDE DEF w
<1>4. w.beatTime <= node[n].beatTime
  BY <1>1, <1>2 DEF Sized
<1>5. PlainHeeds(n)
  <2> SUFFICES ASSUME NEW R, NEW H, NEW p \in Peers(n),
                      Core(R, Clock(R, ticked), H, node, msgs, cut),
                      Heeds(Clock(R, ticked), H, node, msgs, p, n)
               PROVE Heeds(Clock(R, ticked), H, node', msgs', p, n)
    BY DEF PlainHeeds
  <2>1. BeatTo(msgs, p, n) => BeatTo(msgs', p, n)
    BY DEF BeatTo
  <2>2. /\ node'[n].status = node[n].status /\ node'[n].time = node[n].time
        /\ node'[n].primary = node[n].primary
        /\ node'[n].age[p] = node[n].age[p] \/ node'[n].age[p] = 0
    BY <1>2, <1>3
  <2> QED BY <1>1, <2>1, <2>2, HeedsKept
<1>6. PlainNode(n, w)
  BY <1>1, <1>2, <1>4 DEF PlainNode
<1>7. PlainMsgs(n)
  BY DEF PlainMsgs
<1> QED BY <1>3, <1>5, <1>6, <1>7, PlainOne

(* The answer to a beat. *)
LEMMA BeatResOne ==
  ASSUME TimesApart, OneInv, NEW r \in msgs, r.type = "beatRes", HandleBeatRes(r.to, r)
  PROVE OneInv'
<1>1. Inv /\ NoForce /\ r \in Wire
  BY OneFacts, InvParts DEF RestOK
<1>2. r.to \in Nodes /\ r.from \in Peers(r.to) /\ r.from # r.to
  BY <1>1, WireKinds DEF Peers
<1>3. {r.to, r.from} \notin cut
  <2>1. {r.from, r.to} \notin cut /\ {r.from, r.to} = {r.to, r.from}
    BY <1>2, OneFacts
  <2> QED BY <2>1
<1>4. Inv'
  BY <1>1, BeatResInv
<1>5. /\ node' = [node EXCEPT ![r.to] = Alive(node[r.to], r.from)]
      /\ msgs' = msgs \ {r} /\ UNCHANGED <<ticked, cut, left>>
  BY <1>1, <1>2, InvParts DEF HandleBeatRes
<1>6. NoForce'
  BY <1>1, <1>5 DEF NoForce
<1> QED BY <1>2, <1>3, <1>4, <1>5, <1>6, AliveOne

(* A message of a replication session. *)
LEMMA AliveNodeOne ==
  ASSUME TimesApart, OneInv, NEW n \in Nodes, NEW m \in Peers(n), AliveNode(n, m)
  PROVE OneInv'
<1>1. Inv /\ NoForce
  BY OneFacts
<1>2. Inv'
  BY <1>1, AliveNodeInv
<1>3. /\ node' = [node EXCEPT ![n] = Alive(node[n], m)] /\ {n, m} \notin cut
      /\ UNCHANGED <<msgs, ticked, cut, left>>
  BY <1>1, InvParts DEF AliveNode
<1>4. NoForce'
  BY <1>1, <1>3 DEF NoForce
<1> QED BY <1>2, <1>3, <1>4, AliveOne

(* The state w in which the beat b of m leaves n. *)
BeatLeaves(n, m, b, w) ==
  /\ \A i \in Peers(n) : w.age[i] = IF i = m THEN 0 ELSE node[n].age[i]
  /\ \A i \in Peers(n) : w.dead[i] = IF i = m THEN 0 ELSE node[n].dead[i]
  /\ w.beatTime = node[n].beatTime /\ w.force = 0
  /\ \/ /\ w.status = node[n].status /\ w.time = node[n].time
        /\ w.accepted = node[n].accepted
     \/ b.primary /\ w.status = "silence" /\ w.time = 0
  /\ node[n].status = "silence" => w.status = "silence"
  /\ b.primary => w.primary = m
  /\ ~b.primary => w.primary = IF node[n].primary = m THEN None ELSE node[n].primary

(* What a beat does to a node that is not the primary. *)
LEMMA BeatFields ==
  ASSUME Inv, NEW b \in msgs, b.type = "beat", NEW n, n = b.to, NEW m, m = b.from,
         HandleBeat(n, b), node[n].force = 0, b.primary => node[n].primary # n
  PROVE \E w : /\ node' = [node EXCEPT ![n] = w]
               /\ BeatLeaves(n, m, b, w)
<1> DEFINE v == [node[n] EXCEPT !.beat[m] = [lsn |-> b.lsn, weight |-> b.weight,
                                             service |-> b.service]]
           heard == [v EXCEPT !.shift = FALSE, !.stepped = FALSE]
           yield == Activate(n, [heard EXCEPT !.primary = m], "silence")
           silent == Activate(n, heard, "silence")
           found == [silent EXCEPT !.primary = m]
           lost == IF v.primary = m THEN [v EXCEPT !.primary = None] ELSE v
           after == CASE b.primary /\ v.primary = n -> IF Yields(n, b) THEN yield ELSE heard
                      [] b.primary /\ v.primary \notin {n, m} -> found
                      [] b.primary /\ v.primary = m -> heard
                      [] OTHER -> lost
           w == Alive(after, m)
<1>1. b \in Wire
  BY InvParts DEF RestOK
<1>2. n \in Nodes /\ m \in Peers(n) /\ m \in Nodes /\ m # n
      /\ b.lsn \in Nat /\ b.weight \in 0 .. 100 /\ b.service \in {"normal", "abnormal"}
  BY <1>1, WireKinds DEF Peers
<1>3. node' = [node EXCEPT ![n] = w]
  BY DEF HandleBeat
<1>4. node[n] \in NodeStates(n)
  BY <1>2, InvParts
<1> DEFINE Same(u) == /\ u.age = node[n].age /\ u.dead = node[n].dead
                      /\ u.beatTime = node[n].beatTime /\ u.force = 0
           Stays(u) == /\ u.status = node[n].status /\ u.time = node[n].time
                       /\ u.accepted = node[n].accepted
<1>5. v \in NodeStates(n) /\ Same(v) /\ Stays(v) /\ v.primary = node[n].primary
  <2> DEFINE beats == [node[n].beat EXCEPT ![m] = [lsn |-> b.lsn, weight |-> b.weight,
                                                   service |-> b.service]]
  <2>1. beats \in [Peers(n) -> Beats]
    BY <1>2, <1>4 DEF NodeStates, Beats
  <2>2. v = [node[n] EXCEPT !.beat = beats]
    BY <1>4 DEF NodeStates
  <2> HIDE DEF beats, v
  <2> QED BY <1>4, <2>1, <2>2 DEF NodeStates
<1> HIDE DEF v
<1>6. heard \in NodeStates(n) /\ Same(heard) /\ Stays(heard) /\ heard.primary = v.primary
  BY <1>5 DEF NodeStates
<1> HIDE DEF heard
<1>7. /\ Same(silent) /\ silent.status = "silence" /\ DOMAIN silent = DOMAIN heard
      /\ Stays(silent) \/ silent.time = 0
  <2>1. heard \in Counting(n) /\ "silence" \in Statuses
    BY <1>2, <1>6, CountingStates DEF Statuses
  <2>2. DOMAIN silent = DOMAIN heard
    BY <1>6 DEF Activate, Deactivated, PrimaryActive, NodeStates
  <2>3. /\ silent.force = 0 /\ silent.age = heard.age /\ silent.dead = heard.dead
        /\ silent.beatTime = heard.beatTime
    BY <1>2, <2>1, ActivateRest
  <2>4. /\ silent.status = "silence"
        /\ "silence" = heard.status => /\ silent.time = heard.time
                                       /\ silent.accepted = heard.accepted
        /\ "silence" # heard.status => silent.time = 0
    BY <1>2, <2>1, ActivateFields
  <2> HIDE DEF silent
  <2> QED BY <1>6, <2>2, <2>3, <2>4
<1> HIDE DEF silent
<1>8. /\ Same(found) /\ found.status = "silence" /\ DOMAIN found = DOMAIN heard
      /\ Stays(found) \/ found.time = 0
      /\ found.primary = m
  BY <1>6, <1>7 DEF NodeStates
<1>9. /\ Same(lost) /\ Stays(lost) /\ DOMAIN lost = DOMAIN heard
      /\ lost.primary = IF node[n].primary = m THEN None ELSE node[n].primary
  BY <1>5, <1>6 DEF NodeStates
<1> HIDE DEF found, lost, yield
<1>10. /\ Same(after) /\ DOMAIN after = DOMAIN heard
       /\ \/ Stays(after)
          \/ b.primary /\ after.status = "silence" /\ after.time = 0
       /\ node[n].status = "silence" => after.status = "silence"
       /\ b.primary => after.primary = m
       /\ ~b.primary => after.primary = IF node[n].primary = m THEN None ELSE node[n].primary
  <2>1. CASE b.primary /\ v.primary = m
    <3>1. after = heard
      BY <1>2, <2>1
    <3> QED BY <1>5, <1>6, <2>1, <3>1
  <2>2. CASE b.primary /\ v.primary # m
    <3>1. after = found
      BY <1>5, <2>2
    <3> QED BY <1>8, <2>2, <3>1
  <2>3. CASE ~b.primary
    <3>1. after = lost
      BY <2>3
    <3> QED BY <1>9, <2>3, <3>1
  <2> QED BY <2>1, <2>2, <2>3
<1> HIDE DEF after
<1>11. /\ w.status = after.status /\ w.time = after.time /\ w.accepted = after.accepted
       /\ w.primary = after.primary /\ w.beatTime = after.beatTime /\ w.force = after.force
       /\ w.age = [after.age EXCEPT ![m] = 0] /\ w.dead = [after.dead EXCEPT ![m] = 0]
  BY <1>6, <1>10 DEF Alive, NodeStates
<1>12. \A i \in Peers(n) : /\ w.age[i] = IF i = m THEN 0 ELSE node[n].age[i]
                           /\ w.dead[i] = IF i = m THEN 0 ELSE node[n].dead[i]
  <2>1. DOMAIN node[n].age = Peers(n) /\ DOMAIN node[n].dead = Peers(n)
    BY <1>4 DEF NodeStates
  <2> HIDE DEF w
  <2> QED BY <1>10, <1>11, <2>1
<1> HIDE DEF w
<1>13. BeatLeaves(n, m, b, w)
  BY <1>10, <1>11, <1>12 DEF BeatLeaves
<1> QED BY <1>3, <1>13

(* A beat: who hears of the primary names it, and nobody else loses its name. *)
LEMMA BeatOne ==
  ASSUME TimesApart, OneInv, NEW b \in msgs, b.type = "beat", HandleBeat(b.to, b)
  PROVE OneInv'
<1> DEFINE n == b.to
           m == b.from
<1>1. Inv /\ NoForce /\ RestOK /\ b \in Wire /\ Sized(node)
  BY OneFacts, InvParts, InvSized DEF RestOK
<1>2. n \in Nodes /\ m \in Peers(n) /\ m \in Nodes /\ m # n
  BY <1>1, WireKinds DEF Peers
<1>3. /\ msgs' = (msgs \ {b}) \cup OnWire({[type |-> "beatRes", from |-> n, to |-> m]})
      /\ UNCHANGED <<ticked, cut, left>> /\ HandleBeat(n, b)
  BY DEF HandleBeat
<1>4. Inv'
  BY <1>1, BeatInv
<1>5. /\ \A x \in msgs' : x \in msgs \/ (x.type = "beatRes" /\ {x.from, x.to} \notin cut)
      /\ \A x \in msgs : x \in msgs' \/ x = b
  BY <1>3 DEF OnWire
<1>6. /\ node[n].force = 0 /\ {n, m} \notin cut
      /\ b.primary => \A p \in Nodes : node[p].status = "primary" => p = m
  <2>1. {m, n} \notin cut /\ {m, n} = {n, m}
    BY <1>2, OneFacts
  <2> QED BY <1>2, <2>1, OneFacts
<1>7. b.primary => node[n].primary # n
  <2>1. SelfOK(n, node[n])
    BY <1>1, <1>2, InvParts
  <2> QED BY <1>2, <1>6, <2>1 DEF SelfOK
<1> HIDE DEF n, m
<1>8. PICK w : /\ node' = [node EXCEPT ![n] = w]
               /\ BeatLeaves(n, m, b, w)
  <2>1. n = b.to /\ m = b.from
    BY DEF n, m
  <2> QED BY <1>1, <1>3, <1>6, <1>7, <2>1, BeatFields
<1>9. PlainNode(n, w)
  <2>1. w.beatTime <= node[n].beatTime
    BY <1>1, <1>2, <1>8 DEF Sized, BeatLeaves
  <2>2. \A i \in Peers(n) : w.dead[i] > 0 => node[n].dead[i] > 0
    BY <1>8 DEF BeatLeaves
  <2>3. \A i \in Peers(n) : w.age[i] = node[n].age[i] \/ (w.age[i] = 0 /\ {n, i} \notin cut)
    BY <1>6, <1>8 DEF BeatLeaves
  <2>4. /\ \/ /\ w.status = node[n].status /\ w.time = node[n].time
              /\ w.accepted = node[n].accepted
           \/ w.status \in {"sec", "silence"} /\ w.time = 0
        /\ node[n].status = "silence" => w.status = "silence"
        /\ w.force = 0 /\ w.beatTime = node[n].beatTime
    BY <1>8 DEF BeatLeaves
  <2> QED BY <2>1, <2>2, <2>3, <2>4 DEF PlainNode
<1>10. PlainMsgs(n)
  BY <1>5 DEF PlainMsgs, n
<1>11. PlainHeeds(n)
  <2> SUFFICES ASSUME NEW R, NEW H, NEW p \in Peers(n),
                      Core(R, Clock(R, ticked), H, node, msgs, cut),
                      node[p].status = "primary", H[p].told[n] >= H[p].won,
                      Heeds(Clock(R, ticked), H, node, msgs, p, n)
               PROVE Heeds(Clock(R, ticked), H, node', msgs', p, n)
    BY DEF PlainHeeds
  <2> DEFINE k == Clock(R, ticked)
  <2>1. node'[n] = w /\ p \in Nodes
    BY <1>1, <1>2, <1>8, InvSized DEF Peers
  <2>2. H[p].told[n] \in Int /\ H[p].told[n] <= LastBeat(k, node, p)
        /\ LastBeat(k, node, p) \in Int /\ LastBeat(k, node, p) <= R
    BY <1>1, <1>2, <2>1, ClockFacts
  <2>3. k[n] \in Int /\ k[n] >= R /\ R \in Nat
    BY <1>1, <1>2, ClockFacts
  <2>4. CASE b.primary
    <3>1. p = m
      BY <1>6, <2>1, <2>4
    <3>2. w.primary = p /\ w.age[p] = 0
      BY <1>8, <2>4, <3>1 DEF BeatLeaves
    <3>3. k[n] - w.age[p] >= H[p].told[n]
      BY <2>2, <2>3, <3>2
    <3> QED BY <2>1, <3>2, <3>3 DEF Heeds
  <2>5. CASE ~b.primary
    <3>1. p # m
      <4>1. p = m => LastBeat(k, node, p) < H[p].won
        BY <2>5 DEF Core, WireOK, m
      <4>2. H[p].won \in Int
        BY <2>1, HistoryFacts DEF Core
      <4> HIDE DEF k
      <4> QED BY <2>2, <4>1, <4>2
    <3>2. BeatTo(msgs, p, n) => BeatTo(msgs', p, n)
      BY <1>5, <3>1 DEF BeatTo, m
    <3>3. /\ node'[n].status = node[n].status /\ node'[n].time = node[n].time
          /\ node'[n].age[p] = node[n].age[p]
          /\ node[n].primary = p => node'[n].primary = p
      BY <1>8, <2>1, <2>5, <3>1 DEF BeatLeaves
    <3> QED BY <1>1, <1>2, <3>2, <3>3, HeedsKept
  <2> QED BY <2>4, <2>5
<1>12. NoForce'
  BY <1>1, <1>3, <1>5 DEF NoForce
<1> QED BY <1>2, <1>3, <1>4, <1>8, <1>9, <1>10, <1>11, <1>12, PlainOne

(* A step-down of a node that is not silent. *)
LEMMA StepDownOne ==
  ASSUME TimesApart, OneInv, TimelyStepDowns, NEW x \in msgs, x.type = "stepDown",
         HandleStepDown(x.to, x)
  PROVE OneInv'
<1> DEFINE n == x.to
           v == [node[n] EXCEPT !.stepped = TRUE]
           w == Activate(n, v, "sec")
<1>1. Inv /\ RestOK /\ NoForce /\ n \in Nodes /\ Sized(node) /\ DOMAIN node = Nodes
  BY OneFacts, InvParts, InvSized DEF RestOK
<1>2. node' = [node EXCEPT ![n] = w] /\ msgs' = msgs \ {x} /\ UNCHANGED <<ticked, cut, left>>
      /\ node[n].status # "silence"
  BY <1>1 DEF HandleStepDown, TimelyStepDowns
<1>3. Inv'
  BY <1>1, StepDownInv
<1> HIDE DEF n
<1>4. node[n] \in NodeStates(n)
  BY <1>1, InvParts
<1>5. v \in Counting(n) /\ v.status = node[n].status /\ v.time = node[n].time
      /\ v.accepted = node[n].accepted /\ v.primary = node[n].primary
      /\ v.age = node[n].age /\ v.dead = node[n].dead /\ v.beatTime = node[n].beatTime
  <2>1. v \in NodeStates(n) /\ v.status = node[n].status /\ v.time = node[n].time
        /\ v.accepted = node[n].accepted /\ v.primary = node[n].primary
        /\ v.age = node[n].age /\ v.dead = node[n].dead /\ v.beatTime = node[n].beatTime
    BY <1>4 DEF NodeStates
  <2> QED BY <1>1, <2>1, CountingStates
<1> HIDE DEF v
<1>6. /\ w.status = "sec"
      /\ "sec" = v.status => w.time = v.time /\ w.accepted = v.accepted /\ w.primary = v.primary
      /\ "sec" # v.status => w.time = 0 /\ w.primary = Deactivated(n, v).primary
  BY <1>1, <1>5, ActivateFields DEF Statuses
<1>7. w.force = 0 /\ w.age = v.age /\ w.dead = v.dead /\ w.beatTime = v.beatTime
  BY <1>1, <1>5, ActivateRest DEF Statuses
<1>8. \A p \in Peers(n) : node[n].primary = p => w.primary = p
  <2>1. Deactivated(n, v).primary = v.primary \/ v.primary = n
    BY DEF Deactivated
  <2> QED BY <1>5, <1>6, <2>1 DEF Peers
<1> HIDE DEF w
<1>9. PlainNode(n, w)
  <2>1. w.beatTime <= node[n].beatTime
    BY <1>1, <1>5, <1>7 DEF Sized
  <2> QED BY <1>2, <1>5, <1>6, <1>7, <2>1 DEF PlainNode
<1>10. PlainMsgs(n)
  BY <1>2 DEF PlainMsgs
<1>11. PlainHeeds(n)
  <2> SUFFICES ASSUME NEW R, NEW H, NEW p \in Peers(n),
                      Core(R, Clock(R, ticked), H, node, msgs, cut),
                      Heeds(Clock(R, ticked), H, node, msgs, p, n)
               PROVE Heeds(Clock(R, ticked), H, node', msgs', p, n)
    BY DEF PlainHeeds
  <2>1. node'[n] = w
    BY <1>1, <1>2
  <2>2. BeatTo(msgs, p, n) => BeatTo(msgs', p, n)
    BY <1>2 DEF BeatTo
  <2>3. /\ node[n].status # "silence" /\ node'[n].age[p] = node[n].age[p]
        /\ node[n].primary = p => node'[n].primary = p
    BY <1>2, <1>5, <1>7, <1>8, <2>1
  <2> QED BY <1>1, <2>2, <2>3, HeedsKept
<1>12. NoForce'
  BY <1>1, <1>2 DEF NoForce
<1> QED BY <1>1, <1>2, <1>3, <1>9, <1>10, <1>11, <1>12, PlainOne

(* Requests for a reelection. *)
LEMMA ReelectOne ==
  ASSUME TimesApart, OneInv, NEW n \in Nodes, Reelect(n) \/ StepDown(n) \/ ReelectFailed(n)
  PROVE OneInv'
<1>1. Inv /\ NoForce /\ node[n] \in NodeStates(n) /\ node[n].force = 0 /\ Sized(node)
      /\ DOMAIN node = Nodes
  BY OneFacts, InvParts, InvSized
<1>2. Inv'
  BY <1>1, ReelectInv
<1>3. \E r \in BOOLEAN : node' = [node EXCEPT ![n] = [node[n] EXCEPT !.reelecting = r]]
  BY <1>1 DEF Reelect, StepDown, ReelectFailed
<1>4. PICK r \in BOOLEAN : node' = [node EXCEPT ![n] = [node[n] EXCEPT !.reelecting = r]]
  BY <1>3
<1> DEFINE w == [node[n] EXCEPT !.reelecting = r]
<1>5. /\ w.status = node[n].status /\ w.time = node[n].time
      /\ w.accepted = node[n].accepted /\ w.primary = node[n].primary
      /\ w.age = node[n].age /\ w.dead = node[n].dead /\ w.beatTime = node[n].beatTime
      /\ w.force = 0
  BY <1>1 DEF NodeStates
<1>6. UNCHANGED <<ticked, cut>> /\ left'.up = left.up
  <2>1. left \in Faults
    BY <1>1 DEF Inv, TypeOK
  <2> QED BY <2>1 DEF Reelect, StepDown, ReelectFailed, Faults
<1>7. msgs \subseteq msgs' /\ \A x \in msgs' : x \in msgs \/ (x.type = "stepDown" /\ x.from = x.to)
  BY DEF Reelect, StepDown, ReelectFailed, Post
<1>8. NoForce'
  BY <1>1, <1>6, <1>7 DEF NoForce
<1>9. node' = [node EXCEPT ![n] = w]
  BY <1>4
<1> HIDE DEF w
<1>10. PlainNode(n, w)
  <2>1. w.beatTime <= node[n].beatTime
    BY <1>1, <1>5 DEF Sized
  <2> QED BY <1>5, <2>1 DEF PlainNode
<1>11. PlainMsgs(n)
  BY <1>7 DEF PlainMsgs
<1>12. PlainHeeds(n)
  <2> SUFFICES ASSUME NEW R, NEW H, NEW p \in Peers(n),
                      Core(R, Clock(R, ticked), H, node, msgs, cut),
                      Heeds(Clock(R, ticked), H, node, msgs, p, n)
               PROVE Heeds(Clock(R, ticked), H, node', msgs', p, n)
    BY DEF PlainHeeds
  <2>1. node'[n] = w
    BY <1>1, <1>9
  <2>2. BeatTo(msgs, p, n) => BeatTo(msgs', p, n)
    BY <1>7 DEF BeatTo
  <2> QED BY <1>1, <1>5, <2>1, <2>2, HeedsKept
<1> QED BY <1>2, <1>6, <1>8, <1>9, <1>10, <1>11, <1>12, PlainOne

(* A restart: silent at first. *)
LEMMA RestartOne ==
  ASSUME TimesApart, OneInv, BeatsDone, NEW n \in Nodes, Restart(n)
  PROVE OneInv'
<1>1. Inv /\ NoForce /\ Sized(node) /\ DOMAIN node = Nodes
  BY OneFacts, InvSized
<1>2. Inv'
  BY <1>1, RestartInv
<1>3. /\ node' = [node EXCEPT ![n] = Started(n)] /\ msgs' \subseteq msgs
      /\ UNCHANGED <<ticked, cut>>
  BY DEF Restart
<1>4. left'.up = left.up
  <2>1. left \in Faults
    BY <1>1 DEF Inv, TypeOK
  <2> QED BY <2>1 DEF Restart, Faults
<1>5. NoForce'
  BY <1>1, <1>3, <1>4 DEF NoForce
<1>6. PlainNode(n, Started(n))
  <2>1. node[n].beatTime \in Nat
    BY <1>1 DEF Sized
  <2> QED BY <2>1 DEF PlainNode, Started, FirstStatus
<1>7. PlainMsgs(n)
  BY <1>3 DEF PlainMsgs, BeatsDone
<1>8. PlainHeeds(n)
  <2> SUFFICES ASSUME NEW R, NEW H, NEW p \in Peers(n),
                      Core(R, Clock(R, ticked), H, node, msgs, cut),
                      Heeds(Clock(R, ticked), H, node, msgs, p, n)
               PROVE Heeds(Clock(R, ticked), H, node', msgs', p, n)
    BY DEF PlainHeeds
  <2>1. node'[n].status = "silence" /\ node'[n].time = 0
    BY <1>1, <1>3 DEF Started, FirstStatus
  <2>2. ~BeatTo(msgs, p, n)
    BY DEF BeatTo, BeatsDone
  <2> QED BY <1>1, <2>1, <2>2, HeedsKept
<1> DEFINE w == Started(n)
<1>9. node' = [node EXCEPT ![n] = w] /\ PlainNode(n, w)
  BY <1>3, <1>6
<1> HIDE DEF w
<1> QED BY <1>2, <1>3, <1>5, <1>7, <1>8, <1>9, PlainOne

(* Replication does not concern the vote machines. *)
LEMMA SynchroniseOne ==
  ASSUME OneInv, NEW n \in Nodes, Synchronise(n)
  PROVE OneInv'
<1>1. Inv'
  BY OneFacts, SynchroniseInv
<1>2. UNCHANGED <<node, msgs, ticked, cut, left>>
  BY DEF Synchronise
<1> QED BY <1>1, <1>2 DEF OneInv, NoForce

(* The next round, in which no link has healed. *)
LEMMA EndRoundOne ==
  ASSUME TimesApart, OneInv, EndRound, cut \subseteq cut'
  PROVE OneInv'
<1>1. Inv /\ NoForce /\ Sized(node)
  BY OneFacts, InvSized
<1>2. Inv'
  BY <1>1, EndRoundInv
<1>3. node' = node /\ msgs = {} /\ msgs' = {} /\ ticked = Nodes /\ ticked' = {}
  BY DEF EndRound
<1>4. left'.up = left.up
  <2>1. left \in Faults
    BY <1>1 DEF Inv, TypeOK
  <2> QED BY <2>1 DEF EndRound, Faults
<1>5. NoForce'
  BY <1>1, <1>3, <1>4 DEF NoForce
<1>6. PICK R, H : Kept(R, Clock(R, ticked), H, node, msgs, cut)
  BY DEF OneInv
<1> DEFINE k == Clock(R, ticked)
<1>7. k = Clock(R + 1, {}) /\ \A m \in Nodes : k[m] = R + 1
  BY <1>3 DEF Clock
<1>8. Core(R, k, H, node, msgs, cut)
  BY <1>6 DEF Kept
<1> HIDE DEF k
<1>9. Core(R + 1, k, H, node, msgs, cut')
  BY <1>1, <1>3, <1>7, <1>8, RoundCore
<1>10. Kept(R + 1, k, H, node, msgs, cut')
  BY <1>6, <1>9 DEF Kept, k
<1> QED BY <1>2, <1>3, <1>5, <1>7, <1>10 DEF OneInv


-----------------------------------------------------------------------------
(* A ballot. *)

(* The state of c after a ballot, and the answer r that takes the place of b. *)
Answers(N, N1, S, S1, C, c, a, b, r, q) ==
  /\ c \in Nodes /\ a \in Peers(c) /\ q \in {1, 2}
  /\ b \in S /\ b.type = "ballot" /\ b.from = a /\ b.to = c /\ b.round = q
  /\ r.type = "reply" /\ r.from = c /\ r.to = a /\ r.round = q
  /\ S \ {b} \subseteq S1 /\ S1 \subseteq (S \ {b}) \cup {r} /\ (r \in S1 => {c, a} \notin C)
  /\ r.ok => N[c].status \in {"sec", "vote"} /\ Free(N, S, c)
  /\ r.ok /\ q = 2 => N1[c].status = "silence" /\ N1[c].time = 0
  /\ \A m \in Peers(c) : N1[m] = N[m]
  /\ \/ /\ N1[c].status = N[c].status /\ N1[c].time = N[c].time
        /\ N1[c].accepted = N[c].accepted
     \/ N1[c].status \in {"sec", "silence"} /\ N1[c].time = 0
  /\ N[c].status = "silence" => N1[c].status = "silence"
  /\ N1[c].force = 0 /\ N1[c].beatTime = N[c].beatTime
  /\ N1[c].age = N[c].age /\ N1[c].dead = N[c].dead
  /\ \A p \in Peers(c) : N[c].primary = p => N1[c].primary = p

(* The history once c has accepted the ballot of round q of candidate a. *)
Grants(N, H, H1, a, c, q, r) ==
  /\ H1 \in [Nodes -> Histories] /\ \A m \in Peers(a) : H1[m] = H[m]
  /\ H1[a].yes1 = IF r.ok /\ q = 1 /\ N[a].status = "vote" THEN H[a].yes1 \cup {c} ELSE H[a].yes1
  /\ H1[a].yes2 = IF r.ok /\ q = 2 /\ N[a].status = "announce" THEN H[a].yes2 \cup {c}
                  ELSE H[a].yes2
  /\ H1[a].asked1 = H[a].asked1 /\ H1[a].asked2 = H[a].asked2

(* An acceptance is remembered. *)
LEMMA GrantsCore ==
  ASSUME TimesApart, NEW R, NEW k, NEW H, NEW N, NEW S, NEW C, Core(R, k, H, N, S, C), Sized(N),
         \A m \in Nodes : HushOK(k, H, N, m), NEW c \in Nodes, NEW a \in Peers(c),
         NEW q \in {1, 2}, NEW r, r.ok => N[c].status \in {"sec", "vote"} /\ Free(N, S, c),
         Polled(a, q, S) # {}
  PROVE \E H1 : Grants(N, H, H1, a, c, q, r) /\ Core(R, k, H1, N, S, C)
<1>1. H \in [Nodes -> Histories] /\ a \in Nodes /\ c \in Peers(a)
  BY DEF Core, Peers
<1>2. PollsOK(R, k, H, N, S, a)
  BY <1>1 DEF Core, NodeOK
<1>3. CASE r.ok /\ q = 1 /\ N[a].status = "vote"
  <2> DEFINE H1 == [H EXCEPT ![a].yes1 = @ \cup {c}]
  <2>1. H[a].asked1 = R
    BY <1>2, <1>3 DEF PollsOK
  <2>2. Core(R, k, H1, N, S, C)
    BY <1>3, <2>1, PromiseCore
  <2>3. /\ H1[a].yes1 = H[a].yes1 \cup {c} /\ H1[a].yes2 = H[a].yes2
        /\ H1[a].asked1 = H[a].asked1 /\ H1[a].asked2 = H[a].asked2
        /\ \A m \in Peers(a) : H1[m] = H[m]
    BY <1>1 DEF Histories, Peers
  <2>4. H1 \in [Nodes -> Histories]
    BY <2>2 DEF Core
  <2> HIDE DEF H1
  <2>5. Grants(N, H, H1, a, c, q, r)
    BY <1>3, <2>3, <2>4 DEF Grants
  <2> QED BY <2>2, <2>5
<1>4. CASE r.ok /\ q = 2 /\ N[a].status = "announce"
  <2> DEFINE H1 == [H EXCEPT ![a].yes2 = @ \cup {c}]
  <2>1. H[a].asked2 = R
    BY <1>2, <1>4 DEF PollsOK
  <2>2. Core(R, k, H1, N, S, C)
    BY <1>4, <2>1, AcceptCore
  <2>3. /\ H1[a].yes2 = H[a].yes2 \cup {c} /\ H1[a].yes1 = H[a].yes1
        /\ H1[a].asked1 = H[a].asked1 /\ H1[a].asked2 = H[a].asked2
        /\ \A m \in Peers(a) : H1[m] = H[m]
    BY <1>1 DEF Histories, Peers
  <2>4. H1 \in [Nodes -> Histories]
    BY <2>2 DEF Core
  <2> HIDE DEF H1
  <2>5. Grants(N, H, H1, a, c, q, r)
    BY <1>4, <2>3, <2>4 DEF Grants
  <2> QED BY <2>2, <2>5
<1>5. CASE ~(r.ok /\ q = 1 /\ N[a].status = "vote") /\ ~(r.ok /\ q = 2 /\ N[a].status = "announce")
  <2>1. Grants(N, H, H, a, c, q, r)
    BY <1>1, <1>5 DEF Grants
  <2> QED BY <2>1
<1> QED BY <1>3, <1>4, <1>5

(* The count of the candidate and of the others. *)
LEMMA AnswerTally ==
  ASSUME TimesApart, NEW H, H \in [Nodes -> Histories], NEW H1, NEW N, NEW N1, NEW S, NEW S1,
         NEW C, Sized(N), NEW c, NEW a, NEW q, NEW b, NEW r,
         Answers(N, N1, S, S1, C, c, a, b, r, q),
         Grants(N, H, H1, a, c, q, r), NEW m \in Nodes, TallyOK(H, N, S, m)
  PROVE TallyOK(H1, N1, S1, m)
<1>1. a \in Nodes /\ a # c /\ c \in Nodes /\ a \in Peers(c) /\ q \in {1, 2}
  BY DEF Peers, Answers
<1>2. H[m].yes1 \in SUBSET Nodes /\ H[m].yes2 \in SUBSET Nodes /\ N[m].accepted \in Nat
  BY HistoryFacts DEF Sized
<1>3. CASE m # a
  <2>1. Polled(m, 1, S1) \subseteq Polled(m, 1, S) /\ Polled(m, 2, S1) \subseteq Polled(m, 2, S)
    BY <1>3 DEF Answers, Polled
  <2>2. N1[m].status \in {"vote", "announce"} =>
          N1[m].status = N[m].status /\ N1[m].accepted = N[m].accepted
    BY <1>3 DEF Answers, Peers
  <2>3. TallyOK(H, N1, S1, m)
    BY <2>1, <2>2, CalmTally
  <2>4. H1[m] = H[m]
    BY <1>3 DEF Grants, Peers
  <2> QED BY <2>3, <2>4 DEF TallyOK
<1>4. CASE m = a
  <2>1. N1[a] = N[a]
    BY <1>1 DEF Answers
  <2>2. /\ b \in S /\ b.type = "ballot" /\ b.from = a /\ b.to = c /\ b.round = q
        /\ r.type = "reply" /\ r.from = c /\ r.to = a /\ r.round = q
        /\ S1 \subseteq (S \ {b}) \cup {r}
    BY DEF Answers
  <2>3. \A j \in {1, 2} : j # q => Polled(a, j, S1) \subseteq Polled(a, j, S)
    BY <2>2 DEF Polled
  <2>4. N[a].status = "vote" => CountOK(a, 1, S1, H1[a].yes1, N[a].accepted)
    <3>1. CASE q = 1 /\ N[a].status = "vote"
      <4>1. H1[a].yes1 = H[a].yes1 \cup {b.to} \/ (~r.ok /\ H1[a].yes1 = H[a].yes1)
        BY <2>2, <3>1 DEF Grants
      <4>2. CountOK(a, 1, S, H[a].yes1, N[a].accepted)
        BY <1>4, <3>1 DEF TallyOK
      <4> QED BY <1>1, <1>2, <1>4, <2>2, <3>1, <4>1, <4>2, CountAnswered
    <3>2. CASE q = 2 /\ N[a].status = "vote"
      <4>1. H1[a].yes1 = H[a].yes1
        BY <3>2 DEF Grants
      <4>2. CountOK(a, 1, S, H[a].yes1, N[a].accepted)
        BY <1>4, <3>2 DEF TallyOK
      <4> QED BY <1>2, <1>4, <2>3, <3>2, <4>1, <4>2, CountLess
    <3> QED BY <1>1, <3>1, <3>2
  <2>5. N[a].status = "announce" => CountOK(a, 2, S1, H1[a].yes2, N[a].accepted)
    <3>1. CASE q = 2 /\ N[a].status = "announce"
      <4>1. H1[a].yes2 = H[a].yes2 \cup {b.to} \/ (~r.ok /\ H1[a].yes2 = H[a].yes2)
        BY <2>2, <3>1 DEF Grants
      <4>2. CountOK(a, 2, S, H[a].yes2, N[a].accepted)
        BY <1>4, <3>1 DEF TallyOK
      <4> QED BY <1>1, <1>2, <1>4, <2>2, <3>1, <4>1, <4>2, CountAnswered
    <3>2. CASE q = 1 /\ N[a].status = "announce"
      <4>1. H1[a].yes2 = H[a].yes2
        BY <3>2 DEF Grants
      <4>2. CountOK(a, 2, S, H[a].yes2, N[a].accepted)
        BY <1>4, <3>2 DEF TallyOK
      <4> QED BY <1>2, <1>4, <2>3, <3>2, <4>1, <4>2, CountLess
    <3> QED BY <1>1, <3>1, <3>2
  <2> QED BY <1>4, <2>1, <2>4, <2>5 DEF TallyOK
<1> QED BY <1>3, <1>4

(* With the acceptance remembered, c calmly answers. *)
LEMMA AnswerCalm ==
  ASSUME TimesApart, NEW R, NEW k, NEW H1, NEW N, NEW S, NEW C, Core(R, k, H1, N, S, C), Sized(N),
         NEW N1, NEW S1, NEW c \in Nodes, NEW a \in Peers(c), NEW q \in {1, 2}, NEW b, NEW r,
         Answers(N, N1, S, S1, C, c, a, b, r, q)
  PROVE Calm(k, H1, N, N1, S, S1, C, c)
<1>1. \A p \in Peers(c) : Heeds(k, H1, N, S, p, c) => Heeds(k, H1, N1, S1, p, c)
  <2> SUFFICES ASSUME NEW p \in Peers(c), Heeds(k, H1, N, S, p, c)
               PROVE Heeds(k, H1, N1, S1, p, c)
    OBVIOUS
  <2>1. BeatTo(S, p, c) => BeatTo(S1, p, c)
    BY DEF BeatTo, Answers
  <2>2. \/ N1[c].status = "silence" /\ N1[c].time = 0
        \/ N[c].status = "silence" => N1[c].status = "silence" /\ N1[c].time = N[c].time
    BY DEF Answers
  <2>3. /\ N[c].primary = p => N1[c].primary = p
        /\ N1[c].age[p] = N[c].age[p]
    BY DEF Answers
  <2> QED BY <2>1, <2>2, <2>3, HeedsKept
<1>2. \A m \in Nodes : \A j \in {1, 2} : Polled(m, j, S) = {} => Polled(m, j, S1) = {}
  <2> SUFFICES ASSUME NEW m \in Nodes, NEW j \in {1, 2}, NEW x \in Polled(m, j, S1)
               PROVE \E y : y \in Polled(m, j, S)
    OBVIOUS
  <2>1. CASE x = r
    <3>1. m = a /\ j = q
      BY <2>1 DEF Polled, Answers
    <3>2. b \in Polled(m, j, S)
      BY <3>1 DEF Polled, Answers
    <3> QED BY <3>2
  <2>2. CASE x # r
    <3>1. x \in Polled(m, j, S)
      BY <2>2 DEF Polled, Answers
    <3> QED BY <3>1
  <2> QED BY <2>1, <2>2
<1>3. \A x \in S1 \ S : x.type # "beat" /\ (x.from # x.to => {x.from, x.to} \notin C)
  BY DEF Answers
<1>4. \A x \in S \ S1 : x.type = "beat" => x.to = c
  BY DEF Answers
<1>5. N1[c].beatTime <= N[c].beatTime
  BY DEF Answers, Sized
<1> QED BY <1>1, <1>2, <1>3, <1>4, <1>5 DEF Calm, Answers

(* An answer to a ballot keeps the invariant. *)
LEMMA AnswerKept ==
  ASSUME TimesApart, NEW R, NEW k, NEW H, NEW N, NEW S, NEW C, Kept(R, k, H, N, S, C), Sized(N),
         NEW N1, NEW S1, Sized(N1), NEW c \in Nodes, NEW a \in Peers(c), NEW q \in {1, 2}, NEW b,
         NEW r, Answers(N, N1, S, S1, C, c, a, b, r, q),
         \A x \in S : x.from \in Nodes
  PROVE \E H1 : Kept(R, k, H1, N1, S1, C)
<1>1. /\ Core(R, k, H, N, S, C) /\ H \in [Nodes -> Histories]
      /\ \A m \in Nodes : TallyOK(H, N, S, m) /\ HushOK(k, H, N, m) /\ InTime(N, m)
  BY DEF Kept, Core
<1>2. b \in Polled(a, q, S) /\ (r.ok => N[c].status \in {"sec", "vote"} /\ Free(N, S, c))
  BY DEF Answers, Polled
<1>3. PICK H1 : Grants(N, H, H1, a, c, q, r) /\ Core(R, k, H1, N, S, C)
  BY <1>1, <1>2, GrantsCore
<1>4. Calm(k, H1, N, N1, S, S1, C, c)
  BY <1>3, AnswerCalm
<1>5. Core(R, k, H1, N1, S1, C)
  BY <1>3, <1>4, CalmCore
<1>6. ASSUME NEW m \in Nodes PROVE TallyOK(H1, N1, S1, m)
  <2>1. TallyOK(H, N, S, m) /\ H \in [Nodes -> Histories] /\ Grants(N, H, H1, a, c, q, r)
    BY <1>1, <1>3
  <2> QED BY <2>1, AnswerTally
<1>7. ASSUME NEW m \in Nodes PROVE InTime(N1, m)
  <2>1. TimesApart /\ VoteTime > 0
    BY TimesFacts
  <2>2. m # c => N1[m] = N[m]
    BY DEF Answers, Peers
  <2> QED BY <1>1, <2>1, <2>2 DEF InTime, Answers
<1>8. ASSUME NEW m \in Nodes PROVE HushOK(k, H1, N1, m)
  <2> SUFFICES ASSUME N1[m].status = "announce", NEW d \in H1[m].yes2 \ {m}
               PROVE Silenced(k, N1, d, H1[m].asked2)
    BY DEF HushOK
  <2>1. d \in Nodes
    BY <1>3, HistoryFacts DEF Core
  <2>2. N[m].status = "announce"
    BY DEF Answers, Peers
  <2>3. H1[m].asked2 = H[m].asked2
    BY <1>3 DEF Grants, Peers
  <2>4. CASE d \in H[m].yes2
    <3>1. Silenced(k, N, d, H1[m].asked2)
      BY <1>1, <2>2, <2>3, <2>4 DEF HushOK
    <3> QED BY <1>3, <1>4, <2>1, <3>1, CalmHush
  <2>5. CASE d \notin H[m].yes2
    <3>1. m = a /\ r.ok /\ q = 2 /\ d = c
      BY <1>3, <2>5 DEF Grants, Peers
    <3>2. N1[c].status = "silence" /\ N1[c].time = 0
      BY <3>1 DEF Answers
    <3>3. H1[m].asked2 <= R /\ H1[m].asked2 \in Int
      <4>1. H1[m].asked2 \in Int
        BY <1>3, HistoryFacts DEF Core
      <4> QED BY <1>3, <4>1 DEF Core, NodeOK, ClockOK
    <3>4. k[c] \in Int /\ k[c] >= R /\ R \in Nat
      BY <1>1, ClockFacts
    <3> QED BY <3>1, <3>2, <3>3, <3>4 DEF Silenced, Since
  <2> QED BY <2>4, <2>5
<1> QED BY <1>5, <1>6, <1>7, <1>8 DEF Kept

(* A ballot: who accepts names no primary and has handled the beats. *)
LEMMA BallotOne ==
  ASSUME TimesApart, OneInv, BeatsDone, NEW b \in msgs, b.type = "ballot", HandleBallot(b.to, b)
  PROVE OneInv'
<1> DEFINE c == b.to
           a == b.from
           q == b.round
           v == [node[c] EXCEPT !.shift = IF node[c].status = "sec" THEN FALSE ELSE @]
           next == AfterBallot(c, b)
           listens == v.status \in {"sec", "vote"}
           ok == listens /\ Answer(c, b) = "accept"
           r == [type |-> "reply", from |-> c, to |-> a, round |-> q, ok |-> ok]
           w == Activate(c, v, next)
<1>1. Inv /\ NoForce /\ RestOK /\ b \in Wire /\ Sized(node) /\ DOMAIN node = Nodes
      /\ \A x \in msgs : x.from \in Nodes
  BY OneFacts, InvParts, InvSized DEF RestOK
<1>2. c \in Nodes /\ a \in Peers(c) /\ a \in Nodes /\ a # c /\ q \in {1, 2}
  BY <1>1, WireKinds DEF Peers
<1>3. /\ node' = [node EXCEPT ![c] = w]
      /\ msgs' = (msgs \ {b}) \cup OnWire(IF listens THEN Reply(c, b) ELSE {})
      /\ UNCHANGED <<ticked, cut, left>>
  BY DEF HandleBallot
<1>4. Inv' /\ Sized(node')
  <2>1. Inv'
    BY <1>1, BallotInv
  <2> QED BY <2>1, InvSizedNext
<1>5. r.type = "reply" /\ r.from = c /\ r.to = a /\ r.round = q /\ (r.ok <=> ok)
  OBVIOUS
<1>6. /\ msgs \ {b} \subseteq msgs' /\ msgs' \subseteq (msgs \ {b}) \cup {r}
      /\ r \in msgs' /\ r \notin msgs => {c, a} \notin cut
  <2>1. listens => Reply(c, b) \subseteq {r}
    BY DEF Reply
  <2> HIDE DEF r, listens
  <2>2. OnWire(IF listens THEN Reply(c, b) ELSE {}) \subseteq {r}
    BY <2>1 DEF OnWire
  <2>3. r \in OnWire(IF listens THEN Reply(c, b) ELSE {}) => {c, a} \notin cut
    BY <1>5 DEF OnWire
  <2> QED BY <1>3, <2>2, <2>3
<1>7. r \in msgs => {c, a} \notin cut
  <2> HIDE DEF r
  <2> QED BY <1>2, <1>5, OneFacts
<1>8. node[c] \in NodeStates(c) /\ node[c].force = 0
  BY <1>1, <1>2, InvParts, OneFacts
<1> HIDE DEF r
<1>9. v \in Counting(c) /\ v.status = node[c].status /\ v.time = node[c].time
      /\ v.accepted = node[c].accepted /\ v.primary = node[c].primary
      /\ v.age = node[c].age /\ v.dead = node[c].dead /\ v.beatTime = node[c].beatTime
  <2>1. v \in NodeStates(c) /\ v.status = node[c].status /\ v.time = node[c].time
        /\ v.accepted = node[c].accepted /\ v.primary = node[c].primary
        /\ v.age = node[c].age /\ v.dead = node[c].dead /\ v.beatTime = node[c].beatTime
    BY <1>8 DEF NodeStates
  <2> QED BY <1>2, <2>1, CountingStates
<1>10. /\ ~ok => next = node[c].status
       /\ ok => next = IF q = 1 THEN "sec" ELSE "silence"
  BY <1>2, <1>9 DEF AfterBallot, SecondaryBallot, VoteBallot
<1>11. ok => node[c].status \in {"sec", "vote"} /\ Free(node, msgs, c)
  <2>1. Answer(c, b) = "accept" => node[c].primary = None
    BY DEF Answer
  <2>2. \A p \in Nodes : ~BeatTo(msgs, p, c)
    BY DEF BeatTo, BeatsDone
  <2> QED BY <1>9, <2>1, <2>2 DEF Free
<1>12. next \in Statuses /\ node[c].status \in Statuses
  <2>1. node[c].status \in Statuses
    BY <1>8 DEF NodeStates
  <2> QED BY <1>2, <1>10, <2>1 DEF Statuses
<1> HIDE DEF c, a, q, v, next, ok
<1>13. /\ w.status = next
       /\ next = v.status => /\ w.time = v.time /\ w.accepted = v.accepted
                             /\ w.primary = v.primary
       /\ next # v.status => w.time = 0
       /\ next # v.status /\ next # "primary" => w.primary = Deactivated(c, v).primary
  BY <1>2, <1>9, <1>12, ActivateFields
<1>14. w.force = 0 /\ w.age = v.age /\ w.dead = v.dead /\ w.beatTime = v.beatTime
  BY <1>2, <1>9, <1>12, ActivateRest
<1>15. node'[c] = w /\ \A m \in Peers(c) : node'[m] = node[m]
  BY <1>1, <1>2, <1>3 DEF Peers
<1> HIDE DEF w
<1>16. w.primary = node[c].primary
  <2>1. CASE next = v.status
    BY <1>9, <1>13, <2>1
  <2>2. CASE next # v.status
    <3>1. ok /\ v.status # "primary" /\ next # "primary"
      BY <1>9, <1>10, <1>11, <2>2
    <3>2. Deactivated(c, v) = v
      BY <1>2, <1>9, <3>1, DeactivatedPrimary
    <3> QED BY <1>9, <1>13, <2>2, <3>1, <3>2
  <2> QED BY <2>1, <2>2
<1>17. /\ \/ /\ w.status = node[c].status /\ w.time = node[c].time
             /\ w.accepted = node[c].accepted
          \/ w.status \in {"sec", "silence"} /\ w.time = 0
       /\ node[c].status = "silence" => w.status = "silence"
       /\ ok /\ q = 2 => w.status = "silence" /\ w.time = 0
  BY <1>9, <1>10, <1>11, <1>13
<1>18. Answers(node, node', msgs, msgs', cut, c, a, b, r, q)
  <2>1. b.from = a /\ b.to = c /\ b.round = q
    BY DEF a, c, q
  <2>2. r \in msgs' => {c, a} \notin cut
    BY <1>6, <1>7
  <2>3. r.ok => node[c].status \in {"sec", "vote"} /\ Free(node, msgs, c)
    BY <1>5, <1>11
  <2>4. r.ok /\ q = 2 => node'[c].status = "silence" /\ node'[c].time = 0
    BY <1>5, <1>15, <1>17
  <2>5. /\ node'[c].force = 0 /\ node'[c].beatTime = node[c].beatTime
        /\ node'[c].age = node[c].age /\ node'[c].dead = node[c].dead
        /\ node'[c].primary = node[c].primary
    BY <1>9, <1>14, <1>15, <1>16
  <2>6. msgs \ {b} \subseteq msgs' /\ msgs' \subseteq (msgs \ {b}) \cup {r}
    BY <1>6
  <2> QED BY <1>2, <1>5, <1>15, <1>17, <2>1, <2>2, <2>3, <2>4, <2>5, <2>6 DEF Answers
<1>19. NoForce'
  BY <1>1, <1>3, <1>5, <1>6 DEF NoForce
<1>20. PICK R, H : Kept(R, Clock(R, ticked), H, node, msgs, cut)
  BY DEF OneInv
<1>21. \E H1 : Kept(R, Clock(R, ticked), H1, node', msgs', cut)
  BY <1>1, <1>2, <1>4, <1>18, <1>20, AnswerKept
<1> QED BY <1>3, <1>4, <1>19, <1>21 DEF OneInv

-----------------------------------------------------------------------------
(* Going on in an election. *)

(* Who sends ballots accepts them itself. *)
Sends(S, S1, n, yes) ==
  \/ yes = {} /\ S1 = S
  \/ /\ yes = {n}
     /\ \A x \in S1 \ S : x.to # n
     /\ \A x, y \in S1 \ S : x.to = y.to => x = y

(* The start of a vote or an announcement keeps the invariant. *)
LEMMA EntersKept ==
  ASSUME TimesApart, NEW R, NEW k, NEW H, NEW N, NEW S, NEW C, NEW H1, NEW N1, NEW S1, Sized(N),
         H1 \in [Nodes -> Histories], NEW n \in Nodes, NEW s, NEW q \in {1, 2},
         s = (IF q = 1 THEN "vote" ELSE "announce"), Enters(N, N1, S, S1, C, n, s, q),
         Core(R, k, H1, N1, S1, C), N[n].status # "silence", N1[n].accepted = 0,
         \A m \in Peers(n) : H1[m] = H[m],
         \A m \in Peers(n) : TallyOK(H, N, S, m) /\ HushOK(k, H, N, m) /\ InTime(N, m),
         NEW yes, yes = (IF q = 1 THEN H1[n].yes1 ELSE H1[n].yes2), Sends(S, S1, n, yes)
  PROVE Kept(R, k, H1, N1, S1, C)
<1>1. /\ N1[n].status = s /\ N1[n].time = 0 /\ S \subseteq S1 /\ Polled(n, q, S) = {}
      /\ \A m \in Peers(n) : N1[m] = N[m]
      /\ \A x \in S1 \ S : x.type = "ballot" /\ x.round = q /\ x.from = n
  BY DEF Enters
<1>2. ASSUME NEW m \in Peers(n)
      PROVE TallyOK(H1, N1, S1, m) /\ HushOK(k, H1, N1, m) /\ InTime(N1, m)
  <2>1. m \in Nodes /\ m # n /\ N1[m] = N[m] /\ H1[m] = H[m]
    BY <1>1 DEF Peers
  <2>2. Polled(m, 1, S1) = Polled(m, 1, S) /\ Polled(m, 2, S1) = Polled(m, 2, S)
    BY <2>1, EntersPolls
  <2>3. TallyOK(H1, N1, S1, m)
    <3>1. TallyOK(H1, N, S, m)
      BY <2>1 DEF TallyOK
    <3>2. \A j \in {1, 2} : Polled(m, j, S1) \subseteq Polled(m, j, S)
      BY <2>2
    <3> QED BY <2>1, <3>1, <3>2, CalmTally
  <2>4. HushOK(k, H1, N1, m)
    <3> SUFFICES ASSUME N1[m].status = "announce", NEW d \in H1[m].yes2 \ {m}
                 PROVE Silenced(k, N1, d, H1[m].asked2)
      BY DEF HushOK
    <3>1. d \in Nodes
      BY <2>1, HistoryFacts
    <3>2. Silenced(k, N, d, H1[m].asked2)
      BY <2>1 DEF HushOK
    <3>3. d # n
      BY <3>2 DEF Silenced
    <3>4. N1[d] = N[d]
      BY <1>1, <3>1, <3>3 DEF Peers
    <3> QED BY <3>2, <3>4 DEF Silenced, Since
  <2> QED BY <2>1, <2>3, <2>4 DEF InTime
<1>3. \A x \in Polled(n, q, S1) : x \in S1 \ S
  BY <1>1 DEF Polled
<1>4. CountOK(n, q, S1, yes, 0)
  <2>1. CASE yes = {} /\ S1 = S
    BY <1>1, <2>1 DEF CountOK
  <2>2. CASE yes = {n} /\ (\A x \in S1 \ S : x.to # n)
             /\ (\A x, y \in S1 \ S : x.to = y.to => x = y)
    <3>1. \A x \in Polled(n, q, S1) : x.type = "ballot" /\ x.to # n
      BY <1>1, <1>3, <2>2
    <3>2. \A x, y \in Polled(n, q, S1) : x.to = y.to => x = y
      BY <1>3, <2>2
    <3> QED BY <2>2, <3>1, <3>2, CountNone
  <2> QED BY <2>1, <2>2 DEF Sends
<1>5. TallyOK(H1, N1, S1, n)
  BY <1>1, <1>4 DEF TallyOK
<1>6. HushOK(k, H1, N1, n)
  BY <1>1 DEF HushOK, Sends
<1>7. InTime(N1, n)
  <2>1. VoteTime \in Nat /\ VoteTime > 0
    BY TimesFacts
  <2> QED BY <1>1, <2>1 DEF InTime
<1>8. \A m \in Nodes : TallyOK(H1, N1, S1, m) /\ HushOK(k, H1, N1, m) /\ InTime(N1, m)
  BY <1>2, <1>5, <1>6, <1>7 DEF Peers
<1> QED BY <1>8 DEF Kept

(* A secondary begins to vote. *)
LEMMA VoteKept ==
  ASSUME TimesApart, NEW R, NEW k, NEW H, NEW N, NEW S, NEW C, Core(R, k, H, N, S, C), Sized(N),
         \A m \in Nodes : HushOK(k, H, N, m), NEW N1, NEW S1, NEW n \in Nodes, NEW yes,
         \A m \in Peers(n) : TallyOK(H, N, S, m) /\ InTime(N, m),
         N[n].status = "sec", k[n] = R + 1, Enters(N, N1, S, S1, C, n, "vote", 1),
         Polled(n, 2, S) = {}, yes = {} \/ (yes = {n} /\ Free(N, S, n)), Sends(S, S1, n, yes),
         N1[n].accepted = 0, \A x \in S : x.from \in Nodes
  PROVE \E H1 : Kept(R, k, H1, N1, S1, C)
<1>1. H \in [Nodes -> Histories] /\ R \in Int /\ yes \in SUBSET Nodes
  BY DEF Core
<1>2. PICK H1 : Recalls1(H, H1, n, yes, R)
  BY <1>1, RecallsExist
<1>3. Core(R, k, H1, N1, S1, C)
  BY <1>2, VoteCore
<1>4. /\ H1 \in [Nodes -> Histories] /\ H1[n].yes1 = yes /\ \A m \in Peers(n) : H1[m] = H[m]
  BY <1>2 DEF Recalls1
<1>5. \A m \in Peers(n) : TallyOK(H, N, S, m) /\ HushOK(k, H, N, m) /\ InTime(N, m)
  BY DEF Peers
<1>6. Kept(R, k, H1, N1, S1, C)
  BY <1>3, <1>4, <1>5, EntersKept
<1> QED BY <1>6

(* A voter with a majority announces. *)
LEMMA AnnounceKept ==
  ASSUME TimesApart, NEW R, NEW k, NEW H, NEW N, NEW S, NEW C, Core(R, k, H, N, S, C), Sized(N),
         \A m \in Nodes : HushOK(k, H, N, m), NEW N1, NEW S1, NEW n \in Nodes, NEW yes,
         \A m \in Peers(n) : TallyOK(H, N, S, m) /\ InTime(N, m),
         N[n].status = "vote", k[n] = R + 1, Enters(N, N1, S, S1, C, n, "announce", 2),
         Most(H[n].yes1), R = H[n].asked1 + VoteTime \/ (R = H[n].asked1 /\ H[n].yes1 = Nodes),
         yes = {} \/ (yes = {n} /\ Free(N, S, n)), Sends(S, S1, n, yes),
         N1[n].accepted = 0, \A x \in S : x.from \in Nodes
  PROVE \E H1 : Kept(R, k, H1, N1, S1, C)
<1>1. H \in [Nodes -> Histories] /\ R \in Int /\ yes \in SUBSET Nodes
  BY DEF Core
<1>2. PICK H1 : Recalls2(H, H1, n, yes, R)
  BY <1>1, RecallsExist
<1>3. Core(R, k, H1, N1, S1, C)
  BY <1>2, AnnounceCore
<1>4. /\ H1 \in [Nodes -> Histories] /\ H1[n].yes2 = yes /\ \A m \in Peers(n) : H1[m] = H[m]
  BY <1>2 DEF Recalls2
<1>5. \A m \in Peers(n) : TallyOK(H, N, S, m) /\ HushOK(k, H, N, m) /\ InTime(N, m)
  BY DEF Peers
<1>6. Kept(R, k, H1, N1, S1, C)
  BY <1>3, <1>4, <1>5, EntersKept
<1> QED BY <1>6

(* The node that wins. *)
Wins(N, N1, n) ==
  /\ \A m \in Peers(n) : N1[m] = N[m]
  /\ N1[n].status = "primary" /\ N1[n].time = 0 /\ N1[n].force = 0
  /\ N1[n].beatTime = N[n].beatTime /\ N1[n].age = N[n].age /\ N1[n].dead = N[n].dead

(* Winning keeps the invariant. *)
LEMMA WonKept ==
  ASSUME TimesApart, NEW R, NEW k, NEW H, NEW N, NEW S, NEW C, Core(R, k, H, N, S, C), Sized(N),
         \A m \in Nodes : HushOK(k, H, N, m), NEW N1, NEW n \in Nodes, Wins(N, N1, n),
         \A m \in Peers(n) : TallyOK(H, N, S, m) /\ InTime(N, m),
         N[n].status = "announce", k[n] = R + 1, n \in H[n].yes2, Most(H[n].yes2),
         N[n].time = VoteTime \/ H[n].yes2 = Nodes,
         \A x \in S : x.from \in Nodes /\ (x.type = "beat" => ~x.primary)
  PROVE \E H1 : Kept(R, k, H1, N1, S, C)
<1>1. H \in [Nodes -> Histories] /\ k[n] \in Int
  BY ClockFacts DEF Core
<1> DEFINE h == [H[n] EXCEPT !.won = k[n]]
           H1 == [H EXCEPT ![n] = h]
<1>0. /\ h \in Histories /\ h.won = k[n]
      /\ h.yes1 = H[n].yes1 /\ h.asked1 = H[n].asked1
      /\ h.yes2 = H[n].yes2 /\ h.asked2 = H[n].asked2
      /\ h.told = H[n].told /\ h.began = H[n].began
  <2>1. H[n] \in Histories
    BY <1>1
  <2> QED BY <1>1, <2>1 DEF Histories
<1> HIDE DEF h
<1>2. /\ H1 \in [Nodes -> Histories] /\ \A m \in Peers(n) : H1[m] = H[m]
      /\ H1[n].won = k[n] /\ H1[n].yes1 = H[n].yes1 /\ H1[n].asked1 = H[n].asked1
      /\ H1[n].yes2 = H[n].yes2 /\ H1[n].asked2 = H[n].asked2
      /\ H1[n].told = H[n].told /\ H1[n].began = H[n].began
  BY <1>0, <1>1 DEF Peers
<1> HIDE DEF H1
<1>3. /\ \A m \in Peers(n) : N1[m] = N[m]
      /\ N1[n].status = "primary" /\ N1[n].time = 0 /\ N1[n].force = 0
      /\ N1[n].beatTime = N[n].beatTime /\ N1[n].age = N[n].age /\ N1[n].dead = N[n].dead
  BY DEF Wins
<1>4. Core(R, k, H1, N1, S, C)
  <2>1. \A m \in Peers(n) : InTime(N, m)
    OBVIOUS
  <2> QED BY <1>2, <1>3, <2>1, WonCore
<1>5. ASSUME NEW m \in Nodes
      PROVE TallyOK(H1, N1, S, m) /\ HushOK(k, H1, N1, m) /\ InTime(N1, m)
  <2>1. CASE m = n
    <3>1. VoteTime \in Nat /\ VoteTime > 0
      BY TimesFacts
    <3> QED BY <1>3, <2>1, <3>1 DEF TallyOK, HushOK, InTime
  <2>2. CASE m # n
    <3>1. N1[m] = N[m] /\ H1[m] = H[m] /\ TallyOK(H, N, S, m) /\ InTime(N, m)
      BY <1>2, <1>3, <2>2 DEF Peers
    <3>2. HushOK(k, H1, N1, m)
      <4> SUFFICES ASSUME N1[m].status = "announce", NEW d \in H1[m].yes2 \ {m}
                   PROVE Silenced(k, N1, d, H1[m].asked2)
        BY DEF HushOK
      <4>1. d \in Nodes
        BY <1>2, HistoryFacts
      <4>2. Silenced(k, N, d, H1[m].asked2)
        BY <3>1 DEF HushOK
      <4>3. d # n
        BY <4>2 DEF Silenced
      <4>4. N1[d] = N[d]
        BY <1>3, <4>1, <4>3 DEF Peers
      <4> QED BY <4>2, <4>4 DEF Silenced, Since
    <3> QED BY <3>1, <3>2 DEF TallyOK, InTime
  <2> QED BY <2>1, <2>2
<1> QED BY <1>4, <1>5 DEF Kept

(* The ballots of a vote, or none if a primary is known. *)
LEMMA LaunchFacts ==
  ASSUME NEW n \in Nodes, NEW v \in Counting(n), NEW q \in {1, 2}
  PROVE /\ \A x \in Launch(n, v, q) : /\ x.type = "ballot" /\ x.round = q /\ x.from = n
                                     /\ x.to \in Nodes /\ x.to # n
        /\ \A x, y \in Launch(n, v, q) : x.to = y.to => x = y
        /\ v.primary # None => Launch(n, v, q) = {}
<1>1. Alives(v) \subseteq Peers(n)
  BY DEF Alives, Counting
<1>2. Launch(n, v, q) \subseteq {[type |-> "ballot", from |-> n, to |-> m, round |-> q,
                                  lsn |-> lsn[n]] : m \in Alives(v)}
      /\ (v.primary # None => Launch(n, v, q) = {})
  BY DEF Launch
<1>3. \A x \in Launch(n, v, q) : \E m \in Peers(n) : x = [type |-> "ballot", from |-> n, to |-> m,
                                                         round |-> q, lsn |-> lsn[n]]
  BY <1>1, <1>2
<1>4. \A x \in Launch(n, v, q) :
        /\ x.type = "ballot" /\ x.round = q /\ x.from = n /\ x.to \in Peers(n)
        /\ x = [type |-> "ballot", from |-> n, to |-> x.to, round |-> q, lsn |-> lsn[n]]
  BY <1>3
<1> QED BY <1>2, <1>4 DEF Peers

(* Launching a round sends ballots, if no primary is known. *)
LEMMA LaunchSends ==
  ASSUME NEW n \in Nodes, NEW v \in Counting(n), NEW q \in {1, 2}, NEW S,
         msgs' = S \cup OnWire(Launch(n, v, q)), NEW yes, v.primary = None => yes = {n},
         v.primary # None => yes = {}
  PROVE /\ S \subseteq msgs'
        /\ \A x \in msgs' \ S : /\ x.type = "ballot" /\ x.round = q /\ x.from = n
                                /\ {x.from, x.to} \notin cut
        /\ Sends(S, msgs', n, yes)
<1> DEFINE L == Launch(n, v, q)
<1>1. /\ \A x \in L : /\ x.type = "ballot" /\ x.round = q /\ x.from = n
                      /\ x.to \in Nodes /\ x.to # n
      /\ \A x, y \in L : x.to = y.to => x = y
      /\ v.primary # None => L = {}
  BY LaunchFacts
<1> HIDE DEF L
<1>2. \A x \in msgs' \ S : x \in L /\ {x.from, x.to} \notin cut
  BY DEF OnWire, L
<1>3. S \subseteq msgs' /\ (L = {} => msgs' = S)
  BY DEF OnWire, L
<1>4. Sends(S, msgs', n, yes)
  BY <1>1, <1>2, <1>3 DEF Sends
<1> QED BY <1>1, <1>2, <1>3, <1>4

-----------------------------------------------------------------------------
(* A reply. *)

(* A message that is not a beat may be lost. *)
LEMMA DropKept ==
  ASSUME TimesApart, NEW R, NEW k, NEW H, NEW N, NEW S, NEW C, Kept(R, k, H, N, S, C), Sized(N),
         NEW r \in S, r.type # "beat", NEW n \in Nodes, \A x \in S : x.from \in Nodes
  PROVE Kept(R, k, H, N, S \ {r}, C)
<1>1. Core(R, k, H, N, S, C) /\ H \in [Nodes -> Histories] /\ TallyOK(H, N, S, n) /\ InTime(N, n)
  BY DEF Kept, Core
<1>2. \A m, q : Polled(m, q, S \ {r}) \subseteq Polled(m, q, S)
  BY DEF Polled
<1>3. \A p \in Peers(n) : Heeds(k, H, N, S, p, n) => Heeds(k, H, N, S \ {r}, p, n)
  BY DEF Heeds, BeatTo
<1>4. N[n].force = 0 /\ N[n].beatTime <= N[n].beatTime
  BY <1>1 DEF Core, NodeOK, ClockOK, Sized
<1>5. \A m \in Nodes : \A q \in {1, 2} : Polled(m, q, S) = {} => Polled(m, q, S \ {r}) = {}
  BY <1>2
<1>6. Calm(k, H, N, N, S, S \ {r}, C, n)
  BY <1>3, <1>4, <1>5 DEF Calm
<1>7. TallyOK(H, N, S \ {r}, n)
  BY <1>1, <1>2, CalmTally
<1> QED BY <1>1, <1>2, <1>6, <1>7, CalmKept

(* Where a reply leads. *)
LEMMA ReplyNext ==
  ASSUME NEW n \in Nodes, NEW r, r.ok \in BOOLEAN, NEW v, NEW s, v.status = s, NEW next,
         next = CASE s = "vote" -> VoteReply(v, r)
                  [] s = "announce" -> AnnounceReply(v, r)
                  [] OTHER -> s
  PROVE \/ next = s
        \/ s = "vote" /\ next = "sec"
        \/ s = "announce" /\ next = "silence"
        \/ s = "vote" /\ r.round = 1 /\ r.ok /\ AllAccepted(v) /\ next = "announce"
        \/ s = "announce" /\ r.round = 2 /\ r.ok /\ AllAccepted(v) /\ next = "primary"
BY DEF VoteReply, AnnounceReply

(* A reply after which a node does not go on: the vote is counted. *)
LEMMA ReplyCalm ==
  ASSUME TimesApart, NEW R, NEW k, NEW H, NEW N, NEW S, NEW C, Kept(R, k, H, N, S, C), Sized(N),
         NEW N1, Sized(N1), NEW n \in Nodes, NEW r \in S, r.type = "reply", r.to = n,
         \A m \in Peers(n) : N1[m] = N[m],
         \/ /\ N1[n].status = N[n].status /\ N1[n].time = N[n].time
            /\ N1[n].status \in {"vote", "announce"} =>
                 N1[n].accepted =
                   IF r.ok /\ N[n].status = (IF r.round = 1 THEN "vote" ELSE "announce")
                   THEN N[n].accepted + 1 ELSE N[n].accepted
         \/ N1[n].status \in {"sec", "silence"} /\ N1[n].time = 0 /\ N[n].status # "silence",
         r.round \in {1, 2}, N1[n].force = 0, N1[n].beatTime = N[n].beatTime,
         N1[n].age = N[n].age, N1[n].dead = N[n].dead, N1[n].primary = N[n].primary,
         \A x \in S : x.from \in Nodes
  PROVE Kept(R, k, H, N1, S \ {r}, C)
<1> DEFINE S1 == S \ {r}
<1>1. Core(R, k, H, N, S, C) /\ H \in [Nodes -> Histories] /\ TallyOK(H, N, S, n) /\ InTime(N, n)
  BY DEF Kept, Core
<1>2. \A m, q : Polled(m, q, S1) \subseteq Polled(m, q, S)
  BY DEF Polled
<1>3. \A p \in Peers(n) : Heeds(k, H, N, S, p, n) => Heeds(k, H, N1, S1, p, n)
  <2> SUFFICES ASSUME NEW p \in Peers(n), Heeds(k, H, N, S, p, n)
               PROVE Heeds(k, H, N1, S1, p, n)
    OBVIOUS
  <2>1. BeatTo(S, p, n) => BeatTo(S1, p, n)
    BY DEF BeatTo
  <2> HIDE DEF S1
  <2>2. N[n].status = "silence" => N1[n].status = "silence" /\ N1[n].time = N[n].time
    OBVIOUS
  <2>3. N1[n].age[p] = N[n].age[p] /\ (N[n].primary = p => N1[n].primary = p)
    OBVIOUS
  <2> QED BY <1>1, <2>1, <2>2, <2>3, HeedsKept
<1>4. N1[n].beatTime <= N[n].beatTime
  BY DEF Sized
<1>5. \A m \in Nodes : \A q \in {1, 2} : Polled(m, q, S) = {} => Polled(m, q, S1) = {}
  BY <1>2
<1>6. \A x \in S \ S1 : x.type # "beat"
  OBVIOUS
<1>7. S1 \subseteq S
  OBVIOUS
<1> HIDE DEF S1
<1>8. Calm(k, H, N, N1, S, S1, C, n)
  BY <1>3, <1>4, <1>5, <1>6, <1>7 DEF Calm
<1>9. TallyOK(H, N1, S1, n)
  <2>1. H[n].yes1 \in SUBSET Nodes /\ H[n].yes2 \in SUBSET Nodes /\ N[n].accepted \in Nat
    BY <1>1, HistoryFacts DEF Sized
  <2>2. CASE N1[n].status = "vote"
    <3>1. CountOK(n, 1, S, H[n].yes1, N[n].accepted) /\ N[n].status = "vote"
      BY <1>1, <2>2 DEF TallyOK
    <3>2. CASE r.ok /\ r.round = 1
      <4>1. CountOK(n, 1, S1, H[n].yes1, N[n].accepted + 1)
        BY <2>1, <3>1, <3>2, CountMore DEF S1
      <4> QED BY <2>2, <3>1, <3>2, <4>1 DEF TallyOK
    <3>3. CASE ~(r.ok /\ r.round = 1)
      <4>1. CountOK(n, 1, S1, H[n].yes1, N[n].accepted)
        BY <1>2, <2>1, <3>1, CountLess
      <4>2. N1[n].accepted = N[n].accepted
        BY <2>2, <3>1, <3>3
      <4> QED BY <2>2, <4>1, <4>2 DEF TallyOK
    <3> QED BY <3>2, <3>3
  <2>3. CASE N1[n].status = "announce"
    <3>1. CountOK(n, 2, S, H[n].yes2, N[n].accepted) /\ N[n].status = "announce"
      BY <1>1, <2>3 DEF TallyOK
    <3>2. CASE r.ok /\ r.round = 2
      <4>1. CountOK(n, 2, S1, H[n].yes2, N[n].accepted + 1)
        BY <2>1, <3>1, <3>2, CountMore DEF S1
      <4> QED BY <2>3, <3>1, <3>2, <4>1 DEF TallyOK
    <3>3. CASE ~(r.ok /\ r.round = 2)
      <4>1. CountOK(n, 2, S1, H[n].yes2, N[n].accepted)
        BY <1>2, <2>1, <3>1, CountLess
      <4>2. N1[n].accepted = N[n].accepted
        BY <2>3, <3>1, <3>3
      <4> QED BY <2>3, <4>1, <4>2 DEF TallyOK
    <3> QED BY <3>2, <3>3
  <2> QED BY <2>2, <2>3 DEF TallyOK
<1>10. InTime(N1, n)
  BY <1>1 DEF InTime
<1>11. Kept(R, k, H, N1, S1, C)
  BY <1>2, <1>8, <1>9, <1>10, CalmKept
<1> QED BY <1>11 DEF S1

(* A reply: the last acceptance ends a vote or an announcement. *)
LEMMA ReplyOne ==
  ASSUME TimesApart, OneInv, BeatsDone, NEW r \in msgs, r.type = "reply", HandleReply(r.to, r)
  PROVE OneInv'
<1> DEFINE n == r.to
           s == node[n].status
           asked == s = (IF r.round = 1 THEN "vote" ELSE "announce")
           v == [node[n] EXCEPT !.accepted = IF asked /\ r.ok THEN @ + 1 ELSE @]
           next == CASE s = "vote" -> VoteReply(v, r)
                     [] s = "announce" -> AnnounceReply(v, r)
                     [] OTHER -> s
           w == Activate(n, v, next)
           S == msgs \ {r}
<1>1. Inv /\ NoForce /\ RestOK /\ r \in Wire /\ Sized(node) /\ DOMAIN node = Nodes
      /\ \A x \in msgs : x.from \in Nodes
  BY OneFacts, InvParts, InvSized DEF RestOK
<1>2. n \in Nodes /\ r.round \in {1, 2} /\ r.ok \in BOOLEAN
  BY <1>1, WireKinds
<1>3. /\ node' = [node EXCEPT ![n] = w]
      /\ msgs' = S \cup OnWire(Sent(n, v, next))
      /\ UNCHANGED <<ticked, cut, left>>
  BY DEF HandleReply
<1>4. Inv' /\ Sized(node')
  <2>1. Inv'
    BY <1>1, ReplyInv
  <2> QED BY <2>1, InvSizedNext
<1>5. node[n] \in NodeStates(n) /\ node[n].status \in Statuses /\ node[n].accepted \in Nat
  <2>1. node[n] \in NodeStates(n)
    BY <1>1, <1>2, InvParts
  <2> QED BY <1>1, <1>2, <2>1 DEF Sized
<1>6. /\ v \in Counting(n) /\ v.status = s /\ v.time = node[n].time
      /\ v.primary = node[n].primary /\ v.age = node[n].age /\ v.dead = node[n].dead
      /\ v.beatTime = node[n].beatTime
      /\ v.accepted = IF asked /\ r.ok THEN node[n].accepted + 1 ELSE node[n].accepted
  <2>1. node[n] \in Counting(n)
    BY <1>2, <1>5, CountingStates
  <2> HIDE DEF asked, n
  <2> QED BY <1>5, <2>1 DEF Counting
<1> HIDE DEF v
<1>7. \/ next = s
      \/ s = "vote" /\ next = "sec"
      \/ s = "announce" /\ next = "silence"
      \/ s = "vote" /\ r.round = 1 /\ r.ok /\ AllAccepted(v) /\ next = "announce"
      \/ s = "announce" /\ r.round = 2 /\ r.ok /\ AllAccepted(v) /\ next = "primary"
  BY <1>2, <1>6, ReplyNext
<1> HIDE DEF next
<1>8. next \in Statuses
  BY <1>5, <1>7 DEF Statuses
<1>9. /\ w.status = next
      /\ next = v.status => /\ w.time = v.time /\ w.accepted = v.accepted
                            /\ w.primary = v.primary
      /\ next # v.status => w.time = 0 /\ w.accepted = 0
      /\ next # v.status /\ next # "primary" => w.primary = Deactivated(n, v).primary
  BY <1>2, <1>6, <1>8, ActivateFields
<1>10. w.force = 0 /\ w.age = v.age /\ w.dead = v.dead /\ w.beatTime = v.beatTime
  BY <1>2, <1>6, <1>8, ActivateRest
<1>11. s # "primary" => Deactivated(n, v) = v
  BY <1>2, <1>6, DeactivatedPrimary
<1>12. /\ next = s \/ next \notin {"vote", "announce"} => msgs' = S
       /\ next # s /\ next = "announce" => msgs' = S \cup OnWire(Launch(n, Deactivated(n, v), 2))
  BY <1>3, <1>6 DEF Sent, OnWire, AnnounceActive
<1>13. node'[n] = w /\ \A m \in Peers(n) : node'[m] = node[m]
  BY <1>1, <1>2, <1>3 DEF Peers
<1> HIDE DEF w, n
<1>14. w.primary = node[n].primary \/ next = "primary"
  BY <1>6, <1>7, <1>9, <1>11
<1>15. PICK R, H : Kept(R, Clock(R, ticked), H, node, msgs, cut)
  BY DEF OneInv
<1> DEFINE k == Clock(R, ticked)
<1>16. /\ Core(R, k, H, node, msgs, cut) /\ H \in [Nodes -> Histories]
       /\ TallyOK(H, node, msgs, n) /\ PollsOK(R, k, H, node, msgs, n)
  BY <1>2, <1>15 DEF Kept, Core, NodeOK
<1>17. r \in Polled(n, r.round, msgs)
  BY DEF Polled, n
<1> HIDE DEF k
<1>18. Kept(R, k, H, node, S, cut)
  BY <1>1, <1>2, <1>15, DropKept DEF k
<1>19. /\ Core(R, k, H, node, S, cut)
       /\ \A m \in Nodes : TallyOK(H, node, S, m) /\ HushOK(k, H, node, m) /\ InTime(node, m)
  BY <1>18 DEF Kept
<1>20. H[n].yes1 \in SUBSET Nodes /\ H[n].yes2 \in SUBSET Nodes /\ v.accepted \in Nat
  BY <1>2, <1>5, <1>6, <1>16, HistoryFacts
<1>21. ASSUME next = s \/ next \in {"sec", "silence"}
       PROVE \E H1 : Kept(R, k, H1, node', msgs', cut)
  <2>1. msgs' = S /\ w.primary = node[n].primary
    BY <1>6, <1>7, <1>9, <1>12, <1>14, <1>21
  <2>2. \/ /\ w.status = node[n].status /\ w.time = node[n].time
           /\ w.status \in {"vote", "announce"} =>
                w.accepted =
                  IF r.ok /\ node[n].status = (IF r.round = 1 THEN "vote" ELSE "announce")
                  THEN node[n].accepted + 1 ELSE node[n].accepted
        \/ w.status \in {"sec", "silence"} /\ w.time = 0 /\ node[n].status # "silence"
    BY <1>6, <1>7, <1>9, <1>21
  <2>3. /\ w.force = 0 /\ w.beatTime = node[n].beatTime
        /\ w.age = node[n].age /\ w.dead = node[n].dead
    BY <1>6, <1>10
  <2>4. r.to = n
    BY DEF n
  <2>5. Kept(R, k, H, node', S, cut)
    BY <1>1, <1>2, <1>4, <1>13, <1>15, <2>1, <2>2, <2>3, <2>4, ReplyCalm DEF k
  <2> QED BY <2>1, <2>5
<1>22. ASSUME s = "vote", r.round = 1, r.ok, AllAccepted(v), next = "announce"
       PROVE \E H1 : Kept(R, k, H1, node', msgs', cut)
  <2>1. CountOK(n, 1, S, H[n].yes1, v.accepted)
    <3>1. CountOK(n, 1, msgs, H[n].yes1, node[n].accepted) /\ v.accepted = node[n].accepted + 1
      BY <1>6, <1>16, <1>22 DEF TallyOK
    <3>2. r.to = n
      BY DEF n
    <3>3. CountOK(n, 1, S, H[n].yes1, node[n].accepted + 1)
      BY <1>2, <1>5, <1>20, <1>22, <3>1, <3>2, CountMore
    <3> QED BY <3>1, <3>3
  <2>2. H[n].yes1 = Nodes /\ Most(H[n].yes1)
    BY <1>2, <1>20, <1>22, <2>1, CountMost DEF AllAccepted
  <2>3. k[n] = R + 1 /\ H[n].asked1 = R /\ Polled(n, 2, msgs) = {}
    BY <1>16, <1>17, <1>22 DEF PollsOK
  <2>4. Polled(n, 2, S) = {}
    BY <2>3 DEF Polled
  <2> DEFINE yes == IF v.primary = None THEN {n} ELSE {}
  <2>5. msgs' = S \cup OnWire(Launch(n, v, 2))
    BY <1>11, <1>12, <1>22
  <2>6. /\ S \subseteq msgs'
        /\ \A x \in msgs' \ S : /\ x.type = "ballot" /\ x.round = 2 /\ x.from = n
                                /\ {x.from, x.to} \notin cut
        /\ Sends(S, msgs', n, yes)
    <3>1. (v.primary = None => yes = {n}) /\ (v.primary # None => yes = {})
      OBVIOUS
    <3> HIDE DEF yes, S
    <3> QED BY <1>2, <1>6, <2>5, <3>1, LaunchSends
  <2>7. Enters(node, node', S, msgs', cut, n, "announce", 2)
    BY <1>6, <1>9, <1>10, <1>13, <1>14, <1>22, <2>4, <2>6 DEF Enters
  <2>8. yes = {} \/ (yes = {n} /\ Free(node, S, n))
    BY <1>6, <1>22 DEF Free, BeatTo, BeatsDone
  <2>9. node'[n].accepted = 0
    BY <1>6, <1>9, <1>13, <1>22
  <2>10. \A m \in Peers(n) : TallyOK(H, node, S, m) /\ InTime(node, m)
    BY <1>19 DEF Peers
  <2>11. \A x \in S : x.from \in Nodes
    BY <1>1
  <2>12. \A m \in Nodes : HushOK(k, H, node, m)
    BY <1>19
  <2> HIDE DEF yes, S
  <2> QED BY <1>1, <1>2, <1>19, <1>22, <2>2, <2>3, <2>6, <2>7, <2>8, <2>9, <2>10, <2>11, <2>12,
             AnnounceKept
<1>23. ASSUME s = "announce", r.round = 2, r.ok, AllAccepted(v), next = "primary"
       PROVE \E H1 : Kept(R, k, H1, node', msgs', cut)
  <2>1. CountOK(n, 2, S, H[n].yes2, v.accepted)
    <3>1. CountOK(n, 2, msgs, H[n].yes2, node[n].accepted) /\ v.accepted = node[n].accepted + 1
      BY <1>6, <1>16, <1>23 DEF TallyOK
    <3>2. r.to = n
      BY DEF n
    <3>3. CountOK(n, 2, S, H[n].yes2, node[n].accepted + 1)
      BY <1>2, <1>5, <1>20, <1>23, <3>1, <3>2, CountMore
    <3> QED BY <3>1, <3>3
  <2>2. H[n].yes2 = Nodes /\ Most(H[n].yes2) /\ n \in H[n].yes2
    BY <1>2, <1>20, <1>23, <2>1, CountMost DEF AllAccepted
  <2>3. k[n] = R + 1
    BY <1>16, <1>17, <1>23 DEF PollsOK
  <2>4. msgs' = S
    BY <1>12, <1>23
  <2>5. Wins(node, node', n)
    BY <1>6, <1>9, <1>10, <1>13, <1>23 DEF Wins
  <2>6. \A m \in Peers(n) : TallyOK(H, node, S, m) /\ InTime(node, m)
    BY <1>19 DEF Peers
  <2>7. \A x \in S : x.from \in Nodes /\ (x.type = "beat" => ~x.primary)
    BY <1>1 DEF BeatsDone
  <2>8. \A m \in Nodes : HushOK(k, H, node, m)
    BY <1>19
  <2> HIDE DEF S
  <2>9. \E H1 : Kept(R, k, H1, node', S, cut)
    BY <1>1, <1>2, <1>19, <1>23, <2>2, <2>3, <2>5, <2>6, <2>7, <2>8, WonKept
  <2> QED BY <2>4, <2>9
<1>24. \E H1 : Kept(R, k, H1, node', msgs', cut)
  BY <1>7, <1>21, <1>22, <1>23
<1>25. NoForce'
  <2>1. \A x \in OnWire(Sent(n, v, next)) : x.type = "ballot"
    BY DEF OnWire, Sent, VoteActive, AnnounceActive, Launch
  <2> QED BY <1>1, <1>3, <2>1 DEF NoForce, n
<1> QED BY <1>3, <1>4, <1>24, <1>25 DEF OneInv, k

-----------------------------------------------------------------------------
(* The timer. *)

(* What a timer does to the ages, dead times and the primary's name. *)
TimerFields(n, e, due) ==
  /\ e.status = node[n].status /\ e.accepted = node[n].accepted /\ e.force = node[n].force
  /\ node[n].status # "sec" => e.time = node[n].time + 1
  /\ \A m \in Peers(n) :
       e.age[m] = IF node[n].age[m] < BreakTime THEN node[n].age[m] + 1 ELSE BreakTime
  /\ \A p \in Peers(n) : node[n].primary = p => e.primary = p \/ e.age[p] = BreakTime
  /\ e.beatTime = IF due THEN 0 ELSE node[n].beatTime + 1
  /\ \A m \in Peers(n) : e.dead[m] > 0 => node[n].dead[m] > 0 \/ {n, m} \in cut

(* What the timer does to the fields of a node. *)
LEMMA ElapsedFields ==
  ASSUME NEW n \in Nodes, node[n] \in NodeStates(n), SelfOK(n, node[n]),
         NEW due \in BOOLEAN, due <=> node[n].beatTime + 1 >= BeatInterval
  PROVE TimerFields(n, Elapsed(n), due)
<1> DEFINE u == IF node[n].beatTime + 1 >= BeatInterval THEN AfterBeats(n)
                ELSE [node[n] EXCEPT !.beatTime = @ + 1]
<1>1. /\ u \in NodeStates(n) /\ SelfOK(n, u)
      /\ u.age = node[n].age /\ u.primary = node[n].primary /\ u.force = node[n].force
      /\ u.beatTime = IF due THEN 0 ELSE node[n].beatTime + 1
      /\ \A m \in Peers(n) : u.dead[m] > 0 => node[n].dead[m] > 0 \/ {n, m} \in cut
  <2>1. CASE node[n].beatTime + 1 >= BeatInterval
    <3>1. u = AfterBeats(n) /\ u \in NodeStates(n) /\ SelfOK(n, u)
      BY <2>1, AfterBeatsOK
    <3> HIDE DEF u
    <3>2. /\ u.age = node[n].age /\ u.primary = node[n].primary /\ u.force = node[n].force
          /\ u.beatTime = 0
      BY <3>1 DEF AfterBeats, NodeStates
    <3>3. \A m \in Peers(n) :
            u.dead[m] = IF node[n].dead[m] > 0 THEN node[n].dead[m] - 1
                        ELSE IF {n, m} \in cut /\ m \notin Alives(node[n]) THEN DeadBeats ELSE 0
      BY <3>1 DEF AfterBeats, NodeStates
    <3>4. \A m \in Peers(n) : u.dead[m] > 0 => node[n].dead[m] > 0 \/ {n, m} \in cut
      BY <3>3
    <3> QED BY <2>1, <3>1, <3>2, <3>4
  <2>2. CASE ~(node[n].beatTime + 1 >= BeatInterval)
    <3>1. node[n].beatTime + 1 \in 0 .. BeatInterval
      BY <2>2, Bounds DEF NodeStates
    <3>2. u = [node[n] EXCEPT !.beatTime = node[n].beatTime + 1]
      BY <2>2
    <3> HIDE DEF u
    <3> QED BY <2>2, <3>1, <3>2 DEF NodeStates, SelfOK
  <2> QED BY <2>1, <2>2
<1> HIDE DEF u
<1> DEFINE v == CheckBreak(u)
           ages == [m \in DOMAIN u.age |-> IF u.age[m] < BreakTime THEN u.age[m] + 1
                                           ELSE BreakTime]
           broken == {m \in Alives(u) : ages[m] = BreakTime}
<1>2. /\ v \in NodeStates(n) /\ SelfOK(n, v)
      /\ v.force = u.force /\ v.beatTime = u.beatTime /\ v.dead = u.dead
      /\ \A m \in Peers(n) : v.age[m] = IF u.age[m] < BreakTime THEN u.age[m] + 1 ELSE BreakTime
      /\ \A p \in Peers(n) : u.primary = p => v.primary = p \/ v.age[p] = BreakTime
  <2>1. v \in NodeStates(n) /\ SelfOK(n, v)
    BY <1>1, CheckBreakOK
  <2>2. /\ v.force = u.force /\ v.beatTime = u.beatTime /\ v.dead = u.dead /\ v.age = ages
        /\ v.primary = IF u.primary \in broken THEN None ELSE u.primary
    BY <1>1 DEF CheckBreak, NodeStates
  <2>3. DOMAIN u.age = Peers(n)
    BY <1>1 DEF NodeStates
  <2> HIDE DEF v
  <2> QED BY <2>1, <2>2, <2>3
<1> HIDE DEF v, ages, broken
<1> DEFINE p == Passed(v)
<1>3. /\ p \in NodeStates(n)
      /\ p.age = v.age /\ p.force = v.force /\ p.beatTime = v.beatTime /\ p.dead = v.dead
      /\ p.primary = v.primary
  <2> DEFINE enough == IF VoteTime < StartShift THEN StartShift ELSE VoteTime
             time == IF v.status = "sec" /\ v.time >= enough THEN v.time ELSE v.time + 1
  <2>1. time \in Nat
    BY <1>2 DEF NodeStates
  <2>2. p = [v EXCEPT !.time = time]
    BY DEF Passed
  <2> HIDE DEF time, p
  <2> QED BY <1>2, <2>1, <2>2 DEF NodeStates
<1> HIDE DEF p
<1>4. /\ Shifted(p).age = p.age /\ Shifted(p).force = p.force
      /\ Shifted(p).beatTime = p.beatTime /\ Shifted(p).dead = p.dead
      /\ Shifted(p).primary = p.primary
  BY <1>3 DEF Shifted, NodeStates
<1>5. Elapsed(n) = Shifted(p)
  BY DEF Elapsed, Broken, u, v, p
<1>6. /\ Elapsed(n).status = node[n].status /\ Elapsed(n).accepted = node[n].accepted
      /\ node[n].status # "sec" => Elapsed(n).time = node[n].time + 1
  BY TimerState
<1> DEFINE e == Elapsed(n)
<1>7. /\ e.force = node[n].force /\ e.age = v.age /\ e.primary = v.primary
      /\ e.beatTime = u.beatTime /\ e.dead = u.dead
  BY <1>1, <1>2, <1>3, <1>4, <1>5
<1>8. e.status = node[n].status /\ e.accepted = node[n].accepted
      /\ (node[n].status # "sec" => e.time = node[n].time + 1)
  BY <1>6
<1> HIDE DEF e
<1>9. \A m \in Peers(n) :
        e.age[m] = IF node[n].age[m] < BreakTime THEN node[n].age[m] + 1 ELSE BreakTime
  BY <1>1, <1>2, <1>7
<1>10. \A i \in Peers(n) : node[n].primary = i => e.primary = i \/ e.age[i] = BreakTime
  BY <1>1, <1>2, <1>7
<1>11. e.beatTime = IF due THEN 0 ELSE node[n].beatTime + 1
  BY <1>1, <1>7
<1>12. \A m \in Peers(n) : e.dead[m] > 0 => node[n].dead[m] > 0 \/ {n, m} \in cut
  BY <1>1, <1>7
<1>13. TimerFields(n, e, due)
  BY <1>7, <1>8, <1>9, <1>10, <1>11, <1>12 DEF TimerFields
<1> QED BY <1>13 DEF e

(* Whom the beats reach, remembered. *)
Tells(R, k, H, H1, N, C, n, due) ==
  /\ H1 \in [Nodes -> Histories] /\ \A m \in Peers(n) : H1[m] = H[m]
  /\ H1[n].yes1 = H[n].yes1 /\ H1[n].asked1 = H[n].asked1
  /\ H1[n].yes2 = H[n].yes2 /\ H1[n].asked2 = H[n].asked2 /\ H1[n].won = H[n].won
  /\ LET tells == due /\ N[n].status = "primary"
     IN /\ \A m \in Peers(n) : /\ tells /\ {n, m} \notin C => H1[n].told[m] = R
                               /\ ~(tells /\ {n, m} \notin C) => H1[n].told[m] = H[n].told[m]
        /\ H1[n].told[n] = H[n].told[n]
        /\ tells /\ LastBeat(k, N, n) < H[n].won => H1[n].began = R
        /\ ~(tells /\ LastBeat(k, N, n) < H[n].won) => H1[n].began = H[n].began

(* There is such a history. *)
LEMMA TellsExist ==
  ASSUME NEW R \in Int, NEW k, NEW H, H \in [Nodes -> Histories], NEW N, NEW C, NEW n \in Nodes,
         NEW due
  PROVE \E H1 : Tells(R, k, H, H1, N, C, n, due)
<1> DEFINE tells == due /\ N[n].status = "primary"
           told == [m \in Nodes |-> IF m # n /\ tells /\ {n, m} \notin C THEN R
                                    ELSE H[n].told[m]]
           began == IF tells /\ LastBeat(k, N, n) < H[n].won THEN R ELSE H[n].began
           h == [H[n] EXCEPT !.told = told, !.began = began]
           H1 == [H EXCEPT ![n] = h]
<1>1. H[n] \in Histories
  OBVIOUS
<1>2. told \in [Nodes -> Int] /\ began \in Int
  BY <1>1 DEF Histories
<1>3. /\ \A m \in Nodes : told[m] = IF m # n /\ tells /\ {n, m} \notin C THEN R ELSE H[n].told[m]
      /\ began = IF tells /\ LastBeat(k, N, n) < H[n].won THEN R ELSE H[n].began
  OBVIOUS
<1> HIDE DEF told, began
<1>4. /\ h \in Histories /\ h.told = told /\ h.began = began
      /\ h.yes1 = H[n].yes1 /\ h.asked1 = H[n].asked1
      /\ h.yes2 = H[n].yes2 /\ h.asked2 = H[n].asked2 /\ h.won = H[n].won
  BY <1>1, <1>2 DEF Histories
<1> HIDE DEF h
<1>5. H1 \in [Nodes -> Histories] /\ H1[n] = h /\ \A m \in Peers(n) : H1[m] = H[m]
  BY <1>4 DEF Peers
<1> HIDE DEF H1
<1>6. \A m \in Peers(n) : /\ tells /\ {n, m} \notin C => H1[n].told[m] = R
                          /\ ~(tells /\ {n, m} \notin C) => H1[n].told[m] = H[n].told[m]
  BY <1>3, <1>4, <1>5 DEF Peers
<1>7. H1[n].told[n] = H[n].told[n]
  BY <1>3, <1>4, <1>5
<1>8. /\ tells /\ LastBeat(k, N, n) < H[n].won => H1[n].began = R
      /\ ~(tells /\ LastBeat(k, N, n) < H[n].won) => H1[n].began = H[n].began
  BY <1>3, <1>4, <1>5
<1>9. Tells(R, k, H, H1, N, C, n, due)
  BY <1>4, <1>5, <1>6, <1>7, <1>8 DEF Tells
<1> QED BY <1>9

(* The group between the beats of n and its time-out. *)
Fired(n) == [node EXCEPT ![n] = Elapsed(n)]
Beaten(n) ==
  msgs \cup OnWire(IF node[n].beatTime + 1 >= BeatInterval THEN SharingBeats(n) ELSE {})

(* What holds there: all but that n did not miss its time-out. *)
Between(R, k, H, N, S, C, n) ==
  /\ Core(R, k, H, N, S, C) /\ k[n] = R + 1
  /\ \A m \in Nodes : TallyOK(H, N, S, m) /\ HushOK(k, H, N, m)
  /\ \A m \in Peers(n) : InTime(N, m)
  /\ Polled(n, 1, S) = {} /\ Polled(n, 2, S) = {}

(* The messages then. *)
BetweenMsgs(N, S, n) ==
  /\ \A x \in S : x.from \in Nodes
  /\ \A x \in S : x.type = "beat" => x.from = n /\ x.to # n
                                     /\ (x.primary <=> N[n].status = "primary")

(* The messages after the beats of n. *)
LEMMA BeatenFacts ==
  ASSUME Inv, BeatsDone, NEW n \in Nodes
  PROVE /\ msgs \subseteq Beaten(n) /\ BetweenMsgs(node, Beaten(n), n)
        /\ \A x \in Beaten(n) \ msgs : /\ x.type = "beat" /\ x.from = n
                                       /\ {x.from, x.to} \notin cut
                                       /\ x.primary <=> node[n].status = "primary"
        /\ \A m \in Peers(n) :
             node[n].beatTime + 1 >= BeatInterval /\ node[n].dead[m] = 0 /\ {n, m} \notin cut
               /\ node[n].status = "primary" => BeatTo(Beaten(n), n, m)
<1>1. SelfOK(n, node[n]) /\ \A x \in msgs : x.from \in Nodes
  BY InvParts, InvSized
<1>2. \A x \in SharingBeats(n) : /\ x.type = "beat" /\ x.from = n /\ x.to \in Peers(n)
                                 /\ x.primary <=> node[n].primary = n
  <2> SUFFICES ASSUME NEW x \in SharingBeats(n)
               PROVE /\ x.type = "beat" /\ x.from = n /\ x.to \in Peers(n)
                     /\ x.primary <=> node[n].primary = n
    OBVIOUS
  <2>1. PICK m \in Peers(n) :
          x = [type |-> "beat", from |-> n, to |-> m, primary |-> node[n].primary = n,
               lsn |-> lsn[n], weight |-> GetWeight(n),
               service |-> IF normal[n] THEN "normal" ELSE "abnormal"]
    BY DEF SharingBeats
  <2> QED BY <2>1
<1>3. \A x \in Beaten(n) : x \in msgs \/ (x \in SharingBeats(n) /\ {x.from, x.to} \notin cut)
  BY DEF Beaten, OnWire
<1>4. msgs \subseteq Beaten(n)
  BY DEF Beaten
<1>5. \A x \in msgs : x.type # "beat"
  BY DEF BeatsDone
<1>6. BetweenMsgs(node, Beaten(n), n)
  BY <1>1, <1>2, <1>3, <1>5 DEF BetweenMsgs, SelfOK, Peers
<1>7. \A x \in Beaten(n) \ msgs : /\ x.type = "beat" /\ x.from = n
                                  /\ {x.from, x.to} \notin cut
                                  /\ x.primary <=> node[n].status = "primary"
  BY <1>1, <1>2, <1>3 DEF SelfOK
<1>8. ASSUME NEW m \in Peers(n), node[n].beatTime + 1 >= BeatInterval, node[n].dead[m] = 0,
             {n, m} \notin cut, node[n].status = "primary"
      PROVE BeatTo(Beaten(n), n, m)
  <2> DEFINE b == [type |-> "beat", from |-> n, to |-> m, primary |-> node[n].primary = n,
                   lsn |-> lsn[n], weight |-> GetWeight(n),
                   service |-> IF normal[n] THEN "normal" ELSE "abnormal"]
  <2>1. b \in SharingBeats(n)
    BY <1>8 DEF SharingBeats
  <2>2. b.from = n /\ b.to = m /\ b.type = "beat" /\ b.primary
    BY <1>1, <1>8 DEF SelfOK
  <2> HIDE DEF b
  <2>3. b \in Beaten(n)
    BY <1>8, <2>1, <2>2 DEF Beaten, OnWire
  <2> QED BY <2>2, <2>3 DEF BeatTo
<1> QED BY <1>4, <1>6, <1>7, <1>8

(* The first half of a timer is a tick. *)
LEMMA TimerTicks ==
  ASSUME TimesApart, OneInv, BeatsDone, NEW n \in Nodes, n \notin ticked
  PROVE /\ Sized(Fired(n)) /\ BetweenMsgs(Fired(n), Beaten(n), n)
        /\ \E R, H : Between(R, Clock(R, ticked \cup {n}), H, Fired(n), Beaten(n), cut, n)
<1> DEFINE N1 == Fired(n)
           S1 == Beaten(n)
           e == Elapsed(n)
<1>1. Inv /\ Sized(node) /\ DOMAIN node = Nodes /\ node[n] \in NodeStates(n)
      /\ SelfOK(n, node[n]) /\ node[n].force = 0
  BY OneFacts, InvParts, InvSized
<1>2. e \in NodeStates(n)
  BY <1>1, TimerState
<1>3. N1[n] = e /\ \A m \in Peers(n) : N1[m] = node[m]
  BY <1>1 DEF Fired, Peers
<1>4. Sized(N1)
  <2>1. /\ e.status \in Statuses /\ e.time \in Nat /\ e.accepted \in Nat /\ e.beatTime \in Nat
        /\ \A m \in Peers(n) : e.age[m] \in 0 .. BreakTime /\ e.dead[m] \in Nat
    BY <1>2, GroupSize, Bounds DEF NodeStates
  <2> HIDE DEF e, N1
  <2> QED BY <1>1, <1>3, <2>1 DEF Sized, Peers
<1>5. PICK due \in BOOLEAN : due <=> node[n].beatTime + 1 >= BeatInterval
  OBVIOUS
<1>6. TimerFields(n, e, due)
  BY <1>1, <1>5, ElapsedFields
<1>7. /\ msgs \subseteq S1 /\ BetweenMsgs(node, S1, n)
      /\ \A x \in S1 \ msgs : /\ x.type = "beat" /\ x.from = n
                              /\ {x.from, x.to} \notin cut
                              /\ x.primary <=> node[n].status = "primary"
      /\ \A m \in Peers(n) :
           node[n].beatTime + 1 >= BeatInterval /\ node[n].dead[m] = 0 /\ {n, m} \notin cut
             /\ node[n].status = "primary" => BeatTo(S1, n, m)
  BY <1>1, BeatenFacts
<1> HIDE DEF e, N1, S1
<1>8. N1[n].status = node[n].status /\ N1[n].accepted = node[n].accepted
  BY <1>3, <1>6 DEF TimerFields
<1>9. BetweenMsgs(N1, S1, n)
  BY <1>7, <1>8 DEF BetweenMsgs
<1>10. PICK R, H : Kept(R, Clock(R, ticked), H, node, msgs, cut)
  BY DEF OneInv
<1> DEFINE k == Clock(R, ticked)
           k1 == Clock(R, ticked \cup {n})
<1>11. /\ Core(R, k, H, node, msgs, cut) /\ H \in [Nodes -> Histories] /\ R \in Nat
       /\ \A m \in Nodes : TallyOK(H, node, msgs, m) /\ HushOK(k, H, node, m) /\ InTime(node, m)
  BY <1>10 DEF Kept, Core
<1>12. /\ k[n] = R /\ k1[n] = R + 1 /\ k1 \in [Nodes -> Int]
       /\ \A m \in Peers(n) : k1[m] = k[m]
  BY <1>11 DEF Clock, Peers
<1> HIDE DEF k, k1
<1>13. PICK H1 : Tells(R, k, H, H1, node, cut, n, due)
  <2>1. R \in Int /\ H \in [Nodes -> Histories]
    BY <1>11
  <2> QED BY <2>1, TellsExist
<1>14. Ticks(R, k, k1, H, H1, node, N1, msgs, S1, cut, n, due)
  <2>1. \A m \in Peers(n) : {n, m} \notin cut => node[n].dead[m] = 0
    <3>1. \A m \in Peers(n) : node[n].dead[m] > 0 => {n, m} \in cut
      BY <1>11 DEF Core, NodeOK, ClockOK
    <3>2. \A m \in Peers(n) : node[n].dead[m] \in Nat
      BY <1>1 DEF Sized
    <3> QED BY <3>1, <3>2
  <2>2. LET tells == due /\ node[n].status = "primary"
        IN \A m \in Peers(n) : tells /\ {n, m} \notin cut => BeatTo(S1, n, m)
    BY <1>5, <1>7, <2>1
  <2>3. \A x \in msgs : x.type # "beat"
    BY DEF BeatsDone
  <2>4. /\ N1[n].status = node[n].status /\ N1[n].force = 0
        /\ node[n].status # "sec" => N1[n].time = node[n].time + 1
        /\ \A m \in Peers(n) : N1[n].age[m] = IF node[n].age[m] < BreakTime
                                              THEN node[n].age[m] + 1 ELSE BreakTime
        /\ \A p \in Peers(n) : node[n].primary = p => N1[n].primary = p \/ N1[n].age[p] = BreakTime
        /\ N1[n].beatTime = IF due THEN 0 ELSE node[n].beatTime + 1
        /\ \A m \in Peers(n) : N1[n].dead[m] > 0 => node[n].dead[m] > 0 \/ {n, m} \in cut
    BY <1>1, <1>3, <1>6 DEF TimerFields
  <2>5. \A m \in Peers(n) : k1[m] = k[m] /\ N1[m] = node[m] /\ H1[m] = H[m]
    BY <1>3, <1>12, <1>13 DEF Tells
  <2> QED BY <1>5, <1>7, <1>12, <1>13, <2>2, <2>3, <2>4, <2>5 DEF Ticks, Tells
<1>15. Core(R, k1, H1, N1, S1, cut)
  BY <1>1, <1>4, <1>11, <1>14, TickCore
<1>16. \A m, q : Polled(m, q, S1) = Polled(m, q, msgs)
  BY <1>7 DEF Polled
<1>17. ASSUME NEW m \in Nodes PROVE TallyOK(H1, N1, S1, m) /\ HushOK(k1, H1, N1, m)
  <2>1. HushOK(k1, H1, N1, m)
    BY <1>1, <1>4, <1>11, <1>14, TickHush
  <2>2. N1[m].status = node[m].status /\ N1[m].accepted = node[m].accepted
    BY <1>3, <1>8 DEF Peers
  <2>3. H1[m].yes1 = H[m].yes1 /\ H1[m].yes2 = H[m].yes2
    BY <1>13 DEF Tells, Peers
  <2>4. TallyOK(H1, node, msgs, m)
    BY <1>11, <2>3 DEF TallyOK
  <2>5. \A q \in {1, 2} : Polled(m, q, S1) \subseteq Polled(m, q, msgs)
    BY <1>16
  <2>6. H1 \in [Nodes -> Histories]
    BY <1>13 DEF Tells
  <2>7. TallyOK(H1, N1, S1, m)
    BY <1>1, <2>2, <2>4, <2>5, <2>6, CalmTally
  <2> QED BY <2>1, <2>7
<1>18. Polled(n, 1, S1) = {} /\ Polled(n, 2, S1) = {}
  <2>1. PollsOK(R, k, H, node, msgs, n) /\ k[n] # R + 1
    BY <1>11, <1>12 DEF Core, NodeOK
  <2> QED BY <1>16, <2>1 DEF PollsOK
<1>19. \A m \in Peers(n) : InTime(N1, m)
  BY <1>3, <1>11 DEF InTime, Peers
<1>20. Between(R, k1, H1, N1, S1, cut, n)
  BY <1>12, <1>15, <1>17, <1>18, <1>19 DEF Between
<1>21. \E R2, H2 : Between(R2, Clock(R2, ticked \cup {n}), H2, N1, S1, cut, n)
  BY <1>20 DEF k1
<1> QED BY <1>4, <1>9, <1>21 DEF N1, S1

(* A time-out after which n does not go on. *)
TimerCalm(N, N1, n) ==
  /\ \A m \in Peers(n) : N1[m] = N[m]
  /\ \/ /\ N1[n].status = N[n].status /\ N1[n].time = N[n].time
        /\ N1[n].accepted = N[n].accepted
     \/ N1[n].status \in {"sec", "silence"} /\ N1[n].time = 0
  /\ N[n].status = "silence" => \/ N1[n].status = "silence" /\ N1[n].time = N[n].time
                                \/ N[n].time >= SilenceTime
  /\ N1[n].force = 0 /\ N1[n].beatTime = N[n].beatTime
  /\ N1[n].age = N[n].age /\ N1[n].dead = N[n].dead
  /\ \A p \in Peers(n) : N[n].primary = p => N1[n].primary = p

(* The second half of a timer, when it goes on in no election. *)
LEMMA BetweenCalm ==
  ASSUME TimesApart, NEW R, NEW k, NEW H, NEW N, NEW S, NEW C, NEW n \in Nodes,
         Between(R, k, H, N, S, C, n), Sized(N), NEW N1, Sized(N1), TimerCalm(N, N1, n),
         InTime(N1, n), \A x \in S : x.from \in Nodes
  PROVE Kept(R, k, H, N1, S, C)
<1>1. /\ Core(R, k, H, N, S, C) /\ H \in [Nodes -> Histories]
      /\ \A m \in Nodes : TallyOK(H, N, S, m) /\ HushOK(k, H, N, m)
      /\ \A m \in Peers(n) : InTime(N, m)
  BY DEF Between, Core
<1>2. \A m \in Peers(n) : N1[m] = N[m]
  BY DEF TimerCalm
<1>3. \A p \in Peers(n) : Heeds(k, H, N, S, p, n) => Heeds(k, H, N1, S, p, n)
  <2> SUFFICES ASSUME NEW p \in Peers(n), Heeds(k, H, N, S, p, n)
               PROVE Heeds(k, H, N1, S, p, n)
    OBVIOUS
  <2>1. /\ N[n].status = "silence" => \/ N1[n].status = "silence" /\ N1[n].time = N[n].time
                                      \/ N[n].time >= SilenceTime
        /\ N[n].primary = p => N1[n].primary = p
        /\ N1[n].age[p] = N[n].age[p]
    BY DEF TimerCalm
  <2> QED BY <1>1, <2>1, HeedsKept
<1>4. N1[n].beatTime <= N[n].beatTime
  BY DEF Sized, TimerCalm
<1>5. Calm(k, H, N, N1, S, S, C, n)
  BY <1>3, <1>4 DEF Calm, TimerCalm
<1>6. Core(R, k, H, N1, S, C)
  BY <1>1, <1>5, CalmCore
<1>7. ASSUME NEW m \in Nodes
      PROVE TallyOK(H, N1, S, m) /\ HushOK(k, H, N1, m) /\ InTime(N1, m)
  <2>1. N1[m].status \in {"vote", "announce"} =>
          N1[m].status = N[m].status /\ N1[m].accepted = N[m].accepted
    BY <1>2 DEF TimerCalm, Peers
  <2>2. TallyOK(H, N1, S, m)
    BY <1>1, <2>1, CalmTally
  <2>3. HushOK(k, H, N1, m)
    <3> SUFFICES ASSUME N1[m].status = "announce", NEW c \in H[m].yes2 \ {m}
                 PROVE Silenced(k, N1, c, H[m].asked2)
      BY DEF HushOK
    <3>1. c \in Nodes
      BY <1>1, HistoryFacts
    <3>2. Silenced(k, N, c, H[m].asked2)
      BY <1>1, <2>1 DEF HushOK
    <3> QED BY <1>1, <1>5, <3>1, <3>2, CalmHush
  <2>4. InTime(N1, m)
    BY <1>1, <1>2 DEF InTime, Peers
  <2> QED BY <2>2, <2>3, <2>4
<1> QED BY <1>6, <1>7 DEF Kept

(* A primary with its majority starts its time again. *)
LEMMA BetweenCheck ==
  ASSUME TimesApart, NEW R, NEW k, NEW H, NEW N, NEW S, NEW C, NEW n \in Nodes,
         Between(R, k, H, N, S, C, n), Sized(N), NEW N1, Wins(N, N1, n),
         N[n].status = "primary", N[n].time = VoteTime, N1[n].primary = N[n].primary,
         Most({n} \cup {c \in Peers(n) : N[n].age[c] < BreakTime}), \A x \in S : x.from \in Nodes
  PROVE Kept(R, k, H, N1, S, C)
<1>1. /\ Core(R, k, H, N, S, C) /\ H \in [Nodes -> Histories]
      /\ \A m \in Nodes : TallyOK(H, N, S, m) /\ HushOK(k, H, N, m)
      /\ \A m \in Peers(n) : InTime(N, m)
  BY DEF Between, Core
<1>2. /\ \A m \in Peers(n) : N1[m] = N[m]
      /\ N1[n].status = "primary" /\ N1[n].time = 0 /\ N1[n].force = 0
      /\ N1[n].beatTime = N[n].beatTime /\ N1[n].age = N[n].age /\ N1[n].dead = N[n].dead
  BY DEF Wins
<1>3. Core(R, k, H, N1, S, C)
  BY <1>1, <1>2, CheckCore
<1>4. ASSUME NEW m \in Nodes
      PROVE TallyOK(H, N1, S, m) /\ HushOK(k, H, N1, m) /\ InTime(N1, m)
  <2>1. CASE m = n
    <3>1. VoteTime \in Nat /\ VoteTime > 0
      BY TimesFacts
    <3> QED BY <1>2, <2>1, <3>1 DEF TallyOK, HushOK, InTime
  <2>2. CASE m # n
    <3>1. N1[m] = N[m] /\ TallyOK(H, N, S, m) /\ InTime(N, m) /\ HushOK(k, H, N, m)
      BY <1>1, <1>2, <2>2 DEF Peers
    <3>2. HushOK(k, H, N1, m)
      <4> SUFFICES ASSUME N1[m].status = "announce", NEW d \in H[m].yes2 \ {m}
                   PROVE Silenced(k, N1, d, H[m].asked2)
        BY DEF HushOK
      <4>1. d \in Nodes
        BY <1>1, HistoryFacts
      <4>2. Silenced(k, N, d, H[m].asked2)
        BY <3>1 DEF HushOK
      <4>3. d # n
        BY <4>2 DEF Silenced
      <4>4. N1[d] = N[d]
        BY <1>2, <4>1, <4>3 DEF Peers
      <4> QED BY <4>2, <4>4 DEF Silenced, Since
    <3> QED BY <3>1, <3>2 DEF TallyOK, InTime
  <2> QED BY <2>1, <2>2
<1> QED BY <1>3, <1>4 DEF Kept

(* A time-out ends a vote with a majority. *)
LEMMA BetweenAnnounce ==
  ASSUME TimesApart, NEW R, NEW k, NEW H, NEW N, NEW S, NEW C, NEW n \in Nodes,
         Between(R, k, H, N, S, C, n), Sized(N), NEW N1, NEW S1, NEW yes,
         N[n].status = "vote", ~(N[n].time < VoteTime), IsMajority(N[n].accepted + 1),
         Enters(N, N1, S, S1, C, n, "announce", 2),
         yes = {} \/ (yes = {n} /\ Free(N, S, n)), Sends(S, S1, n, yes),
         N1[n].accepted = 0, \A x \in S : x.from \in Nodes
  PROVE \E H1 : Kept(R, k, H1, N1, S1, C)
<1>1. /\ Core(R, k, H, N, S, C) /\ H \in [Nodes -> Histories] /\ R \in Nat
      /\ \A m \in Nodes : TallyOK(H, N, S, m) /\ HushOK(k, H, N, m)
      /\ \A m \in Peers(n) : InTime(N, m)
      /\ k[n] = R + 1
  BY DEF Between, Core
<1>2. N[n].accepted \in Nat /\ N[n].time \in Nat
  BY DEF Sized
<1>3. H[n].yes1 \in SUBSET Nodes /\ H[n].asked1 \in Int
  BY <1>1, HistoryFacts
<1>4. Most(H[n].yes1)
  <2>1. CountOK(n, 1, S, H[n].yes1, N[n].accepted)
    BY <1>1 DEF TallyOK
  <2> QED BY <1>2, <1>3, <2>1, CountMost
<1>5. R = H[n].asked1 + VoteTime
  <2>1. SpanOK(k, H, N, n)
    BY <1>1 DEF Core, NodeOK
  <2>2. N[n].time <= VoteTime /\ k[n] - N[n].time = H[n].asked1 + 1
    BY <2>1 DEF SpanOK, Since
  <2>3. VoteTime \in Nat
    BY TimesFacts
  <2>4. N[n].time = VoteTime
    BY <1>2, <2>2, <2>3
  <2> QED BY <1>1, <1>3, <2>2, <2>3, <2>4
<1>6. \A m \in Peers(n) : TallyOK(H, N, S, m) /\ InTime(N, m)
  BY <1>1 DEF Peers
<1>7. \A m \in Nodes : HushOK(k, H, N, m)
  BY <1>1
<1> QED BY <1>1, <1>4, <1>5, <1>6, <1>7, AnnounceKept

(* A time-out ends an announcement with a majority. *)
LEMMA BetweenWon ==
  ASSUME TimesApart, NEW R, NEW k, NEW H, NEW N, NEW S, NEW C, NEW n \in Nodes,
         Between(R, k, H, N, S, C, n), Sized(N), NEW N1, BetweenMsgs(N, S, n), Wins(N, N1, n),
         N[n].status = "announce", ~(N[n].time < VoteTime), IsMajority(N[n].accepted + 1)
  PROVE \E H1 : Kept(R, k, H1, N1, S, C)
<1>1. /\ Core(R, k, H, N, S, C) /\ H \in [Nodes -> Histories] /\ R \in Nat
      /\ \A m \in Nodes : TallyOK(H, N, S, m) /\ HushOK(k, H, N, m)
      /\ \A m \in Peers(n) : InTime(N, m)
      /\ k[n] = R + 1
  BY DEF Between, Core
<1>2. N[n].accepted \in Nat /\ N[n].time \in Nat
  BY DEF Sized
<1>3. H[n].yes2 \in SUBSET Nodes
  BY <1>1, HistoryFacts
<1>4. n \in H[n].yes2 /\ Most(H[n].yes2)
  <2>1. CountOK(n, 2, S, H[n].yes2, N[n].accepted)
    BY <1>1 DEF TallyOK
  <2> QED BY <1>2, <1>3, <2>1, CountMost
<1>5. N[n].time = VoteTime
  <2>1. SpanOK(k, H, N, n)
    BY <1>1 DEF Core, NodeOK
  <2>2. N[n].time <= VoteTime /\ VoteTime \in Nat
    BY <2>1, TimesFacts DEF SpanOK
  <2> QED BY <1>2, <2>2
<1>6. \A m \in Peers(n) : TallyOK(H, N, S, m) /\ InTime(N, m)
  BY <1>1 DEF Peers
<1>7. \A m \in Nodes : HushOK(k, H, N, m)
  BY <1>1
<1>8. \A x \in S : x.from \in Nodes /\ (x.type = "beat" => ~x.primary)
  BY DEF BetweenMsgs
<1> QED BY <1>1, <1>4, <1>5, <1>6, <1>7, <1>8, WonKept

(* A secondary waited long enough. *)
LEMMA BetweenVote ==
  ASSUME TimesApart, NEW R, NEW k, NEW H, NEW N, NEW S, NEW C, NEW n \in Nodes,
         Between(R, k, H, N, S, C, n), Sized(N), NEW N1, NEW S1, NEW yes,
         N[n].status = "sec", Enters(N, N1, S, S1, C, n, "vote", 1),
         yes = {} \/ (yes = {n} /\ Free(N, S, n)), Sends(S, S1, n, yes),
         N1[n].accepted = 0, \A x \in S : x.from \in Nodes
  PROVE \E H1 : Kept(R, k, H1, N1, S1, C)
<1>1. Core(R, k, H, N, S, C) /\ k[n] = R + 1 /\ Polled(n, 2, S) = {}
  BY DEF Between
<1>2. \A m \in Peers(n) : TallyOK(H, N, S, m) /\ InTime(N, m)
  BY DEF Between, Peers
<1>3. \A m \in Nodes : HushOK(k, H, N, m)
  BY DEF Between
<1> QED BY <1>1, <1>2, <1>3, VoteKept

(* A majority of live peers. *)
LEMMA AliveMost ==
  ASSUME NEW n \in Nodes, NEW v \in Counting(n), IsMajority(AliveSize(v))
  PROVE Most({n} \cup {c \in Peers(n) : v.age[c] < BreakTime})
<1> DEFINE A == {c \in Peers(n) : v.age[c] < BreakTime}
<1>1. Alives(v) = A
  <2>1. DOMAIN v.age = Peers(n)
    BY DEF Counting
  <2> QED BY <2>1 DEF Alives
<1>2. IsFiniteSet(A) /\ Cardinality(A) \in Nat
  <2>1. A \in SUBSET Peers(n)
    OBVIOUS
  <2> QED BY <2>1, PeersFinite
<1>3. Cardinality({n} \cup A) = Cardinality(A) + 1
  <2>1. n \notin A /\ {n} \cup A = A \cup {n}
    BY DEF Peers
  <2> HIDE DEF A
  <2> QED BY <1>2, <2>1, FS_AddElement
<1>4. Cardinality(Nodes) \div 2 < Cardinality(A) + 1
  BY <1>1 DEF IsMajority, AliveSize
<1> HIDE DEF A
<1>5. 2 * (Cardinality(A) + 1) > Cardinality(Nodes)
  BY <1>2, <1>4, GroupSize
<1>6. Most({n} \cup A)
  BY <1>3, <1>5 DEF Most
<1> QED BY <1>6 DEF A

(* The timer: beats, then the time-out. *)
LEMMA TimerOne ==
  ASSUME TimesApart, OneInv, BeatsDone, NEW n \in Nodes, Timer(n)
  PROVE OneInv'
<1> DEFINE e == Elapsed(n)
           next == AfterTimeout(n, e)
           again == next = "primary" /\ e.status = "primary" /\ VoteTime <= e.time
           w == IF again THEN [e EXCEPT !.time = 0] ELSE Activate(n, e, next)
           N == Fired(n)
           S == Beaten(n)
<1>1. Inv /\ NoForce /\ RestOK /\ DOMAIN node = Nodes /\ node[n] \in NodeStates(n)
      /\ SelfOK(n, node[n]) /\ node[n].force = 0
  BY OneFacts, InvParts
<1>2. Inv' /\ Sized(node')
  <2>1. Inv'
    BY <1>1, TimerInv
  <2> QED BY <2>1, InvSizedNext
<1>3. /\ e \in NodeStates(n) /\ e \in Counting(n) /\ SelfOK(n, e) /\ Broken(n).force = 0
      /\ e.status = node[n].status
  <2>1. /\ e \in NodeStates(n) /\ SelfOK(n, e) /\ Broken(n).force = 0
        /\ e.status = node[n].status
    BY <1>1, TimerState
  <2> QED BY <2>1, CountingStates
<1>4. /\ n \notin ticked /\ ticked' = ticked \cup {n} /\ cut' = cut /\ left' = left
      /\ node' = [node EXCEPT ![n] = w]
      /\ msgs' = S \cup OnWire(Sent(n, e, next))
  <2>1. ~(Broken(n).force > 0)
    BY <1>3
  <2>2. /\ n \notin ticked /\ ticked' = ticked \cup {n} /\ UNCHANGED <<lsn, normal, cut, left>>
        /\ node' = [node EXCEPT ![n] = w]
        /\ msgs' = msgs \cup OnWire(
             (IF node[n].beatTime + 1 >= BeatInterval THEN SharingBeats(n) ELSE {})
             \cup Sent(n, e, next))
    BY <1>1, <2>1, TimerStep
  <2> HIDE DEF e, next, w
  <2> QED BY <2>2 DEF OnWire, Beaten
<1>5. /\ Sized(N) /\ BetweenMsgs(N, S, n)
      /\ \E R, H : Between(R, Clock(R, ticked \cup {n}), H, N, S, cut, n)
  BY <1>4, TimerTicks
<1>6. N[n] = e /\ node'[n] = w /\ \A m \in Peers(n) : node'[m] = N[m]
  BY <1>1, <1>4 DEF Fired, Peers
<1>7. next \in Statuses
  BY <1>3, TimeoutNext
<1>8. /\ e.status = "silence" => next \in {"sec", "silence"}
      /\ e.status = "sec" => next \in {"sec", "vote"}
      /\ e.status = "vote" =>
             \/ next = "vote" /\ e.time < VoteTime
             \/ next = "sec"
             \/ next = "announce" /\ ~(e.time < VoteTime) /\ IsMajority(e.accepted + 1)
      /\ e.status = "announce" =>
             \/ next = "announce" /\ e.time < VoteTime
             \/ next = "silence"
             \/ next = "primary" /\ ~(e.time < VoteTime) /\ IsMajority(e.accepted + 1)
      /\ e.status = "primary" =>
             \/ next = "silence"
             \/ next = "primary" /\ (VoteTime <= e.time => IsMajority(AliveSize(e)))
  BY <1>3, TimeoutNext
<1>9. e.status = "silence" /\ next = "sec" => e.time >= SilenceTime
  <2>1. e.time \in Int /\ SilenceTime \in Int
    BY <1>3, TimesFacts DEF NodeStates
  <2> QED BY <2>1 DEF AfterTimeout, SilenceTimeout
<1>10. e.status \in Statuses /\ e.time \in Nat /\ e.force = 0
  <2>1. e.status \in Statuses /\ e.time \in Nat
    BY <1>3 DEF NodeStates
  <2>2. PICK due \in BOOLEAN : due <=> node[n].beatTime + 1 >= BeatInterval
    OBVIOUS
  <2>3. TimerFields(n, e, due)
    BY <1>1, <2>2, ElapsedFields
  <2> QED BY <1>1, <2>1, <2>3 DEF TimerFields
<1> HIDE DEF e, next, w, N, S
<1>11. ~again => /\ w.status = next
                 /\ next = e.status => /\ w.time = e.time /\ w.accepted = e.accepted
                                       /\ w.primary = e.primary
                 /\ next # e.status => w.time = 0 /\ w.accepted = 0
                 /\ next # e.status /\ next # "primary" =>
                      w.primary = Deactivated(n, e).primary
                 /\ w.force = 0 /\ w.age = e.age /\ w.dead = e.dead /\ w.beatTime = e.beatTime
  <2> DEFINE a == Activate(n, e, next)
  <2>1. /\ a.status = next
        /\ next = e.status => a.time = e.time /\ a.accepted = e.accepted /\ a.primary = e.primary
        /\ next # e.status => a.time = 0 /\ a.accepted = 0
        /\ next # e.status /\ next # "primary" => a.primary = Deactivated(n, e).primary
    BY <1>3, <1>7, ActivateFields
  <2>2. a.force = 0 /\ a.age = e.age /\ a.dead = e.dead /\ a.beatTime = e.beatTime
    BY <1>3, <1>7, ActivateRest
  <2>3. ~again => w = a
    BY DEF w
  <2> HIDE DEF a, again
  <2> QED BY <2>1, <2>2, <2>3
<1>12. /\ e.status # "primary" => Deactivated(n, e) = e
       /\ Deactivated(n, e).primary = e.primary \/ e.primary = n
  BY <1>3, DeactivatedPrimary DEF Deactivated
<1>13. /\ next = e.status \/ next \notin {"vote", "announce"} => msgs' = S
       /\ next # e.status /\ next = "announce" =>
            msgs' = S \cup OnWire(Launch(n, Deactivated(n, e), 2))
       /\ next # e.status /\ next = "vote" =>
            msgs' = S \cup OnWire(Launch(n, Deactivated(n, e), 1))
  BY <1>4 DEF Sent, OnWire, AnnounceActive, VoteActive
<1>14. PICK R, H : Between(R, Clock(R, ticked \cup {n}), H, N, S, cut, n)
  BY <1>5
<1> DEFINE k == Clock(R, ticked \cup {n})
<1>15. Between(R, k, H, N, S, cut, n) /\ \A x \in S : x.from \in Nodes
  BY <1>5, <1>14 DEF BetweenMsgs
<1>16. SpanOK(k, H, N, n)
  BY <1>15 DEF Between, Core, NodeOK
<1>17. VoteTime \in Nat /\ VoteTime > 0
  BY TimesFacts
<1>18. TimesApart /\ Sized(N) /\ Sized(node') /\ BetweenMsgs(N, S, n)
  BY <1>2, <1>5
<1> HIDE DEF k
<1>19. ASSUME again PROVE \E H1 : Kept(R, k, H1, node', msgs', cut)
  <2>1. N[n].status = "primary" /\ N[n].time = VoteTime
    <3>1. N[n].status = "primary" /\ N[n].time <= VoteTime /\ VoteTime <= N[n].time
      BY <1>6, <1>16, <1>19 DEF SpanOK
    <3> QED BY <1>6, <1>10, <1>17, <3>1
  <2>2. Most({n} \cup {c \in Peers(n) : N[n].age[c] < BreakTime})
    BY <1>3, <1>6, <1>8, <1>19, AliveMost
  <2>3. w = [e EXCEPT !.time = 0]
    BY <1>19 DEF w
  <2>4. /\ w.status = e.status /\ w.time = 0 /\ w.force = e.force /\ w.beatTime = e.beatTime
        /\ w.age = e.age /\ w.dead = e.dead /\ w.primary = e.primary
    BY <1>3, <2>3 DEF NodeStates
  <2>5. Wins(N, node', n) /\ node'[n].primary = N[n].primary
    BY <1>6, <1>10, <2>1, <2>4 DEF Wins
  <2>6. msgs' = S
    BY <1>13, <1>19
  <2>7. Kept(R, k, H, node', S, cut)
    BY <1>15, <1>18, <2>1, <2>2, <2>5, BetweenCheck
  <2> QED BY <2>6, <2>7
<1>20. ASSUME ~again, next = e.status \/ next \in {"sec", "silence"}
       PROVE \E H1 : Kept(R, k, H1, node', msgs', cut)
  <2>1. /\ \/ w.status = e.status /\ w.time = e.time /\ w.accepted = e.accepted
           \/ w.status \in {"sec", "silence"} /\ w.time = 0
        /\ e.status = "silence" => \/ w.status = "silence" /\ w.time = e.time
                                   \/ e.time >= SilenceTime
    BY <1>8, <1>9, <1>11, <1>20
  <2>2. \A p \in Peers(n) : e.primary = p => w.primary = p
    BY <1>11, <1>12, <1>20 DEF Peers
  <2>3. w.force = 0 /\ w.age = e.age /\ w.dead = e.dead /\ w.beatTime = e.beatTime
    BY <1>11, <1>20
  <2>4. TimerCalm(N, node', n)
    BY <1>6, <2>1, <2>2, <2>3 DEF TimerCalm
  <2>5. InTime(node', n)
    <3>1. w.status = "vote" => e.status = "vote" /\ w.time < VoteTime
      BY <1>8, <1>11, <1>20
    <3>2. w.status = "announce" => e.status = "announce" /\ w.time < VoteTime
      BY <1>8, <1>11, <1>20
    <3>3. w.status = "primary" => w.time < VoteTime
      BY <1>10, <1>11, <1>17, <1>20
    <3> QED BY <1>6, <3>1, <3>2, <3>3 DEF InTime
  <2>6. msgs' = S
    BY <1>13, <1>20
  <2>7. Kept(R, k, H, node', S, cut)
    BY <1>15, <1>18, <2>4, <2>5, BetweenCalm
  <2> QED BY <2>6, <2>7
<1> DEFINE yes == IF e.primary = None THEN {n} ELSE {}
<1>21. (e.primary = None => yes = {n}) /\ (e.primary # None => yes = {})
  OBVIOUS
<1>22. e.status \in {"sec", "vote"} => yes = {} \/ (yes = {n} /\ Free(N, S, n))
  BY <1>6, <1>18 DEF Free, BeatTo, BetweenMsgs
<1> HIDE DEF yes
<1>23. ASSUME e.status = "sec", next = "vote"
       PROVE \E H1 : Kept(R, k, H1, node', msgs', cut)
  <2>1. msgs' = S \cup OnWire(Launch(n, e, 1)) /\ w.primary = e.primary /\ ~again
    BY <1>11, <1>12, <1>13, <1>23
  <2>2. /\ S \subseteq msgs'
        /\ \A x \in msgs' \ S : /\ x.type = "ballot" /\ x.round = 1 /\ x.from = n
                                /\ {x.from, x.to} \notin cut
        /\ Sends(S, msgs', n, yes)
    BY <1>3, <1>21, <2>1, LaunchSends
  <2>3. Polled(n, 1, S) = {}
    BY <1>15 DEF Between
  <2>4. Enters(N, node', S, msgs', cut, n, "vote", 1) /\ node'[n].accepted = 0
    BY <1>6, <1>11, <1>23, <2>1, <2>2, <2>3 DEF Enters
  <2>5. N[n].status = "sec" /\ (yes = {} \/ (yes = {n} /\ Free(N, S, n)))
    BY <1>6, <1>22, <1>23
  <2> QED BY <1>15, <1>18, <2>2, <2>4, <2>5, BetweenVote
<1>24. ASSUME e.status = "vote", next = "announce"
       PROVE \E H1 : Kept(R, k, H1, node', msgs', cut)
  <2>1. msgs' = S \cup OnWire(Launch(n, e, 2)) /\ w.primary = e.primary /\ ~again
    BY <1>11, <1>12, <1>13, <1>24
  <2>2. /\ S \subseteq msgs'
        /\ \A x \in msgs' \ S : /\ x.type = "ballot" /\ x.round = 2 /\ x.from = n
                                /\ {x.from, x.to} \notin cut
        /\ Sends(S, msgs', n, yes)
    BY <1>3, <1>21, <2>1, LaunchSends
  <2>3. Polled(n, 2, S) = {}
    BY <1>15 DEF Between
  <2>4. Enters(N, node', S, msgs', cut, n, "announce", 2) /\ node'[n].accepted = 0
    BY <1>6, <1>11, <1>24, <2>1, <2>2, <2>3 DEF Enters
  <2>5. N[n].status = "vote" /\ (yes = {} \/ (yes = {n} /\ Free(N, S, n)))
    BY <1>6, <1>22, <1>24
  <2>6. ~(N[n].time < VoteTime) /\ IsMajority(N[n].accepted + 1)
    BY <1>6, <1>8, <1>24
  <2> QED BY <1>15, <1>18, <2>2, <2>4, <2>5, <2>6, BetweenAnnounce
<1>25. ASSUME e.status = "announce", next = "primary"
       PROVE \E H1 : Kept(R, k, H1, node', msgs', cut)
  <2>1. ~again /\ msgs' = S
    BY <1>13, <1>25
  <2>2. Wins(N, node', n)
    BY <1>6, <1>11, <1>25, <2>1 DEF Wins
  <2>3. N[n].status = "announce" /\ ~(N[n].time < VoteTime) /\ IsMajority(N[n].accepted + 1)
    BY <1>6, <1>8, <1>25
  <2>4. \E H1 : Kept(R, k, H1, node', S, cut)
    BY <1>15, <1>18, <2>2, <2>3, BetweenWon
  <2> QED BY <2>1, <2>4
<1>26. \E H1 : Kept(R, k, H1, node', msgs', cut)
  <2>1. \/ next = e.status \/ next \in {"sec", "silence"}
        \/ e.status = "sec" /\ next = "vote"
        \/ e.status = "vote" /\ next = "announce"
        \/ e.status = "announce" /\ next = "primary"
    BY <1>8, <1>10 DEF Statuses
  <2> HIDE DEF again
  <2> QED BY <1>19, <1>20, <1>23, <1>24, <1>25, <2>1
<1>27. NoForce'
  <2>1. \A x \in OnWire(Sent(n, e, next)) : x.type = "ballot"
    BY DEF OnWire, Sent, VoteActive, AnnounceActive, Launch
  <2>2. \A x \in S : x \in msgs \/ x.type = "beat"
    BY <1>1, BeatenFacts DEF S
  <2> QED BY <1>1, <1>4, <2>1, <2>2 DEF NoForce
<1> QED BY <1>2, <1>4, <1>26, <1>27 DEF OneInv, k

-----------------------------------------------------------------------------

(* A group starts silent. *)
LEMMA OneInit ==
  ASSUME TimesApart, \A s \in Scenarios : s.faults.up = 0, Init
  PROVE OneInv
<1> DEFINE k == Clock(0, ticked)
           H == [n \in Nodes |-> [asked1 |-> 0, yes1 |-> {}, asked2 |-> 0, yes2 |-> {}, won |-> 0,
                                  told |-> [m \in Nodes |-> -1], began |-> 0]]
<1>1. Inv /\ NoForce
  <2>1. Inv
    BY InvInit
  <2>2. msgs = {} /\ left.up = 0
    BY DEF Init
  <2> QED BY <2>1, <2>2 DEF NoForce
<1>2. \A n \in Nodes :
        /\ node[n].status = "silence" /\ node[n].time = 0 /\ node[n].force = 0
        /\ node[n].beatTime = 0
        /\ \A m \in Peers(n) : node[n].dead[m] = 0
  BY DEF Init, Started, FirstStatus
<1>3. H \in [Nodes -> Histories]
  BY DEF Histories
<1>4. \A n \in Nodes : /\ H[n].asked1 = 0 /\ H[n].asked2 = 0
                       /\ \A m \in Nodes : H[n].told[m] = -1
  OBVIOUS
<1>5. k \in [Nodes -> Int] /\ \A n \in Nodes : k[n] = 0
  BY DEF Init, Clock
<1>6. msgs = {} /\ cut = {}
  BY DEF Init
<1> HIDE DEF k, H
<1>7. ASSUME NEW n \in Nodes PROVE NodeOK(0, k, H, node, msgs, cut, n)
  <2>1. ClockOK(0, k, H, node, cut, n)
    <3>1. BeatInterval \in Nat /\ BeatInterval > 0
      BY TimesFacts
    <3> QED BY <1>2, <1>4, <1>5, <3>1 DEF ClockOK, LastBeat
  <2>2. PollsOK(0, k, H, node, msgs, n)
    BY <1>6 DEF PollsOK, Polled
  <2>3. SpanOK(k, H, node, n) /\ ReignOK(k, H, node, n)
    BY <1>2 DEF SpanOK, ReignOK
  <2> QED BY <2>1, <2>2, <2>3 DEF NodeOK
<1>8. ASSUME NEW p \in Nodes, NEW c \in Peers(p) PROVE PairOK(k, H, node, msgs, cut, p, c)
  BY <1>2 DEF PairOK, ToldOK, RivalsOK, ChallengeOK, Peers
<1>9. Core(0, k, H, node, msgs, cut)
  BY <1>2, <1>3, <1>5, <1>6, <1>7, <1>8 DEF Core, Alone
<1>10. ASSUME NEW n \in Nodes
       PROVE TallyOK(H, node, msgs, n) /\ HushOK(k, H, node, n) /\ InTime(node, n)
  BY <1>2 DEF TallyOK, HushOK, InTime
<1>11. Kept(0, k, H, node, msgs, cut)
  BY <1>9, <1>10 DEF Kept
<1> QED BY <1>1, <1>11 DEF OneInv, k

(* Every step keeps the invariant. *)
LEMMA OneNext ==
  ASSUME TimesApart, OneInv, TimelyStepDowns, cut \subseteq cut', Next
  PROVE OneInv'
<1>1. NoForce
  BY DEF OneInv
<1>2. CASE HandleBeats
  <2>1. PICK x \in msgs : \/ x.type = "beat" /\ HandleBeat(x.to, x)
                          \/ x.type = "beatRes" /\ HandleBeatRes(x.to, x)
    BY <1>2 DEF HandleBeats
  <2> QED BY <2>1, BeatOne, BeatResOne
<1>3. CASE BeatsDone /\ HandleMsg
  <2>1. PICK x \in msgs : \/ x.type = "ballot" /\ HandleBallot(x.to, x)
                          \/ x.type = "reply" /\ HandleReply(x.to, x)
                          \/ x.type = "stepDown" /\ HandleStepDown(x.to, x)
                          \/ x.type = "stepUp" /\ HandleStepUp(x.to, x)
    BY <1>3 DEF HandleMsg
  <2>2. x.type # "stepUp"
    BY <1>1 DEF NoForce
  <2> QED BY <1>3, <2>1, <2>2, BallotOne, ReplyOne, StepDownOne
<1>4. CASE BeatsDone /\ \E n \in Nodes : Timer(n)
  BY <1>4, TimerOne
<1>5. CASE BeatsDone /\ EndRound
  BY <1>5, EndRoundOne
<1>6. CASE BeatsDone /\ Environment
  <2>1. PICK n \in Nodes : \/ Reelect(n) \/ StepDown(n) \/ ReelectFailed(n)
                           \/ StepUp(n) \/ Restart(n) \/ Synchronise(n)
                           \/ \E m \in Peers(n) : AliveNode(n, m)
    BY <1>6 DEF Environment
  <2>2. ~StepUp(n)
    BY <1>1 DEF NoForce, StepUp
  <2> QED BY <1>6, <2>1, <2>2, ReelectOne, RestartOne, SynchroniseOne, AliveNodeOne
<1> QED BY <1>2, <1>3, <1>4, <1>5, <1>6 DEF Next, Protocol

(* A step that changes nothing. *)
LEMMA OneStutter == OneInv /\ UNCHANGED vars => OneInv'
<1> SUFFICES ASSUME OneInv, UNCHANGED vars PROVE OneInv'
  OBVIOUS
<1>1. UNCHANGED <<node, msgs, ticked, cut, left>> /\ Inv'
  BY InvNext DEF OneInv, vars
<1> QED BY <1>1 DEF OneInv, NoForce

(* The invariant leaves room for one primary. *)
LEMMA OnePrimary == OneInv => AtMostOnePrimary
<1> SUFFICES ASSUME OneInv PROVE AtMostOnePrimary
  OBVIOUS
<1>1. \A p, q \in Primaries : p = q
  BY OneFacts DEF Alone, Primaries
<1>2. CASE Primaries = {}
  BY <1>2, FS_EmptySet DEF AtMostOnePrimary
<1>3. CASE Primaries # {}
  <2>1. PICK p : p \in Primaries
    BY <1>3
  <2>2. Primaries = {p}
    BY <1>1, <2>1
  <2> QED BY <2>2, FS_Singleton DEF AtMostOnePrimary
<1> QED BY <1>2, <1>3

(* There are no terms: that a group has one primary at most rests on how long a
   vote, an announcement, silence and the break of a peer take.  With links that
   do not heal, step-downs that do not reach silent nodes and no forced step-up,
   TimesApart is enough, whatever restarts, losses and orders of messages. *)
THEOREM OnePrimaryAtMost ==
  ASSUME TimesApart, \A s \in Scenarios : s.faults.up = 0
  PROVE Spec /\ [][cut \subseteq cut']_vars /\ []TimelyStepDowns => []AtMostOnePrimary
<1>1. Init => OneInv
  BY OneInit
<1>2. OneInv /\ [Next]_vars /\ [cut \subseteq cut']_vars /\ TimelyStepDowns => OneInv'
  <2> SUFFICES ASSUME OneInv, [Next]_vars, [cut \subseteq cut']_vars, TimelyStepDowns
               PROVE OneInv'
    OBVIOUS
  <2>1. CASE UNCHANGED vars
    BY <2>1, OneStutter
  <2>2. CASE ~UNCHANGED vars
    BY <2>2, OneNext
  <2> QED BY <2>1, <2>2
<1>3. OneInv => AtMostOnePrimary
  BY OnePrimary
<1> QED BY <1>1, <1>2, <1>3, PTL DEF Spec

-----------------------------------------------------------------------------
(* A node that stepped down lets others win. *)

(* What a stepped-down n is waited for: a beat with its shadow weight is due no
   later than it may vote. *)
Early(v) == v.status \in {"sec", "silence"} /\ v.time <= v.beatTime

(* The state v of n among the messages S, the timers T that fired and the links
   C that are cut: beats are regular and go over all links that are up, the
   messages of a first round are gone when the timer fires next, and a node that
   stepped down has no vote. *)
Abides(n, v, S, T, C) ==
  /\ v.beatTime < BeatInterval /\ v.force = 0
  /\ \A m \in Peers(n) : v.dead[m] > 0 => {n, m} \in C
  /\ Polled(n, 1, S) # {} => n \in T
  /\ v.stepped =>
       /\ v.status \in {"sec", "vote", "silence"}
       /\ \A x \in S : x.type = "beat" /\ x.from = n => x.weight = 0
       /\ v.status = "vote" =>
            v.accepted = 0 /\ \A x \in S : x.type = "reply" /\ x.to = n /\ x.round = 1 => ~x.ok

(* A beat of n is on the way to c. *)
Beating(n, c, S) == \E x \in S : x.type = "beat" /\ x.from = n /\ x.to = c

(* Peer c of n knows that n stepped down, or will before it is asked. *)
Aware(n, c, N, S, C) ==
  N[n].stepped /\ {n, c} \notin C =>
    N[c].beat[n].weight = 0 \/ Beating(n, c, S) \/ Early(N[n])

(* All logs are equal, also on the ballots. *)
LevelLogs ==
  /\ \A m, n \in Nodes : lsn[m] = lsn[n]
  /\ \A x \in msgs : x.type = "ballot" => x.lsn = lsn[x.from]

(* The invariant. *)
YieldInv ==
  /\ Inv /\ NoForce /\ LevelLogs
  /\ \A n \in Nodes : Abides(n, node[n], msgs, ticked, cut)
  /\ \A n \in Nodes : \A c \in Peers(n) : Aware(n, c, node, msgs, cut)

(* A step-down does not come so late that it finds a secondary, whose time-out
   it would not put off. *)
PromptStepDowns == \A x \in msgs : x.type = "stepDown" => node[x.to].status # "sec"

(* What StepDownYields says of a step. *)
Yielded == \A n \in Nodes : node[n].stepped => n \notin Primaries' \ Primaries

(* What a change of the status leaves alone, and who wins forgets that it stepped
   down. *)
LEMMA ActivateBeats ==
  ASSUME NEW n \in Nodes, NEW v \in Counting(n), NEW next \in Statuses
  PROVE /\ Activate(n, v, next).beat = v.beat
        /\ Activate(n, v, next).stepped => v.stepped
<1>1. CASE next = v.status
  <2>1. Activate(n, v, next) = [v EXCEPT !.force = 0]
    BY <1>1 DEF Activate
  <2> QED BY <2>1 DEF Counting
<1>2. CASE next # v.status
  <2> DEFINE d == Deactivated(n, v)
             w == [d EXCEPT !.status = next, !.time = 0, !.accepted = 0, !.force = 0]
  <2>1. d \in Counting(n) /\ d.beat = v.beat /\ d.stepped = v.stepped
    BY DEF Deactivated, Counting
  <2>2. Activate(n, v, next) = IF next = "primary" THEN PrimaryActive(n, w) ELSE w
    BY <1>2 DEF Activate
  <2> HIDE DEF d
  <2>3. w.beat = d.beat /\ w.stepped = d.stepped /\ DOMAIN w = DOMAIN d
    BY <2>1 DEF Counting
  <2> HIDE DEF w
  <2>4. PrimaryActive(n, w).beat = w.beat /\ ~PrimaryActive(n, w).stepped
    BY <2>1, <2>3 DEF PrimaryActive, Counting
  <2> QED BY <2>1, <2>2, <2>3, <2>4
<1> QED BY <1>1, <1>2

(* The new state w of k, when no timer fires: it keeps its vote status and time,
   or waits from now on. *)
Gentle(k, w) ==
  /\ w.beatTime < BeatInterval /\ w.force = 0
  /\ node[k].stepped => w.status # "primary"
  /\ \A m \in Peers(k) : w.dead[m] > 0 => {k, m} \in cut
  /\ \A m \in Peers(k) : node[m].stepped => w.beat[m].weight \in {node[k].beat[m].weight, 0}
  /\ w.stepped =>
       /\ w.beatTime = node[k].beatTime
       /\ \/ /\ node[k].stepped /\ w.status = node[k].status /\ w.time = node[k].time
             /\ w.accepted = node[k].accepted
          \/ /\ w.status \in {"sec", "silence"} /\ w.time = 0
             /\ node[k].stepped \/ \A x \in msgs : ~(x.type = "beat" /\ x.from = k)

(* The messages then: no beats and no first round, and nobody accepts a node that
   stepped down. *)
GentleMsgs ==
  /\ \A x \in msgs' : x \notin msgs =>
       /\ x.type # "beat"
       /\ x.type = "ballot" => x.lsn = lsn[x.from] /\ x.round # 1
       /\ x.type = "reply" /\ x.round = 1 =>
            /\ Polled(x.to, 1, msgs) # {}
            /\ x.ok => ~(node'[x.to].stepped /\ node'[x.to].status = "vote")
  /\ \A x \in msgs : x.type = "beat" /\ node[x.from].stepped =>
       x \in msgs' \/ node'[x.to].beat[x.from].weight = 0

(* Such a step keeps the invariant, and nobody wins who stepped down. *)
LEMMA GentleYield ==
  ASSUME YieldInv, Inv', NoForce', NEW k \in Nodes, NEW w, node' = [node EXCEPT ![k] = w],
         lsn' = lsn, ticked' = ticked, cut' = cut, Gentle(k, w), GentleMsgs
  PROVE YieldInv' /\ Yielded
<1>1. /\ \A n \in Nodes : node'[n] = IF n = k THEN w ELSE node[n]
      /\ \A n \in Nodes : node[n].time \in Nat /\ node[n].beatTime \in Nat
                          /\ node'[n].beatTime \in Nat
  <2>1. Inv /\ DOMAIN node = Nodes /\ \A n \in Nodes : node[n] \in NodeStates(n)
    BY InvParts DEF YieldInv
  <2>2. \A n \in Nodes : node'[n] \in NodeStates(n)
    BY DEF Inv, TypeOK
  <2> QED BY <2>1, <2>2, Bounds DEF NodeStates
<1>2. LevelLogs'
  BY DEF YieldInv, LevelLogs, GentleMsgs
<1>3. ASSUME NEW n \in Nodes PROVE Abides(n, node'[n], msgs', ticked', cut')
  <2>0. Abides(n, node[n], msgs, ticked, cut)
    BY DEF YieldInv
  <2>1. Polled(n, 1, msgs') # {} => Polled(n, 1, msgs) # {}
    BY DEF Polled, GentleMsgs
  <2>2. node'[n].stepped =>
          \A x \in msgs' : x.type = "beat" /\ x.from = n => x \in msgs /\ x.weight = 0
    <3>1. CASE node[n].stepped
      BY <2>0, <3>1 DEF Abides, GentleMsgs
    <3>2. CASE ~node[n].stepped
      BY <1>1, <3>2 DEF Gentle, GentleMsgs
    <3> QED BY <3>1, <3>2
  <2>3. node'[n].stepped =>
          /\ node'[n].status \in {"sec", "vote", "silence"}
          /\ node'[n].status = "vote" =>
               node[n].stepped /\ node[n].status = "vote" /\ node'[n].accepted = node[n].accepted
    BY <1>1, <2>0 DEF Abides, Gentle
  <2>4. node'[n].stepped /\ node'[n].status = "vote" =>
          \A x \in msgs' : x.type = "reply" /\ x.to = n /\ x.round = 1 => ~x.ok
    BY <2>0, <2>3 DEF Abides, GentleMsgs
  <2>5. /\ node'[n].beatTime < BeatInterval /\ node'[n].force = 0
        /\ \A m \in Peers(n) : node'[n].dead[m] > 0 => {n, m} \in cut'
    BY <1>1, <2>0 DEF Abides, Gentle
  <2>6. node'[n].stepped /\ node'[n].status = "vote" => node'[n].accepted = 0
    BY <2>0, <2>3 DEF Abides
  <2> QED BY <2>0, <2>1, <2>2, <2>3, <2>4, <2>5, <2>6 DEF Abides
<1>4. ASSUME NEW n \in Nodes, NEW c \in Peers(n) PROVE Aware(n, c, node', msgs', cut')
  <2> SUFFICES ASSUME node'[n].stepped, {n, c} \notin cut
               PROVE node'[c].beat[n].weight = 0 \/ Beating(n, c, msgs') \/ Early(node'[n])
    BY DEF Aware
  <2>1. c \in Nodes /\ n \in Peers(c) /\ Aware(n, c, node, msgs, cut)
    BY DEF Peers, YieldInv
  <2>2. Early(node'[n]) \/ (node[n].stepped /\ (Early(node[n]) => Early(node'[n])))
    BY <1>1 DEF Gentle, Early
  <2>3. node[n].stepped /\ node[c].beat[n].weight = 0 => node'[c].beat[n].weight = 0
    BY <1>1, <2>1 DEF Gentle
  <2>4. node[n].stepped /\ Beating(n, c, msgs) =>
          Beating(n, c, msgs') \/ node'[c].beat[n].weight = 0
    BY DEF Beating, GentleMsgs
  <2> QED BY <2>1, <2>2, <2>3, <2>4 DEF Aware
<1>5. Yielded
  BY <1>1 DEF Yielded, Primaries, Gentle
<1> QED BY <1>2, <1>3, <1>4, <1>5 DEF YieldInv

(* What the invariant says of one node. *)
LEMMA YieldFacts ==
  ASSUME YieldInv, NEW n \in Nodes
  PROVE /\ Inv /\ NoForce /\ RestOK /\ DOMAIN node = Nodes
        /\ node[n] \in NodeStates(n) /\ node[n] \in Counting(n)
        /\ Abides(n, node[n], msgs, ticked, cut)
BY InvParts, CountingStates DEF YieldInv

(* Steps that change fields of a node the argument does not look at. *)
LEMMA FieldsYield ==
  ASSUME YieldInv, Inv', NoForce', NEW k \in Nodes, NEW w, node' = [node EXCEPT ![k] = w],
         lsn' = lsn, ticked' = ticked, cut' = cut,
         w.status = node[k].status, w.time = node[k].time, w.accepted = node[k].accepted,
         w.beatTime = node[k].beatTime, w.force = node[k].force, w.beat = node[k].beat,
         w.stepped = node[k].stepped,
         \A m \in Peers(k) : w.dead[m] \in {node[k].dead[m], 0},
         \A x \in msgs' : x \in msgs \/ x.type \notin {"ballot", "reply", "beat"},
         \A x \in msgs : x.type = "beat" => x \in msgs'
  PROVE YieldInv' /\ Yielded
<1>1. Abides(k, node[k], msgs, ticked, cut)
  BY YieldFacts
<1>2. Gentle(k, w)
  BY <1>1 DEF Gentle, Abides
<1>3. GentleMsgs
  BY DEF GentleMsgs
<1> QED BY <1>2, <1>3, GentleYield

(* A peer is heard of. *)
LEMMA AliveFields ==
  ASSUME NEW n \in Nodes, NEW v \in NodeStates(n), NEW m \in Peers(n), NEW w, w = Alive(v, m)
  PROVE /\ w.status = v.status /\ w.time = v.time /\ w.accepted = v.accepted
        /\ w.beatTime = v.beatTime /\ w.force = v.force /\ w.beat = v.beat
        /\ w.stepped = v.stepped /\ \A i \in Peers(n) : w.dead[i] \in {v.dead[i], 0}
<1>1. /\ w.status = v.status /\ w.time = v.time /\ w.accepted = v.accepted
      /\ w.beatTime = v.beatTime /\ w.force = v.force /\ w.beat = v.beat
      /\ w.stepped = v.stepped /\ w.dead = [v.dead EXCEPT ![m] = 0]
  BY DEF Alive, NodeStates
<1>2. DOMAIN v.dead = Peers(n)
  BY DEF NodeStates
<1> QED BY <1>1, <1>2

(* The answer to a beat. *)
LEMMA BeatResYield ==
  ASSUME YieldInv, NEW r \in msgs, r.type = "beatRes", HandleBeatRes(r.to, r)
  PROVE YieldInv' /\ Yielded
<1> DEFINE n == r.to
           m == r.from
           w == Alive(node[n], m)
<1>1. r \in Wire
  BY InvParts DEF RestOK, YieldInv
<1>2. n \in Nodes /\ m \in Peers(n)
  BY <1>1, WireKinds
<1>3. Inv /\ NoForce /\ node[n] \in NodeStates(n)
  BY <1>2, YieldFacts
<1>4. Inv'
  BY <1>3, BeatResInv
<1>5. /\ node' = [node EXCEPT ![n] = w] /\ msgs' = msgs \ {r}
      /\ UNCHANGED <<lsn, ticked, left, cut>>
  BY DEF HandleBeatRes
<1>6. NoForce'
  BY <1>3, <1>5 DEF NoForce
<1> HIDE DEF n, m
<1>7. /\ w.status = node[n].status /\ w.time = node[n].time /\ w.accepted = node[n].accepted
      /\ w.beatTime = node[n].beatTime /\ w.force = node[n].force /\ w.beat = node[n].beat
      /\ w.stepped = node[n].stepped /\ \A i \in Peers(n) : w.dead[i] \in {node[n].dead[i], 0}
  BY <1>2, <1>3, AliveFields
<1> HIDE DEF w
<1> QED BY <1>2, <1>4, <1>5, <1>6, <1>7, FieldsYield

(* A message of a replication session. *)
LEMMA AliveNodeYield ==
  ASSUME YieldInv, NEW n \in Nodes, NEW m \in Peers(n), AliveNode(n, m)
  PROVE YieldInv' /\ Yielded
<1> DEFINE w == Alive(node[n], m)
<1>1. Inv /\ NoForce /\ node[n] \in NodeStates(n)
  BY YieldFacts
<1>2. Inv'
  BY <1>1, AliveNodeInv
<1>3. node' = [node EXCEPT ![n] = w] /\ UNCHANGED <<lsn, ticked, left, msgs, cut>>
  BY DEF AliveNode
<1>4. NoForce'
  BY <1>1, <1>3 DEF NoForce
<1>5. /\ w.status = node[n].status /\ w.time = node[n].time /\ w.accepted = node[n].accepted
      /\ w.beatTime = node[n].beatTime /\ w.force = node[n].force /\ w.beat = node[n].beat
      /\ w.stepped = node[n].stepped /\ \A i \in Peers(n) : w.dead[i] \in {node[n].dead[i], 0}
  BY <1>1, AliveFields
<1> HIDE DEF w
<1> QED BY <1>2, <1>3, <1>4, <1>5, FieldsYield

(* Requests for a reelection. *)
LEMMA ReelectYield ==
  ASSUME YieldInv, NEW n \in Nodes, Reelect(n) \/ StepDown(n) \/ ReelectFailed(n)
  PROVE YieldInv' /\ Yielded
<1>1. Inv /\ NoForce /\ node[n] \in NodeStates(n)
  BY YieldFacts
<1>2. Inv'
  BY <1>1, ReelectInv
<1>3. \E r \in BOOLEAN : node' = [node EXCEPT ![n] = [node[n] EXCEPT !.reelecting = r]]
  BY <1>1, InvParts DEF Reelect, StepDown, ReelectFailed
<1>4. PICK r \in BOOLEAN : node' = [node EXCEPT ![n] = [node[n] EXCEPT !.reelecting = r]]
  BY <1>3
<1> DEFINE w == [node[n] EXCEPT !.reelecting = r]
<1>5. /\ w.status = node[n].status /\ w.time = node[n].time /\ w.accepted = node[n].accepted
      /\ w.beatTime = node[n].beatTime /\ w.force = node[n].force /\ w.beat = node[n].beat
      /\ w.stepped = node[n].stepped /\ w.dead = node[n].dead
  BY <1>1 DEF NodeStates
<1>6. UNCHANGED <<lsn, ticked, cut>> /\ left'.up = left.up
  <2>1. left \in Faults
    BY <1>1 DEF Inv, TypeOK
  <2> QED BY <2>1 DEF Reelect, StepDown, ReelectFailed, Faults
<1>7. (\A x \in msgs' : x \in msgs \/ x.type = "stepDown") /\ msgs \subseteq msgs'
  BY DEF Reelect, StepDown, ReelectFailed, Post
<1>8. NoForce'
  BY <1>1, <1>6, <1>7 DEF NoForce
<1>9. \A x \in msgs' : x \in msgs \/ x.type \notin {"ballot", "reply", "beat"}
  BY <1>7
<1>10. node' = [node EXCEPT ![n] = w] /\ lsn' = lsn /\ ticked' = ticked /\ cut' = cut
  BY <1>4, <1>6
<1> HIDE DEF w
<1> QED BY <1>2, <1>5, <1>7, <1>8, <1>9, <1>10, FieldsYield

(* A restart: the node has forgotten its step-down, and the weights of the others. *)
LEMMA RestartYield ==
  ASSUME YieldInv, NEW n \in Nodes, Restart(n)
  PROVE YieldInv' /\ Yielded
<1> DEFINE w == Started(n)
<1>1. Inv /\ NoForce /\ RestOK /\ DOMAIN node = Nodes
  BY YieldFacts
<1>2. Inv'
  BY <1>1, RestartInv
<1>3. /\ node' = [node EXCEPT ![n] = w] /\ msgs' = {x \in msgs : x.to # n}
      /\ UNCHANGED <<lsn, ticked, cut>>
  BY DEF Restart
<1>4. left'.up = left.up
  <2>1. left \in Faults
    BY <1>1 DEF Inv, TypeOK
  <2> QED BY <2>1 DEF Restart, Faults
<1>5. NoForce'
  BY <1>1, <1>3, <1>4 DEF NoForce
<1>6. /\ w.beatTime = 0 /\ w.force = 0 /\ ~w.stepped /\ w.status = "silence"
      /\ \A m \in Peers(n) : w.dead[m] = 0 /\ w.beat[m].weight = 0
  BY DEF Started, NoBeat, FirstStatus
<1> HIDE DEF w
<1>7. Gentle(n, w)
  BY <1>6, Bounds DEF Gentle
<1>8. GentleMsgs
  <2>1. \A x \in msgs : x.type = "beat" => x.from \in Peers(x.to)
    BY <1>1, WireKinds DEF RestOK
  <2> QED BY <1>1, <1>3, <1>6, <2>1 DEF GentleMsgs
<1> QED BY <1>2, <1>3, <1>5, <1>7, <1>8, GentleYield

(* A step-down: beats come before the next vote. *)
LEMMA StepDownYield ==
  ASSUME YieldInv, BeatsDone, PromptStepDowns, NEW x \in msgs, x.type = "stepDown",
         HandleStepDown(x.to, x)
  PROVE YieldInv' /\ Yielded
<1> DEFINE n == x.to
           v == [node[n] EXCEPT !.stepped = TRUE]
           w == Activate(n, v, "sec")
<1>1. n \in Nodes
  BY InvParts, WireKinds DEF RestOK, YieldInv
<1>2. Inv /\ NoForce /\ node[n] \in NodeStates(n) /\ Abides(n, node[n], msgs, ticked, cut)
  BY <1>1, YieldFacts
<1>3. /\ node' = [node EXCEPT ![n] = w] /\ msgs' = msgs \ {x}
      /\ UNCHANGED <<lsn, ticked, left, cut>> /\ node[n].status # "sec"
  BY DEF HandleStepDown, PromptStepDowns
<1>4. Inv'
  BY <1>2, StepDownInv
<1>5. NoForce'
  BY <1>2, <1>3 DEF NoForce
<1> HIDE DEF n
<1>6. v \in Counting(n) /\ v.status = node[n].status /\ v.beatTime = node[n].beatTime
      /\ v.dead = node[n].dead /\ v.beat = node[n].beat
  <2>1. v \in NodeStates(n) /\ v.status = node[n].status /\ v.beatTime = node[n].beatTime
        /\ v.dead = node[n].dead /\ v.beat = node[n].beat
    BY <1>2 DEF NodeStates
  <2> QED BY <1>1, <2>1, CountingStates
<1> HIDE DEF v
<1>7. /\ w.status = "sec" /\ w.time = 0 /\ w.force = 0 /\ w.dead = v.dead
      /\ w.beatTime = v.beatTime /\ w.beat = v.beat
  <2>1. "sec" # v.status /\ "sec" \in Statuses
    BY <1>3, <1>6 DEF Statuses
  <2> QED BY <1>1, <1>6, <2>1, ActivateFields, ActivateRest, ActivateBeats
<1> HIDE DEF w
<1>8. Gentle(n, w)
  BY <1>2, <1>6, <1>7 DEF Gentle, Abides, BeatsDone
<1>9. GentleMsgs
  BY <1>3 DEF GentleMsgs, BeatsDone
<1> QED BY <1>1, <1>3, <1>4, <1>5, <1>8, <1>9, GentleYield

(* A beat: who hears of a primary may vote again with its own weight. *)
LEMMA BeatYield ==
  ASSUME YieldInv, NEW b \in msgs, b.type = "beat", HandleBeat(b.to, b)
  PROVE YieldInv' /\ Yielded
<1> DEFINE n == b.to
           m == b.from
           said == [lsn |-> b.lsn, weight |-> b.weight, service |-> b.service]
           v == [node[n] EXCEPT !.beat[m] = said]
           heard == [v EXCEPT !.shift = FALSE, !.stepped = FALSE]
           yield == Activate(n, [heard EXCEPT !.primary = m], "silence")
           found == [Activate(n, heard, "silence") EXCEPT !.primary = m]
           lost == IF v.primary = m THEN [v EXCEPT !.primary = None] ELSE v
           after == CASE b.primary /\ v.primary = n -> IF Yields(n, b) THEN yield ELSE heard
                      [] b.primary /\ v.primary \notin {n, m} -> found
                      [] b.primary /\ v.primary = m -> heard
                      [] OTHER -> lost
           w == Alive(after, m)
<1>1. b \in Wire
  BY InvParts DEF RestOK, YieldInv
<1>2. /\ n \in Nodes /\ m \in Peers(n) /\ m \in Nodes /\ m # n
      /\ b.lsn \in Nat /\ b.weight \in 0 .. 100 /\ b.service \in {"normal", "abnormal"}
  BY <1>1, WireKinds DEF Peers
<1>3. /\ node' = [node EXCEPT ![n] = w]
      /\ msgs' = (msgs \ {b}) \cup OnWire({[type |-> "beatRes", from |-> n, to |-> m]})
      /\ UNCHANGED <<lsn, normal, ticked, cut, left>>
  BY DEF HandleBeat
<1>4. /\ Inv /\ NoForce /\ node[n] \in NodeStates(n) /\ DOMAIN node = Nodes
      /\ Abides(n, node[n], msgs, ticked, cut)
  BY <1>2, YieldFacts
<1>5. Inv'
  BY <1>4, BeatInv
<1>6. /\ \A x \in msgs' : x \in msgs \/ x.type = "beatRes"
      /\ \A x \in msgs : x \in msgs' \/ x = b
  BY <1>3 DEF OnWire
<1>7. NoForce'
  BY <1>3, <1>4, <1>6 DEF NoForce
<1>8. node[m].stepped => b.weight = 0
  BY <1>2, YieldFacts DEF Abides, m
<1> HIDE DEF n, m
<1> DEFINE Same(u) == /\ u.dead = node[n].dead /\ u.beatTime = node[n].beatTime
                      /\ u.force = 0 /\ u.beat = v.beat
           Stays(u) == /\ u.status = node[n].status /\ u.time = node[n].time
                       /\ u.accepted = node[n].accepted /\ u.stepped = node[n].stepped
<1>9. v \in NodeStates(n) /\ Same(v) /\ Stays(v) /\ v.primary = node[n].primary
      /\ v.beat = [node[n].beat EXCEPT ![m] = said]
  <2> DEFINE beats == [node[n].beat EXCEPT ![m] = said]
  <2>1. beats \in [Peers(n) -> Beats]
    BY <1>2, <1>4 DEF NodeStates, Beats
  <2>2. v = [node[n] EXCEPT !.beat = beats]
    BY <1>4 DEF NodeStates
  <2>3. node[n].force = 0
    BY <1>4 DEF Abides
  <2> HIDE DEF beats, v
  <2>4. v \in NodeStates(n) /\ Same(v) /\ Stays(v) /\ v.primary = node[n].primary
        /\ v.beat = beats
    BY <1>4, <2>1, <2>2, <2>3 DEF NodeStates
  <2> QED BY <2>4 DEF beats
<1> HIDE DEF v
<1>10. heard \in NodeStates(n) /\ Same(heard) /\ ~heard.stepped
       /\ heard.status = node[n].status
  BY <1>9 DEF NodeStates
<1> HIDE DEF heard
<1>11. Same(yield) /\ ~yield.stepped /\ DOMAIN yield = DOMAIN v /\ yield.status = "silence"
  <2> DEFINE u == [heard EXCEPT !.primary = m]
  <2>1. u \in NodeStates(n) /\ Same(u) /\ ~u.stepped
    BY <1>2, <1>10 DEF NodeStates
  <2>2. yield = Activate(n, u, "silence")
    OBVIOUS
  <2> HIDE DEF u, yield
  <2>3. u \in Counting(n) /\ "silence" \in Statuses
    BY <1>2, <2>1, CountingStates DEF Statuses
  <2>4. Same(yield) /\ ~yield.stepped /\ yield.status = "silence"
    BY <1>2, <2>1, <2>2, <2>3, ActivateFields, ActivateRest, ActivateBeats
  <2>5. DOMAIN yield = DOMAIN v
    BY <1>9, <2>1, <2>2 DEF Activate, Deactivated, PrimaryActive, NodeStates
  <2> QED BY <2>4, <2>5
<1>12. Same(found) /\ ~found.stepped /\ DOMAIN found = DOMAIN v /\ found.status = "silence"
  <2> DEFINE u == Activate(n, heard, "silence")
  <2>1. heard \in Counting(n) /\ "silence" \in Statuses
    BY <1>2, <1>10, CountingStates DEF Statuses
  <2>2. Same(u) /\ ~u.stepped /\ u.status = "silence"
    BY <1>2, <1>10, <2>1, ActivateFields, ActivateRest, ActivateBeats
  <2>3. DOMAIN u = DOMAIN v
    BY <1>9, <1>10 DEF Activate, Deactivated, PrimaryActive, NodeStates
  <2>4. found = [u EXCEPT !.primary = m]
    OBVIOUS
  <2> HIDE DEF u, found
  <2> QED BY <2>2, <2>3, <2>4
<1>13. lost \in NodeStates(n) /\ Same(lost) /\ Stays(lost)
  BY <1>9 DEF NodeStates
<1> HIDE DEF yield, found, lost
<1>14. Same(after) /\ (Stays(after) \/ ~after.stepped) /\ DOMAIN after = DOMAIN v
       /\ after.status \in {node[n].status, "silence"}
  BY <1>9, <1>10, <1>11, <1>12, <1>13 DEF NodeStates
<1> HIDE DEF after
<1>15. /\ w.status = after.status /\ w.time = after.time /\ w.accepted = after.accepted
       /\ w.beatTime = after.beatTime /\ w.force = after.force /\ w.beat = after.beat
       /\ w.stepped = after.stepped /\ w.dead = [after.dead EXCEPT ![m] = 0]
  BY <1>9, <1>14 DEF Alive, NodeStates
<1> HIDE DEF w
<1>16. \A i \in Peers(n) : /\ w.dead[i] \in {node[n].dead[i], 0}
                           /\ w.beat[i].weight = IF i = m THEN b.weight
                                                 ELSE node[n].beat[i].weight
  <2>1. DOMAIN node[n].dead = Peers(n) /\ DOMAIN node[n].beat = Peers(n)
    BY <1>4 DEF NodeStates
  <2> QED BY <1>2, <1>9, <1>14, <1>15, <2>1
<1>17. Gentle(n, w)
  <2>1. \A i \in Peers(n) : node[i].stepped => w.beat[i].weight \in {node[n].beat[i].weight, 0}
    BY <1>8, <1>16
  <2>2. \A i \in Peers(n) : w.dead[i] > 0 => {n, i} \in cut
    BY <1>4, <1>16 DEF Abides
  <2> QED BY <1>4, <1>14, <1>15, <2>1, <2>2 DEF Gentle, Abides
<1>18. GentleMsgs
  <2>1. node[m].stepped => node'[n].beat[m].weight = 0
    BY <1>2, <1>3, <1>4, <1>8, <1>16
  <2> QED BY <1>6, <2>1 DEF GentleMsgs, n, m
<1> QED BY <1>2, <1>3, <1>5, <1>7, <1>17, <1>18, GentleYield

(* A normal voter with the same log, which knows the shadow weight, refuses. *)
LEMMA AnswerRefuses ==
  ASSUME YieldInv, AllNormal, NEW c \in Nodes, NEW b \in msgs, b.type = "ballot",
         b.from \in Peers(c), node[c].beat[b.from].weight = 0
  PROVE Answer(c, b) # "accept"
<1>1. b.lsn = lsn[c] /\ normal[c]
  BY DEF YieldInv, LevelLogs, AllNormal, Peers
<1>2. Outranks(c, b.from)
  <2>1. Weight[c] \in 1 .. 100
    BY WeightAssumption
  <2>2. GetWeight(c) \in {0, Weight[c]}
    BY DEF GetWeight
  <2>3. 0 < GetWeight(c) \/ (0 = GetWeight(c) /\ 0 < Weight[c])
    BY <2>1, <2>2
  <2> QED BY <2>3 DEF Outranks
<1> QED BY <1>1, <1>2 DEF Answer

(* A ballot. *)
LEMMA BallotYield ==
  ASSUME YieldInv, BeatsDone, AllNormal, NEW b \in msgs, b.type = "ballot",
         HandleBallot(b.to, b)
  PROVE YieldInv' /\ Yielded
<1> DEFINE n == b.to
           cand == b.from
           v == [node[n] EXCEPT !.shift = IF node[n].status = "sec" THEN FALSE ELSE @]
           next == AfterBallot(n, b)
           w == Activate(n, v, next)
           out == IF v.status \in {"sec", "vote"} THEN Reply(n, b) ELSE {}
<1>1. b \in Wire
  BY InvParts DEF RestOK, YieldInv
<1>2. n \in Nodes /\ cand \in Peers(n) /\ cand \in Nodes /\ cand # n
  BY <1>1, WireKinds DEF Peers
<1>3. /\ node' = [node EXCEPT ![n] = w] /\ msgs' = (msgs \ {b}) \cup OnWire(out)
      /\ UNCHANGED <<lsn, ticked, left, cut>>
  BY DEF HandleBallot
<1>4. /\ Inv /\ NoForce /\ node[n] \in NodeStates(n) /\ DOMAIN node = Nodes
      /\ Abides(n, node[n], msgs, ticked, cut)
  BY <1>2, YieldFacts
<1>5. Inv'
  BY <1>4, BallotInv
<1>6. \A x \in msgs' \ msgs : x \in Reply(n, b) /\ {x.from, x.to} \notin cut
  <2>1. out \subseteq Reply(n, b)
    <3> HIDE DEF v
    <3> QED OBVIOUS
  <2> HIDE DEF out
  <2> QED BY <1>3, <2>1 DEF OnWire
<1>7. \A x \in Reply(n, b) : /\ x.type = "reply" /\ x.from = n /\ x.to = cand
                             /\ x.round = b.round /\ (Answer(n, b) # "accept" => ~x.ok)
  <2>1. ASSUME Answer(n, b) # "accept"
        PROVE \A x \in Reply(n, b) : x = [type |-> "reply", from |-> n, to |-> cand,
                                         round |-> b.round, ok |-> FALSE]
    BY <2>1 DEF Reply
  <2> QED BY <2>1 DEF Reply
<1> HIDE DEF n, cand
<1>8. /\ v \in Counting(n) /\ v.status = node[n].status /\ v.time = node[n].time
      /\ v.accepted = node[n].accepted /\ v.beatTime = node[n].beatTime
      /\ v.dead = node[n].dead /\ v.beat = node[n].beat /\ v.stepped = node[n].stepped
  <2> DEFINE shift == IF node[n].status = "sec" THEN FALSE ELSE node[n].shift
  <2>1. shift \in BOOLEAN
    BY <1>4 DEF NodeStates
  <2>2. v = [node[n] EXCEPT !.shift = shift]
    OBVIOUS
  <2> HIDE DEF shift, v
  <2> QED BY <1>4, <2>1, <2>2, GroupSize DEF NodeStates, Counting
<1>9. next \in Statuses /\ (next # v.status => next \in {"sec", "silence"})
  <2>1. SecondaryBallot(n, b) \in {"sec", "silence"}
    BY DEF SecondaryBallot
  <2>2. VoteBallot(n, b) \in {"vote", "sec", "silence"}
    BY DEF VoteBallot
  <2>3. node[n].status \in Statuses
    BY <1>4 DEF NodeStates
  <2> HIDE DEF v
  <2> QED BY <1>8, <2>1, <2>2, <2>3 DEF AfterBallot, Statuses
<1> HIDE DEF out, v, next
<1>10. /\ w.status = next /\ w.force = 0 /\ w.dead = v.dead /\ w.beatTime = v.beatTime
       /\ w.beat = v.beat /\ (w.stepped => v.stepped)
       /\ next = v.status => w.time = v.time /\ w.accepted = v.accepted
       /\ next # v.status => w.time = 0
  BY <1>2, <1>8, <1>9, ActivateFields, ActivateRest, ActivateBeats
<1> HIDE DEF w
<1>11. Gentle(n, w)
  <2>1. w.stepped => /\ node[n].stepped
                     /\ \/ /\ w.status = node[n].status /\ w.time = node[n].time
                           /\ w.accepted = node[n].accepted
                        \/ w.status \in {"sec", "silence"} /\ w.time = 0
    BY <1>8, <1>9, <1>10
  <2>2. w.force = 0 /\ w.dead = node[n].dead /\ w.beatTime = node[n].beatTime
        /\ w.beat = node[n].beat
    BY <1>8, <1>10
  <2>3. node[n].stepped => w.status # "primary"
    BY <1>4, <1>8, <1>9, <1>10 DEF Abides
  <2> QED BY <1>4, <2>1, <2>2, <2>3 DEF Gentle, Abides
<1>12. ASSUME NEW x \in msgs' \ msgs, x.ok, node'[cand].stepped, node'[cand].status = "vote"
       PROVE FALSE
  <2>1. node'[cand] = node[cand]
    BY <1>2, <1>3, <1>4
  <2>2. {cand, n} \notin cut
    <3>1. {x.from, x.to} = {cand, n}
      BY <1>6, <1>7, <1>12
    <3> QED BY <1>6, <1>12, <3>1
  <2>3. node[n].beat[cand].weight = 0
    <3>1. n \in Peers(cand)
      BY <1>2 DEF Peers
    <3>2. Aware(cand, n, node, msgs, cut)
      BY <1>2, <3>1 DEF YieldInv
    <3>3. ~Beating(cand, n, msgs) /\ ~Early(node[cand])
      BY <1>12, <2>1 DEF Beating, BeatsDone, Early
    <3> QED BY <1>12, <2>1, <2>2, <3>2, <3>3 DEF Aware
  <2>4. Answer(n, b) # "accept"
    BY <1>2, <2>3, AnswerRefuses DEF cand
  <2> QED BY <1>6, <1>7, <1>12, <2>4
<1>13. GentleMsgs
  <2>1. \A x \in msgs : x.type = "beat" => x \in msgs'
    BY <1>3
  <2>2. b.round = 1 => b \in Polled(cand, 1, msgs)
    BY DEF Polled, cand
  <2>3. ASSUME NEW x \in msgs', x \notin msgs
        PROVE /\ x.type = "reply" /\ x.to = cand /\ x.round = b.round
              /\ x.ok => ~(node'[cand].stepped /\ node'[cand].status = "vote")
    BY <1>6, <1>7, <1>12, <2>3
  <2> QED BY <2>1, <2>2, <2>3 DEF GentleMsgs
<1>14. NoForce'
  BY <1>3, <1>4, <1>6, <1>7 DEF NoForce
<1> QED BY <1>2, <1>3, <1>5, <1>11, <1>13, <1>14, GentleYield

(* Ballots carry the log of the candidate. *)
LEMMA SentBallots ==
  ASSUME NEW n, NEW v, NEW next
  PROVE \A x \in Sent(n, v, next) :
          /\ x.type = "ballot" /\ x.from = n /\ x.lsn = lsn[n] /\ next # v.status
          /\ x.round = 1 => next = "vote"
<1>1. ASSUME NEW u, NEW q, NEW x \in Launch(n, u, q)
      PROVE x.type = "ballot" /\ x.from = n /\ x.lsn = lsn[n] /\ x.round = q
  <2>1. Launch(n, u, q) \subseteq {[type |-> "ballot", from |-> n, to |-> m, round |-> q,
                                    lsn |-> lsn[n]] : m \in Alives(u)}
    BY DEF Launch
  <2>2. PICK m : x = [type |-> "ballot", from |-> n, to |-> m, round |-> q, lsn |-> lsn[n]]
    BY <1>1, <2>1
  <2> QED BY <2>2
<1>2. CASE next # v.status /\ next = "vote"
  BY <1>1, <1>2 DEF Sent, VoteActive
<1>3. CASE next # v.status /\ next = "announce"
  <2>1. \A x \in Sent(n, v, next) : x \in Launch(n, Deactivated(n, v), 2)
    BY <1>3 DEF Sent, AnnounceActive
  <2> QED BY <1>1, <1>3, <2>1
<1>4. CASE ~(next # v.status /\ next = "vote") /\ ~(next # v.status /\ next = "announce")
  BY <1>4 DEF Sent
<1> QED BY <1>2, <1>3, <1>4

(* A reply: who stepped down gets refusals only. *)
LEMMA ReplyYield ==
  ASSUME YieldInv, NEW r \in msgs, r.type = "reply", HandleReply(r.to, r)
  PROVE YieldInv' /\ Yielded
<1> DEFINE n == r.to
           s == node[n].status
           asked == s = (IF r.round = 1 THEN "vote" ELSE "announce")
           acc == IF asked /\ r.ok THEN node[n].accepted + 1 ELSE node[n].accepted
           v == [node[n] EXCEPT !.accepted = acc]
           next == CASE s = "vote" -> VoteReply(v, r)
                     [] s = "announce" -> AnnounceReply(v, r)
                     [] OTHER -> s
           w == Activate(n, v, next)
<1>1. r \in Wire
  BY InvParts DEF RestOK, YieldInv
<1>2. n \in Nodes /\ r.round \in {1, 2} /\ r.ok \in BOOLEAN
  BY <1>1, WireKinds
<1>3. /\ node' = [node EXCEPT ![n] = w] /\ msgs' = (msgs \ {r}) \cup OnWire(Sent(n, v, next))
      /\ UNCHANGED <<lsn, ticked, left, cut>>
  BY DEF HandleReply
<1>4. /\ Inv /\ NoForce /\ node[n] \in NodeStates(n) /\ DOMAIN node = Nodes
      /\ Abides(n, node[n], msgs, ticked, cut)
  BY <1>2, YieldFacts
<1>5. Inv'
  BY <1>4, ReplyInv
<1>6. node[n].stepped => /\ s \in {"sec", "vote", "silence"}
                         /\ s = "vote" /\ r.round = 1 => ~r.ok
  BY <1>4 DEF Abides
<1>7. node[n].stepped => acc = node[n].accepted /\ ~(r.round = 1 /\ r.ok /\ s = "vote")
  BY <1>2, <1>6
<1> HIDE DEF n
<1>8. /\ v \in Counting(n) /\ v.status = s /\ v.time = node[n].time
      /\ v.accepted = acc /\ v.beatTime = node[n].beatTime
      /\ v.dead = node[n].dead /\ v.beat = node[n].beat /\ v.stepped = node[n].stepped
  <2>1. acc \in Nat
    BY <1>4, GroupSize DEF NodeStates
  <2> HIDE DEF acc
  <2> QED BY <1>4, <2>1 DEF NodeStates, Counting
<1> HIDE DEF v, acc, asked
<1>9. \/ next = s
      \/ s = "vote" /\ next = "sec"
      \/ s = "announce" /\ next = "silence"
      \/ s = "vote" /\ r.round = 1 /\ r.ok /\ next = "announce"
      \/ s = "announce" /\ next = "primary"
  BY <1>2, <1>8, ReplyNext
<1>10. s \in Statuses
  BY <1>4 DEF NodeStates
<1> HIDE DEF s, next
<1>11. next \in Statuses
  BY <1>9, <1>10 DEF Statuses
<1>12. /\ w.status = next /\ w.force = 0 /\ w.dead = v.dead /\ w.beatTime = v.beatTime
       /\ w.beat = v.beat /\ (w.stepped => v.stepped)
       /\ next = v.status => w.time = v.time /\ w.accepted = v.accepted
       /\ next # v.status => w.time = 0
  BY <1>2, <1>8, <1>11, ActivateFields, ActivateRest, ActivateBeats
<1> HIDE DEF w
<1>13. Gentle(n, w)
  <2>1. w.stepped => node[n].stepped
    BY <1>8, <1>12
  <2>2. node[n].stepped => \/ next = s
                           \/ next = "sec" /\ s = "vote"
    BY <1>6, <1>7, <1>9
  <2>3. node[n].stepped => \/ /\ w.status = s /\ w.time = node[n].time
                              /\ w.accepted = node[n].accepted
                           \/ w.status \in {"sec", "silence"} /\ w.time = 0
    BY <1>7, <1>8, <1>12, <2>2
  <2>4. w.force = 0 /\ w.dead = node[n].dead /\ w.beatTime = node[n].beatTime
        /\ w.beat = node[n].beat
    BY <1>8, <1>12
  <2>5. w.stepped => \/ /\ w.status = node[n].status /\ w.time = node[n].time
                        /\ w.accepted = node[n].accepted
                     \/ w.status \in {"sec", "silence"} /\ w.time = 0
    BY <2>1, <2>3 DEF s
  <2>6. node[n].stepped => w.status # "primary"
    BY <1>6, <2>3
  <2> QED BY <1>4, <2>1, <2>4, <2>5, <2>6 DEF Gentle, Abides
<1>14. \A x \in msgs' \ msgs : /\ x.type = "ballot" /\ x.lsn = lsn[x.from] /\ x.round # 1
  <2>1. next = "vote" => next = v.status
    BY <1>8, <1>9
  <2>2. \A x \in msgs' \ msgs : x \in Sent(n, v, next)
    BY <1>3 DEF OnWire
  <2> QED BY <2>1, <2>2, SentBallots
<1>15. GentleMsgs
  BY <1>3, <1>14 DEF GentleMsgs
<1>16. NoForce'
  BY <1>3, <1>4, <1>14 DEF NoForce
<1> QED BY <1>2, <1>3, <1>5, <1>13, <1>15, <1>16, GentleYield

(* A new round begins when nothing is on the way, over no more links. *)
LEMMA EndRoundYield ==
  ASSUME YieldInv, EndRound, cut \subseteq cut'
  PROVE YieldInv' /\ Yielded
<1>1. Inv /\ NoForce
  BY DEF YieldInv
<1>2. Inv'
  BY <1>1, EndRoundInv
<1>3. node' = node /\ lsn' = lsn /\ msgs = {} /\ msgs' = {}
  BY DEF EndRound
<1>4. left'.up = left.up
  <2>1. left \in Faults
    BY <1>1 DEF Inv, TypeOK
  <2> QED BY <2>1 DEF EndRound, Faults
<1>5. NoForce'
  BY <1>1, <1>3, <1>4 DEF NoForce
<1>6. LevelLogs'
  BY <1>3 DEF YieldInv, LevelLogs
<1>7. ASSUME NEW n \in Nodes PROVE Abides(n, node'[n], msgs', ticked', cut')
  <2>1. Polled(n, 1, msgs') = {}
    BY <1>3 DEF Polled
  <2>2. Abides(n, node[n], msgs, ticked, cut)
    BY DEF YieldInv
  <2> QED BY <1>3, <2>1, <2>2 DEF Abides
<1>8. ASSUME NEW n \in Nodes, NEW c \in Peers(n) PROVE Aware(n, c, node', msgs', cut')
  BY <1>3 DEF YieldInv, Aware
<1>9. Yielded
  BY <1>3 DEF Yielded, Primaries
<1> QED BY <1>2, <1>5, <1>6, <1>7, <1>8, <1>9 DEF YieldInv

(* Replication has nothing to do between normal nodes with equal logs. *)
LEMMA SynchroniseYield ==
  ASSUME YieldInv, AllNormal, NEW n \in Nodes, Synchronise(n)
  PROVE FALSE
<1>1. node[n].primary \in Nodes
  <2>1. node[n] \in NodeStates(n)
    BY YieldFacts
  <2> QED BY <2>1 DEF NodeStates, Synchronise
<1> QED BY <1>1 DEF YieldInv, LevelLogs, AllNormal, Synchronise

(* What the timer does to the fields of a node that stepped down. *)
LEMMA ElapsedBeats ==
  ASSUME NEW n \in Nodes, node[n] \in NodeStates(n), SelfOK(n, node[n])
  PROVE /\ Elapsed(n).stepped = node[n].stepped
        /\ \A m \in Peers(n) : Elapsed(n).beat[m].weight = node[n].beat[m].weight
<1> DEFINE u == IF node[n].beatTime + 1 >= BeatInterval THEN AfterBeats(n)
                ELSE [node[n] EXCEPT !.beatTime = @ + 1]
<1>1. u \in NodeStates(n) /\ SelfOK(n, u) /\ u.beat = node[n].beat /\ u.stepped = node[n].stepped
  <2>1. CASE node[n].beatTime + 1 >= BeatInterval
    <3>1. u = AfterBeats(n) /\ u \in NodeStates(n) /\ SelfOK(n, u)
      BY <2>1, AfterBeatsOK
    <3> HIDE DEF u
    <3> QED BY <3>1 DEF AfterBeats, NodeStates
  <2>2. CASE ~(node[n].beatTime + 1 >= BeatInterval)
    <3>1. node[n].beatTime + 1 \in 0 .. BeatInterval
      BY <2>2, Bounds DEF NodeStates
    <3>2. u = [node[n] EXCEPT !.beatTime = node[n].beatTime + 1]
      BY <2>2
    <3> HIDE DEF u
    <3> QED BY <3>1, <3>2 DEF NodeStates, SelfOK
  <2> QED BY <2>1, <2>2
<1> HIDE DEF u
<1> DEFINE v == CheckBreak(u)
           ages == [m \in DOMAIN u.age |-> IF u.age[m] < BreakTime THEN u.age[m] + 1
                                           ELSE BreakTime]
           broken == {m \in Alives(u) : ages[m] = BreakTime}
<1>2. /\ v \in NodeStates(n) /\ v.stepped = u.stepped
      /\ \A m \in Peers(n) : v.beat[m].weight = u.beat[m].weight
  <2>1. v \in NodeStates(n)
    BY <1>1, CheckBreakOK
  <2>2. /\ v.stepped = u.stepped
        /\ v.beat = [m \in DOMAIN u.beat |->
                       IF m \in broken THEN [u.beat[m] EXCEPT !.service = "unknown"]
                       ELSE u.beat[m]]
    BY <1>1 DEF CheckBreak, NodeStates
  <2>3. DOMAIN u.beat = Peers(n) /\ \A m \in Peers(n) : u.beat[m] \in Beats
    BY <1>1 DEF NodeStates
  <2> HIDE DEF v, broken
  <2>4. \A m \in Peers(n) : [u.beat[m] EXCEPT !.service = "unknown"].weight = u.beat[m].weight
    BY <2>3 DEF Beats
  <2> QED BY <2>1, <2>2, <2>3, <2>4
<1> HIDE DEF v
<1> DEFINE p == Passed(v)
<1>3. p \in NodeStates(n) /\ p.stepped = v.stepped /\ p.beat = v.beat
  <2> DEFINE enough == IF VoteTime < StartShift THEN StartShift ELSE VoteTime
             time == IF v.status = "sec" /\ v.time >= enough THEN v.time ELSE v.time + 1
  <2>1. time \in Nat
    BY <1>2 DEF NodeStates
  <2>2. p = [v EXCEPT !.time = time]
    BY DEF Passed
  <2> HIDE DEF time, p
  <2> QED BY <1>2, <2>1, <2>2 DEF NodeStates
<1> HIDE DEF p
<1>4. Shifted(p).stepped = p.stepped /\ Shifted(p).beat = p.beat
  BY <1>3 DEF Shifted, NodeStates
<1>5. Elapsed(n) = Shifted(p)
  BY DEF Elapsed, Broken, u, v, p
<1> QED BY <1>1, <1>2, <1>3, <1>4, <1>5

(* What the beats of n say. *)
LEMMA SharedBeats ==
  ASSUME NEW n \in Nodes
  PROVE /\ \A x \in SharingBeats(n) : /\ x.type = "beat" /\ x.from = n
                                      /\ node[n].stepped => x.weight = 0
        /\ \A m \in Peers(n) : node[n].dead[m] = 0 =>
             \E x \in SharingBeats(n) : x.type = "beat" /\ x.from = n /\ x.to = m
<1> DEFINE Beat(m) == [type |-> "beat", from |-> n, to |-> m, primary |-> node[n].primary = n,
                       lsn |-> lsn[n], weight |-> GetWeight(n),
                       service |-> IF normal[n] THEN "normal" ELSE "abnormal"]
<1>1. \A m : /\ Beat(m).type = "beat" /\ Beat(m).from = n /\ Beat(m).to = m
             /\ Beat(m).weight = GetWeight(n)
  OBVIOUS
<1>2. node[n].stepped => GetWeight(n) = 0
  BY DEF GetWeight
<1>3. SharingBeats(n) = {Beat(m) : m \in {m \in Peers(n) : node[n].dead[m] = 0}}
  BY DEF SharingBeats
<1> HIDE DEF Beat
<1> QED BY <1>1, <1>2, <1>3

(* One vote, its own, is not a majority. *)
LEMMA OneIsFew == ~IsMajority(0 + 1)
BY GroupSize DEF IsMajority

(* The state w in which the timer leaves n. *)
Fires(n, w) ==
  /\ node' = [node EXCEPT ![n] = w]
  /\ w.force = 0 /\ (w.stepped => node[n].stepped)
  /\ w.beatTime = IF node[n].beatTime + 1 >= BeatInterval THEN 0 ELSE node[n].beatTime + 1
  /\ \A m \in Peers(n) : /\ w.dead[m] > 0 => node[n].dead[m] > 0 \/ {n, m} \in cut
                         /\ w.beat[m].weight = node[n].beat[m].weight
  /\ node[n].stepped =>
       \/ /\ w.status = node[n].status /\ w.time <= node[n].time + 1
          /\ w.accepted = node[n].accepted
       \/ w.status \in {"sec", "silence"} /\ w.time = 0
       \/ /\ node[n].status = "sec" /\ VoteTime <= node[n].time + 1
          /\ w.status = "vote" /\ w.accepted = 0

(* The timer leaves its node in such a state. *)
LEMMA TimerLeaves ==
  ASSUME YieldInv, NEW n \in Nodes, Timer(n)
  PROVE \E w : Fires(n, w)
<1> DEFINE e == Elapsed(n)
           next == AfterTimeout(n, e)
           again == next = "primary" /\ e.status = "primary" /\ VoteTime <= e.time
           w == IF again THEN [e EXCEPT !.time = 0] ELSE Activate(n, e, next)
           due == node[n].beatTime + 1 >= BeatInterval
<1>1. /\ Inv /\ node[n] \in NodeStates(n) /\ Abides(n, node[n], msgs, ticked, cut)
      /\ SelfOK(n, node[n])
  BY YieldFacts, InvParts
<1>2. node[n].force = 0 /\ Broken(n).force = 0
  BY <1>1, TimerState DEF Abides
<1>3. node' = [node EXCEPT ![n] = w]
  <2>1. ~(Broken(n).force > 0)
    BY <1>2
  <2> HIDE DEF again
  <2> QED BY <1>1, <2>1, TimerStep DEF again
<1>4. TimerFields(n, e, due)
  <2>1. due \in BOOLEAN
    OBVIOUS
  <2> QED BY <1>1, <2>1, ElapsedFields
<1>5. /\ e \in NodeStates(n) /\ e \in Counting(n) /\ next \in Statuses
      /\ e.status = node[n].status /\ e.accepted = node[n].accepted
      /\ \/ e.time = node[n].time + 1
         \/ node[n].status = "sec" /\ e.time = node[n].time /\ VoteTime <= node[n].time
  <2>1. e \in NodeStates(n)
    BY <1>1, TimerState
  <2> HIDE DEF e
  <2>2. e \in Counting(n) /\ next \in Statuses
    BY <2>1, CountingStates, TimeoutNext
  <2> QED BY <1>1, <2>1, <2>2, TimerState DEF e
<1>6. /\ e.stepped = node[n].stepped
      /\ \A m \in Peers(n) : e.beat[m].weight = node[n].beat[m].weight
  BY <1>1, ElapsedBeats
<1> HIDE DEF e
<1>7. /\ w.force = 0 /\ w.dead = e.dead /\ w.beatTime = e.beatTime /\ w.beat = e.beat
      /\ w.stepped => e.stepped
  <2>1. CASE again
    <3>1. w = [e EXCEPT !.time = 0] /\ e.force = 0
      BY <1>2, <1>4, <2>1 DEF TimerFields
    <3> HIDE DEF w
    <3> QED BY <1>5, <3>1 DEF NodeStates
  <2>2. CASE ~again
    <3>1. w = Activate(n, e, next)
      BY <2>2
    <3> HIDE DEF w, next
    <3> QED BY <1>5, <3>1, ActivateRest, ActivateBeats
  <2> QED BY <2>1, <2>2
<1>8. /\ w.beatTime = IF due THEN 0 ELSE node[n].beatTime + 1
      /\ \A m \in Peers(n) : /\ w.dead[m] > 0 => node[n].dead[m] > 0 \/ {n, m} \in cut
                             /\ w.beat[m].weight = node[n].beat[m].weight
  <2> HIDE DEF w
  <2> QED BY <1>4, <1>6, <1>7 DEF TimerFields
<1>9. ASSUME node[n].stepped
      PROVE \/ /\ w.status = node[n].status /\ w.time <= node[n].time + 1
               /\ w.accepted = node[n].accepted
            \/ w.status \in {"sec", "silence"} /\ w.time = 0
            \/ /\ node[n].status = "sec" /\ VoteTime <= node[n].time + 1
               /\ w.status = "vote" /\ w.accepted = 0
  <2>1. /\ node[n].status \in {"sec", "vote", "silence"}
        /\ node[n].status = "vote" => node[n].accepted = 0
    BY <1>1, <1>9 DEF Abides
  <2>2. w = Activate(n, e, next)
    BY <1>5, <2>1
  <2>3. /\ w.status = next
        /\ next = e.status => w.time = e.time /\ w.accepted = e.accepted
        /\ next # e.status => w.time = 0 /\ w.accepted = 0
    <3> HIDE DEF w, next
    <3> QED BY <1>5, <2>2, ActivateFields
  <2>4. node[n].time \in Nat /\ e.time \in Nat /\ VoteTime \in Nat
    BY <1>1, <1>5, Bounds DEF NodeStates
  <2> HIDE DEF w
  <2>5. e.time <= node[n].time + 1
    BY <1>5, <2>4
  <2>6. CASE node[n].status = "silence"
    <3>1. next \in {"sec", "silence"}
      BY <1>5, <2>6, TimeoutNext
    <3> QED BY <1>5, <2>3, <2>5, <2>6, <3>1
  <2>7. CASE node[n].status = "sec"
    <3>1. next = "sec" \/ (next = "vote" /\ VoteTime <= e.time)
      BY <1>5, <2>7, TimeoutNext
    <3>2. VoteTime <= e.time => VoteTime <= node[n].time + 1
      BY <2>4, <2>5
    <3> QED BY <1>5, <2>3, <2>5, <2>7, <3>1, <3>2
  <2>8. CASE node[n].status = "vote"
    <3>1. e.accepted = 0
      BY <1>5, <2>1, <2>8
    <3>2. next = "vote" \/ next = "sec" \/ (next = "announce" /\ IsMajority(e.accepted + 1))
      BY <1>5, <2>8, TimeoutNext
    <3>3. next = "vote" \/ next = "sec"
      BY <3>1, <3>2, OneIsFew
    <3> QED BY <1>5, <2>3, <2>5, <2>8, <3>3
  <2> QED BY <2>1, <2>6, <2>7, <2>8
<1>10. w.stepped => node[n].stepped
  BY <1>6, <1>7
<1>11. w.force = 0
  BY <1>7
<1> HIDE DEF w
<1>12. Fires(n, w)
  BY <1>3, <1>8, <1>9, <1>10, <1>11 DEF Fires
<1> QED BY <1>12

(* The timer: a beat is sent before the vote. *)
LEMMA TimerYield ==
  ASSUME YieldInv, BeatInterval <= VoteTime, NEW n \in Nodes, Timer(n)
  PROVE YieldInv' /\ Yielded
<1> DEFINE due == node[n].beatTime + 1 >= BeatInterval
           e == Elapsed(n)
           next == AfterTimeout(n, e)
<1>0. PICK w : Fires(n, w)
  BY TimerLeaves
<1>1. /\ node' = [node EXCEPT ![n] = w]
      /\ w.force = 0 /\ (w.stepped => node[n].stepped)
      /\ w.beatTime = IF due THEN 0 ELSE node[n].beatTime + 1
      /\ \A m \in Peers(n) : /\ w.dead[m] > 0 => node[n].dead[m] > 0 \/ {n, m} \in cut
                             /\ w.beat[m].weight = node[n].beat[m].weight
      /\ node[n].stepped =>
           \/ /\ w.status = node[n].status /\ w.time <= node[n].time + 1
              /\ w.accepted = node[n].accepted
           \/ w.status \in {"sec", "silence"} /\ w.time = 0
           \/ /\ node[n].status = "sec" /\ VoteTime <= node[n].time + 1
              /\ w.status = "vote" /\ w.accepted = 0
  BY <1>0 DEF Fires
<1>2. /\ Inv /\ NoForce /\ node[n] \in NodeStates(n) /\ DOMAIN node = Nodes
      /\ Abides(n, node[n], msgs, ticked, cut) /\ SelfOK(n, node[n])
  BY YieldFacts, InvParts
<1>3. Inv'
  BY <1>2, TimerInv
<1>4. /\ n \notin ticked /\ ticked' = ticked \cup {n} /\ UNCHANGED <<lsn, cut, left>>
      /\ msgs' = msgs \cup OnWire((IF due THEN SharingBeats(n) ELSE {}) \cup Sent(n, e, next))
  <2>1. Broken(n).force = 0
    BY <1>2, TimerState DEF Abides
  <2>2. ~(Broken(n).force > 0)
    BY <2>1
  <2> QED BY <1>2, <2>2, TimerStep
<1>5. \A x \in msgs' : x \in msgs \/ \/ x \in SharingBeats(n)
                                     \/ x \in Sent(n, e, next)
  BY <1>4 DEF OnWire
<1> HIDE DEF e, next
<1>6. \A x \in msgs' : \/ x \in msgs
                       \/ x.type = "beat" /\ x.from = n /\ (node[n].stepped => x.weight = 0)
                       \/ x.type = "ballot" /\ x.from = n /\ x.lsn = lsn[n]
  BY <1>5, SharedBeats, SentBallots
<1>7. /\ node[n].time \in Nat /\ node[n].beatTime \in Nat /\ w.time \in Nat
      /\ BeatInterval \in Nat /\ VoteTime \in Nat
      /\ \A m \in Nodes : node'[m] = IF m = n THEN w ELSE node[m]
  <2>1. \A m \in Nodes : node'[m] = IF m = n THEN w ELSE node[m]
    BY <1>1, <1>2
  <2>2. w \in NodeStates(n)
    BY <1>3, <2>1 DEF Inv, TypeOK
  <2> QED BY <1>2, <2>1, <2>2, Bounds DEF NodeStates
<1>8. LevelLogs'
  BY <1>4, <1>6 DEF YieldInv, LevelLogs
<1>9. NoForce'
  BY <1>2, <1>4, <1>6 DEF NoForce
<1>10. ASSUME NEW m \in Nodes PROVE Abides(m, node'[m], msgs', ticked', cut')
  <2>0. Abides(m, node[m], msgs, ticked, cut)
    BY DEF YieldInv
  <2>1. CASE m # n
    <3>1. Polled(m, 1, msgs') \subseteq Polled(m, 1, msgs)
      BY <1>6, <2>1 DEF Polled
    <3>2. \A x \in msgs' : /\ x.type = "beat" /\ x.from = m => x \in msgs
                           /\ x.type = "reply" => x \in msgs
      BY <1>6, <2>1
    <3>3. node'[m] = node[m] /\ cut' = cut /\ ticked \subseteq ticked'
      BY <1>4, <1>7, <2>1
    <3> QED BY <2>0, <3>1, <3>2, <3>3 DEF Abides
  <2>2. CASE m = n
    <3>1. node'[n] = w /\ cut' = cut /\ n \in ticked'
      BY <1>4, <1>7
    <3>2. w.beatTime < BeatInterval
      BY <1>1, <1>7, Bounds
    <3>3. \A i \in Peers(n) : w.dead[i] > 0 => {n, i} \in cut
      BY <1>1, <1>2 DEF Abides
    <3>4. ASSUME w.stepped
          PROVE /\ w.status \in {"sec", "vote", "silence"}
                /\ \A x \in msgs' : x.type = "beat" /\ x.from = n => x.weight = 0
      <4>1. node[n].stepped /\ node[n].status \in {"sec", "vote", "silence"}
        BY <1>1, <1>2, <3>4 DEF Abides
      <4>2. \A x \in msgs : x.type = "beat" /\ x.from = n => x.weight = 0
        BY <1>2, <4>1 DEF Abides
      <4> QED BY <1>1, <1>6, <4>1, <4>2
    <3>5. ASSUME w.stepped, w.status = "vote"
          PROVE /\ w.accepted = 0
                /\ \A x \in msgs' : x.type = "reply" /\ x.to = n /\ x.round = 1 => ~x.ok
      <4>1. node[n].stepped
        BY <1>1, <3>5
      <4>2. w.accepted = 0
        BY <1>1, <1>2, <3>5, <4>1 DEF Abides
      <4>3. Polled(n, 1, msgs) = {}
        BY <1>2, <1>4 DEF Abides
      <4>4. \A x \in msgs' : x.type = "reply" /\ x.to = n /\ x.round = 1 => FALSE
        BY <1>6, <4>3 DEF Polled
      <4> QED BY <4>2, <4>4
    <3> QED BY <1>1, <2>2, <3>1, <3>2, <3>3, <3>4, <3>5 DEF Abides
  <2> QED BY <2>1, <2>2
<1>11. ASSUME NEW m \in Nodes, NEW c \in Peers(m) PROVE Aware(m, c, node', msgs', cut')
  <2> SUFFICES ASSUME node'[m].stepped, {m, c} \notin cut
               PROVE node'[c].beat[m].weight = 0 \/ Beating(m, c, msgs') \/ Early(node'[m])
    BY <1>4 DEF Aware
  <2>1. c \in Nodes /\ c # m /\ Aware(m, c, node, msgs, cut)
    BY DEF Peers, YieldInv
  <2>2. node'[c].beat[m].weight = node[c].beat[m].weight
    BY <1>1, <1>7, <2>1 DEF Peers
  <2>3. Beating(m, c, msgs) => Beating(m, c, msgs')
    BY <1>4 DEF Beating
  <2>4. CASE m # n
    BY <1>7, <2>1, <2>2, <2>3, <2>4 DEF Aware
  <2>5. CASE m = n
    <3>1. node'[m] = w /\ node[m].stepped
      BY <1>1, <1>7, <2>5
    <3>2. CASE ~Early(node[m])
      BY <2>1, <2>2, <2>3, <3>1, <3>2 DEF Aware
    <3>3. CASE Early(node[m]) /\ due
      <4>1. node[n].dead[c] = 0
        <5>1. node[n].dead[c] \in Nat
          BY <1>2, <2>5, Bounds DEF NodeStates
        <5>2. ~(node[n].dead[c] > 0)
          BY <1>2, <2>5 DEF Abides
        <5> QED BY <5>1, <5>2
      <4>2. PICK x \in SharingBeats(n) : x.type = "beat" /\ x.from = n /\ x.to = c
        BY <2>5, <4>1, SharedBeats
      <4>3. x \in msgs'
        BY <1>4, <2>5, <3>3, <4>2 DEF OnWire
      <4> QED BY <2>5, <4>2, <4>3 DEF Beating
    <3>4. CASE Early(node[m]) /\ ~due
      <4>1. /\ node[n].time <= node[n].beatTime /\ node[n].status \in {"sec", "silence"}
            /\ w.beatTime = node[n].beatTime + 1 /\ ~(node[n].beatTime + 1 >= BeatInterval)
        BY <1>1, <2>5, <3>4 DEF Early
      <4>2. ~(VoteTime <= node[n].time + 1)
        BY <1>7, <4>1
      <4>3. \/ w.status = node[n].status /\ w.time <= node[n].time + 1
            \/ w.status \in {"sec", "silence"} /\ w.time = 0
        BY <1>1, <2>5, <3>1, <4>2
      <4>4. w.status \in {"sec", "silence"} /\ w.time <= w.beatTime
        BY <1>7, <4>1, <4>3
      <4> QED BY <3>1, <4>4 DEF Early
    <3> QED BY <3>2, <3>3, <3>4
  <2> QED BY <2>4, <2>5
<1>12. Yielded
  <2>1. node[n].stepped => node[n].status # "primary"
    BY <1>2 DEF Abides
  <2>2. node[n].stepped => w.status # "primary"
    BY <1>1, <2>1
  <2> QED BY <1>7, <2>2 DEF Yielded, Primaries
<1> QED BY <1>3, <1>8, <1>9, <1>10, <1>11, <1>12 DEF YieldInv

(* A group starts with nobody stepped down. *)
LEMMA YieldInit ==
  ASSUME \A s \in Scenarios : s.faults.up = 0 /\ \A m, n \in Nodes : s.logs[m] = s.logs[n], Init
  PROVE YieldInv
<1>1. Inv /\ NoForce /\ LevelLogs
  BY InvInit DEF Init, NoForce, LevelLogs
<1>2. \A n \in Nodes : /\ node[n].beatTime = 0 /\ node[n].force = 0 /\ ~node[n].stepped
                       /\ \A m \in Peers(n) : node[n].dead[m] = 0
  BY DEF Init, Started
<1>3. ASSUME NEW n \in Nodes PROVE Abides(n, node[n], msgs, ticked, cut)
  <2>1. Polled(n, 1, msgs) = {}
    BY DEF Init, Polled
  <2> QED BY <1>2, <2>1, Bounds DEF Abides
<1>4. \A n \in Nodes : \A c \in Peers(n) : Aware(n, c, node, msgs, cut)
  BY <1>2 DEF Aware
<1> QED BY <1>1, <1>3, <1>4 DEF YieldInv

(* Every step keeps the invariant. *)
LEMMA YieldNext ==
  ASSUME YieldInv, AllNormal, PromptStepDowns, BeatInterval <= VoteTime, cut \subseteq cut', Next
  PROVE YieldInv' /\ Yielded
<1>0. NoForce
  BY DEF YieldInv
<1>1. CASE HandleBeats
  BY <1>1, BeatYield, BeatResYield DEF HandleBeats
<1>2. CASE BeatsDone /\ HandleMsg
  BY <1>0, <1>2, BallotYield, ReplyYield, StepDownYield DEF HandleMsg, NoForce
<1>3. CASE \E n \in Nodes : Timer(n)
  BY <1>3, TimerYield
<1>4. CASE EndRound
  BY <1>4, EndRoundYield
<1>5. CASE Environment
  <2>1. ASSUME NEW n \in Nodes, StepUp(n) PROVE FALSE
    BY <1>0, <2>1 DEF StepUp, NoForce
  <2> QED BY <1>5, <2>1, ReelectYield, RestartYield, SynchroniseYield, AliveNodeYield
      DEF Environment
<1> QED BY <1>1, <1>2, <1>3, <1>4, <1>5 DEF Next, Protocol

(* A step that changes nothing. *)
LEMMA YieldStutter == YieldInv /\ UNCHANGED vars => YieldInv'
<1> SUFFICES ASSUME YieldInv, UNCHANGED vars PROVE YieldInv'
  OBVIOUS
<1>1. UNCHANGED <<node, lsn, msgs, ticked, cut, left>> /\ Inv'
  BY InvNext DEF YieldInv, vars
<1> QED BY <1>1 DEF YieldInv, NoForce, LevelLogs

(* As long as every node is normal, logs are equal, links do not heal and nobody
   is forced to step up, a node that _handleStepDown made step down does not win
   before it has heard of another primary: its next beats, which come before its
   next vote, tell its peers the shadow weight, with which it outranks nobody. *)
THEOREM SteppedDownYields ==
  ASSUME BeatInterval <= VoteTime,
         \A s \in Scenarios : s.faults.up = 0 /\ \A m, n \in Nodes : s.logs[m] = s.logs[n]
  PROVE Spec /\ []AllNormal /\ []PromptStepDowns /\ [][cut \subseteq cut']_vars
          => StepDownYields
<1>1. Init => YieldInv
  BY YieldInit
<1>2. YieldInv /\ AllNormal /\ PromptStepDowns /\ [Next]_vars /\ [cut \subseteq cut']_vars
        => YieldInv'
  BY YieldNext, YieldStutter
<1>3. YieldInv /\ AllNormal /\ PromptStepDowns /\ [Next]_vars /\ [cut \subseteq cut']_vars
        => [Yielded]_vars
  BY YieldNext
<1>4. Spec /\ []AllNormal /\ []PromptStepDowns /\ [][cut \subseteq cut']_vars => [][Yielded]_vars
  BY <1>1, <1>2, <1>3, PTL DEF Spec
<1>5. [][Yielded]_vars => StepDownYields
  BY DEF Yielded, StepDownYields
<1> QED BY <1>4, <1>5
=============================================================================
