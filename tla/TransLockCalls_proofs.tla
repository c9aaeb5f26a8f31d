----------------------- MODULE TransLockCalls_proofs ------------------------
(***************************************************************************)
(* Proofs about what the callers of the transaction lock manager rely on:  *)
(* reference counts are exact, the containers of a lock stay locked, and   *)
(* the lock of an insert is never refused.  As in TransLock_proofs no call *)
(* is a "query": the failed wait of a find-and-modify is not rolled back   *)
(* and leaves references that nobody gives back.                           *)
(***************************************************************************)
EXTENDS TransLockQueue_proofs

(* A request is somewhere on the way to its leaf. *)
OnPath(e) == pc[e] = "acquire" => call[e].at \in Path(call[e].leaf)

(* A request holds what is above the lock it is at. *)
Above(e) ==
  pc[e] \in {"acquire"} \cup WaitPCs
    => /\ \A m \in Path(call[e].at) \ {call[e].at} : runList[m][e] # NoType
       /\ IsRecord(call[e].at) => runList[Parent(call[e].at)][e] \in {IX, X}

(* The count of every lock is what callers have of it and what the call in
   progress has. *)
Counted(e) ==
  pc[e] \notin {"rollback", "releaseAll"}
    => \A l \in LockIds :
         /\ IsFiniteSet(Passing(held[e], l))
         /\ Count(e, l) = Cardinality(Passing(held[e], l)) + InFlight(e, l)

(* What a caller has is locked, with its containers. *)
Kept(e, l) == /\ runList[l][e] \in {S, X}
              /\ IsRecord(l) => runList[l][e] = X /\ runList[Parent(l)][e] \in {IX, X}
              /\ \A m \in Path(l) : runList[m][e] # NoType

HeldKept(e) == \A l \in LockIds : held[e][l] > 0 => Kept(e, l) /\ pc[e] # "releaseAll"

CountPart(e) == OnPath(e) /\ Above(e) /\ Counted(e) /\ HeldKept(e)

CountInv == RecordInv /\ \A e \in EDUs : CountPart(e)

-----------------------------------------------------------------------------
(* The containers of a lock. *)

(* What the three kinds of locks look like. *)
LEMMA LockKinds ==
  /\ \A l \in SpaceIds : IsSpace(l) /\ ~IsRecord(l) /\ SpaceOf(l) = l /\ l \in LockIds
  /\ \A l \in CollectionIds : ~IsSpace(l) /\ ~IsRecord(l) /\ l \in LockIds
  /\ \A l \in RecordIds : ~IsSpace(l) /\ IsRecord(l) /\ l \in LockIds
  /\ \A l \in LockIds : SpaceOf(l) \in SpaceIds
  /\ \A l \in RecordIds : Parent(l) \in CollectionIds /\ SpaceOf(Parent(l)) = SpaceOf(l)
  /\ \A l \in CollectionIds \cup SpaceIds : Parent(l) = SpaceOf(l)
<1>1. INVALID_MBID \notin Collections /\ INVALID_RID \notin Records
  <2>1. INVALID_MBID \in Int
    BY DEF INVALID_MBID
  <2>2. \A c \in Collections : c # INVALID_MBID
    BY <2>1, CollectionAssumption
  <2>3. \A r \in Records : r # INVALID_RID
    BY RecordAssumption DEF INVALID_RID
  <2> QED BY <2>2, <2>3
<1>2. \A l \in SpaceIds : /\ IsSpace(l) /\ ~IsRecord(l) /\ SpaceOf(l) = l /\ l \in LockIds
                          /\ Parent(l) = SpaceOf(l)
  BY DEF SpaceIds, IsSpace, IsRecord, SpaceOf, LockIds, Parent
<1>3. \A l \in CollectionIds : /\ ~IsSpace(l) /\ ~IsRecord(l) /\ l \in LockIds
                               /\ Parent(l) = SpaceOf(l) /\ l[1] \in Spaces
  BY <1>1 DEF CollectionIds, IsSpace, IsRecord, SpaceOf, LockIds, Parent
<1>4. \A l \in RecordIds : ~IsSpace(l) /\ IsRecord(l) /\ l \in LockIds
  BY <1>1 DEF RecordIds, IsSpace, IsRecord, LockIds
<1>5. \A l \in LockIds : SpaceOf(l) \in SpaceIds
  BY DEF RecordIds, CollectionIds, SpaceIds, LockIds, SpaceOf
<1>6. \A l \in RecordIds : Parent(l) \in CollectionIds /\ SpaceOf(Parent(l)) = SpaceOf(l)
  <2> SUFFICES ASSUME NEW l \in RecordIds
               PROVE Parent(l) \in CollectionIds /\ SpaceOf(Parent(l)) = SpaceOf(l)
    OBVIOUS
  <2>1. Parent(l) = <<l[1], l[2], INVALID_RID>>
    BY <1>4 DEF Parent
  <2>2. l[1] \in Spaces /\ l[2] \in Collections
    BY DEF RecordIds
  <2> QED BY <2>1, <2>2 DEF CollectionIds, SpaceOf
<1> QED BY <1>2, <1>3, <1>4, <1>5, <1>6

(* The way to a lock is the way to its container and the lock. *)
LEMMA PathFacts ==
  ASSUME NEW l \in LockIds
  PROVE /\ Path(l) \subseteq LockIds /\ l \in Path(l) /\ SpaceOf(l) \in Path(l)
        /\ IsSpace(l) => Path(l) = {l}
        /\ ~IsSpace(l) => /\ Parent(l) \in LockIds
                          /\ Path(Parent(l)) = Path(l) \ {l}
        /\ IsRecord(l) <=> l \in RecordIds
<1>1. CASE l \in SpaceIds
  BY <1>1, LockKinds DEF Path
<1>2. CASE l \in CollectionIds
  <2>1. Path(l) = {SpaceOf(l), l} /\ Parent(l) = SpaceOf(l) /\ SpaceOf(l) \in SpaceIds
    BY <1>2, LockKinds DEF Path
  <2>2. Path(SpaceOf(l)) = {SpaceOf(l)} /\ SpaceOf(l) # l
    BY <1>2, <2>1, LockKinds DEF Path
  <2> QED BY <1>2, <2>1, <2>2, LockKinds
<1>3. CASE l \in RecordIds
  <2>1. /\ Path(l) = {SpaceOf(l), l, Parent(l)} /\ Parent(l) \in CollectionIds
        /\ SpaceOf(l) \in SpaceIds /\ SpaceOf(Parent(l)) = SpaceOf(l)
    BY <1>3, LockKinds DEF Path
  <2>2. Path(Parent(l)) = {SpaceOf(l), Parent(l)}
    BY <2>1, LockKinds DEF Path
  <2>3. SpaceOf(l) # l /\ Parent(l) # l
    BY <1>3, <2>1, LockKinds
  <2> QED BY <1>3, <2>1, <2>2, <2>3, LockKinds
<1> QED BY <1>1, <1>2, <1>3 DEF LockIds

(* The next level of a request is one below the level it is at. *)
LEMMA ChildFacts ==
  ASSUME NEW leaf \in LockIds, NEW at \in Path(leaf), at # leaf,
         NEW child, child = IF Parent(leaf) = at THEN leaf ELSE Parent(leaf)
  PROVE child \in Path(leaf) /\ ~IsSpace(child) /\ Parent(child) = at
<1>1. CASE leaf \in SpaceIds
  BY <1>1, LockKinds, PathFacts
<1>2. CASE leaf \in CollectionIds
  <2>1. at = SpaceOf(leaf) /\ Parent(leaf) = at
    BY <1>2, LockKinds DEF Path
  <2> QED BY <1>2, <2>1, LockKinds, PathFacts
<1>3. CASE leaf \in RecordIds
  <2>1. at = SpaceOf(leaf) \/ at = Parent(leaf)
    BY <1>3, LockKinds DEF Path
  <2>2. CASE at = Parent(leaf)
    BY <1>3, <2>2, LockKinds, PathFacts
  <2>3. CASE at = SpaceOf(leaf) /\ at # Parent(leaf)
    <3>1. child = Parent(leaf) /\ child \in CollectionIds /\ SpaceOf(child) = at
      BY <1>3, <2>3, LockKinds
    <3>2. Parent(leaf) \in Path(leaf)
      BY <1>3, LockKinds DEF Path
    <3> QED BY <3>1, <3>2, LockKinds
  <2> QED BY <2>1, <2>2, <2>3
<1> QED BY <1>1, <1>2, <1>3 DEF LockIds

-----------------------------------------------------------------------------
(* Acquisitions as a set. *)

(* The members of Passing. *)
LEMMA PassingIs ==
  ASSUME NEW h, NEW l
  PROVE \A p : p \in Passing(h, l)
                 <=> \E m \in LockIds : l \in Path(m) /\ p \in {m} \X (1 .. h[m])
BY DEF Passing

(* One more acquisition of m is one more of every lock on the way to m. *)
LEMMA PassingMore ==
  ASSUME NEW h \in [LockIds -> Nat], NEW m \in LockIds, NEW l,
         NEW g \in [LockIds -> Nat], g[m] = h[m] + 1,
         \A n \in LockIds \ {m} : g[n] = h[n],
         IsFiniteSet(Passing(h, l))
  PROVE /\ IsFiniteSet(Passing(g, l))
        /\ Cardinality(Passing(g, l)) = Cardinality(Passing(h, l))
                                          + (IF l \in Path(m) THEN 1 ELSE 0)
<1>1. CASE l \in Path(m)
  <2>1. <<m, g[m]>> \notin Passing(h, l)
    BY PassingIs
  <2>2. 1 .. g[m] = (1 .. h[m]) \cup {g[m]}
    OBVIOUS
  <2>3. \A n : {n} \X (1 .. g[m]) = ({n} \X (1 .. h[m])) \cup {<<n, g[m]>>}
    BY <2>2
  <2>4. \A p : p \in Passing(g, l) <=> p \in Passing(h, l) \cup {<<m, g[m]>>}
    <3> TAKE p
    <3>1. ASSUME p \in Passing(g, l) PROVE p \in Passing(h, l) \cup {<<m, g[m]>>}
      <4>1. PICK n \in LockIds : l \in Path(n) /\ p \in {n} \X (1 .. g[n])
        BY <3>1, PassingIs
      <4>2. CASE n = m
        BY <4>1, <4>2, <2>3, PassingIs
      <4>3. CASE n # m
        BY <4>1, <4>3, PassingIs
      <4> QED BY <4>2, <4>3
    <3>2. ASSUME p \in Passing(h, l) PROVE p \in Passing(g, l)
      <4>1. PICK n \in LockIds : l \in Path(n) /\ p \in {n} \X (1 .. h[n])
        BY <3>2, PassingIs
      <4>2. CASE n = m
        BY <4>1, <4>2, <2>3, PassingIs
      <4>3. CASE n # m
        BY <4>1, <4>3, PassingIs
      <4> QED BY <4>2, <4>3
    <3>3. <<m, g[m]>> \in Passing(g, l)
      BY <1>1, <2>3, PassingIs
    <3> QED BY <3>1, <3>2, <3>3
  <2>5. Passing(g, l) = Passing(h, l) \cup {<<m, g[m]>>}
    BY <2>4
  <2> QED BY <1>1, <2>1, <2>5, FS_AddElement
<1>2. CASE l \notin Path(m)
  <2>1. \A n \in LockIds : l \in Path(n) => g[n] = h[n]
    BY <1>2
  <2>2. \A p : p \in Passing(g, l) <=> p \in Passing(h, l)
    BY <2>1, PassingIs
  <2>3. Passing(g, l) = Passing(h, l)
    BY <2>2
  <2>4. Cardinality(Passing(h, l)) \in Nat
    BY FS_CardinalityType
  <2> QED BY <1>2, <2>3, <2>4
<1> QED BY <1>1, <1>2

(* One acquisition of m less. *)
LEMMA PassingLess ==
  ASSUME NEW h \in [LockIds -> Nat], NEW m \in LockIds, NEW l,
         NEW g \in [LockIds -> Nat], h[m] = g[m] + 1,
         \A n \in LockIds \ {m} : g[n] = h[n],
         IsFiniteSet(Passing(h, l))
  PROVE /\ IsFiniteSet(Passing(g, l))
        /\ Cardinality(Passing(h, l)) = Cardinality(Passing(g, l))
                                          + (IF l \in Path(m) THEN 1 ELSE 0)
<1>1. \A p : p \in Passing(g, l) => p \in Passing(h, l)
  <2> TAKE p
  <2> HAVE p \in Passing(g, l)
  <2>1. PICK n \in LockIds : l \in Path(n) /\ p \in {n} \X (1 .. g[n])
    BY PassingIs
  <2>2. g[n] \in Nat /\ h[n] \in Nat /\ g[n] <= h[n]
    <3>1. CASE n = m
      BY <3>1
    <3>2. CASE n # m
      BY <3>2
    <3> QED BY <3>1, <3>2
  <2>3. p \in {n} \X (1 .. h[n])
    BY <2>1, <2>2
  <2> QED BY <2>1, <2>3, PassingIs
<1>2. Passing(g, l) \subseteq Passing(h, l)
  BY <1>1
<1>3. IsFiniteSet(Passing(g, l))
  BY <1>2, FS_Subset
<1>4. \A n \in LockIds \ {m} : h[n] = g[n]
  OBVIOUS
<1> QED BY <1>3, <1>4, PassingMore

(* Without acquisitions. *)
LEMMA PassingNone ==
  ASSUME NEW h, NEW l, \A m \in LockIds : h[m] = 0
  PROVE IsFiniteSet(Passing(h, l)) /\ Cardinality(Passing(h, l)) = 0
<1>1. \A p : p \notin Passing(h, l)
  BY PassingIs
<1>2. Passing(h, l) = {}
  BY <1>1
<1> QED BY <1>2, FS_EmptySet

(* Whoever has a lock counts on everything above it. *)
LEMMA PassingSome ==
  ASSUME NEW h \in [LockIds -> Nat], NEW m \in LockIds, NEW l \in Path(m), h[m] > 0,
         IsFiniteSet(Passing(h, l))
  PROVE Cardinality(Passing(h, l)) > 0
<1>1. <<m, 1>> \in {m} \X (1 .. h[m])
  OBVIOUS
<1>2. <<m, 1>> \in Passing(h, l)
  BY <1>1, PassingIs
<1>3. Cardinality(Passing(h, l)) \in Nat /\ Cardinality(Passing(h, l)) # 0
  BY <1>2, FS_EmptySet, FS_CardinalityType
<1> QED BY <1>3

-----------------------------------------------------------------------------
(* Steps. *)

(* What the call in progress has counted, by where it is. *)
LEMMA InFlightIs ==
  \A e, l :
    /\ pc[e] = "acquire"
         => InFlight(e, l) = IF l \in Path(call[e].at) \ {call[e].at} THEN 1 ELSE 0
    /\ pc[e] \in WaitPCs \cup {"release", "unwind"}
         => InFlight(e, l) = IF l \in Path(call[e].at) THEN 1 ELSE 0
    /\ pc[e] \in {"idle", "rollback", "releaseAll"} => InFlight(e, l) = 0
BY DEF InFlight, At, WaitPCs

(* The same after a step. *)
LEMMA InFlightNext ==
  (\A e, l :
    /\ pc[e] = "acquire"
         => InFlight(e, l) = IF l \in Path(call[e].at) \ {call[e].at} THEN 1 ELSE 0
    /\ pc[e] \in WaitPCs \cup {"release", "unwind"}
         => InFlight(e, l) = IF l \in Path(call[e].at) THEN 1 ELSE 0
    /\ pc[e] \in {"idle", "rollback", "releaseAll"} => InFlight(e, l) = 0)'
BY InFlightIs, PTL

(* A step of another EDU keeps an EDU's part of the invariant. *)
LEMMA UntouchedCount ==
  ASSUME NEW f \in EDUs, CountPart(f), Untouched(f), CallOK
  PROVE CountPart(f)'
<1>0. /\ OnPath(f) /\ Above(f) /\ Counted(f) /\ HeldKept(f)
      /\ pc'[f] = pc[f] /\ call'[f] = call[f] /\ held'[f] = held[f]
      /\ \A l \in LockIds : runList'[l][f] = runList[l][f]
  BY DEF CountPart, Untouched
<1>1. OnPath(f)'
  BY <1>0 DEF OnPath
<1>2. Above(f)'
  <2> SUFFICES ASSUME pc[f] \in {"acquire"} \cup WaitPCs
               PROVE Above(f)'
    BY <1>0 DEF Above
  <2>1. call[f].at \in LockIds
    BY DEF CallOK, BusyPCs
  <2>2. /\ Path(call[f].at) \subseteq LockIds
        /\ IsRecord(call[f].at) => Parent(call[f].at) \in LockIds
    BY <2>1, PathFacts, ParentType
  <2> QED BY <1>0, <2>2 DEF Above
<1>3. Counted(f)'
  <2>1. \A l : InFlight(f, l)' = InFlight(f, l)
    BY <1>0 DEF InFlight, At
  <2>2. \A l \in LockIds : Count(f, l)' = Count(f, l)
    BY DEF Untouched, Count
  <2> QED BY <1>0, <2>1, <2>2 DEF Counted
<1>4. HeldKept(f)'
  <2> SUFFICES ASSUME NEW l \in LockIds, held[f][l] > 0 PROVE Kept(f, l)'
    BY <1>0 DEF HeldKept
  <2>1. /\ Path(l) \subseteq LockIds /\ Parent(l) \in LockIds
    BY PathFacts, ParentType
  <2> QED BY <1>0, <2>1 DEF HeldKept, Kept
<1> QED BY <1>1, <1>2, <1>3, <1>4 DEF CountPart

(* A lock that is gained or upgraded weakens nothing the EDU has. *)
LEMMA KeptGains ==
  ASSUME NEW e \in EDUs, Gains(e), NEW l \in LockIds, Kept(e, l)
  PROVE Kept(e, l)'
<1>1. /\ Path(l) \subseteq LockIds /\ Parent(l) \in LockIds
  BY PathFacts, ParentType
<1>2. \A m \in LockIds : /\ runList[m][e] # NoType => runList'[m][e] # NoType
                         /\ runList[m][e] \in {S, X} => runList'[m][e] \in {S, X}
                         /\ runList[m][e] \in {IX, X} => runList'[m][e] \in {IX, X}
                         /\ runList[m][e] = X => runList'[m][e] = X
  <2> TAKE m \in LockIds
  <2>1. CASE m # At(e)
    BY <2>1 DEF Gains
  <2>2. CASE m = At(e)
    <3>1. /\ runList'[m][e] \in Types
          /\ runList[m][e] \in {NoType, IS, runList'[m][e]} \/ runList'[m][e] = X
      BY <2>2 DEF Gains
    <3> QED BY <3>1 DEF Types, NoType, IS, IX, S, X
  <2> QED BY <2>1, <2>2
<1> QED BY <1>1, <1>2 DEF Kept

(* What a request asks for at its leaf, and at the collection of a record. *)
LEMMA WantIs ==
  ASSUME TypeInv, NEW e \in EDUs, pc[e] = "acquire", CallOnRecord(e)
  PROVE /\ At(e) = call[e].leaf => Want(e) \in {S, X}
        /\ At(e) \in RecordIds => Want(e) = X
        /\ call[e].leaf \in RecordIds /\ At(e) = Parent(call[e].leaf) => Want(e) = IX
<1>1. At(e) = call[e].leaf => Want(e) \in {S, X}
  BY DEF Want, WantType
<1>2. At(e) \in RecordIds => Want(e) = X
  BY RecordWant
<1>3. ASSUME call[e].leaf \in RecordIds, At(e) = Parent(call[e].leaf) PROVE Want(e) = IX
  <2>1. Parent(call[e].leaf) # call[e].leaf
    BY <1>3, LockKinds
  <2>2. call[e].leaf \in TargetIds(call[e].kind)
    BY DEF CallOnRecord
  <2>3. call[e].kind # "share"
    BY <1>3, <2>2, LockKinds DEF TargetIds
  <2> QED BY <1>3, <2>1, <2>3 DEF Want, WantType
<1> QED BY <1>1, <1>2, <1>3

(* A level of the request is granted. *)
LEMMA AdvanceCount ==
  ASSUME CountInv, NEW e \in EDUs, pc[e] = "acquire", Advance(e), Gains(e)
  PROVE CountPart(e)'
<1>0. /\ TypeInv /\ CallOnRecord(e) /\ OnPath(e) /\ Above(e) /\ Counted(e) /\ HeldKept(e)
      /\ pc \in [EDUs -> PCs] /\ call \in [EDUs -> CallRecords]
      /\ held \in [EDUs -> [LockIds -> Nat]]
  BY DEF CountInv, CountPart, RecordInv, RecordPart, GrantInv, TypeInv, TypeOK
<1> DEFINE at == call[e].at
           leaf == call[e].leaf
<1>1. /\ at \in LockIds /\ leaf \in LockIds /\ At(e) = at /\ at \in Path(leaf)
      /\ held[e] \in [LockIds -> Nat]
  BY <1>0 DEF TypeInv, CallOK, BusyPCs, At, OnPath
<1>2. \A l \in LockIds :
        /\ IsFiniteSet(Passing(held[e], l))
        /\ Count(e, l) = Cardinality(Passing(held[e], l))
                           + (IF l \in Path(at) \ {at} THEN 1 ELSE 0)
        /\ Cardinality(Passing(held[e], l)) \in Nat
  BY <1>0, InFlightIs, FS_CardinalityType DEF Counted
<1>3. \A l \in LockIds : Count(e, l)' = Count(e, l) + (IF l = at THEN 1 ELSE 0)
  <2> TAKE l \in LockIds
  <2>1. CASE l = at
    BY <1>1, <2>1 DEF Gains, Count
  <2>2. CASE l # at
    <3>1. Count(e, l)' = Count(e, l)
      BY <1>1, <2>2 DEF Gains, Count
    <3>2. Count(e, l) \in Int
      BY <1>2
    <3> QED BY <2>2, <3>1, <3>2
  <2> QED BY <2>1, <2>2
<1>4. at \in Path(at)
  BY <1>1, PathFacts
<1>5. /\ \A m \in Path(at) : runList'[m][e] # NoType
      /\ IsRecord(at) => runList'[Parent(at)][e] \in {IX, X}
  <2>1. Path(at) \subseteq LockIds /\ Parent(at) \in LockIds
        /\ (IsRecord(at) => Parent(at) # at)
    BY <1>1, PathFacts, ParentType, LockKinds
  <2>2. runList'[at][e] # NoType
    BY <1>1 DEF Gains, Types, NoType, IS, IX, S, X
  <2>3. /\ \A m \in Path(at) \ {at} : runList'[m][e] # NoType
        /\ IsRecord(at) => runList'[Parent(at)][e] \in {IX, X}
    BY <1>0, <1>1, <2>1 DEF Above, Gains
  <2> QED BY <2>2, <2>3
<1> HIDE DEF at, leaf
<1>6. CASE at = leaf
  <2>1. /\ pc' = [pc EXCEPT ![e] = "idle"]
        /\ held' = [held EXCEPT ![e][at] = @ + 1]
    BY <1>1, <1>6 DEF Advance, leaf
  <2>2. /\ pc'[e] = "idle" /\ held'[e] \in [LockIds -> Nat]
        /\ held'[e][at] = held[e][at] + 1
        /\ \A l \in LockIds \ {at} : held'[e][l] = held[e][l]
    BY <1>0, <1>1, <2>1
  <2>3. OnPath(e)' /\ Above(e)'
    BY <2>2 DEF OnPath, Above, WaitPCs
  <2>4. Counted(e)'
    <3> SUFFICES ASSUME NEW l \in LockIds
                 PROVE /\ IsFiniteSet(Passing(held'[e], l))
                       /\ Count(e, l)' = Cardinality(Passing(held'[e], l)) + InFlight(e, l)'
      BY DEF Counted
    <3>1. InFlight(e, l)' = 0
      BY <2>2, InFlightNext
    <3>2. /\ IsFiniteSet(Passing(held'[e], l))
          /\ Cardinality(Passing(held'[e], l)) = Cardinality(Passing(held[e], l))
                                                   + (IF l \in Path(at) THEN 1 ELSE 0)
      BY <1>1, <1>2, <2>2, PassingMore
    <3> QED BY <1>2, <1>3, <1>4, <3>1, <3>2
  <2>5. HeldKept(e)'
    <3> SUFFICES ASSUME NEW l \in LockIds, held'[e][l] > 0 PROVE Kept(e, l)'
      BY <2>2 DEF HeldKept
    <3>1. CASE l # at
      <4>1. Kept(e, l)
        BY <1>0, <2>2, <3>1 DEF HeldKept
      <4> QED BY <4>1, KeptGains
    <3>2. CASE l = at
      <4>1. /\ isLockMatch(runList'[at][e], Want(e)) /\ runList'[at][e] \in Types
            /\ Want(e) \in {S, X} /\ (at \in RecordIds => Want(e) = X)
        BY <1>0, <1>1, <1>6, WantIs DEF Gains, leaf
      <4>2. runList'[at][e] \in {S, X} /\ (IsRecord(at) => runList'[at][e] = X)
        BY <1>1, <4>1, PathFacts DEF isLockMatch, IS, S, X
      <4> QED BY <1>5, <3>2, <4>2 DEF Kept
    <3> QED BY <3>1, <3>2
  <2> QED BY <2>3, <2>4, <2>5 DEF CountPart
<1>7. CASE at # leaf
  <2>1. /\ pc' = pc /\ held' = held
        /\ call' = [call EXCEPT ![e] = [call[e] EXCEPT !.at = ChildOf(e)]]
    BY <1>1, <1>7 DEF Advance, leaf
  <2>2. PICK child : child = ChildOf(e)
    OBVIOUS
  <2>3. call'[e].leaf = leaf /\ call'[e].at = child /\ pc'[e] = "acquire"
    BY <1>0, <2>1, <2>2 DEF CallRecords, leaf
  <2>4. child \in Path(leaf) /\ ~IsSpace(child) /\ Parent(child) = at
    <3>1. child = IF Parent(leaf) = at THEN leaf ELSE Parent(leaf)
      BY <1>1, <2>2 DEF ChildOf, leaf
    <3> QED BY <1>1, <1>7, <3>1, ChildFacts
  <2>5. child \in LockIds /\ Path(child) \ {child} = Path(at)
    <3>1. child \in LockIds
      BY <1>1, <2>4, PathFacts
    <3> QED BY <2>4, <3>1, PathFacts
  <2>6. OnPath(e)'
    BY <2>3, <2>4 DEF OnPath
  <2>7. Above(e)'
    <3>1. ASSUME IsRecord(child) PROVE runList'[at][e] \in {IX, X}
      <4>1. child \in RecordIds
        BY <2>5, <3>1, PathFacts
      <4>2. child = leaf
        BY <1>1, <2>2, <4>1, RecordIdFacts DEF ChildOf, leaf
      <4>3. Want(e) = IX
        BY <1>0, <1>1, <2>4, <4>1, <4>2, WantIs DEF leaf
      <4> QED BY <1>1, <4>3 DEF Gains, isLockMatch, IS, IX
    <3> QED BY <1>5, <2>3, <2>4, <2>5, <3>1 DEF Above
  <2>8. Counted(e)'
    <3> SUFFICES ASSUME NEW l \in LockIds
                 PROVE Count(e, l)' = Cardinality(Passing(held[e], l)) + InFlight(e, l)'
      BY <1>2, <2>1 DEF Counted
    <3>1. InFlight(e, l)' = IF l \in Path(at) THEN 1 ELSE 0
      BY <2>3, <2>5, InFlightNext
    <3> QED BY <1>2, <1>3, <1>4, <3>1
  <2>9. HeldKept(e)'
    <3> SUFFICES ASSUME NEW l \in LockIds, held[e][l] > 0 PROVE Kept(e, l)'
      BY <2>1, <2>3 DEF HeldKept
    <3>1. Kept(e, l)
      BY <1>0 DEF HeldKept
    <3> QED BY <3>1, KeptGains
  <2> QED BY <2>6, <2>7, <2>8, <2>9 DEF CountPart
<1> QED BY <1>6, <1>7

(* A level is refused: what was counted above it is given back next. *)
LEMMA FailCount ==
  ASSUME CountInv, NEW e \in EDUs, pc[e] = "acquire", Fail(e),
         UNCHANGED <<runList, lockInfo>>
  PROVE CountPart(e)'
<1>0. /\ TypeInv /\ Counted(e) /\ HeldKept(e) /\ held' = held
      /\ pc \in [EDUs -> PCs] /\ call \in [EDUs -> CallRecords]
  BY DEF CountInv, CountPart, RecordInv, RecordPart, GrantInv, TypeInv, TypeOK, Fail
<1>1. call[e].at \in LockIds /\ At(e) = call[e].at
  BY <1>0 DEF TypeInv, CallOK, BusyPCs, At
<1>2. /\ pc'[e] \in {"idle", "rollback", "unwind"}
      /\ pc'[e] = "idle" => Path(call[e].at) = {call[e].at}
      /\ pc'[e] = "unwind" => Path(call'[e].at) = Path(call[e].at) \ {call[e].at}
  <2>1. CASE IsSpace(At(e))
    <3>1. pc'[e] = AfterError(call[e].kind)
      BY <1>0, <2>1 DEF Fail
    <3> QED BY <1>1, <2>1, <3>1, PathFacts DEF AfterError
  <2>2. CASE ~IsSpace(At(e))
    <3>1. call'[e] = [call[e] EXCEPT !.at = Parent(At(e))] /\ pc'[e] = "unwind"
      BY <1>0, <2>2 DEF Fail
    <3>2. call'[e].at = Parent(At(e))
      BY <1>0, <3>1 DEF CallRecords
    <3> QED BY <1>1, <2>2, <3>1, <3>2, PathFacts
  <2> QED BY <2>1, <2>2
<1>3. OnPath(e)' /\ Above(e)'
  BY <1>2 DEF OnPath, Above, WaitPCs
<1>4. Counted(e)'
  <2> SUFFICES ASSUME NEW l \in LockIds, pc'[e] # "rollback"
               PROVE InFlight(e, l)' = InFlight(e, l)
    BY <1>0 DEF Counted, Count
  <2>1. InFlight(e, l) = IF l \in Path(call[e].at) \ {call[e].at} THEN 1 ELSE 0
    BY InFlightIs
  <2>2. CASE pc'[e] = "idle"
    BY <1>2, <2>1, <2>2, InFlightNext
  <2>3. CASE pc'[e] = "unwind"
    BY <1>2, <2>1, <2>3, InFlightNext
  <2> QED BY <1>2, <2>2, <2>3
<1>5. HeldKept(e)'
  BY <1>0, <1>2 DEF HeldKept, Kept
<1> QED BY <1>3, <1>4, <1>5 DEF CountPart

(* release gives back one reference; the lock itself only when nobody counts
   on it any more. *)
LEMMA ReleaseCount ==
  ASSUME CountInv, NEW e \in EDUs, ReleaseStep(e)
  PROVE CountPart(e)'
<1>0. /\ TypeInv /\ Counted(e) /\ HeldKept(e) /\ held' = held
      /\ pc \in [EDUs -> PCs] /\ call \in [EDUs -> CallRecords]
      /\ held \in [EDUs -> [LockIds -> Nat]] /\ lockInfo \in InfoLists
      /\ runList \in [LockIds -> [EDUs -> Types \cup {NoType}]]
      /\ pc[e] \in {"release", "unwind"}
  BY DEF CountInv, CountPart, RecordInv, RecordPart, GrantInv, TypeInv, TypeOK, ReleaseStep
<1>1. PICK at \in LockIds :
      /\ at = call[e].at /\ At(e) = at /\ Info(e) = lockInfo[e][at]
      /\ lockInfo[e][at] \in LockInfo \cup {NoInfo} /\ held[e] \in [LockIds -> Nat]
  BY <1>0, AcquireFacts DEF TypeInv, CallOK, BusyPCs, At, Info
<1>2. \A l \in LockIds :
        /\ IsFiniteSet(Passing(held[e], l))
        /\ Count(e, l) = Cardinality(Passing(held[e], l))
                           + (IF l \in Path(at) THEN 1 ELSE 0)
        /\ Cardinality(Passing(held[e], l)) \in Nat
  BY <1>0, <1>1, InFlightIs, FS_CardinalityType DEF Counted
<1>3. Count(e, at) = Cardinality(Passing(held[e], at)) + 1 /\ at \in Path(at)
  BY <1>1, <1>2, PathFacts
<1>4. lockInfo[e][at] \in LockInfo /\ Count(e, at) = lockInfo[e][at].ref + 1
  BY <1>1, <1>2, <1>3 DEF Count
<1>5. /\ Count(e, at)' = Count(e, at) - 1
      /\ \A l \in LockIds \ {at} : Count(e, l)' = Count(e, l) /\ runList'[l][e] = runList[l][e]
      /\ Count(e, at) # 1 => runList'[at][e] = runList[at][e]
  <2>1. lockInfo[e][at] # NoInfo /\ lockInfo[e][at].ref \in Int
    BY <1>4, NoInfoAssumption DEF LockInfo
  <2>2. CASE lockInfo[e][at].ref > 0
    <3>1. /\ lockInfo' = [lockInfo EXCEPT ![e] = [lockInfo[e] EXCEPT ![at] =
                            [lockInfo[e][at] EXCEPT !.ref = @ - 1]]]
          /\ runList' = runList
      BY <1>1, <2>1, <2>2 DEF ReleaseStep
    <3>2. LET info == [lockInfo[e][at] EXCEPT !.ref = @ - 1]
          IN info \in LockInfo /\ info.ref = lockInfo[e][at].ref - 1
      BY <1>4, <2>1, <2>2 DEF LockInfo
    <3>3. /\ lockInfo'[e][at] \in LockInfo
          /\ lockInfo'[e][at].ref = lockInfo[e][at].ref - 1
          /\ \A l \in LockIds \ {at} : lockInfo'[e][l] = lockInfo[e][l]
      BY <1>0, <1>1, <3>1, <3>2 DEF InfoLists
    <3>4. Count(e, at)' = Count(e, at) - 1
      BY <1>4, <2>1, <3>3, NoInfoAssumption DEF Count
    <3> QED BY <3>1, <3>3, <3>4 DEF Count
  <2>3. CASE ~(lockInfo[e][at].ref > 0)
    <3>1. /\ runList' = [runList EXCEPT ![at][e] = NoType]
          /\ lockInfo' = [lockInfo EXCEPT ![e][at] = NoInfo]
      BY <1>1, <2>1, <2>3 DEF ReleaseStep, removeFromRun
    <3>2. Count(e, at) = 1
      BY <1>1, <1>2, <1>3, <1>4, <2>1, <2>3
    <3>3. /\ lockInfo'[e][at] = NoInfo
          /\ \A l \in LockIds \ {at} : /\ lockInfo'[e][l] = lockInfo[e][l]
                                       /\ runList'[l][e] = runList[l][e]
      BY <1>0, <1>1, <3>1 DEF InfoLists
    <3> QED BY <3>2, <3>3 DEF Count
  <2> QED BY <2>2, <2>3
<1>6. /\ pc'[e] \in {"idle", "rollback", "release", "unwind"}
      /\ pc'[e] = "idle" => Path(at) = {at}
      /\ pc'[e] \in {"release", "unwind"} => Path(call'[e].at) = Path(at) \ {at}
  <2>1. Info(e) # NoInfo
    BY <1>1, <1>4, NoInfoAssumption
  <2>2. CASE IsSpace(At(e))
    <3>1. pc'[e] = AfterRelease(e)
      BY <1>0, <2>2 DEF ReleaseStep
    <3> QED BY <1>1, <2>2, <3>1, PathFacts DEF AfterRelease, AfterError
  <2>3. CASE ~IsSpace(At(e))
    <3>1. call'[e] = [call[e] EXCEPT !.at = Parent(At(e))] /\ pc' = pc
      BY <1>0, <2>1, <2>3 DEF ReleaseStep
    <3>2. call'[e].at = Parent(At(e))
      BY <1>0, <3>1 DEF CallRecords
    <3> QED BY <1>0, <1>1, <2>3, <3>1, <3>2, PathFacts
  <2> QED BY <2>2, <2>3
<1>7. OnPath(e)' /\ Above(e)'
  BY <1>6 DEF OnPath, Above, WaitPCs
<1>8. Counted(e)'
  <2> SUFFICES ASSUME NEW l \in LockIds, pc'[e] # "rollback"
               PROVE Count(e, l)' = Cardinality(Passing(held[e], l)) + InFlight(e, l)'
    BY <1>0, <1>2 DEF Counted
  <2>1. InFlight(e, l)' = IF l \in Path(at) \ {at} THEN 1 ELSE 0
    <3>1. CASE pc'[e] = "idle"
      BY <1>6, <3>1, InFlightNext
    <3>2. CASE pc'[e] \in {"release", "unwind"}
      BY <1>6, <3>2, InFlightNext
    <3> QED BY <1>6, <3>1, <3>2
  <2> QED BY <1>2, <1>3, <1>5, <2>1
<1>9. HeldKept(e)'
  <2> SUFFICES ASSUME NEW l \in LockIds, held[e][l] > 0 PROVE Kept(e, l)'
    BY <1>0, <1>6 DEF HeldKept
  <2>1. Kept(e, l)
    BY <1>0 DEF HeldKept
  <2>2. /\ Path(l) \subseteq LockIds /\ l \in Path(l)
        /\ IsRecord(l) => Parent(l) \in LockIds /\ Parent(l) \in Path(l)
    BY PathFacts, ParentType, LockKinds DEF Path
  (* The lock given back is not on the way to one the caller has. *)
  <2>3. \A m \in Path(l) : runList'[m][e] = runList[m][e]
    <3> TAKE m \in Path(l)
    <3>1. CASE m = at
      <4>1. Cardinality(Passing(held[e], at)) > 0
        BY <1>1, <1>2, <3>1, PassingSome
      <4> QED BY <1>1, <1>2, <1>3, <1>5, <3>1, <4>1
    <3>2. CASE m # at
      BY <1>5, <2>2, <3>2
    <3> QED BY <3>1, <3>2
  <2> QED BY <2>1, <2>2, <2>3 DEF Kept
<1> QED BY <1>7, <1>8, <1>9 DEF CountPart

(* Nothing is counted initially. *)
LEMMA CountInvInit == Init => CountInv
<1> SUFFICES ASSUME Init, NEW e \in EDUs PROVE CountPart(e)
  BY RecordInvInit DEF CountInv
<1>1. /\ pc[e] = "idle"
      /\ \A l \in LockIds : /\ lockInfo[e][l] = NoInfo /\ held[e][l] = 0
  BY DEF Init
<1>2. Counted(e)
  BY <1>1, InFlightIs, PassingNone DEF Counted, Count
<1> QED BY <1>1, <1>2 DEF CountPart, OnPath, Above, HeldKept, WaitPCs

(* Every step keeps the counts of the EDU that takes it. *)
LEMMA CountStep ==
  ASSUME "query" \notin Calls, CountInv, NEW e \in EDUs,
         \/ Caller(e) \/ Acquire(e) \/ Wait(e) \/ Release(e)
         \/ Timeout(e) \/ Interrupt(e)
  PROVE CountPart(e)'
<1>0. /\ RecordInv /\ TypeInv /\ RunListInLockList
      /\ pc \in [EDUs -> PCs] /\ call \in [EDUs -> CallRecords]
      /\ held \in [EDUs -> [LockIds -> Nat]] /\ lockInfo \in InfoLists
      /\ runList \in [LockIds -> [EDUs -> Types \cup {NoType}]]
      /\ todo \in [EDUs -> SUBSET LockIds]
  BY DEF CountInv, RecordInv, GrantInv, TypeInv, TypeOK
<1>a. OnPath(e) /\ Above(e) /\ Counted(e) /\ HeldKept(e)
  BY DEF CountInv, CountPart
<1>1. CASE StartCall(e)
  <2>1. PICK kind \in Calls : \E l \in TargetIds(kind) :
          call' = [call EXCEPT ![e] = [kind |-> kind, leaf |-> l, at |-> SpaceOf(l)]]
    BY <1>1 DEF StartCall
  <2>2. PICK l \in TargetIds(kind) :
          call' = [call EXCEPT ![e] = [kind |-> kind, leaf |-> l, at |-> SpaceOf(l)]]
    BY <2>1
  <2>3. /\ pc[e] = "idle" /\ pc' = [pc EXCEPT ![e] = "acquire"]
        /\ UNCHANGED <<runList, lockInfo, held>>
    BY <1>1 DEF StartCall
  <2>4. l \in LockIds
    BY TargetType, CallAssumption
  <2>5. call'[e].leaf = l /\ call'[e].at = SpaceOf(l) /\ pc'[e] = "acquire"
    BY <1>0, <2>2, <2>3
  <2>6. /\ SpaceOf(l) \in Path(l) /\ Path(SpaceOf(l)) = {SpaceOf(l)}
        /\ ~IsRecord(SpaceOf(l))
    BY <2>4, LockKinds, PathFacts
  <2>7. OnPath(e)' /\ Above(e)'
    BY <2>5, <2>6 DEF OnPath, Above
  <2>8. \A m : InFlight(e, m)' = 0 /\ InFlight(e, m) = 0
    BY <2>3, <2>5, <2>6, InFlightIs, InFlightNext
  <2>9. Counted(e)' /\ HeldKept(e)'
    BY <1>a, <2>3, <2>5, <2>8 DEF Counted, Count, HeldKept, Kept
  <2> QED BY <2>7, <2>9 DEF CountPart
<1>2. CASE StartRelease(e)
  <2>1. PICK l \in LockIds :
          /\ held[e][l] > 0
          /\ held' = [held EXCEPT ![e][l] = @ - 1]
          /\ call' = [call EXCEPT ![e] = [kind |-> "none", leaf |-> l, at |-> l]]
    BY <1>2 DEF StartRelease
  <2>2. /\ pc[e] = "idle" /\ pc' = [pc EXCEPT ![e] = "release"]
        /\ UNCHANGED <<runList, lockInfo>>
    BY <1>2 DEF StartRelease
  <2>3. /\ pc'[e] = "release" /\ call'[e].at = l
        /\ held[e] \in [LockIds -> Nat] /\ held'[e] \in [LockIds -> Nat]
        /\ held[e][l] = held'[e][l] + 1
        /\ \A m \in LockIds \ {l} : held'[e][m] = held[e][m]
    BY <1>0, <2>1, <2>2
  <2>4. OnPath(e)' /\ Above(e)'
    BY <2>3 DEF OnPath, Above, WaitPCs
  <2>5. Counted(e)'
    <3> SUFFICES ASSUME NEW m \in LockIds
                 PROVE /\ IsFiniteSet(Passing(held'[e], m))
                       /\ Count(e, m) = Cardinality(Passing(held'[e], m)) + InFlight(e, m)'
      BY <2>2 DEF Counted, Count
    <3>1. /\ IsFiniteSet(Passing(held[e], m))
          /\ Count(e, m) = Cardinality(Passing(held[e], m)) + 0
      BY <1>a, <2>2, InFlightIs DEF Counted
    <3>2. InFlight(e, m)' = IF m \in Path(l) THEN 1 ELSE 0
      BY <2>3, InFlightNext
    <3>3. /\ IsFiniteSet(Passing(held'[e], m))
          /\ Cardinality(Passing(held[e], m)) = Cardinality(Passing(held'[e], m))
                                                  + (IF m \in Path(l) THEN 1 ELSE 0)
      BY <2>3, <3>1, PassingLess
    <3>4. Cardinality(Passing(held'[e], m)) \in Nat
      BY <3>3, FS_CardinalityType
    <3> QED BY <3>1, <3>2, <3>3, <3>4
  <2>6. HeldKept(e)'
    <3> SUFFICES ASSUME NEW m \in LockIds, held'[e][m] > 0 PROVE Kept(e, m)'
      BY <2>3 DEF HeldKept
    <3>1. held[e][m] > 0
      BY <2>1, <2>3
    <3> QED BY <1>a, <2>2, <3>1 DEF HeldKept, Kept
  <2> QED BY <2>4, <2>5, <2>6 DEF CountPart
<1>3. CASE StartReleaseAll(e)
  <2>1. pc'[e] = "releaseAll" /\ \A l \in LockIds : held'[e][l] = 0
    BY <1>0, <1>3 DEF StartReleaseAll
  <2> QED BY <2>1 DEF CountPart, OnPath, Above, Counted, HeldKept, WaitPCs
<1>4. CASE DrainEvent(e)
  <2>1. Untouched(e)
    BY <1>4 DEF DrainEvent, Untouched
  <2> QED BY <1>0, <2>1, UntouchedCount DEF CountInv, TypeInv
<1>5. CASE AcquireMatch(e) \/ AcquireUpgrade(e) \/ AcquireNew(e) \/ AcquireRefused(e)
  BY <1>0, <1>5, GainsOrFails, AdvanceCount, FailCount
<1>6. CASE AcquireAppend(e)
  <2>1. /\ pc[e] = "acquire" /\ pc' = [pc EXCEPT ![e] = "waiting"]
        /\ Info(e) = NoInfo /\ UNCHANGED <<runList, call, held>>
    BY <1>6 DEF AcquireAppend
  <2>2. PICK at \in LockIds : at = call[e].at /\ At(e) = at /\ lockInfo[e][at] = NoInfo
    BY <1>0, <2>1, AcquireFacts DEF BusyPCs, Info, At
  <2>3. lockInfo' = NewInfo(e) \/ lockInfo' = Relink(NewInfo(e), at, NULL, e)
    BY <1>6, <2>2 DEF AcquireAppend
  <2>4. /\ NewInfo(e)[e][at] # NoInfo /\ NewInfo(e)[e][at].ref = 0
        /\ \A l \in LockIds \ {at} : NewInfo(e)[e][l] = lockInfo[e][l]
        /\ NewInfo(e) \in InfoLists
    BY <1>0, <2>1, <2>2, NewInfoType
  <2>5. \A l \in LockIds :
          /\ (lockInfo'[e][l] = NoInfo) <=> (NewInfo(e)[e][l] = NoInfo)
          /\ NewInfo(e)[e][l] # NoInfo => lockInfo'[e][l].ref = NewInfo(e)[e][l].ref
    BY <2>2, <2>3, <2>4, RelinkType
  <2>6. \A l \in LockIds : Count(e, l)' = IF l = at THEN 1 ELSE Count(e, l)
    BY <2>2, <2>4, <2>5 DEF Count
  <2>7. Count(e, at) = 0
    BY <2>2 DEF Count
  <2>8. pc'[e] = "waiting" /\ call'[e].at = at
    BY <1>0, <2>1, <2>2
  <2>9. OnPath(e)' /\ Above(e)' /\ HeldKept(e)'
    BY <1>a, <2>1, <2>2, <2>8 DEF OnPath, Above, HeldKept, Kept, WaitPCs
  <2>10. Counted(e)'
    <3> SUFFICES ASSUME NEW l \in LockIds
                 PROVE Count(e, l)' = Cardinality(Passing(held[e], l)) + InFlight(e, l)'
      BY <1>a, <2>1 DEF Counted
    <3>1. /\ Count(e, l) = Cardinality(Passing(held[e], l))
                            + (IF l \in Path(at) \ {at} THEN 1 ELSE 0)
          /\ Cardinality(Passing(held[e], l)) \in Nat
      BY <1>a, <2>1, <2>2, InFlightIs, FS_CardinalityType DEF Counted
    <3>2. InFlight(e, l)' = IF l \in Path(at) THEN 1 ELSE 0
      BY <2>8, InFlightNext DEF WaitPCs
    <3>3. at \in Path(at)
      BY PathFacts
    <3> QED BY <2>6, <2>7, <3>1, <3>2, <3>3
  <2> QED BY <2>9, <2>10 DEF CountPart
<1>7. CASE WakeUp(e) \/ Timeout(e) \/ Interrupt(e) \/ WaitRetry(e)
  <2>1. /\ pc[e] \in WaitPCs /\ \E to \in WaitPCs : pc' = [pc EXCEPT ![e] = to]
        /\ UNCHANGED <<runList, lockInfo, call, held>>
    BY <1>7 DEF WakeUp, Timeout, Interrupt, WaitRetry, WaitPCs
  <2>2. pc'[e] \in WaitPCs
    BY <1>0, <2>1
  <2>3. \A l : InFlight(e, l)' = InFlight(e, l)
    BY <2>1, <2>2, InFlightIs, InFlightNext
  <2> QED BY <1>a, <2>1, <2>2, <2>3
          DEF CountPart, OnPath, Above, Counted, Count, HeldKept, Kept, WaitPCs
<1>8. CASE GrantAfterWait(e)
  <2>1. /\ pc[e] = "woken" /\ removeFromWait(e, At(e))
        /\ runList' = [runList EXCEPT ![At(e)][e] = X]
        /\ pc' = [pc EXCEPT ![e] = "idle"]
        /\ held' = [held EXCEPT ![e][At(e)] = @ + 1]
    BY <1>8 DEF GrantAfterWait
  <2>2. PICK at \in LockIds : at = call[e].at /\ At(e) = at
    BY <1>0, <2>1, AcquireFacts DEF At, BusyPCs, WaitPCs
  <2>3. \A l \in LockIds : Count(e, l)' = Count(e, l)
    BY <1>0, <2>1, DequeueType DEF Count, WaitPCs
  <2>4. /\ runList'[at][e] = X
        /\ \A m \in LockIds \ {at} : runList'[m][e] = runList[m][e]
    BY <1>0, <2>1, <2>2
  <2>5. /\ pc'[e] = "idle"
        /\ held[e] \in [LockIds -> Nat] /\ held'[e] \in [LockIds -> Nat]
        /\ held'[e][at] = held[e][at] + 1
        /\ \A m \in LockIds \ {at} : held'[e][m] = held[e][m]
    BY <1>0, <2>1, <2>2
  <2>6. OnPath(e)' /\ Above(e)'
    BY <2>5 DEF OnPath, Above, WaitPCs
  <2>7. Counted(e)'
    <3> SUFFICES ASSUME NEW l \in LockIds
                 PROVE /\ IsFiniteSet(Passing(held'[e], l))
                       /\ Count(e, l) = Cardinality(Passing(held'[e], l)) + InFlight(e, l)'
      BY <2>3 DEF Counted
    <3>1. /\ IsFiniteSet(Passing(held[e], l))
          /\ Count(e, l) = Cardinality(Passing(held[e], l))
                             + (IF l \in Path(at) THEN 1 ELSE 0)
          /\ Cardinality(Passing(held[e], l)) \in Nat
      BY <1>a, <2>1, <2>2, InFlightIs, FS_CardinalityType DEF Counted, WaitPCs
    <3>2. InFlight(e, l)' = 0
      BY <2>5, InFlightNext
    <3>3. /\ IsFiniteSet(Passing(held'[e], l))
          /\ Cardinality(Passing(held'[e], l)) = Cardinality(Passing(held[e], l))
                                                   + (IF l \in Path(at) THEN 1 ELSE 0)
      BY <2>5, <3>1, PassingMore
    <3> QED BY <3>1, <3>2, <3>3
  <2>8. HeldKept(e)'
    <3> SUFFICES ASSUME NEW l \in LockIds, held'[e][l] > 0 PROVE Kept(e, l)'
      BY <2>5 DEF HeldKept
    <3>1. Path(l) \subseteq LockIds /\ Parent(l) \in LockIds
      BY PathFacts, ParentType
    <3>2. \A m \in LockIds : /\ runList[m][e] # NoType => runList'[m][e] # NoType
                             /\ runList[m][e] \in {S, X} => runList'[m][e] \in {S, X}
                             /\ runList[m][e] \in {IX, X} => runList'[m][e] \in {IX, X}
                             /\ runList[m][e] = X => runList'[m][e] = X
      BY <2>4 DEF NoType, X
    <3>3. CASE l # at
      <4>1. Kept(e, l)
        BY <1>a, <2>5, <3>3 DEF HeldKept
      <4> QED BY <3>1, <3>2, <4>1 DEF Kept
    <3>4. CASE l = at
      <4>1. /\ \A m \in Path(at) \ {at} : runList[m][e] # NoType
            /\ IsRecord(at) => runList[Parent(at)][e] \in {IX, X}
        BY <1>a, <2>1, <2>2 DEF Above, WaitPCs
      <4>2. \A m \in Path(at) : runList'[m][e] # NoType
        BY <2>4, <3>1, <3>2, <3>4, <4>1 DEF NoType, X
      <4> QED BY <2>4, <3>1, <3>2, <3>4, <4>1, <4>2 DEF Kept
    <3> QED BY <3>3, <3>4
  <2> QED BY <2>6, <2>7, <2>8 DEF CountPart
<1>9. CASE GiveUp(e)
  <2>1. /\ pc[e] = "failed" /\ pc' = [pc EXCEPT ![e] = AfterError(call[e].kind)]
        /\ UNCHANGED <<runList, held>>
    BY <1>9 DEF GiveUp
  <2>2. AfterError(call[e].kind) = "rollback"
    BY <1>0, <2>1 DEF TypeInv, CallOK, AfterError, WaitPCs
  <2>3. pc'[e] = "rollback"
    BY <1>0, <2>1, <2>2
  <2> QED BY <1>a, <2>1, <2>3
          DEF CountPart, OnPath, Above, Counted, HeldKept, Kept, WaitPCs
<1>10. CASE ReleaseStep(e)
  BY <1>10, ReleaseCount
<1>11. CASE ReleaseAllStep(e)
  <2>1. pc[e] = "releaseAll" /\ UNCHANGED <<pc, held>>
    BY <1>11 DEF ReleaseAllStep
  <2> QED BY <1>a, <2>1 DEF CountPart, OnPath, Above, Counted, HeldKept, WaitPCs
<1>12. CASE ReleaseAllDone(e)
  <2>1. /\ pc[e] = "releaseAll" /\ pc' = [pc EXCEPT ![e] = "idle"] /\ held' = held
        /\ lockInfo' = [lockInfo EXCEPT ![e] = [l \in LockIds |-> NoInfo]]
    BY <1>12 DEF ReleaseAllDone
  <2>2. pc'[e] = "idle" /\ \A l \in LockIds : lockInfo'[e][l] = NoInfo
    BY <1>0, <2>1 DEF InfoLists
  <2>3. \A l \in LockIds : held'[e][l] = 0
    BY <1>0, <1>a, <2>1 DEF HeldKept
  <2>4. \A l \in LockIds : /\ IsFiniteSet(Passing(held'[e], l))
                           /\ Cardinality(Passing(held'[e], l)) = 0
    BY <2>3, PassingNone
  <2>5. Counted(e)'
    BY <2>2, <2>4, InFlightNext DEF Counted, Count
  <2> QED BY <2>2, <2>3, <2>5 DEF CountPart, OnPath, Above, HeldKept, WaitPCs
<1> QED
  BY <1>1, <1>2, <1>3, <1>4, <1>5, <1>6, <1>7, <1>8, <1>9, <1>10, <1>11, <1>12
     DEF Caller, Acquire, Wait, Release

(* Every step preserves the invariant about counts. *)
LEMMA CountInvNext ==
  ASSUME "query" \notin Calls
  PROVE CountInv /\ [Next]_vars => CountInv'
<1> SUFFICES ASSUME CountInv, [Next]_vars, NEW g \in EDUs PROVE CountPart(g)'
  BY RecordInvNext DEF CountInv
<1>0. CallOK /\ CountPart(g) /\ RecordInv
  BY DEF CountInv, RecordInv, GrantInv, TypeInv
<1>1. CASE UNCHANGED vars
  <2>1. Untouched(g)
    BY <1>1 DEF vars, Untouched
  <2> QED BY <1>0, <2>1, UntouchedCount
<1>2. CASE Next
  <2>1. PICK e \in EDUs : \/ Caller(e) \/ Acquire(e) \/ Wait(e) \/ Release(e)
                          \/ Timeout(e) \/ Interrupt(e)
    BY <1>2 DEF Next
  <2>2. \A f \in EDUs \ {e} : Untouched(f)
    BY <1>0, <2>1, RecordStep
  <2> QED BY <1>0, <2>1, <2>2, CountStep, UntouchedCount
<1> QED BY <1>1, <1>2

(* The reference count of every lock-list entry is the number of acquisitions
   that passed through the lock: release (dpsTransLock::release) gives a lock
   back at the last of them and not before; without find-and-modify scanners. *)
THEOREM CountsExact ==
  ASSUME "query" \notin Calls
  PROVE Spec => []RefCountsExact
<1>1. CountInv => RefCountsExact
  BY DEF CountInv, CountPart, Counted, Count, RefCountsExact
<1> QED BY CountInvInit, CountInvNext, <1>1, PTL DEF Spec

(* A lock that tryX, tryS, tryOrAppendX or waitLock granted, and its
   containers, are in the run lists as long as the caller counts on them,
   strong enough for what it asked; without find-and-modify scanners. *)
THEOREM ContainersKept ==
  ASSUME "query" \notin Calls
  PROVE Spec => []ContainersLocked
<1>1. CountInv => ContainersLocked
  BY DEF CountInv, CountPart, HeldKept, Kept, ContainersLocked
<1> QED BY CountInvInit, CountInvNext, <1>1, PTL DEF Spec

(* Whoever drops or truncates a collection, or drops a space, with its X lock
   is alone in it: no other EDU has a record lock there; without
   find-and-modify scanners. *)
THEOREM DropsExclusive ==
  ASSUME "query" \notin Calls
  PROVE Spec => []DropExcludesRecords
<1>1. CountInv => DropExcludesRecords
  <2> SUFFICES ASSUME CountInv, NEW e \in EDUs, NEW f \in EDUs, NEW r \in RecordIds,
                      e # f, held[f][r] > 0, NEW m \in {Parent(r), SpaceOf(r)},
                      runList[m][e] = X
               PROVE FALSE
    BY DEF DropExcludesRecords
  <2>1. r \in LockIds /\ m \in LockIds /\ m \in Path(r)
    BY RecordIdFacts, ParentType, LockKinds DEF Path
  <2>2. runList[m][f] # NoType /\ runList[m][f] \in Types
    BY <2>1 DEF CountInv, CountPart, HeldKept, Kept, RecordInv, GrantInv, TypeInv, TypeOK
  <2>3. isLockCompatible(X, runList[m][f])
    BY <2>1, <2>2 DEF CountInv, RecordInv, GrantInv, RunListAgrees, Holders, X, NoType
  <2> QED BY <2>2, <2>3, CompatibleTable DEF Types
<1> QED BY CountInvInit, CountInvNext, <1>1, PTL DEF Spec

-----------------------------------------------------------------------------
(* The lock of an insert, with all other callers, those that ask for a
   container without the mb latch included. *)

(* The types a lock is asked for, by its level. *)
Shape(l, t) == \/ t = NoType
               \/ l \in SpaceIds /\ t \in Types
               \/ l \in CollectionIds /\ t \in {IX, S, X}
               \/ l \in RecordIds /\ t = X

Shaped(e) == /\ \A l \in LockIds : Shape(l, runList[l][e])
             /\ pc[e] \in WaitPCs => call[e].at \in RecordIds

HasLatch(e, cl) == /\ pc[e] \in {"acquire", "unwind"} /\ call[e].kind \in LatchedKinds
                   /\ CollectionOf(call[e].leaf) = cl

(* The mb latch is exclusive. *)
LatchAlone == \A e, f \in EDUs : \A cl : HasLatch(e, cl) /\ HasLatch(f, cl) => e = f

(* From the test of its slot on, nothing that is asked for under the latch is
   in the way of e's insert of r, and no S lock of e's own. *)
Clear(f, r) == /\ ~InWait(f, r) /\ runList[r][f] = NoType
               /\ runList[Parent(r)][f] # X

InsertSafe(e) == pc[e] = "acquire" /\ call[e].kind = "insert"
                   => /\ \A f \in EDUs \ {e} : Clear(f, call[e].leaf)
                      /\ runList[Parent(call[e].leaf)][e] # S

InsertInv == /\ CountInv /\ QueueInv /\ LatchAlone
             /\ \A e \in EDUs : Shaped(e) /\ InsertSafe(e)

(* All locks on the way to a record or a collection, but the space, belong to
   its collection. *)
LEMMA CollectionFacts ==
  /\ \A l \in CollectionIds : CollectionOf(l) = l
  /\ \A l \in RecordIds : CollectionOf(l) = Parent(l)
  /\ \A l \in RecordIds \cup CollectionIds : \A m \in Path(l) :
       m \in SpaceIds \/ CollectionOf(m) = CollectionOf(l)
<1>1. \A l \in CollectionIds : CollectionOf(l) = l
  BY DEF CollectionIds, CollectionOf
<1>2. \A l \in RecordIds : CollectionOf(l) = Parent(l)
  BY LockKinds DEF CollectionOf, Parent
<1>3. ASSUME NEW l \in CollectionIds, NEW m \in Path(l)
      PROVE m \in SpaceIds \/ CollectionOf(m) = CollectionOf(l)
  BY LockKinds DEF Path
<1>4. ASSUME NEW l \in RecordIds, NEW m \in Path(l)
      PROVE m \in SpaceIds \/ CollectionOf(m) = CollectionOf(l)
  <2>1. m = SpaceOf(l) \/ m = l \/ m = Parent(l)
    BY DEF Path
  <2>2. SpaceOf(l) \in SpaceIds /\ Parent(l) \in CollectionIds
    BY LockKinds
  <2> QED BY <1>1, <1>2, <2>1, <2>2
<1> QED BY <1>1, <1>2, <1>3, <1>4

(* What a call asks for, level by level. *)
LEMMA WantShape ==
  ASSUME "query" \notin Calls, TypeInv, NEW e \in EDUs, pc[e] = "acquire",
         CallOnRecord(e), OnPath(e)
  PROVE /\ Shape(At(e), Want(e))
        /\ call[e].kind \in LatchedKinds => call[e].leaf \in RecordIds \cup CollectionIds
        /\ call[e].kind \notin LatchedKinds
             => At(e) \in SpaceIds \/ (At(e) \in CollectionIds /\ Want(e) = S)
        /\ call[e].kind = "insert"
             => /\ call[e].leaf \in RecordIds
                /\ At(e) \in SpaceIds => Want(e) = IS /\ At(e) = SpaceOf(call[e].leaf)
                /\ At(e) \in CollectionIds => Want(e) = IX /\ At(e) = Parent(call[e].leaf)
                /\ At(e) \in RecordIds => Want(e) = X /\ At(e) = call[e].leaf
<1>1. /\ call[e].kind \in Calls /\ call[e].leaf \in TargetIds(call[e].kind)
      /\ At(e) \in Path(call[e].leaf) /\ call[e].leaf \in LockIds
  BY DEF TypeInv, CallOK, BusyPCs, CallOnRecord, OnPath, At
<1>2. /\ call[e].kind \in {"scan", "insert", "ddlCL", "ddlCS", "share"}
      /\ call[e].kind \in {"scan", "insert"} => call[e].leaf \in RecordIds
      /\ call[e].kind = "ddlCL" => call[e].leaf \in CollectionIds
      /\ call[e].kind = "ddlCS" => call[e].leaf \in SpaceIds
      /\ call[e].kind = "share" => call[e].leaf \in SpaceIds \cup CollectionIds
  BY <1>1, CallAssumption DEF TargetIds, CallKinds
<1>3. At(e) \in SpaceIds => Shape(At(e), Want(e))
  BY DEF Shape, Want, WantType, Types
<1>4. CASE call[e].leaf \in SpaceIds
  <2>1. At(e) \in SpaceIds
    BY <1>1, <1>4, LockKinds DEF Path
  <2>2. call[e].kind \in {"ddlCS", "share"}
    BY <1>2, <1>4, LockKinds
  <2> QED BY <1>3, <2>1, <2>2 DEF LatchedKinds
<1>5. CASE call[e].leaf \in CollectionIds
  <2>1. call[e].kind \in {"ddlCL", "share"}
    BY <1>2, <1>5, LockKinds
  <2>2. At(e) = call[e].leaf \/ At(e) = SpaceOf(call[e].leaf)
    BY <1>1, <1>5, LockKinds DEF Path
  <2>3. CASE At(e) = call[e].leaf
    <3>1. Want(e) = IF call[e].kind = "share" THEN S ELSE X
      BY <2>1, <2>3 DEF Want, WantType
    <3> QED BY <1>5, <2>1, <2>3, <3>1 DEF Shape, LatchedKinds
  <2>4. CASE At(e) = SpaceOf(call[e].leaf)
    <3>1. At(e) \in SpaceIds
      BY <1>5, <2>4, LockKinds
    <3> QED BY <1>3, <1>5, <2>1, <3>1 DEF LatchedKinds
  <2> QED BY <2>2, <2>3, <2>4
<1>6. CASE call[e].leaf \in RecordIds
  <2>1. call[e].kind \in {"scan", "insert"}
    BY <1>2, <1>6, LockKinds
  <2>2. /\ At(e) \in {call[e].leaf, SpaceOf(call[e].leaf), Parent(call[e].leaf)}
        /\ SpaceOf(call[e].leaf) \in SpaceIds /\ Parent(call[e].leaf) \in CollectionIds
    BY <1>1, <1>6, LockKinds DEF Path
  <2>3. CASE At(e) = call[e].leaf
    <3>1. Want(e) = X
      BY <2>1, <2>3 DEF Want, WantType
    <3> QED BY <1>6, <2>1, <2>3, <3>1, LockKinds DEF Shape, LatchedKinds
  <2>4. CASE At(e) = Parent(call[e].leaf)
    <3>1. At(e) \in CollectionIds /\ At(e) # call[e].leaf
      BY <1>6, <2>2, <2>4, LockKinds
    <3>2. Want(e) = IX
      BY <2>1, <2>4, <3>1 DEF Want, WantType
    <3> QED BY <1>6, <2>1, <2>4, <3>1, <3>2, LockKinds DEF Shape, LatchedKinds
  <2>5. CASE At(e) = SpaceOf(call[e].leaf)
    <3>1. At(e) \in SpaceIds /\ At(e) # call[e].leaf /\ At(e) # Parent(call[e].leaf)
      BY <1>6, <2>2, <2>5, LockKinds
    <3>2. Want(e) = IS
      BY <3>1 DEF Want, WantType
    <3> QED BY <1>3, <1>6, <2>1, <2>5, <3>1, <3>2, LockKinds DEF LatchedKinds
  <2> QED BY <2>2, <2>3, <2>4, <2>5
<1> QED BY <1>1, <1>4, <1>5, <1>6 DEF LockIds

(* A step changes at most one lock of its EDU to another type, and none of
   another EDU. *)
LEMMA GrantStep ==
  ASSUME "query" \notin Calls, RecordInv, NEW e \in EDUs,
         \/ Caller(e) \/ Acquire(e) \/ Wait(e) \/ Release(e)
         \/ Timeout(e) \/ Interrupt(e)
  PROVE \A l \in LockIds :
          \/ runList'[l][e] \in {runList[l][e], NoType}
          \/ pc[e] = "acquire" /\ l = At(e) /\ runList'[l][e] = Want(e)
          \/ pc[e] = "woken" /\ l = At(e) /\ runList'[l][e] = X
<1>0. /\ TypeInv /\ runList \in [LockIds -> [EDUs -> Types \cup {NoType}]]
      /\ todo \in [EDUs -> SUBSET LockIds]
  BY DEF RecordInv, GrantInv, TypeInv, TypeOK
<1>1. CASE AcquireMatch(e) \/ AcquireUpgrade(e) \/ AcquireNew(e) \/ AcquireRefused(e)
  BY <1>1, GainsOrFails DEF Gains
<1>2. CASE GrantAfterWait(e)
  <2>1. pc[e] = "woken" /\ runList' = [runList EXCEPT ![At(e)][e] = X]
    BY <1>2 DEF GrantAfterWait
  <2>2. At(e) \in LockIds
    BY <1>0, <2>1, AcquireFacts DEF BusyPCs, WaitPCs
  <2> QED BY <1>0, <2>1, <2>2
<1>3. CASE ReleaseStep(e)
  <2>1. At(e) \in LockIds
    BY <1>0, <1>3, AcquireFacts DEF ReleaseStep, BusyPCs
  <2>2. runList' = runList \/ runList' = [runList EXCEPT ![At(e)][e] = NoType]
    BY <1>3 DEF ReleaseStep, removeFromRun
  <2> QED BY <1>0, <2>1, <2>2
<1>4. CASE ReleaseAllStep(e)
  <2>1. PICK m \in LockIds : runList' = [runList EXCEPT ![m][e] = NoType]
    BY <1>0, <1>4 DEF ReleaseAllStep, removeFromRun
  <2> QED BY <1>0, <2>1
<1>5. CASE \/ StartCall(e) \/ StartRelease(e) \/ StartReleaseAll(e) \/ DrainEvent(e)
           \/ AcquireAppend(e) \/ WakeUp(e) \/ WaitRetry(e) \/ GiveUp(e)
           \/ Timeout(e) \/ Interrupt(e) \/ ReleaseAllDone(e)
  <2>1. runList' = runList
    BY <1>5 DEF StartCall, StartRelease, StartReleaseAll, DrainEvent, AcquireAppend, WakeUp,
                WaitRetry, GiveUp, Timeout, Interrupt, ReleaseAllDone
  <2> QED BY <2>1
<1> QED BY <1>1, <1>2, <1>3, <1>4, <1>5 DEF Caller, Acquire, Wait, Release

(* Where a step leaves its EDU. *)
LEMMA CallStep ==
  ASSUME "query" \notin Calls, RecordInv, NEW e \in EDUs,
         \/ Caller(e) \/ Acquire(e) \/ Wait(e) \/ Release(e)
         \/ Timeout(e) \/ Interrupt(e)
  PROVE /\ pc'[e] \in WaitPCs
             => \/ pc[e] \in WaitPCs /\ call'[e] = call[e]
                \/ AcquireAppend(e) /\ pc[e] = "acquire" /\ call'[e] = call[e]
        /\ pc'[e] \in {"acquire", "unwind"}
             => \/ StartCall(e)
                \/ /\ pc[e] \in {"acquire", "unwind"}
                   /\ pc'[e] = "acquire" => pc[e] = "acquire"
                   /\ call'[e].leaf = call[e].leaf /\ call'[e].kind = call[e].kind
<1>0. TypeInv /\ pc \in [EDUs -> PCs] /\ call \in [EDUs -> CallRecords]
  BY DEF RecordInv, GrantInv, TypeInv, TypeOK
<1> USE DEF WaitPCs
<1>1. CASE AcquireMatch(e) \/ AcquireUpgrade(e) \/ AcquireNew(e) \/ AcquireRefused(e)
  <2>0. pc[e] = "acquire"
    BY <1>1, GainsOrFails
  <2>1. CASE Advance(e)
    <3>1. CASE At(e) = call[e].leaf
      BY <1>0, <2>1, <3>1 DEF Advance
    <3>2. CASE At(e) # call[e].leaf
      <4>1. pc' = pc /\ call'[e] = [call[e] EXCEPT !.at = ChildOf(e)]
        BY <1>0, <2>1, <3>2 DEF Advance
      <4> QED BY <1>0, <2>0, <4>1 DEF CallRecords
    <3> QED BY <3>1, <3>2
  <2>2. CASE Fail(e)
    <3>1. CASE IsSpace(At(e))
      BY <1>0, <2>2, <3>1 DEF Fail, AfterError
    <3>2. CASE ~IsSpace(At(e))
      <4>1. pc'[e] = "unwind" /\ call'[e] = [call[e] EXCEPT !.at = Parent(At(e))]
        BY <1>0, <2>2, <3>2 DEF Fail
      <4> QED BY <1>0, <2>0, <4>1 DEF CallRecords
    <3> QED BY <3>1, <3>2
  <2> QED BY <1>1, <2>1, <2>2, GainsOrFails
<1>2. CASE ReleaseStep(e)
  <2>0. pc[e] \in {"release", "unwind"}
    BY <1>2 DEF ReleaseStep
  <2>1. CASE Info(e) = NoInfo \/ IsSpace(At(e))
    BY <1>0, <1>2, <2>1 DEF ReleaseStep, AfterRelease, AfterError
  <2>2. CASE ~(Info(e) = NoInfo \/ IsSpace(At(e)))
    <3>1. pc' = pc /\ call'[e] = [call[e] EXCEPT !.at = Parent(At(e))]
      BY <1>0, <1>2, <2>2 DEF ReleaseStep
    <3> QED BY <1>0, <2>0, <3>1 DEF CallRecords
  <2> QED BY <2>1, <2>2
<1>3. CASE AcquireAppend(e)
  BY <1>0, <1>3 DEF AcquireAppend
<1>4. CASE WakeUp(e) \/ WaitRetry(e) \/ Timeout(e) \/ Interrupt(e)
  BY <1>0, <1>4 DEF WakeUp, WaitRetry, Timeout, Interrupt
<1>5. CASE StartCall(e)
  <2>1. pc'[e] = "acquire"
    BY <1>0, <1>5 DEF StartCall
  <2> QED BY <1>5, <2>1
<1>6. CASE \/ StartRelease(e) \/ StartReleaseAll(e) \/ DrainEvent(e)
           \/ GrantAfterWait(e) \/ GiveUp(e) \/ ReleaseAllStep(e) \/ ReleaseAllDone(e)
  <2>1. pc'[e] \in {"idle", "release", "releaseAll", "rollback"}
    BY <1>0, <1>6 DEF StartRelease, StartReleaseAll, DrainEvent, GrantAfterWait, GiveUp,
                      AfterError, ReleaseAllStep, ReleaseAllDone
  <2> QED BY <2>1
<1> QED BY <1>1, <1>2, <1>3, <1>4, <1>5, <1>6 DEF Caller, Acquire, Wait, Release

(* Nobody waits for a lock without a first waiter. *)
LEMMA NobodyWaits ==
  ASSUME QueueInv, NEW l \in LockIds, waitCB[l] = NULL, NEW f \in EDUs
  PROVE ~InWait(f, l)
<1>1. PICK q : Queue(q, l)
  BY DEF QueueInv, Queues
<1>2. q \in Seq(EDUs) /\ NULL = Follow(q, 0)
  BY <1>1 DEF Queue, Chain
<1>3. Len(q) = 0
  <2> SUFFICES ASSUME Len(q) # 0 PROVE FALSE
    OBVIOUS
  <2>1. 1 \in 1 .. Len(q) /\ 0 < Len(q)
    BY <1>2
  <2>2. q[1] \in EDUs /\ q[1] = NULL
    BY <1>2, <2>1 DEF Follow
  <2> QED BY <2>2, NullAssumption
<1> QED BY <1>1, <1>3 DEF Queue

(* Every step keeps the types of its EDU's locks in shape. *)
LEMMA ShapedStep ==
  ASSUME "query" \notin Calls, InsertInv, NEW e \in EDUs,
         \/ Caller(e) \/ Acquire(e) \/ Wait(e) \/ Release(e)
         \/ Timeout(e) \/ Interrupt(e)
  PROVE Shaped(e)'
<1>0. /\ "query" \notin Calls /\ RecordInv /\ TypeInv /\ Shaped(e)
      /\ CallOnRecord(e) /\ OnPath(e)
  BY DEF InsertInv, CountInv, CountPart, RecordInv, RecordPart, GrantInv
<1>1. \A l \in LockIds : Shape(l, runList'[l][e])
  <2> TAKE l \in LockIds
  <2>1. CASE runList'[l][e] \in {runList[l][e], NoType}
    BY <1>0, <2>1 DEF Shaped, Shape
  <2>2. CASE pc[e] = "acquire" /\ l = At(e) /\ runList'[l][e] = Want(e)
    BY <1>0, <2>2, WantShape
  <2>3. CASE pc[e] = "woken" /\ l = At(e) /\ runList'[l][e] = X
    BY <1>0, <2>3 DEF Shaped, Shape, WaitPCs, At
  <2> QED BY <1>0, <2>1, <2>2, <2>3, GrantStep
<1>2. ASSUME pc'[e] \in WaitPCs PROVE call'[e].at \in RecordIds
  <2>1. CASE pc[e] \in WaitPCs /\ call'[e] = call[e]
    BY <1>0, <2>1 DEF Shaped
  <2>2. CASE AcquireAppend(e) /\ pc[e] = "acquire" /\ call'[e] = call[e]
    <3>1. call[e].kind \in {"scan", "query"} /\ call[e].at = call[e].leaf
      BY <2>2 DEF AcquireAppend, Appends, At
    <3>2. call[e].leaf \in TargetIds(call[e].kind)
      BY <1>0, <2>2 DEF CallOnRecord
    <3>3. call[e].leaf \in RecordIds
      BY <3>1, <3>2 DEF TargetIds
    <3> QED BY <2>2, <3>1, <3>3
  <2> QED BY <1>0, <1>2, <2>1, <2>2, CallStep
<1> QED BY <1>1, <1>2 DEF Shaped, Shape

(* The mb latch stays exclusive. *)
LEMMA LatchStep ==
  ASSUME "query" \notin Calls, InsertInv, NEW e \in EDUs,
         \/ Caller(e) \/ Acquire(e) \/ Wait(e) \/ Release(e)
         \/ Timeout(e) \/ Interrupt(e)
  PROVE LatchAlone'
<1>0. /\ "query" \notin Calls /\ RecordInv /\ TypeInv /\ LatchAlone
      /\ pc \in [EDUs -> PCs] /\ call \in [EDUs -> CallRecords]
  BY DEF InsertInv, CountInv, RecordInv, GrantInv, TypeInv, TypeOK
<1>1. \A f \in EDUs \ {e} : \A cl : HasLatch(f, cl)' <=> HasLatch(f, cl)
  <2>1. \A f \in EDUs \ {e} : pc'[f] = pc[f] /\ call'[f] = call[f]
    BY <1>0, RecordStep DEF Untouched
  <2> QED BY <2>1 DEF HasLatch
<1>2. \A cl : HasLatch(e, cl)' => HasLatch(e, cl) \/ ~MbLatched(cl)
  <2> SUFFICES ASSUME NEW cl, HasLatch(e, cl)' PROVE HasLatch(e, cl) \/ ~MbLatched(cl)
    OBVIOUS
  <2>0. /\ pc'[e] \in {"acquire", "unwind"} /\ call'[e].kind \in LatchedKinds
        /\ CollectionOf(call'[e].leaf) = cl
    BY DEF HasLatch
  <2>1. CASE StartCall(e)
    <3>1. PICK kind \in Calls : \E l \in TargetIds(kind) :
            /\ kind \in LatchedKinds => ~MbLatched(CollectionOf(l))
            /\ call' = [call EXCEPT ![e] = [kind |-> kind, leaf |-> l, at |-> SpaceOf(l)]]
      BY <2>1 DEF StartCall
    <3>2. PICK l \in TargetIds(kind) :
            /\ kind \in LatchedKinds => ~MbLatched(CollectionOf(l))
            /\ call' = [call EXCEPT ![e] = [kind |-> kind, leaf |-> l, at |-> SpaceOf(l)]]
      BY <3>1
    <3>3. call'[e].kind = kind /\ call'[e].leaf = l
      BY <1>0, <3>2
    <3> QED BY <2>0, <3>2, <3>3
  <2>2. CASE /\ pc[e] \in {"acquire", "unwind"}
             /\ call'[e].leaf = call[e].leaf /\ call'[e].kind = call[e].kind
    BY <2>0, <2>2 DEF HasLatch
  <2> QED BY <1>0, <2>0, <2>1, <2>2, CallStep
<1>3. \A f \in EDUs : \A cl : HasLatch(f, cl) => MbLatched(cl)
  BY DEF HasLatch, MbLatched
<1>4. \A f \in EDUs \ {e} : \A cl : ~(HasLatch(e, cl)' /\ HasLatch(f, cl)')
  BY <1>0, <1>1, <1>2, <1>3 DEF LatchAlone
<1>5. \A f, g \in EDUs : \A cl : HasLatch(f, cl)' /\ HasLatch(g, cl)' => f = g
  <2> SUFFICES ASSUME NEW f \in EDUs, NEW g \in EDUs, NEW cl,
                      HasLatch(f, cl)', HasLatch(g, cl)', f # g
               PROVE FALSE
    OBVIOUS
  <2>1. CASE f = e \/ g = e
    BY <1>4, <2>1
  <2>2. CASE f # e /\ g # e
    BY <1>0, <1>1, <2>2 DEF LatchAlone
  <2> QED BY <2>1, <2>2
<1> QED BY <1>5 DEF LatchAlone

(* Who does not have the latch of a collection gets in nobody's way there. *)
LEMMA ClearStep ==
  ASSUME "query" \notin Calls, InsertInv, NEW e \in EDUs,
         \/ Caller(e) \/ Acquire(e) \/ Wait(e) \/ Release(e)
         \/ Timeout(e) \/ Interrupt(e),
         NEW r \in RecordIds, ~HasLatch(e, CollectionOf(r)), Clear(e, r)
  PROVE Clear(e, r)'
<1>0. /\ "query" \notin Calls /\ RecordInv /\ TypeInv /\ Shaped(e)
      /\ CallOnRecord(e) /\ OnPath(e)
  BY DEF InsertInv, CountInv, CountPart, RecordInv, RecordPart, GrantInv
<1>1. /\ r \in LockIds /\ Parent(r) \in CollectionIds /\ Parent(r) \in LockIds
      /\ CollectionOf(r) = Parent(r) /\ CollectionOf(Parent(r)) = Parent(r)
      /\ r \notin SpaceIds /\ Parent(r) \notin SpaceIds /\ Parent(r) \notin RecordIds
  BY LockKinds, CollectionFacts
<1>2. pc[e] = "acquire" => At(e) # r /\ (At(e) = Parent(r) => Want(e) = S)
  <2> SUFFICES ASSUME pc[e] = "acquire"
               PROVE At(e) # r /\ (At(e) = Parent(r) => Want(e) = S)
    OBVIOUS
  <2>1. CASE call[e].kind \in LatchedKinds
    <3>1. call[e].leaf \in RecordIds \cup CollectionIds
      BY <1>0, <2>1, WantShape
    <3>2. At(e) \in Path(call[e].leaf)
      BY <1>0 DEF OnPath, At
    <3>3. CollectionOf(call[e].leaf) # CollectionOf(r)
      BY <2>1 DEF HasLatch
    <3>4. At(e) \in SpaceIds \/ CollectionOf(At(e)) = CollectionOf(call[e].leaf)
      BY <3>1, <3>2, CollectionFacts
    <3> QED BY <1>1, <3>3, <3>4
  <2>2. CASE call[e].kind \notin LatchedKinds
    <3>1. At(e) \in SpaceIds \/ (At(e) \in CollectionIds /\ Want(e) = S)
      BY <1>0, <2>2, WantShape
    <3> QED BY <1>1, <3>1, LockKinds
  <2> QED BY <2>1, <2>2
<1>3. pc[e] \in WaitPCs => At(e) # r /\ At(e) # Parent(r)
  BY <1>0, <1>1 DEF Clear, InWait, Shaped, WaitPCs, At
<1>4. /\ runList'[r][e] \in {runList[r][e], NoType}
      /\ runList'[Parent(r)][e] \in {runList[Parent(r)][e], NoType, S}
  BY <1>0, <1>1, <1>2, <1>3, GrantStep DEF WaitPCs
<1>5. ASSUME pc'[e] \in WaitPCs PROVE call'[e].at # r
  <2>1. \/ pc[e] \in WaitPCs /\ call'[e] = call[e]
        \/ pc[e] = "acquire" /\ call'[e] = call[e]
    BY <1>0, <1>5, CallStep
  <2> QED BY <1>2, <1>3, <2>1 DEF At
<1>6. ~InWait(e, r)'
  BY <1>5 DEF InWait, At, WaitPCs
<1> QED BY <1>4, <1>6 DEF Clear, NoType, S, X

(* The test of the slot, under the latch, finds the way clear. *)
LEMMA InsertStart ==
  ASSUME "query" \notin Calls, InsertInv, NEW e \in EDUs, pc[e] = "idle",
         NEW r \in RecordIds, SlotUsable(e, r), NEW f \in EDUs
  PROVE /\ f # e => Clear(f, r)
        /\ runList[Parent(r)][e] # S
<1>0. /\ GrantInv /\ RunListInLockList /\ RunListAgrees /\ Shaped(e) /\ Shaped(f)
      /\ GrantedList(e) /\ CountedRecords(e) /\ HeldKept(e)
      /\ runList \in [LockIds -> [EDUs -> Types \cup {NoType}]]
      /\ held \in [EDUs -> [LockIds -> Nat]] /\ lockInfo \in InfoLists
  BY DEF InsertInv, CountInv, CountPart, RecordInv, RecordPart, GrantInv, TypeInv, TypeOK
<1> DEFINE cl == Parent(r)
           mine(m) == lockInfo[e][m] # NoInfo
           matched(m, t) == mine(m) /\ isLockMatch(lockInfo[e][m].type, t)
<1>1. r \in LockIds /\ cl \in CollectionIds /\ cl \in LockIds /\ r \notin CollectionIds
      /\ r \notin SpaceIds /\ cl \notin SpaceIds /\ cl \notin RecordIds
  BY LockKinds
<1>2. ~InWait(f, r)
  BY <1>1, NobodyWaits DEF InsertInv, SlotUsable, hasWait
<1>3. \A m \in LockIds : mine(m) => /\ runList[m][e] = lockInfo[e][m].type
                                    /\ e \in Holders(m)
  BY <1>0 DEF GrantedList, RunListInLockList, WaitPCs, Holders
<1>4. \A m \in LockIds : f # e /\ runList[m][f] # NoType /\ runList[m][e] # NoType
                           => isLockCompatible(runList[m][e], runList[m][f])
  BY <1>0 DEF RunListAgrees, Holders
<1>5. ASSUME f # e, NEW m \in LockIds, runList[m][e] \in {IX, X} PROVE runList[m][f] # X
  <2> SUFFICES ASSUME runList[m][f] = X PROVE FALSE
    OBVIOUS
  <2>1. isLockCompatible(runList[m][e], X)
    BY <1>4, <1>5 DEF NoType, IX, X
  <2> QED BY <1>5, <2>1, CompatibleTable DEF Types
<1>6. /\ \/ matched(r, X)
         \/ matched(cl, IX)
         \/ /\ mine(cl) => upgradeCheck(lockInfo[e][cl].type, IX)
            /\ checkCompatible(e, IX, cl)
      /\ \/ matched(r, X)
         \/ checkCompatible(e, X, r)
  BY DEF SlotUsable, testX
<1> HIDE DEF cl, mine, matched
<1>7. ASSUME matched(r, X) PROVE runList[r][e] = X /\ runList[cl][e] \in {IX, X}
  <2>1. mine(r) /\ runList[r][e] = X
    BY <1>1, <1>3, <1>7 DEF matched, isLockMatch, IS, X
  <2>2. Count(e, r) = held[e][r] + 0 /\ Count(e, r) = lockInfo[e][r].ref + 1
    BY <1>0, <2>1 DEF CountedRecords, Pending, WaitPCs, Count, mine
  <2>3. held[e][r] > 0
    <3>1. lockInfo[e][r].ref \in Nat /\ held[e][r] \in Nat
      BY <1>0, <1>1, <2>1 DEF InfoLists, LockInfo, mine
    <3> QED BY <2>2, <3>1
  <2>4. Kept(e, r) /\ IsRecord(r)
    BY <1>0, <1>1, <2>3, LockKinds DEF HeldKept
  <2> QED BY <2>1, <2>4 DEF Kept, cl
<1>8. ASSUME f # e PROVE runList[cl][f] # X
  <2>1. CASE matched(r, X)
    BY <1>1, <1>5, <1>7, <1>8, <2>1
  <2>2. CASE matched(cl, IX)
    <3>1. runList[cl][e] \in {IX, X}
      BY <1>1, <1>3, <2>2 DEF matched, isLockMatch, IS, IX, X
    <3> QED BY <1>1, <1>5, <1>8, <3>1
  <2>3. CASE checkCompatible(e, IX, cl)
    <3> SUFFICES ASSUME runList[cl][f] = X PROVE FALSE
      OBVIOUS
    <3>1. f \in Holders(cl) \ {e}
      BY <1>8 DEF Holders, X, NoType
    <3>2. isLockCompatible(IX, X)
      BY <1>0, <1>1, <2>3, <3>1, CheckedCompatible DEF Types
    <3> QED BY <3>2, CompatibleTable DEF Types
  <2> QED BY <1>6, <2>1, <2>2, <2>3
<1>9. ASSUME f # e PROVE runList[r][f] = NoType
  <2> SUFFICES ASSUME runList[r][f] # NoType PROVE FALSE
    OBVIOUS
  <2>0. runList[r][f] = X /\ f \in Holders(r) \ {e}
    BY <1>0, <1>1, <1>9 DEF Shaped, Shape, Holders
  <2>1. CASE matched(r, X)
    BY <1>1, <1>5, <1>7, <1>9, <2>0, <2>1
  <2>2. CASE checkCompatible(e, X, r)
    <3>1. isLockCompatible(X, X)
      BY <1>0, <1>1, <2>0, <2>2, CheckedCompatible DEF Types
    <3> QED BY <3>1, CompatibleTable DEF Types
  <2> QED BY <1>6, <2>1, <2>2
<1>10. runList[cl][e] # S
  <2> SUFFICES ASSUME runList[cl][e] = S PROVE FALSE
    OBVIOUS
  <2>0. runList[cl][e] # NoType
    BY DEF S, NoType
  <2>1. mine(cl) /\ lockInfo[e][cl].type = S
    BY <1>0, <1>1, <2>0 DEF RunListInLockList, mine
  <2>2. ~matched(cl, IX)
    BY <2>1 DEF matched, isLockMatch, IS, IX, S, X
  <2>3. ~matched(r, X)
    BY <1>7 DEF IX, S, X
  <2>4. upgradeCheck(S, IX)
    BY <1>6, <2>1, <2>2, <2>3
  <2> QED BY <2>4 DEF upgradeCheck, IX, S, X
<1> QED BY <1>2, <1>8, <1>9, <1>10 DEF Clear, cl

(* Every step leaves the way of an insert clear. *)
LEMMA InsertSafeStep ==
  ASSUME "query" \notin Calls, InsertInv, NEW e \in EDUs,
         \/ Caller(e) \/ Acquire(e) \/ Wait(e) \/ Release(e)
         \/ Timeout(e) \/ Interrupt(e),
         NEW g \in EDUs
  PROVE InsertSafe(g)'
<1> SUFFICES ASSUME pc'[g] = "acquire", call'[g].kind = "insert", NEW f \in EDUs,
                    NEW r, r = call'[g].leaf
             PROVE (f # g => Clear(f, r)') /\ runList'[Parent(r)][g] # S
  BY DEF InsertSafe
<1>0. /\ "query" \notin Calls /\ RecordInv /\ TypeInv /\ InsertSafe(g) /\ LatchAlone
      /\ CallOnRecord(g) /\ OnPath(g)
      /\ pc \in [EDUs -> PCs] /\ call \in [EDUs -> CallRecords]
      /\ \A h \in EDUs \ {e} : Untouched(h)
  BY RecordStep DEF InsertInv, CountInv, CountPart, RecordInv, RecordPart,
                    GrantInv, TypeInv, TypeOK
<1>1. CASE g = e /\ StartCall(e)
  <2>1. PICK kind \in Calls : \E l \in TargetIds(kind) :
          /\ kind = "insert" => SlotUsable(e, l)
          /\ call' = [call EXCEPT ![e] = [kind |-> kind, leaf |-> l, at |-> SpaceOf(l)]]
    BY <1>1 DEF StartCall
  <2>2. PICK l \in TargetIds(kind) :
          /\ kind = "insert" => SlotUsable(e, l)
          /\ call' = [call EXCEPT ![e] = [kind |-> kind, leaf |-> l, at |-> SpaceOf(l)]]
    BY <2>1
  <2>3. kind = "insert" /\ l = r
    BY <1>0, <1>1, <2>2
  <2>4. r \in RecordIds /\ SlotUsable(e, r) /\ pc[e] = "idle"
    BY <1>1, <2>2, <2>3 DEF TargetIds, StartCall
  <2>5. (f # e => Clear(f, r)) /\ runList[Parent(r)][e] # S
    BY <1>1, <2>4, InsertStart
  <2>6. runList' = runList /\ (f # e => pc'[f] = pc[f] /\ call'[f] = call[f])
    BY <1>0, <1>1 DEF StartCall
  <2> QED BY <1>1, <2>5, <2>6 DEF Clear, InWait, At
<1>2. CASE ~(g = e /\ StartCall(e))
  <2>1. pc[g] = "acquire" /\ call[g].leaf = r /\ call[g].kind = "insert"
    <3>1. CASE g = e
      BY <1>0, <1>2, <3>1, CallStep
    <3>2. CASE g # e
      BY <1>0, <3>2 DEF Untouched
    <3> QED BY <3>1, <3>2
  <2>2. (f # g => Clear(f, r)) /\ runList[Parent(r)][g] # S /\ r \in RecordIds
    BY <1>0, <2>1, WantShape DEF InsertSafe
  <2>3. HasLatch(g, CollectionOf(r))
    BY <2>1 DEF HasLatch, LatchedKinds
  <2>0. r \in LockIds /\ Parent(r) \in CollectionIds /\ Parent(r) \in LockIds
    BY <2>2, LockKinds
  <2>4. ASSUME f # g, f # e PROVE Clear(f, r)'
    <3>2. /\ pc'[f] = pc[f] /\ call'[f] = call[f]
          /\ \A l \in LockIds : runList'[l][f] = runList[l][f]
      BY <1>0, <2>4 DEF Untouched
    <3> QED BY <2>0, <2>2, <2>4, <3>2 DEF Clear, InWait, At
  <2>5. ASSUME f # g, f = e PROVE Clear(f, r)'
    <3>1. ~HasLatch(e, CollectionOf(r))
      BY <1>0, <2>3, <2>5 DEF LatchAlone
    <3> QED BY <2>2, <2>5, <3>1, ClearStep
  <2>6. runList'[Parent(r)][g] # S
    <3>1. CASE g # e
      BY <1>0, <2>0, <2>2, <3>1 DEF Untouched
    <3>2. CASE g = e
      <4>1. \/ runList'[Parent(r)][e] \in {runList[Parent(r)][e], NoType}
            \/ Parent(r) = At(e) /\ runList'[Parent(r)][e] = Want(e)
        BY <1>0, <2>0, <2>1, <3>2, GrantStep
      <4>2. At(e) = Parent(r) => Want(e) = IX
        BY <1>0, <2>0, <2>1, <3>2, WantShape
      <4> QED BY <2>2, <3>2, <4>1, <4>2 DEF NoType, IX, S
    <3> QED BY <3>1, <3>2
  <2> QED BY <2>4, <2>5, <2>6
<1> QED BY <1>1, <1>2

(* Nobody holds, waits or is latched initially. *)
LEMMA InsertInvInit == Init => InsertInv
<1> SUFFICES ASSUME Init PROVE InsertInv
  OBVIOUS
<1>1. /\ \A e \in EDUs : pc[e] = "idle"
      /\ \A e \in EDUs : \A l \in LockIds : runList[l][e] = NoType
  BY DEF Init
<1> QED BY <1>1, CountInvInit, QueueInvInit
        DEF InsertInv, LatchAlone, HasLatch, Shaped, Shape, InsertSafe, WaitPCs

(* Every step preserves the invariant about inserts. *)
LEMMA InsertInvNext ==
  ASSUME "query" \notin Calls
  PROVE InsertInv /\ [Next]_vars => InsertInv'
<1> SUFFICES ASSUME InsertInv, [Next]_vars PROVE InsertInv'
  OBVIOUS
<1>2. CountInv' /\ QueueInv'
  BY CountInvNext, QueueInvNext DEF InsertInv
<1>3. CASE UNCHANGED vars
  <2>1. LatchAlone'
    BY <1>3 DEF vars, InsertInv, LatchAlone, HasLatch
  <2>2. \A e \in EDUs : Shaped(e)' /\ InsertSafe(e)'
    BY <1>3 DEF vars, InsertInv, Shaped, Shape, InsertSafe, Clear, InWait, At
  <2> QED BY <1>2, <2>1, <2>2 DEF InsertInv
<1>4. CASE Next
  <2>1. PICK e \in EDUs : \/ Caller(e) \/ Acquire(e) \/ Wait(e) \/ Release(e)
                          \/ Timeout(e) \/ Interrupt(e)
    BY <1>4 DEF Next
  <2>2. LatchAlone' /\ Shaped(e)'
    BY <2>1, LatchStep, ShapedStep
  <2>3. \A g \in EDUs : InsertSafe(g)'
    BY <2>1, InsertSafeStep
  <2>4. \A f \in EDUs \ {e} : Untouched(f)
    BY <2>1, RecordStep DEF InsertInv, CountInv
  <2>5. \A f \in EDUs \ {e} : Shaped(f)'
    BY <2>4 DEF InsertInv, Shaped, Shape, Untouched
  <2> QED BY <1>2, <2>2, <2>3, <2>5 DEF InsertInv
<1> QED BY <1>3, <1>4

(* A level of an insert is refused only by who did not ask for the latch. *)
LEMMA InsertGranted ==
  ASSUME "query" \notin Calls, InsertInv, NEW e \in EDUs,
         pc[e] = "acquire", call[e].kind = "insert",
         \/ Caller(e) \/ Acquire(e) \/ Wait(e) \/ Release(e)
         \/ Timeout(e) \/ Interrupt(e),
         ~TakenUnlatched(e, call[e].leaf)
  PROVE pc'[e] \in {"acquire", "idle"}
<1>0. /\ RecordInv /\ GrantInv /\ TypeInv /\ RunListInLockList /\ InsertSafe(e)
      /\ GrantedList(e) /\ CallOnRecord(e) /\ OnPath(e)
      /\ \A f \in EDUs : Shaped(f)
      /\ pc \in [EDUs -> PCs]
  BY DEF InsertInv, CountInv, CountPart, RecordInv, RecordPart, GrantInv, TypeInv, TypeOK
<1>1. At(e) \in LockIds /\ Info(e) = lockInfo[e][At(e)]
  BY <1>0, AcquireFacts DEF BusyPCs, Info
<1>2. /\ call[e].leaf \in RecordIds
      /\ At(e) \in SpaceIds => Want(e) = IS /\ At(e) = SpaceOf(call[e].leaf)
      /\ At(e) \in CollectionIds => Want(e) = IX /\ At(e) = Parent(call[e].leaf)
      /\ At(e) \in RecordIds => Want(e) = X /\ At(e) = call[e].leaf
      /\ At(e) \in SpaceIds \cup CollectionIds \cup RecordIds
  BY <1>0, <1>1, WantShape DEF LockIds
<1>3. ASSUME Info(e) # NoInfo PROVE isLockMatch(Info(e).type, Want(e))
  <2>1. runList[At(e)][e] = Info(e).type /\ runList[At(e)][e] # NoType
    BY <1>0, <1>1, <1>3 DEF GrantedList, RunListInLockList, WaitPCs
  <2>2. Shape(At(e), Info(e).type) /\ Info(e).type # NoType
    BY <1>0, <1>1, <2>1 DEF Shaped
  <2>3. At(e) \in CollectionIds => Info(e).type # S
    BY <1>0, <1>2, <2>1 DEF InsertSafe
  <2> QED BY <1>2, <2>2, <2>3, LockKinds DEF Shape, isLockMatch
<1>4. checkCompatible(e, Want(e), At(e))
  <2> SUFFICES ASSUME NEW f \in Holders(At(e)) \ {e}
               PROVE isLockCompatible(runList[At(e)][f], Want(e))
    BY DEF checkCompatible
  <2>1. f \in EDUs \ {e} /\ runList[At(e)][f] # NoType /\ Shape(At(e), runList[At(e)][f])
    BY <1>0, <1>1 DEF Holders, Shaped
  <2>2. Clear(f, call[e].leaf)
    BY <1>0, <2>1 DEF InsertSafe
  <2>3. CASE At(e) \in SpaceIds
    <3>1. runList[At(e)][f] # X
      BY <1>2, <2>1, <2>3 DEF TakenUnlatched
    <3> QED BY <1>2, <2>1, <2>3, <3>1, LockKinds, CompatibleTable
            DEF Shape, Types, IS, IX, S, X
  <2>4. CASE At(e) \in CollectionIds
    <3>1. runList[At(e)][f] # S
      BY <1>2, <2>1, <2>4 DEF TakenUnlatched
    <3> QED BY <1>2, <2>1, <2>2, <2>4, <3>1, LockKinds, CompatibleTable
            DEF Shape, Clear, Types, IS, IX, S, X
  <2>5. CASE At(e) \in RecordIds
    BY <1>2, <2>1, <2>2, <2>5 DEF Clear
  <2> QED BY <1>2, <2>3, <2>4, <2>5
<1>5. CASE AcquireMatch(e) \/ AcquireNew(e)
  <2>1. Advance(e)
    BY <1>5 DEF AcquireMatch, AcquireNew
  <2> QED BY <1>0, <2>1, AdvanceType
<1>6. ~AcquireUpgrade(e) /\ ~AcquireRefused(e) /\ ~AcquireAppend(e)
  BY <1>3, <1>4 DEF AcquireUpgrade, AcquireRefused, AcquireAppend
<1>7. /\ ~Caller(e) /\ ~Wait(e) /\ ~Release(e) /\ ~Timeout(e) /\ ~Interrupt(e)
  BY DEF Caller, Wait, Release, Timeout, Interrupt, StartCall, StartRelease, StartReleaseAll,
         DrainEvent, WakeUp, GrantAfterWait, WaitRetry, GiveUp, ReleaseStep, ReleaseAllStep,
         ReleaseAllDone
<1> QED BY <1>5, <1>6, <1>7 DEF Acquire

(* insertRecord's assertion, as far as it goes: from the test of its slot
   (transLockTestX) under the mb latch on, an insert gets every lock on the way
   to the slot, unless another EDU has taken the space for a drop, or the
   collection in S, neither of which is asked for under the latch. *)
THEOREM InsertsGetLocks ==
  ASSUME "query" \notin Calls
  PROVE Spec => InsertGetsLock
<1> DEFINE Step == \A e \in EDUs : pc[e] = "acquire" /\ call[e].kind = "insert"
                     => pc'[e] \in {"acquire", "idle"} \/ TakenUnlatched(e, call[e].leaf)
<1>1. InsertInv /\ [Next]_vars => [Step]_vars
  <2> SUFFICES ASSUME InsertInv, Next, NEW g \in EDUs, pc[g] = "acquire",
                      call[g].kind = "insert", ~TakenUnlatched(g, call[g].leaf)
               PROVE pc'[g] \in {"acquire", "idle"}
    OBVIOUS
  <2>1. PICK e \in EDUs : \/ Caller(e) \/ Acquire(e) \/ Wait(e) \/ Release(e)
                          \/ Timeout(e) \/ Interrupt(e)
    BY DEF Next
  <2>2. CASE e = g
    BY <2>1, <2>2, InsertGranted
  <2>3. CASE e # g
    <3>1. Untouched(g)
      BY <2>1, <2>3, RecordStep DEF InsertInv, CountInv
    <3> QED BY <3>1 DEF Untouched
  <2> QED BY <2>2, <2>3
<1> QED BY InsertInvInit, InsertInvNext, <1>1, PTL DEF Spec, InsertGetsLock
=============================================================================
