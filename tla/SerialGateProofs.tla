-------------------------- MODULE SerialGateProofs --------------------------
(* Theorems about SerialGate for every set of operations, keys and drains. *)
EXTENDS SerialGate, FiniteSetTheorems, TLAPS

-----------------------------------------------------------------------------
(* The inductive invariant *)

\* Joins are totally ordered, and an operation completes its Deferred when it leaves.
Ordered ==
    /\ \A o \in Ops : stage[o] # "new" => arrival[o] < clock
    /\ \A o, p \in Ops :
          stage[o] # "new" /\ stage[p] # "new" /\ arrival[o] = arrival[p] => o = p
    /\ \A o \in Ops : done[o] = "open" <=> stage[o] # "left"

\* lane.users counts the operations of the lane.
Counted ==
    \A k \in Keys : IsFiniteSet(ActiveIn(k)) /\ lanes[k].users = Cardinality(ActiveIn(k))

\* The last operation of a lane joined after all others, and an empty lane has none.
LastIsLast ==
    \A k \in Keys :
        /\ lanes[k].last = None => ActiveIn(k) = {}
        /\ lanes[k].last # None =>
              /\ stage[lanes[k].last] # "new" /\ Key(lanes[k].last) = k
              /\ \A e \in ActiveIn(k) : arrival[e] <= arrival[lanes[k].last]

\* What a drain met and has not left is ahead of the drain's own operation of that key.
DrainBehind ==
    \A d \in Drains :
        /\ \A e \in met[d] : stage[e] # "new"
        /\ drain[d] = "idle" => \A k \in Keys : stage[<<d, k>>] = "new"
        /\ drain[d] \in {"waiting", "done"} =>
              /\ \A k \in Keys : stage[<<d, k>>] = "left" => done[<<d, k>>] = "done"
              /\ \A e \in met[d] \cap Active :
                    /\ Key(e) \in found[d] /\ e # <<d, Key(e)>>
                    /\ stage[<<d, Key(e)>>] # "new" => arrival[e] < arrival[<<d, Key(e)>>]
        /\ drain[d] = "done" => PartsEnded(d)

GateInv ==
    /\ TypeOK /\ Ordered /\ Counted /\ LastIsLast
    /\ WaitsForAllAhead /\ InArrivalOrder /\ DrainBehind

-----------------------------------------------------------------------------
(* Keys, and what the steps do to the operations of a lane *)

LEMMA KeyType ==
    /\ \A o \in Ops : Key(o) \in Keys
    /\ \A d \in Drains, k \in Keys : <<d, k>> \in Ops /\ Key(<<d, k>>) = k
    /\ \A o \in Parts : o \in Ops /\ o[1] \in Drains /\ o[2] \in Keys /\ o = <<o[1], o[2]>>
                        /\ Key(o) = o[2]
BY KeyAssumption, NamesAssumption DEF KeyAssumption, NamesAssumption, Key, Ops, Parts

LEMMA JoinActive ==
    ASSUME TypeOK, NEW o \in Ops, Join(o)
    PROVE /\ \A k \in Keys : o \notin ActiveIn(k)
          /\ ActiveIn(Key(o))' = ActiveIn(Key(o)) \cup {o}
          /\ \A k \in Keys \ {Key(o)} : ActiveIn(k)' = ActiveIn(k)
BY KeyType DEF TypeOK, Join, ActiveIn, Active

LEMMA LeaveActive ==
    ASSUME TypeOK, NEW o \in Ops, NEW b \in BOOLEAN, o \in Active, Leave(o, b)
    PROVE /\ o \in ActiveIn(Key(o))
          /\ ActiveIn(Key(o))' = ActiveIn(Key(o)) \ {o}
          /\ \A k \in Keys \ {Key(o)} : ActiveIn(k)' = ActiveIn(k)
BY KeyType DEF TypeOK, Leave, ActiveIn, Active

LEMMA StayActive ==
    ASSUME TypeOK, NEW o \in Ops, Follow(o) \/ Start(o)
    PROVE Active' = Active /\ \A k \in Keys : ActiveIn(k)' = ActiveIn(k)
BY KeyType DEF TypeOK, Follow, Start, ActiveIn, Active

-----------------------------------------------------------------------------
(* Each step keeps the invariant *)

LEMMA InitGate == Init => GateInv
<1> SUFFICES ASSUME Init PROVE GateInv
  OBVIOUS
<1>1. TypeOK
  BY DEF Init, TypeOK, NoLane
<1>2. Active = {}
  BY DEF Init, Active
<1>3. Counted
  BY <1>2, FS_EmptySet DEF Init, Counted, ActiveIn, NoLane
<1>4. Ordered /\ LastIsLast /\ WaitsForAllAhead /\ InArrivalOrder
  BY <1>2, KeyType DEF Init, Ordered, LastIsLast, WaitsForAllAhead, InArrivalOrder, ActiveIn, NoLane
<1>5. DrainBehind
  BY <1>2, KeyType DEF Init, DrainBehind
<1> QED
  BY <1>1, <1>3, <1>4, <1>5 DEF GateInv

LEMMA JoinGate ==
    ASSUME GateInv, NEW o \in Ops, Join(o)
    PROVE GateInv'
<1> USE DEF GateInv
<1>1. Key(o) \in Keys /\ lanes[Key(o)].last \in Ops \cup {None} /\ lanes[Key(o)].users \in Nat
  BY KeyType DEF TypeOK
<1>2. TypeOK'
  BY <1>1 DEF TypeOK, Join, LaneAfterJoin, drainVars
<1>3. /\ stage' = [stage EXCEPT ![o] = "waiting"] /\ stage[o] = "new"
      /\ arrival' = [arrival EXCEPT ![o] = clock] /\ clock' = clock + 1
      /\ previous' = [previous EXCEPT ![o] = lanes[Key(o)].last]
      /\ awaits' = [awaits EXCEPT ![o] = lanes[Key(o)].last]
      /\ lanes' = [lanes EXCEPT ![Key(o)] = LaneAfterJoin(Key(o), o)]
      /\ done' = done /\ drain' = drain /\ found' = found /\ met' = met
  BY DEF Join, drainVars
<1>4. Ordered'
  BY <1>3 DEF Ordered, TypeOK
<1>5. Counted'
  <2> SUFFICES ASSUME NEW k \in Keys
               PROVE IsFiniteSet(ActiveIn(k)') /\ lanes'[k].users = Cardinality(ActiveIn(k)')
    BY DEF Counted
  <2>1. CASE k = Key(o)
    <3>1. lanes'[k].users = lanes[k].users + 1
      BY <2>1, <1>1, <1>3 DEF TypeOK, LaneAfterJoin
    <3>2. IsFiniteSet(ActiveIn(k)) /\ o \notin ActiveIn(k) /\ ActiveIn(k)' = ActiveIn(k) \cup {o}
      BY <2>1, JoinActive DEF Counted
    <3>3. /\ IsFiniteSet(ActiveIn(k) \cup {o})
          /\ Cardinality(ActiveIn(k) \cup {o}) = Cardinality(ActiveIn(k)) + 1
      BY <3>2, FS_AddElement
    <3> QED BY <3>1, <3>2, <3>3 DEF Counted
  <2>2. CASE k # Key(o)
    BY <2>2, <1>1, <1>3, JoinActive DEF Counted, TypeOK
  <2> QED BY <2>1, <2>2
<1>6. LastIsLast'
  <2> SUFFICES ASSUME NEW k \in Keys
               PROVE /\ lanes'[k].last = None => ActiveIn(k)' = {}
                     /\ lanes'[k].last # None =>
                          /\ stage'[lanes'[k].last] # "new" /\ Key(lanes'[k].last) = k
                          /\ \A e \in ActiveIn(k)' : arrival'[e] <= arrival'[lanes'[k].last]
    BY DEF LastIsLast
  <2>1. CASE k = Key(o)
    <3>1. lanes'[k].last = o
      BY <2>1, <1>1, <1>3 DEF TypeOK, LaneAfterJoin
    <3>2. \A e \in ActiveIn(k)' : arrival'[e] <= clock
      BY <2>1, <1>3 DEF TypeOK, Ordered, ActiveIn, Active
    <3> QED
      BY <3>1, <3>2, <2>1, <1>3, NamesAssumption DEF TypeOK, NamesAssumption
  <2>2. CASE k # Key(o)
    <3>1. lanes'[k] = lanes[k] /\ ActiveIn(k)' = ActiveIn(k)
      BY <2>2, <1>1, <1>3, JoinActive DEF TypeOK
    <3>2. lanes[k].last \in Ops \cup {None}
      BY DEF TypeOK
    <3>3. \A e \in ActiveIn(k) : e # o /\ e \in Ops
      BY JoinActive DEF ActiveIn, Active
    <3> QED
      BY <3>1, <3>2, <3>3, <1>3 DEF LastIsLast, TypeOK
  <2> QED BY <2>1, <2>2
<1>7. InArrivalOrder'
  BY <1>3 DEF InArrivalOrder, TypeOK, Ordered, Active
<1>8. WaitsForAllAhead'
  <2> SUFFICES ASSUME NEW q \in Ops
               PROVE /\ stage'[q] # "new" => Earlier(previous[q], q)' /\ Behind(q, previous[q])'
                     /\ stage'[q] = "waiting" => Earlier(awaits[q], q)' /\ Behind(q, awaits[q])'
                     /\ done'[q] = "link" => previous'[q] # None
                     /\ done'[q] = "done" => \A e \in ActiveIn(Key(q))' : arrival'[q] < arrival'[e]
    BY DEF WaitsForAllAhead
  <2>1. CASE q = o
    <3>1. previous'[q] = lanes[Key(o)].last /\ awaits'[q] = lanes[Key(o)].last
      BY <2>1, <1>1, <1>3 DEF TypeOK
    <3>2. done'[q] = "open"
      BY <2>1, <1>3 DEF Ordered, TypeOK
    <3>3. Earlier(previous[q], q)' /\ Behind(q, previous[q])'
      BY <2>1, <3>1, <1>1, <1>3 DEF LastIsLast, TypeOK, Earlier, Behind, Ordered, ActiveIn, Active
    <3> QED
      BY <3>1, <3>2, <3>3 DEF Earlier, Behind
  <2>2. CASE q # o
    <3>1. previous'[q] = previous[q] /\ awaits'[q] = awaits[q] /\ arrival'[q] = arrival[q]
          /\ stage'[q] = stage[q]
      BY <2>2, <1>3 DEF TypeOK
    <3>2. ASSUME NEW p \in Ops \cup {None}, stage[q] # "new", Earlier(p, q), Behind(q, p)
          PROVE Earlier(p, q)' /\ Behind(q, p)'
      BY <3>1, <3>2, <2>2, <1>3 DEF Earlier, Behind, TypeOK, Ordered, ActiveIn, Active
    <3>3. previous[q] \in Ops \cup {None} /\ awaits[q] \in Ops \cup {None}
      BY DEF TypeOK
    <3>4. stage[q] # "new" => Earlier(previous[q], q)' /\ Behind(q, previous[q])'
      BY <3>1, <3>2, <3>3 DEF WaitsForAllAhead, Earlier, Behind
    <3>5. stage[q] = "waiting" => Earlier(awaits[q], q)' /\ Behind(q, awaits[q])'
      BY <3>1, <3>2, <3>3 DEF WaitsForAllAhead, Earlier, Behind
    <3>6. done[q] = "done" => \A e \in ActiveIn(Key(q))' : arrival'[q] < arrival'[e]
      BY <3>1, <1>3 DEF WaitsForAllAhead, TypeOK, Ordered, ActiveIn, Active
    <3> QED
      BY <3>1, <3>4, <3>5, <3>6, <1>3 DEF WaitsForAllAhead
  <2> QED BY <2>1, <2>2
<1>9. DrainBehind'
  <2> SUFFICES ASSUME NEW d \in Drains
               PROVE /\ \A e \in met[d] : stage'[e] # "new"
                     /\ drain[d] = "idle" => \A k \in Keys : stage'[<<d, k>>] = "new"
                     /\ drain[d] \in {"waiting", "done"} =>
                          /\ \A k \in Keys : stage'[<<d, k>>] = "left" => done[<<d, k>>] = "done"
                          /\ \A e \in met[d] \cap Active' :
                               /\ Key(e) \in found[d] /\ e # <<d, Key(e)>>
                               /\ stage'[<<d, Key(e)>>] # "new" =>
                                    arrival'[e] < arrival'[<<d, Key(e)>>]
                     /\ drain[d] = "done" => PartsEnded(d)'
    BY <1>3 DEF DrainBehind
  <2>1. \A k \in Keys : <<d, k>> = o => drain[d] = "waiting"
    BY KeyType DEF Join, Parts
  <2>2. drain[d] = "idle" => \A k \in Keys : stage'[<<d, k>>] = "new"
    BY <2>1, <1>3, KeyType DEF DrainBehind, TypeOK
  <2>3. ASSUME NEW k \in Keys, stage'[<<d, k>>] = "left", drain[d] \in {"waiting", "done"}
        PROVE done[<<d, k>>] = "done"
    BY <2>3, <1>3, KeyType DEF DrainBehind, TypeOK
  <2>4. drain[d] = "done" => PartsEnded(d)'
    BY <2>1, <1>3, KeyType DEF DrainBehind, TypeOK, PartsEnded
  <2>5. \A e \in met[d] : e # o /\ e \in Ops /\ stage'[e] = stage[e] /\ arrival'[e] = arrival[e]
    BY <1>3 DEF DrainBehind, TypeOK
  <2>6. ASSUME NEW e \in met[d] \cap Active', drain[d] \in {"waiting", "done"}
        PROVE /\ Key(e) \in found[d] /\ e # <<d, Key(e)>>
              /\ stage'[<<d, Key(e)>>] # "new" => arrival'[e] < arrival'[<<d, Key(e)>>]
    <3>1. e \in Ops /\ Key(e) \in Keys /\ <<d, Key(e)>> \in Ops /\ e \in Active
          /\ stage'[e] = stage[e] /\ arrival'[e] = arrival[e]
      BY <2>6, <2>5, KeyType DEF Active
    <3>2. CASE <<d, Key(e)>> = o
      BY <2>6, <3>1, <3>2, <1>3 DEF DrainBehind, TypeOK, Ordered, Active
    <3>3. CASE <<d, Key(e)>> # o
      BY <2>6, <3>1, <3>3, <1>3 DEF DrainBehind, TypeOK
    <3> QED BY <3>2, <3>3
  <2>7. \A e \in met[d] : stage'[e] # "new"
    BY <2>5 DEF DrainBehind
  <2> QED BY <2>2, <2>3, <2>4, <2>6, <2>7
<1> QED
  BY <1>2, <1>4, <1>5, <1>6, <1>7, <1>8, <1>9

LEMMA FollowGate ==
    ASSUME GateInv, NEW o \in Ops, Follow(o)
    PROVE GateInv'
<1> USE DEF GateInv
<1>1. /\ stage[o] = "waiting" /\ awaits[o] \in Ops /\ done[awaits[o]] = "link"
      /\ awaits' = [awaits EXCEPT ![o] = previous[awaits[o]]]
      /\ UNCHANGED <<laneVars, stage, done, drainVars>>
  BY DEF Follow, TypeOK
<1>2. Active' = Active /\ \A k \in Keys : ActiveIn(k)' = ActiveIn(k)
  BY StayActive
<1>3. TypeOK'
  BY <1>1 DEF TypeOK, laneVars, drainVars
<1>4. Ordered' /\ Counted' /\ LastIsLast' /\ InArrivalOrder' /\ DrainBehind'
  BY <1>1, <1>2 DEF Ordered, Counted, LastIsLast, InArrivalOrder, DrainBehind, PartsEnded,
                    laneVars, drainVars
<1>5. WaitsForAllAhead'
  <2> DEFINE p == awaits[o]
  <2>1. /\ Earlier(p, o) /\ Behind(o, p) /\ p \notin Active
        /\ previous[p] # None /\ Earlier(previous[p], p) /\ Behind(p, previous[p])
    BY <1>1 DEF WaitsForAllAhead, Ordered, Active, Earlier, TypeOK
  <2>2. previous[p] \in Ops
    BY <2>1, <1>1 DEF TypeOK
  <2>3. Earlier(previous[p], o)
    BY <2>1, <2>2, <1>1, NamesAssumption DEF Earlier, TypeOK, NamesAssumption
  <2>4. Behind(o, previous[p])
    <3> SUFFICES ASSUME NEW e \in ActiveIn(Key(o)), arrival[e] < arrival[o]
                 PROVE arrival[e] <= arrival[previous[p]]
      BY <2>1 DEF Behind
    <3>1. e \in Ops /\ e \in Active /\ Key(e) = Key(p) /\ e # p /\ arrival[e] <= arrival[p]
      BY <2>1, <1>1, NamesAssumption DEF Behind, Earlier, ActiveIn, Active, NamesAssumption
    <3>2. arrival[e] < arrival[p]
      <4>1. p \in Ops /\ stage[p] # "new" /\ stage[e] # "new"
        BY <3>1, <2>1, <1>1, NamesAssumption DEF Active, Earlier, NamesAssumption
      <4>2. arrival[e] # arrival[p] /\ arrival[e] \in Nat /\ arrival[p] \in Nat
        BY <4>1, <3>1 DEF Ordered, TypeOK
      <4> QED BY <4>2, <3>1
    <3> QED
      BY <3>1, <3>2, <2>1 DEF Behind, ActiveIn
  <2>6. awaits'[o] = previous[p] /\ \A q \in Ops \ {o} : awaits'[q] = awaits[q]
    BY <1>1 DEF TypeOK
  <2>7. ASSUME NEW q \in Ops, stage[q] = "waiting"
        PROVE Earlier(awaits[q], q)' /\ Behind(q, awaits[q])'
    <3>1. Earlier(awaits'[q], q) /\ Behind(q, awaits'[q])
      BY <2>3, <2>4, <2>6, <2>7 DEF WaitsForAllAhead
    <3> QED
      BY <3>1, <1>1, <1>2, KeyType DEF Earlier, Behind, laneVars
  <2>8. ASSUME NEW q \in Ops
        PROVE /\ stage[q] # "new" => Earlier(previous[q], q)' /\ Behind(q, previous[q])'
              /\ done[q] = "link" => previous[q] # None
              /\ done[q] = "done" => \A e \in ActiveIn(Key(q))' : arrival[q] < arrival[e]
    BY <1>1, <1>2, KeyType DEF WaitsForAllAhead, Earlier, Behind, laneVars
  <2> QED
    BY <2>7, <2>8, <1>1 DEF WaitsForAllAhead, laneVars
<1> QED
  BY <1>3, <1>4, <1>5

LEMMA StartGate ==
    ASSUME GateInv, NEW o \in Ops, Start(o)
    PROVE GateInv'
<1> USE DEF GateInv
<1>1. /\ stage[o] = "waiting" /\ stage' = [stage EXCEPT ![o] = "running"]
      /\ awaits[o] # None => done[awaits[o]] = "done"
      /\ UNCHANGED <<laneVars, awaits, done, drainVars>>
  BY DEF Start
<1>2. Active' = Active /\ \A k \in Keys : ActiveIn(k)' = ActiveIn(k)
  BY StayActive
<1>3. TypeOK'
  BY <1>1 DEF TypeOK, laneVars, drainVars
<1>4. \A q \in Ops : /\ stage'[q] = "new" <=> stage[q] = "new"
                     /\ stage'[q] = "left" <=> stage[q] = "left"
                     /\ stage'[q] = "waiting" => stage[q] = "waiting"
                     /\ stage'[q] = "running" => stage[q] = "running" \/ q = o
  BY <1>1 DEF TypeOK
<1>5. Ordered'
  BY <1>1, <1>4 DEF Ordered, laneVars
<1>6. Counted'
  BY <1>1, <1>2 DEF Counted, laneVars
<1>7. LastIsLast'
  BY <1>1, <1>2, <1>4 DEF LastIsLast, laneVars, TypeOK
<1>8. DrainBehind'
  <2>1. drain' = drain /\ met' = met /\ found' = found /\ done' = done /\ arrival' = arrival
    BY <1>1 DEF laneVars, drainVars
  <2> SUFFICES ASSUME NEW d \in Drains
               PROVE /\ \A e \in met[d] : stage'[e] # "new"
                     /\ drain[d] = "idle" => \A k \in Keys : stage'[<<d, k>>] = "new"
                     /\ drain[d] \in {"waiting", "done"} =>
                          /\ \A k \in Keys : stage'[<<d, k>>] = "left" => done[<<d, k>>] = "done"
                          /\ \A e \in met[d] \cap Active :
                               /\ Key(e) \in found[d] /\ e # <<d, Key(e)>>
                               /\ stage'[<<d, Key(e)>>] # "new" =>
                                    arrival[e] < arrival[<<d, Key(e)>>]
                     /\ drain[d] = "done" => PartsEnded(d)'
    BY <2>1, <1>2 DEF DrainBehind
  <2>2. \A e \in met[d] : stage'[e] # "new"
    BY <1>4 DEF DrainBehind, TypeOK
  <2>3. drain[d] = "done" => PartsEnded(d)'
    BY <2>1, <1>4, KeyType DEF DrainBehind, PartsEnded, TypeOK
  <2>4. \A e \in Active : e \in Ops /\ Key(e) \in Keys /\ <<d, Key(e)>> \in Ops
    BY KeyType DEF Active
  <2> QED
    BY <2>2, <2>3, <2>4, <1>4, KeyType DEF DrainBehind
<1>9. InArrivalOrder'
  <2>1. \A e \in ActiveIn(Key(o)) : e # o => arrival[o] < arrival[e]
    <3> SUFFICES ASSUME NEW e \in ActiveIn(Key(o)), e # o, ~(arrival[o] < arrival[e])
                 PROVE FALSE
      OBVIOUS
    <3>1. arrival[e] < arrival[o] /\ e \in Ops
      <4>1. e \in Ops /\ stage[e] # "new" /\ stage[o] # "new"
        BY <1>1 DEF ActiveIn, Active
      <4>2. arrival[e] # arrival[o]
        BY <4>1 DEF Ordered
      <4>3. arrival[e] \in Nat /\ arrival[o] \in Nat
        BY <4>1 DEF TypeOK
      <4> QED BY <4>1, <4>2, <4>3
    <3>2. awaits[o] # None /\ arrival[e] <= arrival[awaits[o]] /\ Key(awaits[o]) = Key(o)
      <4>1. Earlier(awaits[o], o) /\ Behind(o, awaits[o])
        BY <1>1 DEF WaitsForAllAhead
      <4> QED BY <4>1, <3>1 DEF Behind, Earlier
    <3>3. awaits[o] \in Ops /\ done[awaits[o]] = "done"
      BY <3>2, <1>1 DEF TypeOK
    <3>4. arrival[awaits[o]] < arrival[e]
      BY <3>2, <3>3 DEF WaitsForAllAhead
    <3> QED
      BY <3>1, <3>2, <3>3, <3>4 DEF TypeOK
  <2> SUFFICES ASSUME NEW q \in Ops, NEW e \in Active, stage'[q] = "running",
                      Key(e) = Key(q), e # q
               PROVE arrival[q] < arrival[e]
    BY <1>1, <1>2 DEF InArrivalOrder, laneVars
  <2>2. CASE q = o
    BY <2>1, <2>2 DEF ActiveIn
  <2>3. CASE q # o
    BY <2>3, <1>4 DEF InArrivalOrder
  <2> QED BY <2>2, <2>3
<1>10. WaitsForAllAhead'
  <2> SUFFICES ASSUME NEW q \in Ops
               PROVE /\ stage'[q] # "new" => Earlier(previous[q], q)' /\ Behind(q, previous[q])'
                     /\ stage'[q] = "waiting" => Earlier(awaits[q], q)' /\ Behind(q, awaits[q])'
                     /\ done'[q] = "link" => previous'[q] # None
                     /\ done'[q] = "done" => \A e \in ActiveIn(Key(q))' : arrival'[q] < arrival'[e]
    BY DEF WaitsForAllAhead
  <2>1. ASSUME NEW p \in Ops \cup {None}
        PROVE /\ (p # None => stage[p] # "new") => (p # None => stage'[p] # "new")
    BY <1>4
  <2>2. ASSUME NEW p \in Ops \cup {None}, Earlier(p, q), Behind(q, p)
        PROVE (p # None => /\ stage'[p] # "new" /\ Key(p) = Key(q) /\ arrival'[p] < arrival'[q])
              /\ \A e \in ActiveIn(Key(q))' : arrival'[e] < arrival'[q]
                     => p # None /\ arrival'[e] <= arrival'[p]
    BY <2>2, <2>1, <1>1, <1>2, KeyType DEF Earlier, Behind, laneVars
  <2>3. previous[q] \in Ops \cup {None} /\ awaits[q] \in Ops \cup {None}
    BY DEF TypeOK
  <2>4. stage'[q] # "new" => Earlier(previous[q], q)' /\ Behind(q, previous[q])'
    BY <2>2, <2>3, <1>1, <1>4 DEF WaitsForAllAhead, Earlier, Behind, laneVars
  <2>5. stage'[q] = "waiting" => Earlier(awaits[q], q)' /\ Behind(q, awaits[q])'
    BY <2>2, <2>3, <1>1, <1>4 DEF WaitsForAllAhead, Earlier, Behind
  <2>6. /\ done'[q] = "link" => previous'[q] # None
        /\ done'[q] = "done" => \A e \in ActiveIn(Key(q))' : arrival'[q] < arrival'[e]
    BY <1>1, <1>2, KeyType DEF WaitsForAllAhead, laneVars
  <2> QED BY <2>4, <2>5, <2>6
<1> QED
  BY <1>3, <1>5, <1>6, <1>7, <1>8, <1>9, <1>10

\* An operation leaves: after it ran, or before its turn unless it belongs to a drain that waits.
LEMMA LeaveGate ==
    ASSUME GateInv, NEW o \in Ops, NEW b \in BOOLEAN, Leave(o, b),
           b => stage[o] = "running",
           ~b => stage[o] = "waiting" /\ (o \in Parts => drain[o[1]] = "cancelled")
    PROVE GateInv'
<1> USE DEF GateInv
<1>1. /\ lanes' = [lanes EXCEPT ![Key(o)] = LaneAfterLeave(Key(o))]
      /\ done' = [done EXCEPT ![o] = Completed(o, b)]
      /\ stage' = [stage EXCEPT ![o] = "left"]
      /\ o \in Active /\ stage[o] # "new" /\ Completed(o, b) \in {"done", "link"}
      /\ clock' = clock /\ arrival' = arrival /\ previous' = previous /\ awaits' = awaits
      /\ drain' = drain /\ found' = found /\ met' = met
  BY DEF Leave, Active, drainVars, Completed
<1>2. /\ o \in ActiveIn(Key(o)) /\ ActiveIn(Key(o))' = ActiveIn(Key(o)) \ {o}
      /\ \A k \in Keys \ {Key(o)} : ActiveIn(k)' = ActiveIn(k)
      /\ \A k \in Keys : ActiveIn(k)' \subseteq ActiveIn(k)
      /\ Active' \subseteq Active
      /\ Key(o) \in Keys
  <2>1. \A k \in Keys : ActiveIn(k)' \subseteq ActiveIn(k)
    BY <1>1, LeaveActive
  <2> QED BY <2>1, <1>1, LeaveActive, KeyType DEF Active, TypeOK
<1>3. /\ IsFiniteSet(ActiveIn(Key(o))) /\ IsFiniteSet(ActiveIn(Key(o))')
      /\ lanes[Key(o)].users \in Nat /\ lanes[Key(o)].users # 0
      /\ Cardinality(ActiveIn(Key(o))') = lanes[Key(o)].users - 1
      /\ lanes[Key(o)].users = 1 => ActiveIn(Key(o))' = {}
  <2>1. /\ IsFiniteSet(ActiveIn(Key(o))) /\ lanes[Key(o)].users = Cardinality(ActiveIn(Key(o)))
        /\ lanes[Key(o)].users \in Nat
    BY <1>2 DEF Counted, TypeOK
  <2>2. /\ IsFiniteSet(ActiveIn(Key(o)) \ {o})
        /\ Cardinality(ActiveIn(Key(o)) \ {o}) = Cardinality(ActiveIn(Key(o))) - 1
    BY <2>1, <1>2, FS_RemoveElement
  <2>3. Cardinality(ActiveIn(Key(o))) # 0
    BY <2>1, <1>2, FS_EmptySet
  <2>4. Cardinality(ActiveIn(Key(o)) \ {o}) = 0 => ActiveIn(Key(o)) \ {o} = {}
    BY <2>2, FS_EmptySet
  <2> QED BY <2>1, <2>2, <2>3, <2>4, <1>2
<1>4. /\ lanes'[Key(o)] = LaneAfterLeave(Key(o))
      /\ lanes'[Key(o)].users = lanes[Key(o)].users - 1
      /\ lanes[Key(o)].users # 1 => lanes'[Key(o)].last = lanes[Key(o)].last
      /\ lanes[Key(o)].users = 1 => lanes'[Key(o)].last = None
      /\ \A k \in Keys \ {Key(o)} : lanes'[k] = lanes[k]
      /\ LaneAfterLeave(Key(o)) \in [last : Ops \cup {None}, users : Nat]
  <2>1. lanes[Key(o)] \in [last : Ops \cup {None}, users : Nat]
    BY <1>2 DEF TypeOK
  <2>2. /\ lanes'[Key(o)] = LaneAfterLeave(Key(o))
        /\ \A k \in Keys \ {Key(o)} : lanes'[k] = lanes[k]
    BY <1>1, <1>2 DEF TypeOK
  <2>3. CASE lanes[Key(o)].users = 1
    BY <2>2, <2>3 DEF LaneAfterLeave, NoLane
  <2>4. CASE lanes[Key(o)].users # 1
    <3>1. LaneAfterLeave(Key(o)) = [lanes[Key(o)] EXCEPT !.users = @ - 1]
      BY <2>4 DEF LaneAfterLeave
    <3>2. lanes[Key(o)].users - 1 \in Nat
      BY <1>3
    <3> QED BY <2>1, <2>2, <2>4, <3>1, <3>2
  <2> QED BY <2>2, <2>3, <2>4
<1>5. TypeOK'
  BY <1>1, <1>2, <1>4 DEF TypeOK
<1>6. /\ \A q \in Ops : stage'[q] = "new" <=> stage[q] = "new"
      /\ \A q \in Ops \ {o} : stage'[q] = stage[q] /\ done'[q] = done[q]
      /\ stage'[o] = "left" /\ done'[o] = Completed(o, b)
  BY <1>1 DEF TypeOK
<1>7. Ordered'
  BY <1>1, <1>6 DEF Ordered
<1>8. Counted'
  <2> SUFFICES ASSUME NEW k \in Keys
               PROVE IsFiniteSet(ActiveIn(k)') /\ lanes'[k].users = Cardinality(ActiveIn(k)')
    BY DEF Counted
  <2>1. CASE k = Key(o)
    BY <2>1, <1>3, <1>4
  <2>2. CASE k # Key(o)
    BY <2>2, <1>2, <1>4 DEF Counted
  <2> QED BY <2>1, <2>2
<1>9. LastIsLast'
  <2> SUFFICES ASSUME NEW k \in Keys
               PROVE /\ lanes'[k].last = None => ActiveIn(k)' = {}
                     /\ lanes'[k].last # None =>
                          /\ stage'[lanes'[k].last] # "new" /\ Key(lanes'[k].last) = k
                          /\ \A e \in ActiveIn(k)' : arrival'[e] <= arrival'[lanes'[k].last]
    BY DEF LastIsLast
  <2>1. CASE lanes'[k].last = lanes[k].last
    <3>1. lanes[k].last \in Ops \cup {None}
      BY DEF TypeOK
    <3> QED
      BY <2>1, <3>1, <1>1, <1>2, <1>6 DEF LastIsLast
  <2>2. CASE k = Key(o) /\ lanes[k].users = 1
    BY <2>2, <1>3, <1>4
  <2> QED BY <2>1, <2>2, <1>4
<1>10. InArrivalOrder'
  BY <1>1, <1>2, <1>6 DEF InArrivalOrder
<1>11. WaitsForAllAhead'
  <2> SUFFICES ASSUME NEW q \in Ops
               PROVE /\ stage'[q] # "new" => Earlier(previous[q], q)' /\ Behind(q, previous[q])'
                     /\ stage'[q] = "waiting" => Earlier(awaits[q], q)' /\ Behind(q, awaits[q])'
                     /\ done'[q] = "link" => previous'[q] # None
                     /\ done'[q] = "done" => \A e \in ActiveIn(Key(q))' : arrival'[q] < arrival'[e]
    BY DEF WaitsForAllAhead
  <2>1. ASSUME NEW p \in Ops \cup {None}, Earlier(p, q), Behind(q, p)
        PROVE (p # None => /\ stage'[p] # "new" /\ Key(p) = Key(q) /\ arrival'[p] < arrival'[q])
              /\ \A e \in ActiveIn(Key(q))' : arrival'[e] < arrival'[q]
                     => p # None /\ arrival'[e] <= arrival'[p]
    BY <2>1, <1>1, <1>2, <1>6, KeyType DEF Earlier, Behind
  <2>2. previous[q] \in Ops \cup {None} /\ awaits[q] \in Ops \cup {None}
    BY DEF TypeOK
  <2>3. stage'[q] # "new" => Earlier(previous[q], q)' /\ Behind(q, previous[q])'
    BY <2>1, <2>2, <1>1, <1>6 DEF WaitsForAllAhead, Earlier, Behind
  <2>4. stage'[q] = "waiting" => Earlier(awaits[q], q)' /\ Behind(q, awaits[q])'
    BY <2>1, <2>2, <1>1, <1>6 DEF WaitsForAllAhead, Earlier, Behind
  <2>5. done'[q] = "link" => previous'[q] # None
    BY <1>1, <1>6 DEF WaitsForAllAhead, Completed
  <2>6. done'[q] = "done" => \A e \in ActiveIn(Key(q))' : arrival'[q] < arrival'[e]
    <3>1. CASE q # o
      BY <3>1, <1>1, <1>2, <1>6, KeyType DEF WaitsForAllAhead
    <3>2. CASE q = o /\ b
      BY <3>2, <1>1, <1>2 DEF InArrivalOrder, ActiveIn
    <3>3. CASE q = o /\ ~b
      <4> SUFFICES ASSUME done'[o] = "done", NEW e \in ActiveIn(Key(o))'
                   PROVE arrival[o] < arrival[e]
        BY <3>3, <1>1
      <4>1. Behind(o, previous[o]) /\ previous[o] = None
        BY <3>3, <1>1, <1>6 DEF Completed, WaitsForAllAhead
      <4>2. e \in ActiveIn(Key(o)) /\ e # o /\ e \in Ops /\ stage[e] # "new"
        BY <1>2 DEF ActiveIn, Active
      <4>3. ~(arrival[e] < arrival[o])
        BY <4>1, <4>2 DEF Behind
      <4>4. arrival[e] # arrival[o]
        BY <4>2, <1>1 DEF Ordered
      <4>5. arrival[e] \in Nat /\ arrival[o] \in Nat
        BY <4>2 DEF TypeOK
      <4> QED BY <4>3, <4>4, <4>5
    <3> QED BY <3>1, <3>2, <3>3
  <2> QED BY <2>3, <2>4, <2>5, <2>6
<1>12. DrainBehind'
  <2> SUFFICES ASSUME NEW d \in Drains
               PROVE /\ \A e \in met[d] : stage'[e] # "new"
                     /\ drain[d] = "idle" => \A k \in Keys : stage'[<<d, k>>] = "new"
                     /\ drain[d] \in {"waiting", "done"} =>
                          /\ \A k \in Keys : stage'[<<d, k>>] = "left" => done'[<<d, k>>] = "done"
                          /\ \A e \in met[d] \cap Active' :
                               /\ Key(e) \in found[d] /\ e # <<d, Key(e)>>
                               /\ stage'[<<d, Key(e)>>] # "new" =>
                                    arrival[e] < arrival[<<d, Key(e)>>]
                     /\ drain[d] = "done" => PartsEnded(d)'
    BY <1>1 DEF DrainBehind
  <2>1. \A e \in met[d] : stage'[e] # "new"
    BY <1>6 DEF DrainBehind, TypeOK
  <2>2. drain[d] = "idle" => \A k \in Keys : stage'[<<d, k>>] = "new"
    BY <1>6, KeyType DEF DrainBehind
  <2>3. ASSUME NEW k \in Keys, stage'[<<d, k>>] = "left", drain[d] \in {"waiting", "done"}
        PROVE done'[<<d, k>>] = "done"
    <3>1. CASE <<d, k>> # o
      BY <2>3, <3>1, <1>6, KeyType DEF DrainBehind
    <3>2. CASE <<d, k>> = o
      <4>1. o \in Parts /\ o[1] = d
        BY <3>2 DEF Parts
      <4>2. b
        BY <4>1, <2>3
      <4> QED BY <3>2, <4>2, <1>6 DEF Completed
    <3> QED BY <3>1, <3>2
  <2>4. drain[d] = "done" => PartsEnded(d)'
    BY <1>1, <1>6, KeyType DEF DrainBehind, PartsEnded, TypeOK
  <2>5. \A e \in Active : e \in Ops /\ Key(e) \in Keys /\ <<d, Key(e)>> \in Ops
    BY KeyType DEF Active
  <2>6. drain[d] \in {"waiting", "done"} =>
           \A e \in met[d] \cap Active' :
              /\ Key(e) \in found[d] /\ e # <<d, Key(e)>>
              /\ stage'[<<d, Key(e)>>] # "new" => arrival[e] < arrival[<<d, Key(e)>>]
    BY <2>5, <1>2, <1>6 DEF DrainBehind
  <2> QED BY <2>1, <2>2, <2>3, <2>4, <2>6
<1> QED
  BY <1>5, <1>7, <1>8, <1>9, <1>10, <1>11, <1>12

LEMMA DrainGate ==
    ASSUME GateInv, NEW d \in Drains, Drain(d) \/ Drained(d) \/ DrainInterrupted(d)
    PROVE GateInv'
<1> USE DEF GateInv
<1>1. /\ UNCHANGED <<laneVars, stage, awaits, done>>
      /\ \A c \in Drains \ {d} : drain'[c] = drain[c] /\ found'[c] = found[c] /\ met'[c] = met[c]
  BY DEF Drain, Drained, DrainInterrupted, TypeOK
<1>2. Active' = Active /\ \A k : ActiveIn(k)' = ActiveIn(k)
  BY <1>1 DEF Active, ActiveIn
<1>3. TypeOK'
  <2>1. Active \in SUBSET Ops /\ {k \in Keys : lanes[k] # NoLane} \in SUBSET Keys
    BY DEF Active
  <2> QED BY <1>1, <2>1 DEF TypeOK, laneVars, Drain, Drained, DrainInterrupted
<1>4. Ordered' /\ Counted' /\ LastIsLast' /\ WaitsForAllAhead' /\ InArrivalOrder'
  BY <1>1, <1>2 DEF Ordered, Counted, LastIsLast, WaitsForAllAhead, InArrivalOrder, Earlier,
                    Behind, laneVars
<1>5. DrainBehind'
  <2> SUFFICES ASSUME NEW c \in Drains
               PROVE /\ \A e \in met'[c] : stage[e] # "new"
                     /\ drain'[c] = "idle" => \A k \in Keys : stage[<<c, k>>] = "new"
                     /\ drain'[c] \in {"waiting", "done"} =>
                          /\ \A k \in Keys : stage[<<c, k>>] = "left" => done[<<c, k>>] = "done"
                          /\ \A e \in met'[c] \cap Active :
                               /\ Key(e) \in found'[c] /\ e # <<c, Key(e)>>
                               /\ stage[<<c, Key(e)>>] # "new" =>
                                    arrival[e] < arrival[<<c, Key(e)>>]
                     /\ drain'[c] = "done" => PartsEnded(c)'
    BY <1>1, <1>2 DEF DrainBehind, laneVars
  <2>1. CASE c # d
    BY <2>1, <1>1 DEF DrainBehind, PartsEnded
  <2>2. CASE c = d /\ Drain(d)
    <3>1. /\ drain[d] = "idle" /\ drain'[d] = "waiting" /\ met'[d] = Active
          /\ found'[d] = {k \in Keys : lanes[k] # NoLane}
      BY <2>2 DEF Drain, TypeOK
    <3>2. \A k \in Keys : stage[<<d, k>>] = "new"
      BY <3>1 DEF DrainBehind
    <3>3. ASSUME NEW e \in Active
          PROVE Key(e) \in found'[d] /\ e # <<d, Key(e)>> /\ stage[<<d, Key(e)>>] = "new"
      <4>1. e \in Ops /\ Key(e) \in Keys /\ e \in ActiveIn(Key(e)) /\ stage[e] # "new"
        BY KeyType DEF Active, ActiveIn
      <4>2. lanes[Key(e)] # NoLane
        BY <4>1, FS_EmptySet DEF Counted, NoLane
      <4> QED BY <4>1, <4>2, <3>1, <3>2
    <3>4. \A e \in Active : stage[e] # "new"
      BY DEF Active
    <3> QED BY <2>2, <3>1, <3>2, <3>3, <3>4
  <2>3. CASE c = d /\ (Drained(d) \/ DrainInterrupted(d))
    <3>1. /\ drain[d] = "waiting" /\ met' = met /\ found' = found
          /\ drain'[d] \in {"done", "cancelled"} /\ (drain'[d] = "done" => PartsEnded(d))
      BY <2>3 DEF Drained, DrainInterrupted, TypeOK
    <3>2. PartsEnded(d)' <=> PartsEnded(d)
      BY <3>1, <1>1 DEF PartsEnded
    <3> QED BY <2>3, <3>1, <3>2 DEF DrainBehind
  <2> QED BY <2>1, <2>2, <2>3
<1> QED
  BY <1>3, <1>4, <1>5

-----------------------------------------------------------------------------
(* The theorems *)

LEMMA StepGate == GateInv /\ [Next]_vars => GateInv'
<1> SUFFICES ASSUME GateInv, [Next]_vars PROVE GateInv'
  OBVIOUS
<1>1. ASSUME NEW o \in Ops, Join(o) PROVE GateInv'
  BY <1>1, JoinGate
<1>2. ASSUME NEW o \in Ops, Follow(o) PROVE GateInv'
  BY <1>2, FollowGate
<1>3. ASSUME NEW o \in Ops, Start(o) PROVE GateInv'
  BY <1>3, StartGate
<1>4. ASSUME NEW o \in Ops, Interrupted(o) PROVE GateInv'
  BY <1>4, LeaveGate DEF Interrupted
<1>5. ASSUME NEW o \in Ops, Ends(o) PROVE GateInv'
  BY <1>5, LeaveGate DEF Ends
<1>6. ASSUME NEW d \in Drains, Drain(d) \/ Drained(d) \/ DrainInterrupted(d) PROVE GateInv'
  BY <1>6, DrainGate
<1>7. CASE UNCHANGED vars
  <2>1. Active' = Active /\ \A k : ActiveIn(k)' = ActiveIn(k)
    BY <1>7 DEF vars, Active, ActiveIn
  <2>2. \A d : PartsEnded(d)' <=> PartsEnded(d)
    BY <1>7 DEF vars, drainVars, PartsEnded
  <2> QED
    BY <1>7, <2>1, <2>2 DEF vars, laneVars, drainVars, GateInv, TypeOK, Ordered, Counted,
       LastIsLast, WaitsForAllAhead, InArrivalOrder, DrainBehind, Earlier, Behind
<1> QED
  BY <1>1, <1>2, <1>3, <1>4, <1>5, <1>6, <1>7 DEF Next

\* The Deferred chain of every lane keeps its order, its count and its last operation (runInLane).
THEOREM GateCorrect == Spec => []GateInv
<1> QED BY InitGate, StepGate, PTL DEF Spec

\* Of the operations of a key, one runs at a time, in the order in which they joined, whatever
\* waiters are interrupted (serial-gate.ts: "Runs operations one at a time for each key, in
\* arrival order").
THEOREM ArrivalOrderKept == Spec => []InArrivalOrder
<1>1. GateInv => InArrivalOrder
  BY DEF GateInv
<1> QED BY <1>1, GateCorrect, PTL

\* What an operation awaits stands for everything ahead of it in its lane.
THEOREM NobodyWaitsForTooLittle == Spec => []WaitsForAllAhead
<1>1. GateInv => WaitsForAllAhead
  BY DEF GateInv
<1> QED BY <1>1, GateCorrect, PTL

\* isActive is right: the gate counts the users of every lane.
THEOREM UsersCounted == Spec => []LanesMatchUsers
<1>1. GateInv => LanesMatchUsers
  BY DEF GateInv, Counted, LanesMatchUsers
<1> QED BY <1>1, GateCorrect, PTL

\* drain() returns after everything that held or waited for a key at its call has left.
THEOREM DrainIsComplete == Spec => []DrainWaits
<1>1. ASSUME GateInv PROVE DrainWaits
  <2> SUFFICES ASSUME NEW d \in Drains, drain[d] = "done", NEW e \in met[d] \cap Active
               PROVE FALSE
    BY DEF DrainWaits
  <2>1. /\ e \in Ops /\ Key(e) \in found[d] /\ Key(e) \in Keys
        /\ e \in ActiveIn(Key(e)) /\ PartsEnded(d)
    BY <1>1, KeyType DEF GateInv, DrainBehind, Active, ActiveIn
  <2> DEFINE part == <<d, Key(e)>>
  <2>2. part \in Ops /\ Key(part) = Key(e) /\ stage[part] = "left"
    BY <2>1, KeyType DEF PartsEnded
  <2>3. done[part] = "done" /\ arrival[e] < arrival[part]
    BY <1>1, <2>1, <2>2 DEF GateInv, DrainBehind
  <2>4. arrival[part] < arrival[e]
    BY <1>1, <2>1, <2>2, <2>3 DEF GateInv, WaitsForAllAhead
  <2> QED
    BY <1>1, <2>1, <2>2, <2>3, <2>4 DEF GateInv, TypeOK
<1> QED BY <1>1, GateCorrect, PTL

-----------------------------------------------------------------------------
(* Each step of the gate is a step of its lines *)

Running == {o \in Ops : stage[o] = "running"}
InLine == [o \in Ops |-> IF o \in Active THEN Ahead(o) ELSE {}]

LEMMA JoinIsJoin ==
    ASSUME GateInv, NEW o \in Ops, Join(o)
    PROVE Lanes!Join(o)
<1> USE DEF GateInv
<1>1. /\ stage[o] = "new" /\ stage' = [stage EXCEPT ![o] = "waiting"]
      /\ arrival' = [arrival EXCEPT ![o] = clock]
  BY DEF Join
<1>2. o \notin Active /\ Active' = Active \cup {o} /\ Running' = Running
  BY <1>1 DEF TypeOK, Active, Running
<1>3. \A e \in Active : e \in Ops /\ e # o /\ arrival'[e] = arrival[e] /\ arrival[e] < clock
  BY <1>1, <1>2 DEF TypeOK, Active, Ordered
<1>4. arrival'[o] = clock /\ clock \in Nat
  BY <1>1 DEF TypeOK
<1>5. Ahead(o)' = {e \in Active : Key(e) = Key(o)}
  BY <1>2, <1>3, <1>4 DEF Ahead, ActiveIn
<1>6. ASSUME NEW q \in Active PROVE Ahead(q)' = Ahead(q)
  <2>1. q # o /\ arrival'[q] = arrival[q] /\ arrival[q] < arrival'[o] /\ arrival[q] \in Nat
    BY <1>3, <1>4, <1>6 DEF TypeOK
  <2> QED BY <2>1, <1>2, <1>3, <1>4 DEF Ahead, ActiveIn
<1>7. InLine' = [InLine EXCEPT ![o] = {e \in Active : Key(e) = Key(o)}]
  BY <1>2, <1>5, <1>6 DEF InLine
<1> QED BY <1>2, <1>7 DEF Lanes!Join, InLine, Running

LEMMA StartIsStart ==
    ASSUME GateInv, NEW o \in Ops, Start(o)
    PROVE Lanes!Start(o)
<1> USE DEF GateInv
<1>1. /\ stage[o] = "waiting" /\ stage' = [stage EXCEPT ![o] = "running"]
      /\ awaits[o] # None => done[awaits[o]] = "done"
      /\ arrival' = arrival
  BY DEF Start, laneVars
<1>2. Active' = Active /\ \A k \in Keys : ActiveIn(k)' = ActiveIn(k)
  BY StayActive
<1>3. Running' = Running \cup {o} /\ o \in Active \ Running
  BY <1>1 DEF TypeOK, Active, Running
<1>4. Ahead(o) = {}
  <2> SUFFICES ASSUME NEW e \in ActiveIn(Key(o)), arrival[e] < arrival[o] PROVE FALSE
    BY DEF Ahead
  <2>1. awaits[o] # None /\ arrival[e] <= arrival[awaits[o]] /\ Key(awaits[o]) = Key(o)
    BY <1>1 DEF WaitsForAllAhead, Behind, Earlier
  <2>2. awaits[o] \in Ops /\ e \in Ops
    BY <2>1 DEF TypeOK, ActiveIn, Active
  <2>3. arrival[awaits[o]] < arrival[e]
    BY <2>1, <2>2, <1>1 DEF WaitsForAllAhead
  <2> QED BY <2>1, <2>2, <2>3 DEF TypeOK
<1>5. InLine' = InLine
  BY <1>1, <1>2, KeyType DEF InLine, Ahead
<1>6. InLine[o] = {}
  BY <1>4 DEF InLine
<1> QED BY <1>2, <1>3, <1>5, <1>6 DEF Lanes!Start, InLine, Running

LEMMA LeaveIsLeave ==
    ASSUME GateInv, NEW o \in Ops, NEW b \in BOOLEAN, o \in Active, Leave(o, b)
    PROVE Lanes!Leave(o)
<1> USE DEF GateInv
<1>1. stage' = [stage EXCEPT ![o] = "left"] /\ arrival' = arrival
  BY DEF Leave
<1>2. Active' = Active \ {o} /\ Running' = Running \ {o}
  BY <1>1 DEF TypeOK, Active, Running
<1>3. \A q \in Ops : Ahead(q)' = Ahead(q) \ {o}
  BY <1>1, <1>2 DEF Ahead, ActiveIn
<1>4. InLine' = [e \in Ops |-> IF e = o THEN {} ELSE InLine[e] \ {o}]
  BY <1>2, <1>3 DEF InLine
<1> QED BY <1>2, <1>4 DEF Lanes!Leave, InLine, Running

LEMMA RestIsStutter ==
    ASSUME GateInv, UNCHANGED <<stage, arrival>>
    PROVE UNCHANGED Lanes!vars
<1>1. Active' = Active /\ Running' = Running
  BY DEF Active, Running
<1>2. InLine' = InLine
  BY <1>1 DEF InLine, Ahead, ActiveIn
<1> QED BY <1>1, <1>2 DEF Lanes!vars, InLine, Running

\* The chain of Deferreds implements one first-in first-out line for each key: an operation joins
\* behind what is in its line, starts when all of that has left, and leaves at any time
\* (runInLane: waitForPrevious, and what a caller that was interrupted completes).
THEOREM RefinesFifoLanes == Spec => ImplementsFifoLanes
<1>1. Init => Lanes!Init
  <2> SUFFICES ASSUME Init PROVE Lanes!Init
    OBVIOUS
  <2>1. Active = {} /\ Running = {}
    BY DEF Init, Active, Running
  <2> QED BY <2>1 DEF Lanes!Init, Running
<1>2. GateInv /\ [Next]_vars => [Lanes!Next]_Lanes!vars
  <2> SUFFICES ASSUME GateInv, [Next]_vars PROVE Lanes!Next \/ UNCHANGED Lanes!vars
    OBVIOUS
  <2>1. ASSUME NEW o \in Ops, Join(o) PROVE Lanes!Next
    BY <2>1, JoinIsJoin DEF Lanes!Next
  <2>2. ASSUME NEW o \in Ops, Follow(o) PROVE UNCHANGED Lanes!vars
    BY <2>2, RestIsStutter DEF Follow, laneVars
  <2>3. ASSUME NEW o \in Ops, Start(o) PROVE Lanes!Next
    BY <2>3, StartIsStart DEF Lanes!Next
  <2>4. ASSUME NEW o \in Ops, Interrupted(o) \/ Ends(o) PROVE Lanes!Next
    <3>1. o \in Active /\ \E b \in BOOLEAN : Leave(o, b)
      BY <2>4 DEF Interrupted, Ends, Active
    <3> QED BY <3>1, LeaveIsLeave DEF Lanes!Next
  <2>5. ASSUME NEW d \in Drains, Drain(d) \/ Drained(d) \/ DrainInterrupted(d)
        PROVE UNCHANGED Lanes!vars
    BY <2>5, RestIsStutter DEF Drain, Drained, DrainInterrupted, laneVars
  <2>6. CASE UNCHANGED vars
    BY <2>6, RestIsStutter DEF vars, laneVars
  <2> QED BY <2>1, <2>2, <2>3, <2>4, <2>5, <2>6 DEF Next
<1> QED BY <1>1, <1>2, GateCorrect, PTL DEF Spec, ImplementsFifoLanes, Lanes!Spec
=============================================================================
