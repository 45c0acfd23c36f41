----------------------------- MODULE SerialGate -----------------------------
(* The serial gate of the host (packages/host/src/effect/serial-gate.ts).  It runs the  *)
(* operations of a key one at a time in arrival order.  There is no list of waiters:    *)
(* each caller waits for the Deferred of the caller before it, and a caller that leaves *)
(* before its turn makes the next one wait for the one before.  drain() waits for       *)
(* every operation that holds or waits for a key when it is called.                     *)
EXTENDS Integers, FiniteSets

CONSTANTS Calls,    \* the operations that callers run, each once
          Keys, KeyOf,
          Drains,   \* the calls of drain()
          None

ASSUME KeyAssumption == KeyOf \in [Calls -> Keys]
\* drain() runs one empty operation for each key it finds.
Parts == Drains \X Keys
Ops == Calls \cup Parts
ASSUME NamesAssumption == Calls \cap Parts = {} /\ None \notin Ops

Key(o) == IF o \in Calls THEN KeyOf[o] ELSE o[2]

VARIABLES
    lanes,      \* the lane of each key; a lane without users is forgotten
    stage,      \* of each operation
    previous,   \* the Deferred that its waitForPrevious awaits
    awaits,     \* the Deferred that it awaits now
    done,       \* its own Deferred: not completed, completed, or completed with waitForPrevious
    drain,      \* of each drain(): what it does, and the keys it found
    found,
    \* History: when an operation joined, and what was active when a drain was called.
    clock, arrival, met

laneVars == <<lanes, clock, arrival, previous>>
drainVars == <<drain, found, met>>
vars == <<laneVars, stage, awaits, done, drainVars>>

NoLane == [last |-> None, users |-> 0]
Active == {o \in Ops : stage[o] \in {"waiting", "running"}}
ActiveIn(k) == {o \in Active : Key(o) = k}

Init ==
    /\ lanes = [k \in Keys |-> NoLane]
    /\ stage = [o \in Ops |-> "new"]
    /\ previous = [o \in Ops |-> None] /\ awaits = [o \in Ops |-> None]
    /\ done = [o \in Ops |-> "open"]
    /\ drain = [d \in Drains |-> "idle"] /\ found = [d \in Drains |-> {}]
    /\ clock = 0 /\ arrival = [o \in Ops |-> 0] /\ met = [d \in Drains |-> {}]

-----------------------------------------------------------------------------
\* FAULT: an operation that finds a lane does not become its last one.
LaneAfterJoinKeepsLast(k, o) ==
    [last |-> IF lanes[k].last = None THEN o ELSE lanes[k].last, users |-> lanes[k].users + 1]

LaneAfterJoin(k, o) == [last |-> o, users |-> lanes[k].users + 1]

\* A caller selects its lane and joins it in one synchronous step.
Join(o) ==
    /\ stage[o] = "new"
    /\ o \in Parts => drain[o[1]] = "waiting" /\ o[2] \in found[o[1]]
    /\ previous' = [previous EXCEPT ![o] = lanes[Key(o)].last]
    /\ awaits' = [awaits EXCEPT ![o] = lanes[Key(o)].last]
    /\ lanes' = [lanes EXCEPT ![Key(o)] = LaneAfterJoin(Key(o), o)]
    /\ stage' = [stage EXCEPT ![o] = "waiting"]
    /\ clock' = clock + 1 /\ arrival' = [arrival EXCEPT ![o] = clock]
    /\ UNCHANGED <<done, drainVars>>

\* The awaited Deferred was completed with the wait of a caller that left before its turn.
Follow(o) ==
    /\ stage[o] = "waiting" /\ awaits[o] # None /\ done[awaits[o]] = "link"
    /\ awaits' = [awaits EXCEPT ![o] = previous[awaits[o]]]
    /\ UNCHANGED <<laneVars, stage, done, drainVars>>

\* The turn comes: the operation starts on the scheduler some time after the release.
Start(o) ==
    /\ stage[o] = "waiting"
    /\ awaits[o] # None => done[awaits[o]] = "done"
    /\ stage' = [stage EXCEPT ![o] = "running"]
    /\ UNCHANGED <<laneVars, awaits, done, drainVars>>

\* FAULT: a caller that leaves before its turn lets the next one start.
CompletedAtOnce(o, started) == "done"

\* FAULT: a caller that leaves before its turn completes nothing.
CompletedIfStarted(o, started) == IF started THEN "done" ELSE "open"

\* How a caller that leaves completes its Deferred.
Completed(o, started) == IF started \/ previous[o] = None THEN "done" ELSE "link"

\* FAULT: any caller that leaves ends the lane.
LaneAfterLeaveEmpty(k) == NoLane

LaneAfterLeave(k) ==
    IF lanes[k].users = 1 THEN NoLane ELSE [lanes[k] EXCEPT !.users = @ - 1]

\* The bookkeeping of a departure and the completion of its Deferred; what joins between them
\* waits or starts as it does afterwards.
Leave(o, started) ==
    /\ lanes' = [lanes EXCEPT ![Key(o)] = LaneAfterLeave(Key(o))]
    /\ done' = [done EXCEPT ![o] = Completed(o, started)]
    /\ stage' = [stage EXCEPT ![o] = "left"]
    /\ UNCHANGED <<clock, arrival, previous, awaits, drainVars>>

\* A waiting caller is interrupted; a part of a drain only with its drain.
Interrupted(o) ==
    /\ stage[o] = "waiting" /\ (o \in Parts => drain[o[1]] = "cancelled")
    /\ Leave(o, FALSE)

\* A running operation succeeds, fails or is interrupted.
Ends(o) == stage[o] = "running" /\ Leave(o, TRUE)

-----------------------------------------------------------------------------
Drain(d) ==
    /\ drain[d] = "idle"
    /\ drain' = [drain EXCEPT ![d] = "waiting"]
    /\ found' = [found EXCEPT ![d] = {k \in Keys : lanes[k] # NoLane}]
    /\ met' = [met EXCEPT ![d] = Active]
    /\ UNCHANGED <<laneVars, stage, awaits, done>>

\* FAULT: drain() returns when the parts that joined have left.
PartsEndedOfJoined(d) == \A k \in found[d] : stage[<<d, k>>] \in {"new", "left"}

PartsEnded(d) == \A k \in found[d] : stage[<<d, k>>] = "left"

Drained(d) ==
    /\ drain[d] = "waiting" /\ PartsEnded(d)
    /\ drain' = [drain EXCEPT ![d] = "done"]
    /\ UNCHANGED <<laneVars, stage, awaits, done, found, met>>

DrainInterrupted(d) ==
    /\ drain[d] = "waiting"
    /\ drain' = [drain EXCEPT ![d] = "cancelled"]
    /\ UNCHANGED <<laneVars, stage, awaits, done, found, met>>

Next ==
    \/ \E o \in Ops : Join(o) \/ Follow(o) \/ Start(o) \/ Interrupted(o) \/ Ends(o)
    \/ \E d \in Drains : Drain(d) \/ Drained(d) \/ DrainInterrupted(d)

Spec == Init /\ [][Next]_vars

-----------------------------------------------------------------------------
\* The only type invariant: every variable keeps its type.
TypeOK ==
    /\ lanes \in [Keys -> [last : Ops \cup {None}, users : Nat]]
    /\ stage \in [Ops -> {"new", "waiting", "running", "left"}]
    /\ previous \in [Ops -> Ops \cup {None}] /\ awaits \in [Ops -> Ops \cup {None}]
    /\ done \in [Ops -> {"open", "done", "link"}]
    /\ drain \in [Drains -> {"idle", "waiting", "done", "cancelled"}]
    /\ found \in [Drains -> SUBSET Keys] /\ met \in [Drains -> SUBSET Ops]
    /\ clock \in Nat /\ arrival \in [Ops -> Nat]

\* "Runs operations one at a time for each key, in arrival order": while an operation runs,
\* nothing that joined its lane earlier waits or runs, whoever left the line before its turn.
InArrivalOrder ==
    \A o \in Ops, e \in Active :
        stage[o] = "running" /\ Key(e) = Key(o) /\ e # o => arrival[o] < arrival[e]

\* Everything that is ahead of o in its lane joined no later than p.
Behind(o, p) ==
    \A e \in ActiveIn(Key(o)) : arrival[e] < arrival[o] => p # None /\ arrival[e] <= arrival[p]

\* p joined the lane of o before o, unless there is none.
Earlier(p, o) ==
    p # None => stage[p] # "new" /\ Key(p) = Key(o) /\ arrival[p] < arrival[o]

\* An operation never waits for too little: what it awaits, and what its waitForPrevious awaits,
\* stands for everything ahead of it, and a completed Deferred has nothing left before it.
WaitsForAllAhead ==
    \A o \in Ops :
        /\ stage[o] # "new" => Earlier(previous[o], o) /\ Behind(o, previous[o])
        /\ stage[o] = "waiting" => Earlier(awaits[o], o) /\ Behind(o, awaits[o])
        /\ done[o] = "link" => previous[o] # None
        /\ done[o] = "done" => \A e \in ActiveIn(Key(o)) : arrival[o] < arrival[e]

\* isActive tells whether an operation holds or waits for the key: a lane is forgotten in the
\* step in which its last user leaves, and never under a user.
LanesMatchUsers == \A k \in Keys : lanes[k].users = Cardinality(ActiveIn(k))

\* "Waits until every operation that holds or waits for a key now has left".
DrainWaits == \A d \in Drains : drain[d] = "done" => met[d] \cap Active = {}

\* Every operation that joins runs or is interrupted, and every drain ends: no one waits for a
\* Deferred that nobody completes.
EveryoneReturns ==
    /\ \A o \in Ops : stage[o] = "waiting" ~> stage[o] = "left"
    /\ \A d \in Drains : drain[d] = "waiting" ~> drain[d] \in {"done", "cancelled"}

\* The scheduler resumes fibers, and every operation ends; interrupts are not fair.
Fairness ==
    /\ \A o \in Ops : WF_vars(Follow(o)) /\ WF_vars(Start(o)) /\ WF_vars(Ends(o))
    /\ \A o \in Parts : WF_vars(Join(o))
    /\ \A d \in Drains : WF_vars(Drained(d))

FairSpec == Spec /\ Fairness

-----------------------------------------------------------------------------
(* The lines that the Deferreds stand for *)

Ahead(o) == {e \in ActiveIn(Key(o)) : arrival[e] < arrival[o]}

Lanes == INSTANCE FifoLanes WITH
    line <- Active,
    ahead <- [o \in Ops |-> IF o \in Active THEN Ahead(o) ELSE {}],
    running <- {o \in Ops : stage[o] = "running"}

\* The chain of Deferreds behaves as one first-in first-out line for each key: every step of
\* the gate is a join at the end, a start of the head, a departure, or nothing.
ImplementsFifoLanes == Lanes!Spec
=============================================================================
