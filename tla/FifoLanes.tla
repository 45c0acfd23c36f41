----------------------------- MODULE FifoLanes -----------------------------
(* What a serial gate promises: a line of operations for each key.  An operation joins  *)
(* behind everything that is in its line, runs when all of that has left, and may leave *)
(* the line at any time.                                                                *)
CONSTANTS Ops, Key(_)

VARIABLES line,     \* the operations in line
          ahead,    \* of each operation in line: what was before it and has not left
          running

vars == <<line, ahead, running>>

Init == line = {} /\ ahead = [o \in Ops |-> {}] /\ running = {}

Join(o) ==
    /\ o \notin line
    /\ line' = line \cup {o}
    /\ ahead' = [ahead EXCEPT ![o] = {e \in line : Key(e) = Key(o)}]
    /\ UNCHANGED running

Start(o) ==
    /\ o \in line \ running /\ ahead[o] = {}
    /\ running' = running \cup {o}
    /\ UNCHANGED <<line, ahead>>

Leave(o) ==
    /\ o \in line
    /\ line' = line \ {o}
    /\ ahead' = [e \in Ops |-> IF e = o THEN {} ELSE ahead[e] \ {o}]
    /\ running' = running \ {o}

Next == \E o \in Ops : Join(o) \/ Start(o) \/ Leave(o)

Spec == Init /\ [][Next]_vars
=============================================================================
