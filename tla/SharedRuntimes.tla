--------------------------- MODULE SharedRuntimes ---------------------------
(***************************************************************************)
(* What the runtime layer promises to the rest of the host, without slots, *)
(* reservations, gates or callbacks: each kind has at most one process;    *)
(* an attempt begins only when the previous process is gone and is no      *)
(* longer served; callers are only served the latest attempt; once the     *)
(* host quits nothing begins or is served, and a successful quit leaves no *)
(* process. A process may die at any moment, also while it is served.      *)
(***************************************************************************)
EXTENDS Naturals

CONSTANTS Kinds, MaxStarts

VARIABLES
    last,     \* the latest attempt of each kind, 0 before the first
    live,     \* its process: {} or {last}
    serving,  \* the attempt that new work is admitted to, 0 for none
    phase     \* "up", "quitting", "sealed" (no start can spawn any more), "ended", "failed"

vars == <<last, live, serving, phase>>

Init ==
    /\ last = [k \in Kinds |-> 0]
    /\ live = [k \in Kinds |-> {}]
    /\ serving = [k \in Kinds |-> 0]
    /\ phase = "up"

\* A start attempt begins; its process appears later, if at all.
Begin(k) ==
    /\ phase = "up"
    /\ live[k] = {} /\ serving[k] = 0
    /\ last[k] < MaxStarts
    /\ last' = [last EXCEPT ![k] = @ + 1]
    /\ UNCHANGED <<live, serving, phase>>

Spawn(k) ==
    /\ phase \in {"up", "quitting"}
    /\ live[k] = {} /\ serving[k] = 0
    /\ last[k] # 0
    /\ live' = [live EXCEPT ![k] = {last[k]}]
    /\ UNCHANGED <<last, serving, phase>>

\* The process stops, is cleaned up, or crashes.
Die(k) ==
    /\ live[k] # {}
    /\ live' = [live EXCEPT ![k] = {}]
    /\ UNCHANGED <<last, serving, phase>>

\* New work is admitted to the latest attempts of some kinds.
Serve(kinds) ==
    /\ phase = "up"
    /\ \A k \in kinds : serving[k] = 0 /\ last[k] # 0
    /\ serving' = [k \in Kinds |-> IF k \in kinds THEN last[k] ELSE serving[k]]
    /\ UNCHANGED <<last, live, phase>>

Withdraw(kinds) ==
    /\ serving' = [k \in Kinds |-> IF k \in kinds THEN 0 ELSE serving[k]]
    /\ UNCHANGED <<last, live, phase>>

\* The host quits, or tries again to quit.
Quit ==
    /\ phase \in {"up", "ended", "failed"}
    /\ phase' = "quitting"
    /\ serving' = [k \in Kinds |-> 0]
    /\ UNCHANGED <<last, live>>

Seal ==
    /\ phase = "quitting"
    /\ phase' = "sealed"
    /\ UNCHANGED <<last, live, serving>>

End ==
    /\ phase = "sealed"
    /\ \/ phase' = "ended" /\ \A k \in Kinds : live[k] = {}
       \/ phase' = "failed"
    /\ UNCHANGED <<last, live, serving>>

Next ==
    \/ \E k \in Kinds : Begin(k) \/ Spawn(k) \/ Die(k)
    \/ \E kinds \in SUBSET Kinds : Serve(kinds) \/ Withdraw(kinds)
    \/ Quit \/ Seal \/ End

Spec == Init /\ [][Next]_vars

=============================================================================
