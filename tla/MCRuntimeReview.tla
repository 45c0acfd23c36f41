--------------------------- MODULE MCRuntimeReview ---------------------------
(* A small instance of RuntimeReview for TLC. *)
EXTENDS RuntimeReview, TLC

CONSTANTS k1, k2, p1, p2, s1, m1, m2

TwoKinds == {k1, k2}
TwoPaths == {p1, p2}
OneSession == {s1}
TwoCommands == {m1, m2}

On(path) == [enabled |-> TRUE, path |-> path]
Off(path) == [enabled |-> FALSE, path |-> path]

\* Both kinds run the same executable at first.
BothOn == {[k \in Kinds |-> On(p1)]}

\* A save moves one kind to the other path or disables it, or does one to each kind.  After the
\* kind was disabled, the first edit enables it again.
Edits == {[k \in {k2} |-> On(p2)], [k \in {k2} |-> Off(p1)],
          [k \in Kinds |-> IF k = k1 THEN On(p2) ELSE Off(p1)]}

\* Turns run on one of the kinds.
TurnsOfOneKind == [k \in Kinds |-> IF k = k2 THEN MaxEvents ELSE 0]

\* The code treats sessions and callers alike; the edits tell kinds and paths apart.
Symmetry == Permutations(Sessions) \cup Permutations(Commands)

=============================================================================
