\* Two clients, one process start, four worktrees, four closes, reopens, failures or restarts.
CONSTANTS
    Calls = {c1, c2}
    Starts = {p1}
    named = named
    found = found
    stray = stray
    other = other
    Worktrees <- AllWorktrees
    Known = {named}
    Branched = {found}
    Claimed = {other}
    None = None
    MaxEvents = 4
SPECIFICATION FairSpec
INVARIANTS
    QuietAfterInspect
    ClosedStaysQuiet
    NothingLeftBehind
PROPERTIES
    RemovalEnds
