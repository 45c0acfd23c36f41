------------------------ MODULE MCWorkspaceLifecycle ------------------------
(* A small workspace: one worktree that a task names, one that only its    *)
(* branch shows, one of no task, and one that another workspace claims.    *)
EXTENDS WorkspaceLifecycle

CONSTANTS named, found, stray, other

AllWorktrees == {named, found, stray, other}
=============================================================================
