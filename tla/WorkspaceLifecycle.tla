------------------------- MODULE WorkspaceLifecycle -------------------------
(***************************************************************************)
(* One workspace of a host: the admission of process starts, close, reopen *)
(* and remove with its saved progress, failures and restarts of the host,  *)
(* and another host that closes and reopens the same workspace.            *)
(* workspace-admission-service.ts, workspace-lifecycle-service.ts,         *)
(* workspace-lifecycle-settings.ts, workspace-worktree-inventory.ts and    *)
(* worktree-removal.ts                                                     *)
(***************************************************************************)
EXTENDS Naturals, FiniteSets

CONSTANTS
    Calls,      \* clients of the lifecycle commands, one command each at a time
    Starts,     \* callers that start processes in the workspace
    Worktrees,  \* the worktrees of the repository
    Known,      \* those that a task or a saved session names
    Branched,   \* those whose branch is one of a task
    Claimed,    \* those that another workspace claims
    None,       \* no worktree
    MaxEvents   \* bound on closes, reopens, failures and restarts together

ASSUME WorktreesAssumption ==
    Known \cup Branched \subseteq Worktrees /\ Claimed \subseteq Worktrees /\ None \notin Worktrees

VARIABLES
    registered,  \* the settings have the workspace
    closed,      \* its settings say closed
    removal,     \* its saved removal record, phase "none" without one
    checkout,    \* worktree -> its directory exists
    gitKnows,    \* worktree -> git lists it
    blocked,     \* the entry of blockedByWorkspaceId: "open" without one
    reserved,    \* the operation that holds the reservation, or "none"
    call,        \* client -> where its command is
    start,       \* caller -> where its process start is, with the catalog it saw
    running,     \* caller -> its process is at work
    events

saved == <<registered, closed, removal>>
files == <<checkout, gitKnows>>
vars == <<saved, files, blocked, reserved, call, start, running, events>>

Ops == {"close", "reopen", "remove"}
Phases == {"none", "worktrees", "attachments", "task_store"}
Views == {"open", "closed", "removal"}
NoRemoval == [phase |-> "none", worktrees |-> FALSE, pending |-> None]
Own == Worktrees \ Claimed

IdleCall == [op |-> "close", at |-> "idle", keep |-> FALSE, todo |-> {}, now |-> None]
IdleStart == [at |-> "idle", saw |-> "open", shut |-> FALSE]

\* What the catalog says of the workspace.
Catalog == IF ~registered THEN "open"
           ELSE IF removal.phase # "none" THEN "removal"
           ELSE IF closed THEN "closed" ELSE "open"
ShutOut == Catalog # "open"

Init ==
    /\ registered = TRUE /\ closed = FALSE /\ removal = NoRemoval
    /\ checkout = [w \in Worktrees |-> TRUE]
    /\ gitKnows = [w \in Worktrees |-> TRUE]
    /\ blocked = "open" /\ reserved = "none"
    /\ call = [c \in Calls |-> IdleCall]
    /\ start = [p \in Starts |-> IdleStart]
    /\ running = [p \in Starts |-> FALSE]
    /\ events = 0

Counted == events < MaxEvents /\ events' = events + 1

-----------------------------------------------------------------------------
(* Process starts: withProcessStartAdmission.                              *)

Starting == {p \in Starts : start[p].at = "starting"}

Request(p) ==
    /\ start[p].at = "idle" /\ ~running[p]
    /\ start' = [start EXCEPT ![p] = [at |-> "asked", saw |-> "open", shut |-> ShutOut]]
    /\ UNCHANGED <<saved, files, blocked, reserved, call, running, events>>

\* The catalog read of the refresh; its answer arrives later.
ReadCatalog(p) ==
    /\ start[p].at = "asked"
    /\ start' = [start EXCEPT ![p].at = "read", ![p].saw = Catalog]
    /\ UNCHANGED <<saved, files, blocked, reserved, call, running, events>>

\* FAULT: a start trusts what the host has in memory.
RefreshedFromMemory(p) == blocked

\* What the refresh leaves in blockedByWorkspaceId.
Refreshed(p) == start[p].saw

\* The answer replaces the blocked set, and the start is admitted in the same step.
Admitted(p) ==
    /\ start[p].at = "read"
    /\ blocked' = Refreshed(p)
    /\ reserved = "none" /\ Refreshed(p) = "open"
    /\ start' = [start EXCEPT ![p].at = "starting"]
    /\ UNCHANGED <<saved, files, reserved, call, running, events>>

StartRefused(p) ==
    /\ start[p].at = "read"
    /\ blocked' = Refreshed(p)
    /\ reserved # "none" \/ Refreshed(p) # "open"
    /\ start' = [start EXCEPT ![p] = IdleStart]
    /\ UNCHANGED <<saved, files, reserved, call, running, events>>

\* The start returns with a process at work, or without one.
StartReturns(p) ==
    /\ start[p].at = "starting"
    /\ start' = [start EXCEPT ![p] = IdleStart]
    /\ \E works \in BOOLEAN : running' = [running EXCEPT ![p] = works]
    /\ UNCHANGED <<saved, files, blocked, reserved, call, events>>

WorkEnds(p) ==
    /\ running[p]
    /\ running' = [running EXCEPT ![p] = FALSE]
    /\ UNCHANGED <<saved, files, blocked, reserved, call, start, events>>

-----------------------------------------------------------------------------
(* The reservation of a command: requireTarget, runUnderReservation.       *)

At(c, place) == call[c].at = place
Go(c, place) == call' = [call EXCEPT ![c].at = place]

Runs(c, op) ==
    /\ registered /\ At(c, "idle")
    /\ \E keep \in IF op = "remove" THEN BOOLEAN ELSE {FALSE} :
           call' = [call EXCEPT ![c] = [IdleCall EXCEPT !.op = op, !.at = "asked", !.keep = keep]]
    /\ UNCHANGED <<saved, files, blocked, reserved, start, running>>

\* A close of a closed workspace and a reopen of an open one return at once.
Close(c) == ~closed /\ Counted /\ Runs(c, "close")
Reopen(c) == closed /\ Counted /\ Runs(c, "reopen")
Remove(c) == Runs(c, "remove") /\ UNCHANGED events

\* FAULT: a reservation does not look at the process starts.
FreeOfReservation == reserved = "none"

Free == reserved = "none" /\ Starting = {}

Reserve(c) ==
    /\ At(c, "asked") /\ Free
    /\ reserved' = call[c].op
    /\ Go(c, IF call[c].op = "reopen" THEN "commit" ELSE "inspect")
    /\ UNCHANGED <<saved, files, blocked, start, running, events>>

NotReserved(c) ==
    /\ At(c, "asked") /\ ~Free
    /\ call' = [call EXCEPT ![c] = IdleCall]
    /\ UNCHANGED <<saved, files, blocked, reserved, start, running, events>>

\* FAULT: the reservation is not released.
ReleasedCall(c) == call' = [call EXCEPT ![c] = IdleCall] /\ UNCHANGED reserved

\* The command ends, and runUnderReservation releases.
Released(c) ==
    /\ call' = [call EXCEPT ![c] = IdleCall]
    /\ reserved' = "none"

Holds(c) == call[c].at \notin {"idle", "asked"}

\* A read, a write, a git command or a cleanup of the command fails.
Fails(c) ==
    /\ Holds(c) /\ Counted
    /\ Released(c)
    /\ UNCHANGED <<saved, files, blocked, start, running>>

\* assertNoBlockingActivity
Inspect(c) ==
    /\ At(c, "inspect") /\ \A p \in Starts : ~running[p]
    /\ Go(c, "commit")
    /\ UNCHANGED <<saved, files, blocked, reserved, start, running, events>>

WorkIsRunning(c) ==
    /\ At(c, "inspect") /\ \E p \in Starts : running[p]
    /\ Released(c)
    /\ UNCHANGED <<saved, files, blocked, start, running, events>>

-----------------------------------------------------------------------------
(* Close and reopen.                                                       *)

Usable == registered /\ removal.phase = "none"

\* The workspace opens: a later start may be admitted again.
Opens == start' = [p \in Starts |-> [start[p] EXCEPT !.shut = FALSE]]

CommitClose(c) ==
    /\ At(c, "commit") /\ call[c].op = "close" /\ Usable
    /\ closed' = TRUE
    /\ Go(c, "saved")
    /\ UNCHANGED <<registered, removal, files, blocked, reserved, start, running, events>>

CommitReopen(c) ==
    /\ At(c, "commit") /\ call[c].op = "reopen" /\ Usable
    /\ closed' = FALSE /\ Opens
    /\ Go(c, "saved")
    /\ UNCHANGED <<registered, removal, files, blocked, reserved, running, events>>

CommitRefused(c) ==
    /\ At(c, "commit") /\ call[c].op # "remove" /\ ~Usable
    /\ Released(c)
    /\ UNCHANGED <<saved, files, blocked, start, running, events>>

\* blockWorkspace or unblockWorkspace after the catalog was read again.
Saved(c) ==
    /\ At(c, "saved")
    /\ blocked' = IF call[c].op = "close" THEN "closed" ELSE "open"
    /\ Released(c)
    /\ UNCHANGED <<saved, files, start, running, events>>

-----------------------------------------------------------------------------
(* Remove: executeRemoval.                                                 *)

\* beginWorkspaceRemoval: a removal that has begun keeps its choice, unless the client now
\* keeps the worktrees and none is being removed.
Record(keep) ==
    IF removal.phase = "none"
    THEN [phase |-> IF keep THEN "attachments" ELSE "worktrees", worktrees |-> ~keep, pending |-> None]
    ELSE IF removal.worktrees /\ keep /\ removal.phase = "worktrees" /\ removal.pending = None
    THEN [phase |-> "attachments", worktrees |-> FALSE, pending |-> None]
    ELSE removal

Begin(c) ==
    /\ At(c, "commit") /\ call[c].op = "remove" /\ registered
    /\ removal' = Record(call[c].keep)
    /\ Go(c, "begun")
    /\ UNCHANGED <<registered, closed, files, blocked, reserved, start, running, events>>

Block(c) ==
    /\ At(c, "begun")
    /\ blocked' = "removal"
    /\ Go(c, "release")
    /\ UNCHANGED <<saved, files, reserved, start, running, events>>

\* The sessions are released, and the removal goes on at its saved phase.
SessionsReleased(c) ==
    /\ At(c, "release")
    /\ Go(c, removal.phase)
    /\ UNCHANGED <<saved, files, blocked, reserved, start, running, events>>

\* persistProgress
Persist(phase, pending) ==
    removal' = [removal EXCEPT !.phase = phase, !.pending = pending]

\* The worktree that was being removed is gone already.
PendingIsGone(c) ==
    /\ At(c, "worktrees") /\ removal.pending # None /\ ~checkout[removal.pending]
    /\ Persist("worktrees", None)
    /\ Go(c, "collect")
    /\ UNCHANGED <<registered, closed, files, blocked, reserved, start, running, events>>

PendingIsThere(c) ==
    /\ At(c, "worktrees") /\ (removal.pending # None => checkout[removal.pending])
    /\ Go(c, "collect")
    /\ UNCHANGED <<saved, files, blocked, reserved, start, running, events>>

\* FAULT: a retry forgets the worktree whose removal had begun.
CandidatesOfTasks == {w \in Own : checkout[w] /\ (w \in Known \/ (w \in Branched /\ gitKnows[w]))}

\* collectWorkspaceTaskWorktreePaths: what a task, a session, a branch that git lists or the
\* saved progress names, exists, and no other workspace claims.
Candidates ==
    {w \in Own : checkout[w] /\ (w \in Known \/ (w \in Branched /\ gitKnows[w]) \/ w = removal.pending)}

\* Those that git lists under the managed base and nothing attributes to a task.
Unclassified == {w \in Own : checkout[w] /\ gitKnows[w]} \ Candidates

Attributed == (\A w \in Candidates : gitKnows[w]) /\ Unclassified = {}

Collect(c) ==
    /\ At(c, "collect") /\ Attributed
    /\ call' = [call EXCEPT ![c].at = "loop", ![c].todo = Candidates]
    /\ UNCHANGED <<saved, files, blocked, reserved, start, running, events>>

\* A candidate that git does not list, or a worktree of no task, stops the removal.
CollectFails(c) ==
    /\ At(c, "collect") /\ ~Attributed
    /\ Released(c)
    /\ UNCHANGED <<saved, files, blocked, start, running, events>>

Journal(c) ==
    /\ At(c, "loop")
    /\ \E w \in call[c].todo :
        /\ Persist("worktrees", w)
        /\ call' = [call EXCEPT ![c].at = "git", ![c].now = w, ![c].todo = @ \ {w}]
    /\ UNCHANGED <<registered, closed, files, blocked, reserved, start, running, events>>

\* git forgets the worktree and removes its directory, or leaves the directory.
GitRemoves(c) ==
    /\ At(c, "git")
    /\ gitKnows' = [gitKnows EXCEPT ![call[c].now] = FALSE]
    /\ \E left \in BOOLEAN : checkout' = [checkout EXCEPT ![call[c].now] = @ /\ left]
    /\ Go(c, "path")
    /\ UNCHANGED <<saved, blocked, reserved, start, running, events>>

\* removePathIfPresent
PathRemoved(c) ==
    /\ At(c, "path")
    /\ checkout' = [checkout EXCEPT ![call[c].now] = FALSE]
    /\ Go(c, "removed")
    /\ UNCHANGED <<saved, gitKnows, blocked, reserved, start, running, events>>

Removed(c) ==
    /\ At(c, "removed")
    /\ Persist("worktrees", None)
    /\ call' = [call EXCEPT ![c].at = "loop", ![c].now = None]
    /\ UNCHANGED <<registered, closed, files, blocked, reserved, start, running, events>>

WorktreesDone(c) ==
    /\ At(c, "loop") /\ call[c].todo = {}
    /\ Persist("attachments", None)
    /\ Go(c, "attachments")
    /\ UNCHANGED <<registered, closed, files, blocked, reserved, start, running, events>>

AttachmentsRemoved(c) ==
    /\ At(c, "attachments")
    /\ Persist("task_store", None)
    /\ Go(c, "task_store")
    /\ UNCHANGED <<registered, closed, files, blocked, reserved, start, running, events>>

\* Credentials and browser data are removed, then the registration with the record.
RemoveRegistration(c) ==
    /\ At(c, "task_store")
    /\ registered' = FALSE /\ closed' = FALSE /\ removal' = NoRemoval /\ Opens
    /\ Go(c, "gone")
    /\ UNCHANGED <<files, blocked, reserved, running, events>>

Forget(c) ==
    /\ At(c, "gone")
    /\ blocked' = "open"
    /\ Released(c)
    /\ UNCHANGED <<saved, files, start, running, events>>

-----------------------------------------------------------------------------
(* The environment.                                                        *)

\* The host stops and starts again: memory and processes are gone, initialize() reads the
\* catalog. What was saved and the files stay.
Restart ==
    /\ Counted
    /\ blocked' = Catalog /\ reserved' = "none"
    /\ call' = [c \in Calls |-> IdleCall]
    /\ start' = [p \in Starts |-> IdleStart]
    /\ running' = [p \in Starts |-> FALSE]
    /\ UNCHANGED <<saved, files>>

\* Another host of the same database closes or reopens the workspace.
OtherHostEdits ==
    /\ Usable /\ Counted
    /\ closed' = ~closed
    /\ IF closed THEN Opens ELSE UNCHANGED start
    /\ UNCHANGED <<registered, removal, files, blocked, reserved, call, running>>

\* The user removes a directory that the failed removal named, with git or without.
RemoveByHand(w) ==
    /\ removal.phase = "worktrees"
    /\ w \in Own /\ checkout[w] /\ (~gitKnows[w] \/ w \in Unclassified)
    /\ checkout' = [checkout EXCEPT ![w] = FALSE]
    /\ \E lists \in BOOLEAN : gitKnows' = [gitKnows EXCEPT ![w] = @ /\ lists]
    /\ UNCHANGED <<saved, blocked, reserved, call, start, running, events>>

-----------------------------------------------------------------------------

StartStep(p) ==
    Request(p) \/ ReadCatalog(p) \/ Admitted(p) \/ StartRefused(p) \/ StartReturns(p) \/ WorkEnds(p)

CloseStep(c) == CommitClose(c) \/ CommitReopen(c) \/ CommitRefused(c) \/ Saved(c)

RemoveStep(c) ==
    \/ Begin(c) \/ Block(c) \/ SessionsReleased(c) \/ PendingIsGone(c) \/ PendingIsThere(c)
    \/ Collect(c) \/ CollectFails(c) \/ Journal(c) \/ GitRemoves(c) \/ PathRemoved(c) \/ Removed(c)
    \/ WorktreesDone(c) \/ AttachmentsRemoved(c) \/ RemoveRegistration(c) \/ Forget(c)

Goes(c) == Reserve(c) \/ NotReserved(c) \/ Inspect(c) \/ WorkIsRunning(c) \/ CloseStep(c) \/ RemoveStep(c)

Next ==
    \/ \E p \in Starts : StartStep(p)
    \/ \E c \in Calls : Close(c) \/ Reopen(c) \/ Remove(c) \/ Goes(c) \/ Fails(c)
    \/ Restart \/ OtherHostEdits \/ \E w \in Worktrees : RemoveByHand(w)

Spec == Init /\ [][Next]_vars

\* A client tries an incomplete removal again, as its message says.
Retry == removal.phase # "none" /\ \E c \in Calls : Remove(c)

FairSpec ==
    /\ Spec
    /\ \A c \in Calls : WF_vars(Goes(c))
    /\ \A p \in Starts : WF_vars(StartReturns(p)) /\ WF_vars(WorkEnds(p))
    /\ \A w \in Worktrees : WF_vars(RemoveByHand(w))
    /\ WF_vars(Retry)

-----------------------------------------------------------------------------
(* Properties.                                                             *)

Places == {"idle", "asked", "inspect", "commit", "saved", "begun", "release", "worktrees", "collect",
           "loop", "git", "path", "removed", "attachments", "task_store", "gone"}
Command == [op : Ops, at : Places, keep : BOOLEAN, todo : SUBSET Worktrees,
            now : Worktrees \cup {None}]
ProcessStart == [at : {"idle", "asked", "read", "starting"}, saw : Views, shut : BOOLEAN]
RemovalRecord == [phase : Phases, worktrees : BOOLEAN, pending : Worktrees \cup {None}]

TypeOK ==
    /\ registered \in BOOLEAN /\ closed \in BOOLEAN /\ removal \in RemovalRecord
    /\ checkout \in [Worktrees -> BOOLEAN] /\ gitKnows \in [Worktrees -> BOOLEAN]
    /\ blocked \in Views /\ reserved \in Ops \cup {"none"}
    /\ call \in [Calls -> Command]
    /\ start \in [Starts -> ProcessStart]
    /\ running \in [Starts -> BOOLEAN]
    /\ events \in Nat

\* From the check for running work until a close or a removal ends, no process start of this
\* host is admitted and no process that one started is at work.
QuietAfterInspect ==
    \A c \in Calls : Holds(c) /\ call[c].at # "inspect" /\ call[c].op # "reopen" =>
        Starting = {} /\ \A p \in Starts : ~running[p]

\* A start that was asked for while the workspace was closed or being removed, by any host, and
\* has stayed so is not admitted, whatever this host still had in memory.
ClosedStaysQuiet == \A p \in Starting : ~start[p].shut

\* Once a removal of the worktrees is past them, in spite of failures and restarts of the host,
\* every worktree directory of the workspace is gone.
NothingLeftBehind ==
    removal.phase \in {"attachments", "task_store"} /\ removal.worktrees =>
        \A w \in Own : ~checkout[w]

\* A removal that has begun ends, if the client retries, running work stops and the directories
\* that the removal cannot attribute are removed by hand.
RemovalEnds == removal.phase # "none" ~> removal.phase = "none"
=============================================================================
