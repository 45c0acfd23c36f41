---------------------- MODULE WorkspaceLifecycleProofs ----------------------
(***************************************************************************)
(* The safety of WorkspaceLifecycle for any clients, process starts and    *)
(* worktrees: one command holds the reservation and nothing starts beside  *)
(* it, a closed workspace stays quiet, and a removal that is past its      *)
(* worktrees has left none.                                                *)
(***************************************************************************)
EXTENDS WorkspaceLifecycle, TLAPS

\* One command holds the reservation, and no process start is admitted beside it.
OneHolds ==
    /\ \A c, d \in Calls : Holds(c) /\ Holds(d) => c = d
    /\ \A c \in Calls : Holds(c) => reserved = call[c].op
    /\ \A c \in Calls : Holds(c) => Starting = {}

\* A start that is shut out has not seen an open workspace, and there is none to see.
ShutIsSeen ==
    \A p \in Starts : start[p].shut =>
        /\ Catalog # "open"
        /\ start[p].at \in {"asked", "read"}
        /\ start[p].at = "read" => start[p].saw # "open"

InLoop == {"loop", "git", "path", "removed"}
InGit == {"git", "path", "removed"}

\* A command is at the saved phase of the removal, and on the worktree that is pending.
AtPhase(c) ==
    /\ call[c].at \in {"begun", "release"} => removal.phase # "none"
    /\ call[c].at \in {"worktrees", "attachments", "task_store"} => removal.phase = call[c].at
    /\ call[c].at \in {"collect"} \cup InLoop => removal.phase = "worktrees"
    /\ call[c].at \in InGit => removal.pending = call[c].now

AtSavedPhase ==
    /\ removal.phase # "worktrees" => removal.pending = None
    /\ \A c \in Calls : AtPhase(c)

\* In the loop, every directory that is left is still on the list or being removed.
Listed(c) ==
    call[c].at \in InLoop =>
        \A w \in Own : checkout[w] =>
            \/ w \in call[c].todo /\ gitKnows[w]
            \/ w = call[c].now /\ call[c].at \in {"git", "path"}

\* A directory that git forgot is one that a task names or that is pending.
Findable == \A w \in Own : checkout[w] /\ ~gitKnows[w] => w \in Known \/ w = removal.pending

Remembered == Findable /\ \A c \in Calls : Listed(c)

Inv ==
    /\ TypeOK
    /\ OneHolds
    /\ QuietAfterInspect
    /\ ShutIsSeen
    /\ AtSavedPhase
    /\ Remembered
    /\ NothingLeftBehind

-----------------------------------------------------------------------------
(* Types *)

LEMMA Constants ==
    /\ IdleCall \in Command /\ IdleStart \in ProcessStart /\ NoRemoval \in RemovalRecord
    /\ Catalog \in Views
BY DEF IdleCall, IdleStart, NoRemoval, Command, ProcessStart, RemovalRecord, Catalog, Ops, Places,
       Views, Phases

LEMMA InitType == Init => TypeOK
<1> SUFFICES ASSUME Init PROVE TypeOK
  OBVIOUS
<1>1. registered \in BOOLEAN /\ closed \in BOOLEAN /\ removal \in RemovalRecord
  BY Constants DEF Init
<1>2. checkout \in [Worktrees -> BOOLEAN] /\ gitKnows \in [Worktrees -> BOOLEAN]
  BY DEF Init
<1>3. blocked \in Views /\ reserved \in Ops \cup {"none"} /\ events \in Nat
  BY DEF Init, Views
<1>4. call \in [Calls -> Command] /\ start \in [Starts -> ProcessStart] /\ running \in [Starts -> BOOLEAN]
  BY Constants DEF Init
<1> QED
  BY <1>1, <1>2, <1>3, <1>4 DEF TypeOK

\* What a move of a command changes.
LEMMA Moves ==
    ASSUME call \in [Calls -> Command], NEW c \in Calls, NEW q \in Places, Go(c, q)
    PROVE  /\ call' \in [Calls -> Command]
           /\ call'[c].at = q /\ call'[c].op = call[c].op
           /\ call'[c].todo = call[c].todo /\ call'[c].now = call[c].now
           /\ \A d \in Calls : d # c => call'[d] = call[d]
BY DEF Go, Command

\* What a client's command, a take from the list and the end of a command change.
LEMMA Asks ==
    ASSUME call \in [Calls -> Command], NEW c \in Calls, NEW op \in Ops, Runs(c, op)
    PROVE  /\ call' \in [Calls -> Command]
           /\ call'[c].at = "asked" /\ call[c].at = "idle"
           /\ UNCHANGED <<saved, files, blocked, reserved, start, running>>
           /\ \A d \in Calls : d # c => call'[d] = call[d]
<1>1. PICK keep \in BOOLEAN :
          call' = [call EXCEPT ![c] = [IdleCall EXCEPT !.op = op, !.at = "asked", !.keep = keep]]
  BY DEF Runs
<1>2. [IdleCall EXCEPT !.op = op, !.at = "asked", !.keep = keep] \in Command
  BY DEF IdleCall, Command, Ops, Places
<1>3. [IdleCall EXCEPT !.op = op, !.at = "asked", !.keep = keep].at = "asked"
  BY DEF IdleCall
<1> QED
  BY <1>1, <1>2, <1>3 DEF Runs, At

LEMMA Takes ==
    ASSUME call \in [Calls -> Command], NEW c \in Calls, NEW w \in Worktrees,
           call' = [call EXCEPT ![c].at = "git", ![c].now = w, ![c].todo = @ \ {w}]
    PROVE  /\ call' \in [Calls -> Command]
           /\ call'[c].at = "git" /\ call'[c].op = call[c].op
           /\ call'[c].todo = call[c].todo \ {w} /\ call'[c].now = w
           /\ \A d \in Calls : d # c => call'[d] = call[d]
BY DEF Command, Places

LEMMA Finishes ==
    ASSUME call \in [Calls -> Command], NEW c \in Calls,
           call' = [call EXCEPT ![c].at = "loop", ![c].now = None]
    PROVE  /\ call' \in [Calls -> Command]
           /\ call'[c].at = "loop" /\ call'[c].op = call[c].op
           /\ call'[c].todo = call[c].todo
           /\ \A d \in Calls : d # c => call'[d] = call[d]
BY DEF Command, Places

LEMMA Fields ==
    ASSUME call \in [Calls -> Command], NEW c \in Calls
    PROVE  /\ call[c].op \in Ops /\ call[c].at \in Places /\ call[c].keep \in BOOLEAN
           /\ call[c].todo \subseteq Worktrees /\ call[c].now \in Worktrees \cup {None}
BY DEF Command

\* What a save of the progress changes.
LEMMA Persists ==
    ASSUME removal \in RemovalRecord, NEW q \in Phases, NEW w \in Worktrees \cup {None}, Persist(q, w)
    PROVE  /\ removal' \in RemovalRecord
           /\ removal'.phase = q /\ removal'.pending = w /\ removal'.worktrees = removal.worktrees
BY DEF Persist, RemovalRecord

LEMMA Records ==
    ASSUME removal \in RemovalRecord, NEW keep \in BOOLEAN
    PROVE  Record(keep) \in RemovalRecord /\ Record(keep).phase # "none"
BY DEF Record, RemovalRecord, Phases

-----------------------------------------------------------------------------
(* What a step of a command does to the reservation *)

\* The command ends and releases what it held, is asked for, reserves, or goes on.
Effect(c) ==
    /\ \A d \in Calls : d # c => call'[d] = call[d]
    /\ running' = running /\ \A p \in Starts : start'[p].at = start[p].at
    /\ \/ /\ call'[c].at = "idle"
          /\ reserved' = IF Holds(c) THEN "none" ELSE reserved
       \/ call'[c].at = "asked" /\ reserved' = reserved
       \/ /\ ~Holds(c) /\ Free
          /\ call'[c].at \notin {"idle", "asked"} /\ reserved' = call'[c].op
          /\ call'[c].op # "reopen" => call'[c].at = "inspect"
       \/ /\ Holds(c)
          /\ call'[c].at \notin {"idle", "asked", "inspect"} /\ call'[c].op = call[c].op
          /\ reserved' = reserved
          /\ call[c].at = "inspect" => \A p \in Starts : ~running[p]

\* A step of a command outside the steps of a removal.
CommandStep(c) ==
    \/ Close(c) \/ Reopen(c) \/ Remove(c) \/ Reserve(c) \/ NotReserved(c) \/ Fails(c)
    \/ Inspect(c) \/ WorkIsRunning(c) \/ CloseStep(c)

LEMMA CommandEffect ==
    ASSUME TypeOK, AtSavedPhase, NEW c \in Calls, CommandStep(c)
    PROVE  TypeOK' /\ Effect(c)
<1> USE DEF TypeOK, Effect, Holds, At, saved, files
<1>1. CASE Close(c)
  <2>1. Runs(c, "close") /\ events' = events + 1
    BY <1>1 DEF Close, Counted
  <2> QED
    BY <2>1, Asks DEF Ops
<1>2. CASE Reopen(c)
  <2>1. Runs(c, "reopen") /\ events' = events + 1
    BY <1>2 DEF Reopen, Counted
  <2> QED
    BY <2>1, Asks DEF Ops
<1>3. CASE Remove(c)
  BY <1>3, Asks DEF Remove, Ops
<1>4. CASE Reserve(c)
  BY <1>4, Constants, Moves DEF Reserve, Places, Phases, Ops, Free, Command
<1>5. CASE NotReserved(c)
  BY <1>5, Constants, Moves DEF NotReserved, Places, Phases, Ops, IdleCall
<1>6. CASE Fails(c)
  BY <1>6, Constants, Moves DEF Fails, Places, Phases, Ops, Released, IdleCall, Counted
<1>7. CASE Inspect(c)
  BY <1>7, Constants, Moves DEF Inspect, Places, Phases, Ops
<1>8. CASE WorkIsRunning(c)
  BY <1>8, Constants, Moves DEF WorkIsRunning, Places, Phases, Ops, Released, IdleCall
<1>9. CASE CommitClose(c)
  BY <1>9, Constants, Moves DEF CommitClose, Places, Phases, Ops
<1>10. CASE CommitReopen(c)
  BY <1>10, Constants, Moves DEF CommitReopen, Places, Phases, Ops, Opens, ProcessStart
<1>11. CASE CommitRefused(c)
  BY <1>11, Constants, Moves DEF CommitRefused, Places, Phases, Ops, Released, IdleCall
<1>12. CASE Saved(c)
  BY <1>12, Constants, Moves DEF Saved, Places, Phases, Ops, Released, IdleCall, Views
<1> QED
  BY <1>1, <1>2, <1>3, <1>4, <1>5, <1>6, <1>7, <1>8, <1>9, <1>10, <1>11, <1>12 DEF CommandStep, CloseStep

LEMMA RemovalEffect ==
    ASSUME TypeOK, AtSavedPhase, NEW c \in Calls, RemoveStep(c)
    PROVE  TypeOK' /\ Effect(c)
<1> USE DEF TypeOK, Effect, Holds, At, saved, files
<1>1. CASE Begin(c)
  <2>1. removal' \in RemovalRecord
    BY <1>1, Fields, Records DEF Begin
  <2> QED
    BY <1>1, <2>1, Moves DEF Begin, Places
<1>2. CASE Block(c)
  BY <1>2, Constants, Moves DEF Block, Places, Phases, Ops, Views
<1>3. CASE SessionsReleased(c)
  <2>1. removal.phase \in Places
    BY <1>3 DEF SessionsReleased, AtSavedPhase, AtPhase, RemovalRecord, Places, Phases
  <2>2. removal.phase \notin {"idle", "asked", "inspect"}
    BY DEF RemovalRecord, Phases
  <2> QED
    BY <1>3, <2>1, <2>2, Moves DEF SessionsReleased
<1>4. CASE PendingIsGone(c)
  BY <1>4, Constants, Moves, Persists DEF PendingIsGone, Places, Phases, Ops
<1>5. CASE PendingIsThere(c)
  BY <1>5, Constants, Moves DEF PendingIsThere, Places, Phases, Ops
<1>6. CASE Collect(c)
  BY <1>6, Constants, Moves DEF Collect, Places, Phases, Ops, Command, Candidates, Own
<1>7. CASE CollectFails(c)
  BY <1>7, Constants, Moves DEF CollectFails, Places, Phases, Ops, Released, IdleCall
<1>8. CASE Journal(c)
  <2>1. PICK w \in call[c].todo : /\ Persist("worktrees", w)
                                /\ call' = [call EXCEPT ![c].at = "git", ![c].now = w, ![c].todo = @ \ {w}]
    BY <1>8 DEF Journal
  <2>2. w \in Worktrees
    BY Fields
  <2>3. removal' \in RemovalRecord
    BY <2>1, <2>2, Persists DEF Phases
  <2> QED
    BY <1>8, <2>1, <2>2, <2>3, Takes DEF Journal
<1>9. CASE GitRemoves(c)
  BY <1>9, Constants, Moves DEF GitRemoves, Places, Phases, Ops
<1>10. CASE PathRemoved(c)
  BY <1>10, Constants, Moves DEF PathRemoved, Places, Phases, Ops
<1>11. CASE Removed(c)
  <2>1. removal' \in RemovalRecord
    BY <1>11, Persists DEF Removed, Phases
  <2> QED
    BY <1>11, <2>1, Finishes DEF Removed
<1>12. CASE WorktreesDone(c)
  BY <1>12, Constants, Moves, Persists DEF WorktreesDone, Places, Phases, Ops
<1>13. CASE AttachmentsRemoved(c)
  BY <1>13, Constants, Moves, Persists DEF AttachmentsRemoved, Places, Phases, Ops
<1>14. CASE RemoveRegistration(c)
  BY <1>14, Constants, Moves DEF RemoveRegistration, Places, Phases, Ops, Opens, ProcessStart
<1>15. CASE Forget(c)
  BY <1>15, Constants, Moves DEF Forget, Places, Phases, Ops, Released, IdleCall, Views
<1> QED
  BY <1>1, <1>2, <1>3, <1>4, <1>5, <1>6, <1>7, <1>8, <1>9, <1>10, <1>11, <1>12, <1>13, <1>14, <1>15 DEF RemoveStep

LEMMA EffectQuiet ==
    ASSUME TypeOK, OneHolds, QuietAfterInspect, NEW c \in Calls, Effect(c), TypeOK'
    PROVE  OneHolds' /\ QuietAfterInspect'
<1> USE DEF Effect, Holds, Free
<1>1. Starting' = Starting
  BY DEF Starting
<1>2. reserved = "none" => \A d \in Calls : ~Holds(d)
  BY Fields DEF TypeOK, OneHolds, Ops
<1>3. \A d \in Calls : d # c /\ Holds(d)' => Holds(d) /\ call'[d] = call[d] /\ ~Holds(c) /\ reserved # "none"
  BY <1>2 DEF OneHolds
<1>4. \A d, e \in Calls : Holds(d)' /\ Holds(e)' => d = e
  BY <1>2, <1>3 DEF OneHolds
<1>5. \A d \in Calls : Holds(d)' => reserved' = call'[d].op
  BY <1>2, <1>3 DEF OneHolds
<1>6. \A d \in Calls : Holds(d)' => Starting' = {}
  BY <1>1, <1>3 DEF OneHolds
<1>7. QuietAfterInspect'
  <2> SUFFICES ASSUME NEW d \in Calls, Holds(d)', call'[d].at # "inspect", call'[d].op # "reopen"
               PROVE  Starting' = {} /\ \A p \in Starts : ~running'[p]
    BY DEF QuietAfterInspect
  <2>1. CASE d # c
    BY <2>1, <1>1, <1>3 DEF QuietAfterInspect
  <2>2. CASE d = c
    BY <2>2, <1>6 DEF QuietAfterInspect
  <2> QED
    BY <2>1, <2>2
<1> QED
  BY <1>4, <1>5, <1>6, <1>7 DEF OneHolds

-----------------------------------------------------------------------------
(* Starts *)

\* A start step changes no command and nothing that is saved, and a process starts or works only
\* where one did or where nothing is reserved.
StartEffect(p) ==
    /\ call' = call /\ reserved' = reserved /\ saved' = saved /\ files' = files
    /\ \A q \in Starts : start'[q].at = "starting" => start[q].at = "starting" \/ reserved = "none"
    /\ \A q \in Starts : running'[q] => running[q] \/ start[q].at = "starting"

LEMMA StartSafe ==
    ASSUME TypeOK, ShutIsSeen, NEW p \in Starts, StartStep(p)
    PROVE  TypeOK' /\ ShutIsSeen' /\ StartEffect(p)
<1> USE DEF TypeOK, ShutIsSeen, StartEffect, saved, files, ProcessStart
<1>1. CASE Request(p)
  <2>1. Catalog' = Catalog
    BY <1>1 DEF Request, Catalog
  <2>2. ShutOut \in BOOLEAN
    BY DEF ShutOut
  <2>3. start' = [start EXCEPT ![p] = [at |-> "asked", saw |-> "open", shut |-> ShutOut]]
    BY <1>1 DEF Request
  <2>4. start' \in [Starts -> ProcessStart]
    BY <2>2, <2>3 DEF Views
  <2>5. TypeOK' /\ StartEffect(p)
    BY <1>1, <2>3, <2>4 DEF Request
  <2>6. ShutIsSeen'
    BY <2>1, <2>3 DEF ShutOut
  <2> QED
    BY <2>5, <2>6
<1>2. CASE ReadCatalog(p)
  <2>1. Catalog' = Catalog
    BY <1>2 DEF ReadCatalog, Catalog
  <2> QED
    BY <1>2, <2>1, Constants DEF ReadCatalog
<1>3. CASE Admitted(p)
  <2>1. Catalog' = Catalog
    BY <1>3 DEF Admitted, Catalog
  <2> QED
    BY <1>3, <2>1 DEF Admitted, Refreshed
<1>4. CASE StartRefused(p)
  <2>1. Catalog' = Catalog
    BY <1>4 DEF StartRefused, Catalog
  <2> QED
    BY <1>4, <2>1, Constants DEF StartRefused, Refreshed, IdleStart
<1>5. CASE StartReturns(p)
  <2>1. Catalog' = Catalog
    BY <1>5 DEF StartReturns, Catalog
  <2> QED
    BY <1>5, <2>1, Constants DEF StartReturns, IdleStart
<1>6. CASE WorkEnds(p)
  <2>1. Catalog' = Catalog
    BY <1>6 DEF WorkEnds, Catalog
  <2> QED
    BY <1>6, <2>1 DEF WorkEnds
<1> QED
  BY <1>1, <1>2, <1>3, <1>4, <1>5, <1>6 DEF StartStep

LEMMA StartQuiet ==
    ASSUME TypeOK, OneHolds, QuietAfterInspect, NEW p \in Starts, StartEffect(p)
    PROVE  OneHolds' /\ QuietAfterInspect'
<1>1. \A c \in Calls : Holds(c)' = Holds(c)
  BY DEF StartEffect, Holds
<1>2. \A c \in Calls : Holds(c) => reserved # "none" /\ Starting = {}
  BY Fields DEF OneHolds, TypeOK, Ops
<1>3. \A c \in Calls : Holds(c) => Starting' = {} /\ \A q \in Starts : running'[q] => running[q]
  BY <1>2 DEF StartEffect, Starting
<1> QED
  BY <1>1, <1>3 DEF OneHolds, QuietAfterInspect, StartEffect

LEMMA StartKeepsRemoval ==
    ASSUME AtSavedPhase, Remembered, NothingLeftBehind, NEW p \in Starts, StartEffect(p)
    PROVE  AtSavedPhase' /\ Remembered' /\ NothingLeftBehind'
BY DEF StartEffect, saved, files, AtSavedPhase, AtPhase, Remembered, Findable, Listed,
       NothingLeftBehind, Own

-----------------------------------------------------------------------------
(* The environment *)

LEMMA RestartSafe == Inv /\ Restart => Inv'
<1> SUFFICES ASSUME Inv, Restart PROVE Inv'
  OBVIOUS
<1> USE DEF Inv, TypeOK, Restart, saved, files, Counted
<1>1. \A c \in Calls : call'[c] = IdleCall
  OBVIOUS
<1>2. \A p \in Starts : start'[p] = IdleStart
  OBVIOUS
<1>3. TypeOK'
  BY Constants
<1>4. OneHolds' /\ QuietAfterInspect'
  BY <1>1 DEF OneHolds, QuietAfterInspect, Holds, IdleCall
<1>5. ShutIsSeen'
  BY <1>2 DEF ShutIsSeen, IdleStart
<1>6. AtSavedPhase'
  BY <1>1 DEF AtSavedPhase, AtPhase, InLoop, InGit, IdleCall
<1>7. Remembered' /\ NothingLeftBehind'
  BY <1>1 DEF Remembered, Findable, Listed, InLoop, NothingLeftBehind, IdleCall, Own
<1> QED
  BY <1>3, <1>4, <1>5, <1>6, <1>7 DEF Inv

LEMMA OtherHostSafe == Inv /\ OtherHostEdits => Inv'
<1> SUFFICES ASSUME Inv, OtherHostEdits PROVE Inv'
  OBVIOUS
<1> USE DEF Inv, TypeOK, OtherHostEdits, Opens, files, Counted
<1>1. start' \in [Starts -> ProcessStart] /\ \A p \in Starts : start'[p].at = start[p].at
  <2>1. CASE closed
    <3>1. start' = [p \in Starts |-> [start[p] EXCEPT !.shut = FALSE]]
      BY <2>1
    <3> QED
      BY <3>1 DEF ProcessStart
  <2>2. CASE ~closed
    BY <2>2
  <2> QED
    BY <2>1, <2>2
<1>2. TypeOK'
  BY <1>1
<1>3. Starting' = Starting
  BY <1>1 DEF Starting
<1>4. OneHolds' /\ QuietAfterInspect'
  BY <1>3 DEF OneHolds, QuietAfterInspect, Holds
<1>5. ShutIsSeen'
  <2>1. CASE closed
    BY <2>1 DEF ShutIsSeen, ProcessStart
  <2>2. CASE ~closed
    BY <2>2 DEF ShutIsSeen, Catalog, Usable
  <2> QED
    BY <2>1, <2>2
<1>6. AtSavedPhase' /\ Remembered' /\ NothingLeftBehind'
  BY DEF AtSavedPhase, AtPhase, Remembered, Findable, Listed, NothingLeftBehind, Own
<1> QED
  BY <1>2, <1>4, <1>5, <1>6 DEF Inv

LEMMA ByHandSafe == ASSUME NEW w \in Worktrees PROVE Inv /\ RemoveByHand(w) => Inv'
<1> SUFFICES ASSUME Inv, RemoveByHand(w) PROVE Inv'
  OBVIOUS
<1> USE DEF Inv, TypeOK, RemoveByHand, saved
<1>0. PICK lists \in BOOLEAN : gitKnows' = [gitKnows EXCEPT ![w] = @ /\ lists]
  OBVIOUS
<1>1. /\ checkout' \in [Worktrees -> BOOLEAN] /\ gitKnows' \in [Worktrees -> BOOLEAN]
      /\ \A v \in Worktrees : checkout'[v] => checkout[v] /\ gitKnows'[v] = gitKnows[v]
  BY <1>0
<1>2. TypeOK'
  BY <1>1
<1>3. OneHolds' /\ QuietAfterInspect' /\ ShutIsSeen'
  BY DEF OneHolds, QuietAfterInspect, Holds, Starting, ShutIsSeen, Catalog
<1>4. AtSavedPhase'
  BY DEF AtSavedPhase, AtPhase
<1>5. Remembered' /\ NothingLeftBehind'
  BY <1>1 DEF Remembered, Findable, Listed, NothingLeftBehind, Own
<1> QED
  BY <1>2, <1>3, <1>4, <1>5 DEF Inv

-----------------------------------------------------------------------------
(* Commands *)

\* What is shut stays shut where no start changes and the catalog does not open.
LEMMA StaysShut ==
    ASSUME ShutIsSeen, start' = start, Catalog # "open" => Catalog' # "open"
    PROVE  ShutIsSeen'
BY DEF ShutIsSeen

LEMMA OpensAll ==
    ASSUME start \in [Starts -> ProcessStart], Opens
    PROVE  ShutIsSeen'
<1>1. start' = [p \in Starts |-> [start[p] EXCEPT !.shut = FALSE]]
  BY DEF Opens
<1>2. \A p \in Starts : ~start'[p].shut
  BY <1>1 DEF ProcessStart
<1> QED
  BY <1>2 DEF ShutIsSeen

LEMMA CommandShut ==
    ASSUME TypeOK, ShutIsSeen, NEW c \in Calls, CommandStep(c)
    PROVE  ShutIsSeen'
<1>1. CASE CommitReopen(c)
  BY <1>1, OpensAll DEF CommitReopen, TypeOK
<1>2. CASE CommitClose(c)
  <2>1. Catalog' # "open"
    BY <1>2 DEF CommitClose, Usable, Catalog
  <2> QED
    BY <1>2, <2>1, StaysShut DEF CommitClose
<1>3. CASE ~CommitReopen(c) /\ ~CommitClose(c)
  <2>1. UNCHANGED <<saved, start>>
    BY <1>3 DEF CommandStep, CloseStep, Close, Reopen, Remove, Runs, Reserve, NotReserved, Fails, Inspect,
                WorkIsRunning, CommitRefused, Saved
  <2>2. Catalog' = Catalog
    BY <2>1 DEF saved, Catalog
  <2> QED
    BY <2>1, <2>2, StaysShut
<1> QED
  BY <1>1, <1>2, <1>3

\* A command that is not in a removal's steps leaves the removal as it is.
LEMMA CommandKeepsRemoval ==
    ASSUME TypeOK, AtSavedPhase, Remembered, NothingLeftBehind, NEW c \in Calls, CommandStep(c)
    PROVE  AtSavedPhase' /\ Remembered' /\ NothingLeftBehind'
<1>1. removal' = removal /\ files' = files
  BY DEF CommandStep, CloseStep, Close, Reopen, Remove, Runs, Reserve, NotReserved, Fails, Inspect,
         WorkIsRunning, CommitClose, CommitReopen, CommitRefused, Saved, saved
<1>2. /\ call'[c].at \in {"idle", "asked", "inspect", "commit", "saved"}
      /\ \A d \in Calls : d # c => call'[d] = call[d]
  <2> USE DEF TypeOK
  <2>1. CASE Close(c) \/ Reopen(c) \/ Remove(c)
    BY <2>1, Asks DEF Close, Reopen, Remove, Ops
  <2>2. CASE Reserve(c) \/ Inspect(c) \/ CommitClose(c) \/ CommitReopen(c)
    BY <2>2, Moves DEF Reserve, Inspect, CommitClose, CommitReopen, Places
  <2>3. CASE NotReserved(c) \/ Fails(c) \/ WorkIsRunning(c) \/ CommitRefused(c) \/ Saved(c)
    BY <2>3 DEF NotReserved, Fails, WorkIsRunning, CommitRefused, Saved, Released, IdleCall
  <2> QED
    BY <2>1, <2>2, <2>3 DEF CommandStep, CloseStep
<1>3. AtSavedPhase'
  BY <1>1, <1>2 DEF AtSavedPhase, AtPhase, InLoop, InGit
<1>4. Remembered'
  BY <1>1, <1>2 DEF Remembered, Findable, Listed, InLoop, Own, files
<1> QED
  BY <1>1, <1>3, <1>4 DEF NothingLeftBehind, Own, files

-----------------------------------------------------------------------------
(* The steps of a removal *)

LEMMA RemovalShut ==
    ASSUME TypeOK, ShutIsSeen, NEW c \in Calls, RemoveStep(c)
    PROVE  ShutIsSeen'
<1>1. CASE RemoveRegistration(c)
  BY <1>1, OpensAll DEF RemoveRegistration, TypeOK
<1>2. CASE Begin(c)
  <2>1. removal'.phase # "none" /\ registered' = registered /\ start' = start /\ registered
    BY <1>2, Fields, Records DEF Begin, TypeOK
  <2> QED
    BY <2>1, StaysShut DEF Catalog
<1>3. ASSUME NEW q \in Phases \ {"none"}, NEW w \in Worktrees \cup {None}, Persist(q, w),
             UNCHANGED <<registered, closed, start>>
      PROVE  ShutIsSeen'
  <2>1. removal'.phase # "none"
    BY <1>3, Persists DEF TypeOK
  <2> QED
    BY <1>3, <2>1, StaysShut DEF Catalog
<1>4. CASE PendingIsGone(c) \/ Removed(c)
  BY <1>4, <1>3 DEF PendingIsGone, Removed, Phases
<1>5. CASE Journal(c)
  BY <1>5, <1>3, Fields DEF Journal, Phases, TypeOK
<1>6. CASE WorktreesDone(c) \/ AttachmentsRemoved(c)
  BY <1>6, <1>3 DEF WorktreesDone, AttachmentsRemoved, Phases
<1>7. ASSUME UNCHANGED <<saved, start>>
      PROVE  ShutIsSeen'
  <2>1. Catalog' = Catalog
    BY <1>7 DEF saved, Catalog
  <2> QED
    BY <1>7, <2>1, StaysShut
<1>8. CASE Block(c) \/ SessionsReleased(c) \/ PendingIsThere(c) \/ Collect(c) \/ CollectFails(c)
  BY <1>8, <1>7 DEF Block, SessionsReleased, PendingIsThere, Collect, CollectFails
<1>9. CASE GitRemoves(c) \/ PathRemoved(c) \/ Forget(c)
  BY <1>9, <1>7 DEF GitRemoves, PathRemoved, Forget
<1> QED
  BY <1>1, <1>2, <1>4, <1>5, <1>6, <1>8, <1>9 DEF RemoveStep

\* The other commands do not hold the reservation, so that a step of a removal leaves them where
\* nothing is asked of them.
LEMMA OthersWait ==
    ASSUME OneHolds, NEW c \in Calls, Holds(c), \A d \in Calls : d # c => call'[d] = call[d],
           AtPhase(c)', Listed(c)'
    PROVE  \A d \in Calls : AtPhase(d)' /\ Listed(d)'
<1> SUFFICES ASSUME NEW d \in Calls, d # c PROVE AtPhase(d)' /\ Listed(d)'
  OBVIOUS
<1>1. call'[d].at \in {"idle", "asked"}
  BY DEF OneHolds, Holds
<1> QED
  BY <1>1 DEF AtPhase, Listed, InLoop, InGit

\* What a step of a removal has to keep.
Kept(c) ==
    /\ removal.phase # "worktrees" => removal.pending = None
    /\ AtPhase(c) /\ Listed(c) /\ Findable
    /\ NothingLeftBehind

LEMMA RemovalKept ==
    ASSUME TypeOK, AtSavedPhase, Remembered, NothingLeftBehind, NEW c \in Calls, RemoveStep(c)
    PROVE  Kept(c)'
<1> USE DEF TypeOK, At, saved, files, Kept
<1>a. Own' = Own /\ Own \subseteq Worktrees
  BY DEF Own
<1>b. AtPhase(c) /\ Listed(c) /\ Findable /\ (removal.phase # "worktrees" => removal.pending = None)
  BY DEF AtSavedPhase, Remembered
<1>c. checkout' = checkout /\ gitKnows' = gitKnows /\ removal' = removal => Findable' /\ NothingLeftBehind'
  BY <1>a, <1>b DEF Findable, NothingLeftBehind
<1> USE <1>b DEF AtPhase, Listed, InLoop, InGit
<1>1. CASE Begin(c)
  <2>1. PICK keep \in BOOLEAN : removal' = Record(keep)
    BY <1>1, Fields DEF Begin
  <2>2. call'[c].at = "begun" /\ removal'.phase # "none"
    BY <1>1, <2>1, Moves, Records DEF Begin, Places
  <2>3. Findable' /\ (removal'.phase # "worktrees" => removal'.pending = None)
    BY <1>1, <1>a, <2>1 DEF Begin, Record, Findable
  <2>4. NothingLeftBehind'
    <3>1. CASE removal' = removal
      BY <1>1, <1>a, <3>1 DEF Begin, NothingLeftBehind
    <3>2. CASE removal' # removal /\ keep
      <4>1. removal'.worktrees = FALSE
        BY <2>1, <3>2 DEF Record
      <4> QED
        BY <4>1 DEF NothingLeftBehind
    <3>3. CASE removal' # removal /\ ~keep
      <4>1. removal'.phase = "worktrees"
        BY <2>1, <3>3 DEF Record
      <4> QED
        BY <4>1 DEF NothingLeftBehind
    <3> QED
      BY <3>1, <3>2, <3>3
  <2> QED
    BY <2>2, <2>3, <2>4
<1>2. CASE Block(c)
  BY <1>2, <1>c, Moves DEF Block, Places
<1>3. CASE SessionsReleased(c)
  <2>1. call'[c].at = removal.phase /\ removal.phase \in {"worktrees", "attachments", "task_store"}
    BY <1>3, Moves DEF SessionsReleased, RemovalRecord, Places, Phases
  <2> QED
    BY <1>3, <1>c, <2>1 DEF SessionsReleased
<1>4. CASE PendingIsGone(c)
  <2>1. removal'.phase = "worktrees" /\ removal'.pending = None
    BY <1>4, Persists DEF PendingIsGone, Phases
  <2>2. call'[c].at = "collect"
    BY <1>4, Moves DEF PendingIsGone, Places
  <2>3. Findable'
    BY <1>4, <1>a DEF PendingIsGone, Findable
  <2> QED
    BY <2>1, <2>2, <2>3 DEF NothingLeftBehind
<1>5. CASE PendingIsThere(c)
  BY <1>5, <1>c, Moves DEF PendingIsThere, Places
<1>6. CASE Collect(c)
  <2>1. call'[c].at = "loop" /\ call'[c].todo = Candidates
    BY <1>6 DEF Collect, Command
  <2>2. \A w \in Own : checkout[w] => w \in Candidates /\ gitKnows[w]
    <3>1. \A w \in Own : checkout[w] /\ ~gitKnows[w] => w \in Candidates
      BY DEF Findable, Candidates
    <3>2. \A w \in Own : checkout[w] /\ gitKnows[w] => w \in Candidates
      BY <1>6 DEF Collect, Attributed, Unclassified
    <3> QED
      BY <1>6, <3>1, <3>2 DEF Collect, Attributed
  <2> QED
    BY <1>6, <1>a, <1>c, <2>1, <2>2 DEF Collect
<1>7. CASE CollectFails(c) \/ Forget(c)
  BY <1>7, <1>c DEF CollectFails, Forget, Released, IdleCall
<1>8. CASE Journal(c)
  <2>1. PICK w \in call[c].todo : /\ Persist("worktrees", w)
                                /\ call' = [call EXCEPT ![c].at = "git", ![c].now = w, ![c].todo = @ \ {w}]
    BY <1>8 DEF Journal
  <2>2. w \in Worktrees
    BY Fields
  <2>3. removal'.phase = "worktrees" /\ removal'.pending = w
    BY <2>1, <2>2, Persists DEF Phases
  <2>4. call'[c].at = "git" /\ call'[c].now = w /\ call'[c].todo = call[c].todo \ {w}
    BY <2>1, <2>2, Takes
  <2>5. Findable'
    BY <1>8, <1>a, <2>3 DEF Journal, Findable
  <2>6. Listed(c)'
    BY <1>8, <1>a, <2>4 DEF Journal
  <2> QED
    BY <2>3, <2>4, <2>5, <2>6 DEF NothingLeftBehind
<1>9. CASE GitRemoves(c)
  <2>1. call'[c].at = "path" /\ call'[c].now = call[c].now
    BY <1>9, Moves DEF GitRemoves, Places
  <2>2. /\ \A w \in Worktrees : checkout'[w] => checkout[w]
        /\ \A w \in Worktrees : w # call[c].now => gitKnows'[w] = gitKnows[w]
    BY <1>9 DEF GitRemoves
  <2>3. removal' = removal /\ removal.phase = "worktrees" /\ removal.pending = call[c].now
    BY <1>9 DEF GitRemoves
  <2>4. Findable'
    BY <1>a, <2>2, <2>3 DEF Findable
  <2>5. Listed(c)'
    <3>1. call'[c].todo = call[c].todo
      BY <1>9, Moves DEF GitRemoves, Places
    <3> QED
      BY <1>9, <1>a, <2>1, <2>2, <3>1 DEF GitRemoves
  <2> QED
    BY <2>1, <2>3, <2>4, <2>5 DEF NothingLeftBehind
<1>10. CASE PathRemoved(c)
  <2>1. call'[c].at = "removed" /\ call'[c].now = call[c].now /\ call'[c].todo = call[c].todo
    BY <1>10, Moves DEF PathRemoved, Places
  <2>2. /\ \A w \in Worktrees : checkout'[w] => checkout[w] /\ w # call[c].now
        /\ gitKnows' = gitKnows
    BY <1>10 DEF PathRemoved
  <2>3. removal' = removal /\ removal.phase = "worktrees" /\ removal.pending = call[c].now
    BY <1>10 DEF PathRemoved
  <2>4. Findable'
    BY <1>a, <2>2, <2>3 DEF Findable
  <2>5. Listed(c)'
    BY <1>10, <1>a, <2>1, <2>2 DEF PathRemoved
  <2> QED
    BY <2>1, <2>3, <2>4, <2>5 DEF NothingLeftBehind
<1>11. CASE Removed(c)
  <2>1. removal'.phase = "worktrees" /\ removal'.pending = None
    BY <1>11, Persists DEF Removed, Phases
  <2>2. call'[c].at = "loop" /\ call'[c].todo = call[c].todo
    BY <1>11, Finishes DEF Removed
  <2>3. \A w \in Own : checkout[w] => w \in call[c].todo /\ gitKnows[w]
    BY <1>11 DEF Removed
  <2> QED
    BY <1>11, <1>a, <2>1, <2>2, <2>3 DEF Removed, Findable, NothingLeftBehind
<1>12. CASE WorktreesDone(c)
  <2>1. removal'.phase = "attachments" /\ removal'.pending = None
    BY <1>12, Persists DEF WorktreesDone, Phases
  <2>2. call'[c].at = "attachments"
    BY <1>12, Moves DEF WorktreesDone, Places
  <2>3. \A w \in Own : ~checkout[w]
    BY <1>12 DEF WorktreesDone
  <2> QED
    BY <1>12, <1>a, <2>1, <2>2, <2>3 DEF WorktreesDone, Findable, NothingLeftBehind
<1>13. CASE AttachmentsRemoved(c)
  <2>1. removal'.phase = "task_store" /\ removal'.pending = None /\ removal'.worktrees = removal.worktrees
    BY <1>13, Persists DEF AttachmentsRemoved, Phases
  <2>2. call'[c].at = "task_store"
    BY <1>13, Moves DEF AttachmentsRemoved, Places
  <2>3. removal.phase = "attachments" /\ removal.pending = None
    BY <1>13 DEF AttachmentsRemoved
  <2> QED
    BY <1>13, <1>a, <2>1, <2>2, <2>3 DEF AttachmentsRemoved, Findable, NothingLeftBehind
<1>14. CASE RemoveRegistration(c)
  <2>1. call'[c].at = "gone"
    BY <1>14, Moves DEF RemoveRegistration, Places
  <2>2. removal.pending = None
    BY <1>14 DEF RemoveRegistration
  <2> QED
    BY <1>14, <1>a, <2>1, <2>2 DEF RemoveRegistration, NoRemoval, Findable, NothingLeftBehind
<1> QED
  BY <1>1, <1>2, <1>3, <1>4, <1>5, <1>6, <1>7, <1>8, <1>9, <1>10, <1>11, <1>12, <1>13, <1>14 DEF RemoveStep

-----------------------------------------------------------------------------

LEMMA StepSafe == Inv /\ [Next]_vars => Inv'
<1> SUFFICES ASSUME Inv, [Next]_vars PROVE Inv'
  OBVIOUS
<1> USE DEF Inv
<1>1. CASE UNCHANGED vars
  BY <1>1 DEF vars, saved, files, TypeOK, OneHolds, QuietAfterInspect, Holds, Starting, ShutIsSeen, Catalog,
              AtSavedPhase, AtPhase, Remembered, Findable, Listed, NothingLeftBehind, Own
<1>2. ASSUME NEW p \in Starts, StartStep(p) PROVE Inv'
  BY <1>2, StartSafe, StartQuiet, StartKeepsRemoval
<1>3. ASSUME NEW c \in Calls, CommandStep(c) PROVE Inv'
  BY <1>3, CommandEffect, EffectQuiet, CommandShut, CommandKeepsRemoval
<1>4. ASSUME NEW c \in Calls, RemoveStep(c) PROVE Inv'
  <2>1. TypeOK' /\ Effect(c) /\ Holds(c)
    BY <1>4, RemovalEffect DEF RemoveStep, Begin, Block, SessionsReleased, PendingIsGone, PendingIsThere,
         Collect, CollectFails, Journal, GitRemoves, PathRemoved, Removed, WorktreesDone,
         AttachmentsRemoved, RemoveRegistration, Forget, At, Holds
  <2>2. OneHolds' /\ QuietAfterInspect' /\ ShutIsSeen'
    BY <1>4, <2>1, EffectQuiet, RemovalShut
  <2>3. Kept(c)'
    BY <1>4, RemovalKept
  <2>4. \A d \in Calls : AtPhase(d)' /\ Listed(d)'
    BY <2>1, <2>3, OthersWait DEF Effect, Kept
  <2> QED
    BY <2>1, <2>2, <2>3, <2>4 DEF Kept, AtSavedPhase, Remembered
<1> QED
  BY <1>1, <1>2, <1>3, <1>4, RestartSafe, OtherHostSafe, ByHandSafe DEF Next, Goes, CommandStep

LEMMA InitSafe == Init => Inv
<1> SUFFICES ASSUME Init PROVE Inv
  OBVIOUS
<1>1. TypeOK
  BY InitType
<1>2. OneHolds /\ QuietAfterInspect
  BY DEF Init, OneHolds, QuietAfterInspect, Holds, IdleCall
<1>3. ShutIsSeen
  BY DEF Init, ShutIsSeen, IdleStart
<1>4. AtSavedPhase
  BY DEF Init, AtSavedPhase, AtPhase, InLoop, InGit, NoRemoval, IdleCall
<1>5. Remembered /\ NothingLeftBehind
  BY DEF Init, Remembered, Findable, Listed, NothingLeftBehind, InLoop, NoRemoval, IdleCall, Own
<1> QED
  BY <1>1, <1>2, <1>3, <1>4, <1>5 DEF Inv

\* Inv is an inductive invariant of the specification.
THEOREM Invariant == Spec => []Inv
<1>1. Init => Inv
  BY InitSafe
<1>2. Inv /\ [Next]_vars => Inv'
  BY StepSafe
<1> QED
  BY <1>1, <1>2, PTL DEF Spec

\* The variables keep their types.
THEOREM TypeCorrect == Spec => []TypeOK
<1>1. Inv => TypeOK
  BY DEF Inv
<1> QED
  BY <1>1, Invariant, PTL

\* From its check for running work on, a close or a removal has the host to itself: no process
\* start is admitted and none of their processes is at work.
THEOREM QuietHolds == Spec => []QuietAfterInspect
<1>1. Inv => QuietAfterInspect
  BY DEF Inv
<1> QED
  BY <1>1, Invariant, PTL

\* A start that was asked for after the workspace was closed, by any host, is not admitted.
THEOREM ClosedHolds == Spec => []ClosedStaysQuiet
<1>1. Inv => ClosedStaysQuiet
  BY DEF Inv, ShutIsSeen, ClosedStaysQuiet, Starting
<1> QED
  BY <1>1, Invariant, PTL

\* A removal that is past its worktrees has left none of the workspace's own, whatever failed and
\* however often the host stopped on the way.
THEOREM NothingLeftHolds == Spec => []NothingLeftBehind
<1>1. Inv => NothingLeftBehind
  BY DEF Inv
<1> QED
  BY <1>1, Invariant, PTL

=============================================================================
