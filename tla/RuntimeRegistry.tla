--------------------------- MODULE RuntimeRegistry ---------------------------
(***************************************************************************)
(* The shared runtimes of OpenDucktor (packages/runtime-orchestration).    *)
(* One slot per runtime kind owns at most one runtime process. Lifecycle   *)
(* actions (startup, restart, settings change) reserve kinds, close their  *)
(* admission, drain the admitted controls, and then stop, start or replace *)
(* the runtime. Crash callbacks and host shutdown run at any moment.       *)
(*                                                                         *)
(* A step is one synchronous block of the TypeScript code: the code        *)
(* between two awaits. Runtimes of a kind are numbered by start attempt;   *)
(* 0 stands for null. Messages, timestamps, paths and versions are left    *)
(* out.                                                                    *)
(*                                                                         *)
(* A definition under a comment that begins with FAULT is no part of the   *)
(* model: it is a plausible bug of the definition that follows it, and a   *)
(* property below is known to notice it.                                   *)
(***************************************************************************)
EXTENDS Naturals, FiniteSets

CONSTANTS
    Kinds,      \* the runtime kinds (opencode, codex, claude)
    Ops,        \* concurrent restart and settings-change commands
    Controls,   \* callers of admitted controls
    MaxStarts   \* bound: start attempts per kind

ASSUME ConstantsAssumption ==
    /\ "none" \notin Kinds
    /\ Ops \cap {"none", "startup"} = {}
    /\ MaxStarts \in Nat \ {0}

VARIABLES
    \* The published status of a slot.
    state, failure,
    \* The resources of a slot: the attempt that each field belongs to.
    handle, orphan, generation, starts,
    \* The reservation of a slot and the location of its lifecycle action.
    owner, at, enabled, replacing, target, interrupted,
    \* The admission gate: the open flag and the admitted controls.
    open, control,
    \* The runtime processes and what their drivers reported.
    alive, exited, cleanupFailed,
    \* Host startup: whether it ran, and the detached starts that have not reserved.
    initialized, startup,
    \* stopAll: its location and local state.
    shutdown, awaited, quitDrain, quitLeft, quitKind, quitTarget, quitFailed

statusVars == <<state, failure, open>>
resourceVars == <<handle, orphan, generation, starts>>
actionVars == <<owner, at, enabled, replacing, target, interrupted>>
driverVars == <<alive, exited, cleanupFailed>>
startupVars == <<initialized, startup>>
quitVars == <<shutdown, awaited, quitDrain, quitLeft, quitKind, quitTarget, quitFailed>>
vars == <<statusVars, resourceVars, actionVars, control, driverVars, startupVars, quitVars>>

-----------------------------------------------------------------------------
(* Types *)

Attempts == 0 .. MaxStarts
States == {"disabled", "starting", "ready", "restarting", "stopping", "error"}
Phases == {"none", "configuration", "start", "stop", "run"}

\* Locations inside startHandle while slot.startFiber is set.
Forked == {"running", "acquired"}                 \* the driver still runs
Exited == {"started", "failed", "interrupted"}    \* the fiber ended, not yet awaited
\* Locations inside reservation.apply: slot.applying is set.
ApplyLocations == {"cleaning", "stopping", "begin", "recovering", "aborting",
                   "discarding", "probing"} \cup Forked \cup Exited
Locations == {"free", "draining", "cancelling", "held", "applied"} \cup ApplyLocations
QuitLocations == {"open", "interrupting", "awaiting", "draining",
                  "next", "cleaning", "stopping", "done"}

ControlStates == {"idle", "registered", "calling", "ended"}

FailureRecords == [phase : Phases, cleanup : BOOLEAN]
ControlRecords == [at : ControlStates, kind : Kinds \cup {"none"},
                   runtime : Attempts, cancelled : BOOLEAN]

StatusOK ==
    /\ state \in [Kinds -> States]
    /\ failure \in [Kinds -> FailureRecords]
    /\ open \in [Kinds -> BOOLEAN]

ResourceOK ==
    /\ handle \in [Kinds -> Attempts]
    /\ orphan \in [Kinds -> Attempts]
    /\ generation \in [Kinds -> Attempts]
    /\ starts \in [Kinds -> Attempts]

ActionOK ==
    /\ owner \in [Kinds -> Ops \cup {"none", "startup"}]
    /\ at \in [Kinds -> Locations]
    /\ enabled \in [Kinds -> BOOLEAN]
    /\ replacing \in [Kinds -> BOOLEAN]
    /\ target \in [Kinds -> Attempts]
    /\ interrupted \in [Kinds -> BOOLEAN]

DriverOK ==
    /\ alive \in [Kinds -> SUBSET Attempts]
    /\ exited \in [Kinds -> SUBSET Attempts]
    /\ cleanupFailed \in [Kinds -> SUBSET Attempts]

QuitOK ==
    /\ shutdown \in QuitLocations
    /\ awaited \in SUBSET Kinds
    /\ quitDrain \in [Kinds -> {"draining", "cancelling", "done"}]
    /\ quitLeft \in SUBSET Kinds
    /\ quitKind \in Kinds \cup {"none"}
    /\ quitTarget \in Attempts
    /\ quitFailed \in SUBSET Kinds

TypeOK ==
    /\ StatusOK /\ ResourceOK /\ ActionOK /\ DriverOK /\ QuitOK
    /\ control \in [Controls -> ControlRecords]
    /\ initialized \in BOOLEAN
    /\ startup \in SUBSET Kinds

NoFailure == [phase |-> "none", cleanup |-> FALSE]
Failure(phase) == [phase |-> phase, cleanup |-> FALSE]
NoControl == [at |-> "idle", kind |-> "none", runtime |-> 0, cancelled |-> FALSE]

Init ==
    /\ state = [k \in Kinds |-> "disabled"]
    /\ failure = [k \in Kinds |-> NoFailure]
    /\ handle = [k \in Kinds |-> 0]
    /\ orphan = [k \in Kinds |-> 0]
    /\ generation = [k \in Kinds |-> 0]
    /\ starts = [k \in Kinds |-> 0]
    /\ owner = [k \in Kinds |-> "none"]
    /\ at = [k \in Kinds |-> "free"]
    /\ enabled = [k \in Kinds |-> FALSE]
    /\ replacing = [k \in Kinds |-> FALSE]
    /\ target = [k \in Kinds |-> 0]
    /\ interrupted = [k \in Kinds |-> FALSE]
    /\ open = [k \in Kinds |-> FALSE]
    /\ control = [c \in Controls |-> NoControl]
    /\ alive = [k \in Kinds |-> {}]
    /\ exited = [k \in Kinds |-> {}]
    /\ cleanupFailed = [k \in Kinds |-> {}]
    /\ initialized = FALSE
    /\ startup = {}
    /\ shutdown = "open"
    /\ awaited = {}
    /\ quitDrain = [k \in Kinds |-> "done"]
    /\ quitLeft = {}
    /\ quitKind = "none"
    /\ quitTarget = 0
    /\ quitFailed = {}

-----------------------------------------------------------------------------
(* Helpers *)

ShuttingDown == shutdown # "open"
Reserved(k) == owner[k] # "none"
Applying(k) == at[k] \in ApplyLocations

\* FAULT: admission does not look at shutdown.
AcceptingInShutdown(s, o) == s = "ready" /\ o = "none"

\* registry.accepting: a ready runtime takes work unless an action or shutdown owns it.
Accepting(s, o) == s = "ready" /\ o = "none" /\ ~ShuttingDown

\* The kinds of the reservation that owns k. Each startup reservation holds one kind.
Group(k) == IF owner[k] \in Ops THEN {j \in Kinds : owner[j] = owner[k]} ELSE {k}

\* registry.update: publishes a status change and resynchronises admission.
Update(k, newState, newFailure) ==
    /\ state' = [state EXCEPT ![k] = newState]
    /\ failure' = [failure EXCEPT ![k] = newFailure]
    /\ open' = [open EXCEPT ![k] = Accepting(newState, owner[k])]

\* The controls that the gate entry of k holds.
ControlsOf(k) == {c \in Controls : control[c].at # "idle" /\ control[c].kind = k}

\* FAULT: the controls that remain are awaited without being interrupted.
CancelNoControls(k) == UNCHANGED control

\* gate.cancel: marks and interrupts each control of k.
CancelControls(k) ==
    control' = [c \in Controls |->
        IF c \in ControlsOf(k) THEN [control[c] EXCEPT !.cancelled = TRUE] ELSE control[c]]

\* FAULT: the interrupted controls are not awaited.
ControlsEndedAtOnce(k) == TRUE

\* Fiber.interruptAll returned: every control fiber of k has ended.
ControlsEnded(k) == \A c \in ControlsOf(k) : control[c].at = "ended"

\* The action of k ends: slot.applying resolves, and its local variables go.
EndApply(k) ==
    /\ at' = [at EXCEPT ![k] = "applied"]
    /\ enabled' = [enabled EXCEPT ![k] = FALSE]
    /\ replacing' = [replacing EXCEPT ![k] = FALSE]
    /\ target' = [target EXCEPT ![k] = 0]
    /\ interrupted' = [interrupted EXCEPT ![k] = FALSE]
    /\ UNCHANGED owner

MoveTo(k, location) ==
    /\ at' = [at EXCEPT ![k] = location]
    /\ UNCHANGED <<owner, enabled, replacing, target, interrupted>>

-----------------------------------------------------------------------------
(* Host startup *)

\* orchestrator.initialize with readable settings: forks one detached start per enabled kind. The
\* web host listens before it initializes, so a command or a quit may be earlier.
Initialize(kinds) ==
    /\ ~initialized
    /\ initialized' = TRUE
    /\ startup' = kinds
    /\ UNCHANGED <<statusVars, resourceVars, actionVars, control, driverVars, quitVars>>

\* orchestrator.initialize with unreadable settings: recordConfigurationFailure for each kind.
InitializeFails ==
    /\ ~initialized
    /\ initialized' = TRUE
    /\ state' = [k \in Kinds |-> "error"]
    /\ failure' = [k \in Kinds |-> Failure("configuration")]
    /\ open' = [k \in Kinds |-> Accepting("error", owner[k])]
    /\ UNCHANGED <<resourceVars, actionVars, control, driverVars, startup, quitVars>>

-----------------------------------------------------------------------------
(* Reservation *)

\* registry.reserve, the synchronous step: all kinds or none.
TakeReservation(o, kinds) ==
    /\ ~ShuttingDown
    /\ \A k \in kinds : ~Reserved(k)
    /\ \A k \in kinds : starts[k] < MaxStarts      \* bound
    /\ owner' = [k \in Kinds |-> IF k \in kinds THEN o ELSE owner[k]]
    /\ at' = [k \in Kinds |-> IF k \in kinds THEN "draining" ELSE at[k]]
    /\ open' = [k \in Kinds |-> IF k \in kinds THEN Accepting(state[k], o) ELSE open[k]]
    /\ UNCHANGED <<state, failure, resourceVars, enabled, replacing, target, interrupted,
                   control, driverVars, quitVars>>

Reserve(o, kinds) ==
    /\ \A k \in Kinds : owner[k] # o
    /\ TakeReservation(o, kinds)
    /\ UNCHANGED startupVars

\* startKind: a detached fiber reserves one kind at host startup.
StartKind(k) ==
    /\ k \in startup
    /\ TakeReservation("startup", {k})
    /\ startup' = startup \ {k}
    /\ UNCHANGED initialized

\* startKind found the kind reserved or the host shutting down: it only logs the failure.
StartKindRefused(k) ==
    /\ k \in startup
    /\ ShuttingDown \/ Reserved(k)
    /\ startup' = startup \ {k}
    /\ UNCHANGED <<statusVars, resourceVars, actionVars, control, driverVars, initialized, quitVars>>

\* drainOrCancel of a reservation: the last control left before the grace period ended.
Drained(k) ==
    /\ at[k] = "draining"
    /\ ControlsOf(k) = {}
    /\ MoveTo(k, "held")
    /\ UNCHANGED <<statusVars, resourceVars, control, driverVars, startupVars, quitVars>>

\* The grace period ended: cancel the controls that remain.
GraceExpired(k) ==
    /\ at[k] = "draining"
    /\ MoveTo(k, "cancelling")
    /\ CancelControls(k)
    /\ UNCHANGED <<statusVars, resourceVars, driverVars, startupVars, quitVars>>

CancelDone(k) ==
    /\ at[k] = "cancelling"
    /\ ControlsEnded(k)
    /\ MoveTo(k, "held")
    /\ UNCHANGED <<statusVars, resourceVars, control, driverVars, startupVars, quitVars>>

\* FAULT: the release does not resynchronise admission.
ReleaseKindsWithoutSync(kinds) ==
    /\ owner' = [k \in Kinds |-> IF k \in kinds THEN "none" ELSE owner[k]]
    /\ at' = [k \in Kinds |-> IF k \in kinds THEN "free" ELSE at[k]]
    /\ UNCHANGED <<statusVars, resourceVars, enabled, replacing, target, interrupted,
                   control, driverVars, startupVars, quitVars>>

\* releaseKinds: reopens admission for ready kinds and ends the reservation.
ReleaseKinds(kinds) ==
    /\ owner' = [k \in Kinds |-> IF k \in kinds THEN "none" ELSE owner[k]]
    /\ at' = [k \in Kinds |-> IF k \in kinds THEN "free" ELSE at[k]]
    /\ open' = [k \in Kinds |-> IF k \in kinds THEN Accepting(state[k], "none") ELSE open[k]]
    /\ UNCHANGED <<state, failure, resourceVars, enabled, replacing, target, interrupted,
                   control, driverVars, startupVars, quitVars>>

\* The action ended, or ended before it applied anything (its review was rejected).
Release(k) ==
    /\ \/ \A j \in Group(k) : at[j] = "applied"
       \/ owner[k] \in Ops /\ \A j \in Group(k) : at[j] = "held"
    /\ ReleaseKinds(Group(k))

\* The command that reserves is interrupted while it drains.
ReserveInterrupted(o) ==
    LET kinds == {k \in Kinds : owner[k] = o} IN
    /\ \E k \in kinds : at[k] = "draining"
    /\ \A k \in kinds : at[k] \in {"draining", "held"}
    /\ ReleaseKinds(kinds)

-----------------------------------------------------------------------------
(* reservation.apply: applyRequest and stopHandle *)

Progress(e) == IF e THEN "restarting" ELSE "stopping"

\* applyRequest after stopHandle returned true: a disabled kind is done, an enabled one starts.
Stopped(k, e) ==
    IF e THEN /\ at' = [at EXCEPT ![k] = "begin"]
              /\ target' = [target EXCEPT ![k] = 0]
              /\ UNCHANGED <<statusVars, owner, replacing, interrupted>>
              /\ enabled' = [enabled EXCEPT ![k] = e]
         ELSE Update(k, "disabled", NoFailure) /\ EndApply(k)

\* stopHandle after the orphan step: stop the handle, or return true at once.
StopOwnHandle(k, e, hadHandle) ==
    IF handle[k] = 0
    THEN Stopped(k, e)
    ELSE /\ Update(k, Progress(e), failure[k])
         /\ at' = [at EXCEPT ![k] = "stopping"]
         /\ target' = [target EXCEPT ![k] = handle[k]]
         /\ enabled' = [enabled EXCEPT ![k] = e]
         /\ replacing' = [replacing EXCEPT ![k] = hadHandle]
         /\ UNCHANGED <<owner, interrupted>>

\* FAULT: a partly started runtime is not cleaned up first.
BeginApplyOverOrphan(k, e) ==
    /\ at[k] = "held"
    /\ \A j \in Group(k) : at[j] \notin {"draining", "cancelling"}
    /\ owner[k] = "startup" => e
    /\ StopOwnHandle(k, e, TRUE)
    /\ UNCHANGED <<resourceVars, control, driverVars, startupVars, quitVars>>

\* The action starts. A partly started runtime is cleaned up before anything else.
BeginApply(k, e) ==
    /\ at[k] = "held"
    /\ \A j \in Group(k) : at[j] \notin {"draining", "cancelling"}
    /\ owner[k] = "startup" => e
    /\ IF orphan[k] # 0
       THEN /\ Update(k, Progress(e), failure[k])
            /\ at' = [at EXCEPT ![k] = "cleaning"]
            /\ target' = [target EXCEPT ![k] = orphan[k]]
            /\ enabled' = [enabled EXCEPT ![k] = e]
            /\ replacing' = [replacing EXCEPT ![k] = handle[k] # 0]
            /\ UNCHANGED <<owner, interrupted>>
       ELSE StopOwnHandle(k, e, TRUE)
    /\ UNCHANGED <<resourceVars, control, driverVars, startupVars, quitVars>>

\* The orphan cleanup succeeded.
Cleaned(k) ==
    /\ at[k] = "cleaning"
    /\ alive' = [alive EXCEPT ![k] = @ \ {target[k]}]
    /\ orphan' = [orphan EXCEPT ![k] = 0]
    /\ StopOwnHandle(k, enabled[k], replacing[k])
    /\ UNCHANGED <<handle, generation, starts, control, exited, cleanupFailed,
                   startupVars, quitVars>>

\* The orphan cleanup failed, or handle.stop failed: the slot keeps what it owns.
StopFailed(k) ==
    /\ at[k] \in {"cleaning", "stopping"}
    /\ Update(k, "error", Failure("stop"))
    /\ EndApply(k)
    /\ UNCHANGED <<resourceVars, control, driverVars, startupVars, quitVars>>

\* handle.stop succeeded.
HandleStopped(k) ==
    /\ at[k] = "stopping"
    /\ alive' = [alive EXCEPT ![k] = @ \ {target[k]}]
    /\ handle' = [handle EXCEPT ![k] = 0]
    /\ generation' = [generation EXCEPT ![k] = 0]
    /\ Stopped(k, enabled[k])
    /\ UNCHANGED <<orphan, starts, control, exited, cleanupFailed, startupVars, quitVars>>

-----------------------------------------------------------------------------
(* startHandle *)

\* Shutdown began before the start registered.
StartRefused(k) ==
    /\ at[k] = "begin"
    /\ ShuttingDown
    /\ Update(k, "disabled", NoFailure)
    /\ EndApply(k)
    /\ UNCHANGED <<resourceVars, control, driverVars, startupVars, quitVars>>

\* FAULT: shutdown is not checked in the step that registers the start.
StartRegisteredUnchecked(k) ==
    /\ at[k] = "begin"
    /\ starts' = [starts EXCEPT ![k] = @ + 1]
    /\ generation' = [generation EXCEPT ![k] = starts[k] + 1]
    /\ Update(k, IF replacing[k] THEN "restarting" ELSE "starting", NoFailure)
    /\ MoveTo(k, "running")
    /\ UNCHANGED <<handle, orphan, control, driverVars, startupVars, quitVars>>

\* Check shutdown, create the generation, fork the driver and register its fiber: one step.
StartRegistered(k) ==
    /\ at[k] = "begin"
    /\ ~ShuttingDown
    /\ starts' = [starts EXCEPT ![k] = @ + 1]
    /\ generation' = [generation EXCEPT ![k] = starts[k] + 1]
    /\ Update(k, IF replacing[k] THEN "restarting" ELSE "starting", NoFailure)
    /\ MoveTo(k, "running")
    /\ UNCHANGED <<handle, orphan, control, driverVars, startupVars, quitVars>>

\* The driver spawns its process and hands over the cleanup (ownCleanup).
DriverAcquires(k) ==
    /\ at[k] = "running"
    /\ alive' = [alive EXCEPT ![k] = @ \cup {starts[k]}]
    /\ orphan' = [orphan EXCEPT ![k] = IF generation[k] = starts[k] THEN starts[k] ELSE @]
    /\ MoveTo(k, "acquired")
    /\ UNCHANGED <<statusVars, handle, generation, starts, control, exited, cleanupFailed,
                   startupVars, quitVars>>

\* The driver returns its handle. The tap records it also when an interrupt is pending; the
\* fiber may then still end as interrupted.
DriverReturns(k, exit) ==
    /\ at[k] = "acquired"
    /\ exit = "started" \/ (exit = "interrupted" /\ interrupted[k])
    /\ orphan' = [orphan EXCEPT ![k] = 0]
    /\ handle' = [handle EXCEPT ![k] = starts[k]]
    /\ MoveTo(k, exit)
    /\ UNCHANGED <<statusVars, generation, starts, control, driverVars, startupVars, quitVars>>

DriverFails(k) ==
    /\ at[k] \in Forked
    /\ MoveTo(k, "failed")
    /\ UNCHANGED <<statusVars, resourceVars, control, driverVars, startupVars, quitVars>>

\* Shutdown's interrupt ends the driver.
DriverInterrupted(k) ==
    /\ at[k] \in Forked
    /\ interrupted[k]
    /\ MoveTo(k, "interrupted")
    /\ UNCHANGED <<statusVars, resourceVars, control, driverVars, startupVars, quitVars>>

\* The exit was a failure: the generation ends, and an owned orphan is cleaned up.
StartFailed(k) ==
    /\ at[k] \in {"failed", "interrupted"}
    /\ generation' = [generation EXCEPT ![k] = 0]
    /\ IF orphan[k] # 0
       THEN /\ at' = [at EXCEPT ![k] = IF at[k] = "failed" THEN "recovering" ELSE "aborting"]
            /\ target' = [target EXCEPT ![k] = orphan[k]]
            /\ UNCHANGED <<statusVars, owner, enabled, replacing, interrupted>>
       ELSE /\ IF at[k] = "failed" THEN Update(k, "error", Failure("start"))
                                   ELSE Update(k, "disabled", NoFailure)
            /\ EndApply(k)
    /\ UNCHANGED <<handle, orphan, starts, control, driverVars, startupVars, quitVars>>

\* The cleanup of the failed or interrupted start succeeded.
StartCleaned(k) ==
    /\ at[k] \in {"recovering", "aborting"}
    /\ alive' = [alive EXCEPT ![k] = @ \ {target[k]}]
    /\ orphan' = [orphan EXCEPT ![k] = 0]
    /\ IF at[k] = "aborting" THEN Update(k, "disabled", NoFailure)
                             ELSE Update(k, "error", Failure("start"))
    /\ EndApply(k)
    /\ UNCHANGED <<handle, generation, starts, control, exited, cleanupFailed,
                   startupVars, quitVars>>

\* FAULT: the slot forgets the orphan before its cleanup succeeded.
StartCleanupFailedForgetful(k) ==
    /\ at[k] \in {"recovering", "aborting"}
    /\ orphan' = [orphan EXCEPT ![k] = 0]
    /\ Update(k, "error", Failure("start"))
    /\ EndApply(k)
    /\ UNCHANGED <<handle, generation, starts, control, driverVars, startupVars, quitVars>>

\* That cleanup failed: the slot keeps the orphan for the next action or shutdown.
StartCleanupFailed(k) ==
    /\ at[k] \in {"recovering", "aborting"}
    /\ Update(k, "error", Failure("start"))
    /\ EndApply(k)
    /\ UNCHANGED <<resourceVars, control, driverVars, startupVars, quitVars>>

\* The handle has a valid summary: read the version.
ProbeVersion(k) ==
    /\ at[k] = "started"
    /\ MoveTo(k, "probing")
    /\ UNCHANGED <<statusVars, resourceVars, control, driverVars, startupVars, quitVars>>

\* The handle has an invalid summary: stop it (it just replaced the orphan in the slot).
InvalidSummary(k) ==
    /\ at[k] = "started"
    /\ Update(k, "stopping", failure[k])
    /\ at' = [at EXCEPT ![k] = "discarding"]
    /\ target' = [target EXCEPT ![k] = handle[k]]
    /\ UNCHANGED <<resourceVars, owner, enabled, replacing, interrupted, control, driverVars,
                   startupVars, quitVars>>

Discarded(k) ==
    /\ at[k] = "discarding"
    /\ alive' = [alive EXCEPT ![k] = @ \ {target[k]}]
    /\ handle' = [handle EXCEPT ![k] = 0]
    /\ generation' = [generation EXCEPT ![k] = 0]
    /\ Update(k, "error", Failure("start"))
    /\ EndApply(k)
    /\ UNCHANGED <<orphan, starts, control, exited, cleanupFailed, startupVars, quitVars>>

DiscardFailed(k) ==
    /\ at[k] = "discarding"
    /\ Update(k, "error", Failure("start"))
    /\ EndApply(k)
    /\ UNCHANGED <<resourceVars, control, driverVars, startupVars, quitVars>>

\* The error of an exit, with the cleanup failure reported so far.
ExitFailure(k, g) == [phase |-> "run", cleanup |-> g \in cleanupFailed[k]]

\* FAULT: an exit that arrived during the start is not replayed.
BecomeReadyWithoutReplay(k) ==
    /\ at[k] = "probing"
    /\ IF handle[k] # starts[k] \/ ShuttingDown THEN UNCHANGED statusVars
                                               ELSE Update(k, "ready", NoFailure)
    /\ EndApply(k)
    /\ UNCHANGED <<resourceVars, control, driverVars, startupVars, quitVars>>

\* The version arrived. After shutdown began the runtime stays as it is; otherwise it becomes
\* ready, and an exit that arrived earlier is replayed.
BecomeReady(k) ==
    /\ at[k] = "probing"
    /\ IF handle[k] # starts[k] \/ ShuttingDown
       THEN UNCHANGED statusVars
       ELSE IF starts[k] \in exited[k] /\ generation[k] = starts[k]
            THEN Update(k, "error", ExitFailure(k, starts[k]))
            ELSE Update(k, "ready", NoFailure)
    /\ EndApply(k)
    /\ UNCHANGED <<resourceVars, control, driverVars, startupVars, quitVars>>

-----------------------------------------------------------------------------
(* Processes and driver callbacks, at any moment *)

\* A runtime process dies on its own.
Crash(k, g) ==
    /\ g \in alive[k]
    /\ alive' = [alive EXCEPT ![k] = @ \ {g}]
    /\ UNCHANGED <<statusVars, resourceVars, actionVars, control, exited, cleanupFailed,
                   startupVars, quitVars>>

\* onRuntimeExit of attempt g: a process exit or a fatal transport failure, possibly late.
ReportExit(k, g) ==
    /\ g \in (1 .. starts[k]) \ exited[k]
    /\ g = starts[k] => at[k] # "running"
    /\ exited' = [exited EXCEPT ![k] = @ \cup {g}]
    /\ IF generation[k] = g /\ state[k] = "ready"
       THEN Update(k, "error", ExitFailure(k, g))
       ELSE UNCHANGED statusVars
    /\ UNCHANGED <<resourceVars, actionVars, control, alive, cleanupFailed, startupVars, quitVars>>

\* onRuntimeCleanupFailed of attempt g. The drivers call it only after they reported the exit
\* (opencode-runtime-starter.ts 73, codex-runtime-starter.ts 190-199).
ReportCleanupFailure(k, g) ==
    /\ g \in exited[k] \ cleanupFailed[k]
    /\ cleanupFailed' = [cleanupFailed EXCEPT ![k] = @ \cup {g}]
    /\ IF generation[k] = g /\ failure[k].phase = "run"
       THEN Update(k, state[k], [failure[k] EXCEPT !.cleanup = TRUE])
       ELSE UNCHANGED statusVars
    /\ UNCHANGED <<resourceVars, actionVars, control, alive, exited, startupVars, quitVars>>

-----------------------------------------------------------------------------
(* Admitted controls (runtime-admission-gate) *)

\* gate.admit: check the gate and register the control in one step.
Admit(c, k) ==
    /\ control[c].at = "idle"
    /\ open[k]
    /\ control' = [control EXCEPT ![c] = [at |-> "registered", kind |-> k, runtime |-> 0,
                                          cancelled |-> FALSE]]
    /\ UNCHANGED <<statusVars, resourceVars, actionVars, driverVars, startupVars, quitVars>>

\* requireReady inside the control: use the ready runtime, or fail.
RequireReady(c) ==
    LET k == control[c].kind IN
    /\ control[c].at = "registered"
    /\ control' = [control EXCEPT ![c] =
          IF Accepting(state[k], owner[k]) /\ handle[k] # 0
          THEN [@ EXCEPT !.at = "calling", !.runtime = handle[k]]
          ELSE [@ EXCEPT !.at = "ended"]]
    /\ UNCHANGED <<statusVars, resourceVars, actionVars, driverVars, startupVars, quitVars>>

\* The control ends: its driver call answered or failed, or its fiber was interrupted.
ControlEnds(c) ==
    /\ control[c].at \in {"registered", "calling"}
    /\ control' = [control EXCEPT ![c].at = "ended"]
    /\ UNCHANGED <<statusVars, resourceVars, actionVars, driverVars, startupVars, quitVars>>

\* gate.leave: the caller saw the end of its control.
Leave(c) ==
    /\ control[c].at = "ended"
    /\ control' = [control EXCEPT ![c] = NoControl]
    /\ UNCHANGED <<statusVars, resourceVars, actionVars, driverVars, startupVars, quitVars>>

-----------------------------------------------------------------------------
(* registry.stopAll *)

\* FAULT: shutdown does not interrupt the registered starts.
StopAllWithoutInterrupt ==
    /\ shutdown \in {"open", "done"}
    /\ shutdown' = "interrupting"
    /\ open' = [k \in Kinds |-> FALSE]
    /\ quitFailed' = {}
    /\ UNCHANGED <<state, failure, resourceVars, actionVars, control, driverVars, startupVars,
                   awaited, quitDrain, quitLeft, quitKind, quitTarget>>

\* Shutdown begins (or is tried again): close admission, interrupt the registered starts.
StopAll ==
    /\ shutdown \in {"open", "done"}
    /\ shutdown' = "interrupting"
    /\ open' = [k \in Kinds |-> FALSE]
    /\ interrupted' = [k \in Kinds |-> interrupted[k] \/ at[k] \in Forked]
    /\ quitFailed' = {}
    /\ UNCHANGED <<state, failure, resourceVars, owner, at, enabled, replacing, target, control,
                   driverVars, startupVars, awaited, quitDrain, quitLeft, quitKind, quitTarget>>

\* Fiber.interruptAll returned. Collect the lifecycle actions that still run.
StartsInterrupted ==
    /\ shutdown = "interrupting"
    /\ \A k \in Kinds : at[k] \in Forked => ~interrupted[k]
    /\ shutdown' = "awaiting"
    /\ awaited' = {k \in Kinds : Applying(k)}
    /\ UNCHANGED <<statusVars, resourceVars, actionVars, control, driverVars, startupVars,
                   quitDrain, quitLeft, quitKind, quitTarget, quitFailed>>

\* The collected actions ended. Drain the controls of every kind.
ActionsAwaited ==
    /\ shutdown = "awaiting"
    /\ \A k \in awaited : ~Applying(k)
    /\ shutdown' = "draining"
    /\ awaited' = {}
    /\ quitDrain' = [k \in Kinds |-> "draining"]
    /\ UNCHANGED <<statusVars, resourceVars, actionVars, control, driverVars, startupVars,
                   quitLeft, quitKind, quitTarget, quitFailed>>

QuitDrained(k) ==
    /\ quitDrain[k] = "draining"
    /\ ControlsOf(k) = {}
    /\ quitDrain' = [quitDrain EXCEPT ![k] = "done"]
    /\ UNCHANGED <<statusVars, resourceVars, actionVars, control, driverVars, startupVars,
                   shutdown, awaited, quitLeft, quitKind, quitTarget, quitFailed>>

QuitGraceExpired(k) ==
    /\ quitDrain[k] = "draining"
    /\ CancelControls(k)
    /\ quitDrain' = [quitDrain EXCEPT ![k] = "cancelling"]
    /\ UNCHANGED <<statusVars, resourceVars, actionVars, driverVars, startupVars,
                   shutdown, awaited, quitLeft, quitKind, quitTarget, quitFailed>>

QuitCancelDone(k) ==
    /\ quitDrain[k] = "cancelling"
    /\ ControlsEnded(k)
    /\ quitDrain' = [quitDrain EXCEPT ![k] = "done"]
    /\ UNCHANGED <<statusVars, resourceVars, actionVars, control, driverVars, startupVars,
                   shutdown, awaited, quitLeft, quitKind, quitTarget, quitFailed>>

\* Every kind drained: the stop loop begins.
StopLoop ==
    /\ shutdown = "draining"
    /\ \A k \in Kinds : quitDrain[k] = "done"
    /\ shutdown' = "next"
    /\ quitLeft' = Kinds
    /\ UNCHANGED <<statusVars, resourceVars, actionVars, control, driverVars, startupVars,
                   awaited, quitDrain, quitKind, quitTarget, quitFailed>>

\* The next kind owns nothing.
QuitSkips(k) ==
    /\ shutdown = "next" /\ k \in quitLeft
    /\ handle[k] = 0 /\ orphan[k] = 0
    /\ quitLeft' = quitLeft \ {k}
    /\ UNCHANGED <<statusVars, resourceVars, actionVars, control, driverVars, startupVars,
                   shutdown, awaited, quitDrain, quitKind, quitTarget, quitFailed>>

\* The next kind owns a resource: stopHandle(slot, shutdown, "stopping").
QuitStops(k) ==
    /\ shutdown = "next" /\ k \in quitLeft
    /\ handle[k] # 0 \/ orphan[k] # 0
    /\ quitLeft' = quitLeft \ {k}
    /\ quitKind' = k
    /\ Update(k, "stopping", failure[k])
    /\ IF orphan[k] # 0 THEN shutdown' = "cleaning" /\ quitTarget' = orphan[k]
                        ELSE shutdown' = "stopping" /\ quitTarget' = handle[k]
    /\ UNCHANGED <<resourceVars, actionVars, control, driverVars, startupVars,
                   awaited, quitDrain, quitFailed>>

\* The loop takes the next kind.
QuitNext ==
    /\ shutdown' = "next"
    /\ quitKind' = "none"
    /\ quitTarget' = 0
    /\ UNCHANGED <<awaited, quitDrain, quitLeft>>

\* The orphan cleanup succeeded; the handle, if any, is stopped next.
QuitCleaned(k) ==
    /\ shutdown = "cleaning" /\ k = quitKind
    /\ alive' = [alive EXCEPT ![k] = @ \ {quitTarget}]
    /\ orphan' = [orphan EXCEPT ![k] = 0]
    /\ IF handle[k] = 0
       THEN Update(k, "disabled", NoFailure) /\ QuitNext
       ELSE /\ Update(k, "stopping", failure[k])
            /\ shutdown' = "stopping"
            /\ quitTarget' = handle[k]
            /\ UNCHANGED <<awaited, quitDrain, quitLeft, quitKind>>
    /\ UNCHANGED <<handle, generation, starts, actionVars, control, exited, cleanupFailed,
                   startupVars, quitFailed>>

QuitStopped(k) ==
    /\ shutdown = "stopping" /\ k = quitKind
    /\ alive' = [alive EXCEPT ![k] = @ \ {quitTarget}]
    /\ handle' = [handle EXCEPT ![k] = 0]
    /\ generation' = [generation EXCEPT ![k] = 0]
    /\ Update(k, "disabled", NoFailure)
    /\ QuitNext
    /\ UNCHANGED <<orphan, starts, actionVars, control, exited, cleanupFailed, startupVars,
                   quitFailed>>

\* FAULT: the first failure ends the loop.
QuitStopFailedEndsLoop(k) ==
    /\ shutdown \in {"cleaning", "stopping"} /\ k = quitKind
    /\ Update(k, "error", Failure("stop"))
    /\ quitFailed' = quitFailed \cup {k}
    /\ shutdown' = "next"
    /\ quitKind' = "none" /\ quitTarget' = 0 /\ quitLeft' = {}
    /\ UNCHANGED <<resourceVars, actionVars, control, driverVars, startupVars, awaited, quitDrain>>

\* A cleanup or stop failed: shutdown records it and goes on with the next kind.
QuitStopFailed(k) ==
    /\ shutdown \in {"cleaning", "stopping"} /\ k = quitKind
    /\ Update(k, "error", Failure("stop"))
    /\ quitFailed' = quitFailed \cup {k}
    /\ QuitNext
    /\ UNCHANGED <<resourceVars, actionVars, control, driverVars, startupVars>>

\* stopAll returns, or fails with the recorded failures.
StopAllReturns ==
    /\ shutdown = "next"
    /\ quitLeft = {}
    /\ shutdown' = "done"
    /\ UNCHANGED <<statusVars, resourceVars, actionVars, control, driverVars, startupVars,
                   awaited, quitDrain, quitLeft, quitKind, quitTarget, quitFailed>>

-----------------------------------------------------------------------------
(* Specification *)

ReservationStep(k) ==
    \/ Drained(k) \/ GraceExpired(k) \/ CancelDone(k) \/ Release(k)

StopStep(k) ==
    \/ Cleaned(k) \/ StopFailed(k) \/ HandleStopped(k)

StartStep(k) ==
    \/ StartRefused(k) \/ StartRegistered(k)
    \/ StartFailed(k) \/ StartCleaned(k) \/ StartCleanupFailed(k)
    \/ ProbeVersion(k) \/ InvalidSummary(k) \/ Discarded(k) \/ DiscardFailed(k)
    \/ BecomeReady(k)

DriverStep(k) ==
    \/ DriverAcquires(k) \/ DriverFails(k) \/ DriverInterrupted(k)
    \/ \E exit \in {"started", "interrupted"} : DriverReturns(k, exit)
    \/ \E g \in Attempts : Crash(k, g) \/ ReportExit(k, g) \/ ReportCleanupFailure(k, g)

ControlStep(c) ==
    \/ \E k \in Kinds : Admit(c, k)
    \/ RequireReady(c) \/ ControlEnds(c) \/ Leave(c)

QuitKindStep(k) ==
    \/ QuitDrained(k) \/ QuitGraceExpired(k) \/ QuitCancelDone(k)
    \/ QuitSkips(k) \/ QuitStops(k) \/ QuitCleaned(k) \/ QuitStopped(k) \/ QuitStopFailed(k)

QuitStep == StartsInterrupted \/ ActionsAwaited \/ StopLoop \/ StopAllReturns

StartupStep ==
    \/ \E kinds \in SUBSET Kinds : Initialize(kinds)
    \/ InitializeFails
    \/ \E k \in Kinds : StartKind(k) \/ StartKindRefused(k)

Next ==
    \/ StartupStep
    \/ \E o \in Ops :
          \/ \E kinds \in SUBSET Kinds \ {{}} : Reserve(o, kinds)
          \/ ReserveInterrupted(o)
    \/ \E k \in Kinds :
          \/ ReservationStep(k)
          \/ \E e \in BOOLEAN : BeginApply(k, e)
          \/ StopStep(k) \/ StartStep(k) \/ DriverStep(k)
          \/ QuitKindStep(k)
    \/ \E c \in Controls : ControlStep(c)
    \/ StopAll
    \/ QuitStep

Spec == Init /\ [][Next]_vars

-----------------------------------------------------------------------------
(* Properties *)

\* The orchestrator "runs at most one runtime of each kind for every workspace"
\* (runtime-orchestrator.ts:127): two processes of one kind never live together, whatever
\* failed to stop, start or clean up before.
OneRuntimePerKind == \A k \in Kinds : Cardinality(alive[k]) <= 1

\* No process is lost: a live process is always the slot's handle or its owned orphan, so the
\* next action or shutdown finds it, through failed starts, interrupts and failed cleanups.
NoLostRuntime == \A k \in Kinds : alive[k] \subseteq {handle[k], orphan[k]}

\* Why a process is never lost (the inductive form of the two properties above): the slot's
\* fields only name the latest attempt, a start begins from an empty slot, a stop or a cleanup
\* works on what the slot still names, and shutdown leaves no driver running.
OwnershipOf(k) ==
    /\ {handle[k], orphan[k]} \subseteq {0, starts[k]}
    /\ alive[k] \subseteq {handle[k], orphan[k]} \ {0}
    /\ at[k] \in {"begin", "running"} => handle[k] = 0 /\ orphan[k] = 0
    /\ at[k] = "running" => generation[k] = starts[k] /\ starts[k] # 0
    /\ at[k] = "stopping" => orphan[k] = 0
    /\ at[k] \in {"cleaning", "recovering", "aborting"} => orphan[k] \in {0, target[k]}
    /\ at[k] \in {"stopping", "discarding"} => handle[k] \in {0, target[k]}
    /\ ShuttingDown /\ at[k] \in Forked => interrupted[k]
    /\ shutdown \notin {"open", "interrupting"} => at[k] \notin Forked
    /\ shutdown = "cleaning" /\ quitKind = k => orphan[k] \in {0, quitTarget}
    /\ shutdown = "stopping" /\ quitKind = k => handle[k] \in {0, quitTarget}

Ownership == \A k \in Kinds : OwnershipOf(k)

\* The gate admits controls exactly while the kind is ready, unreserved and the host is not
\* shutting down (registry.accepting), after every status change, reserve, release and stopAll.
GateMatchesStatus == \A k \in Kinds : open[k] = Accepting(state[k], owner[k])

\* A step that stops or cleans up a runtime of k runs.
Stopping(k) ==
    \/ at[k] \in {"cleaning", "stopping", "discarding"}
    \/ shutdown \in {"cleaning", "stopping"} /\ quitKind = k

\* No runtime is stopped under an admitted control: the drain or the cancel of the reservation
\* and of shutdown let every control fiber end first.
NoStopUnderControl ==
    \A k \in Kinds : Stopping(k) =>
        \A c \in Controls : control[c].kind = k => control[c].at \in {"idle", "ended"}

\* The callbacks of a runtime only speak of the runtime that the slot has, in whichever order and
\* however late they come: a runtime whose exit was reported, before or after it became ready, is
\* never shown as ready, and a crash error of a slot that still has a generation is about that
\* generation and names a failed cleanup exactly when one was reported.
CallbacksAreCurrent ==
    \A k \in Kinds :
        /\ state[k] = "ready" =>
            /\ handle[k] # 0 /\ generation[k] = handle[k]
            /\ generation[k] \notin exited[k]
        /\ failure[k].phase = "run" /\ generation[k] # 0 =>
            /\ generation[k] \in exited[k]
            /\ failure[k].cleanup = (generation[k] \in cleanupFailed[k])

\* When stopAll ends, every kind whose failure it does not report owns nothing and runs nothing,
\* whatever starts, restarts and failed cleanups were in progress and whichever other kind
\* could not be stopped.
ShutdownStopsEveryKind ==
    shutdown = "done" =>
        \A k \in Kinds \ quitFailed :
            alive[k] = {} /\ handle[k] = 0 /\ orphan[k] = 0 /\ at[k] \notin Forked \cup Exited

\* "A runtime cannot start or become ready after shutdown began" (runtime-slot-lifecycle.ts:152).
NothingStartsAfterShutdown ==
    [][ShuttingDown => /\ starts' = starts
                       /\ \A k \in Kinds : state'[k] = "ready" => state[k] = "ready"]_vars

-----------------------------------------------------------------------------
(* Liveness *)

\* The scheduler runs every fiber that can go on. A control, a driver start, a command that
\* holds a reservation and a crash are not fair, but a cancelled control and an interrupted
\* start end, and the driver's stop, cleanup and version read return.
Fairness ==
    /\ WF_vars(QuitStep)
    /\ \A k \in Kinds :
          /\ WF_vars(Drained(k) \/ GraceExpired(k)) /\ WF_vars(CancelDone(k))
          /\ WF_vars(StopStep(k)) /\ WF_vars(StartStep(k))
          /\ WF_vars(DriverInterrupted(k))
          /\ WF_vars(QuitDrained(k) \/ QuitGraceExpired(k)) /\ WF_vars(QuitCancelDone(k))
          /\ WF_vars(QuitSkips(k) \/ QuitStops(k))
          /\ WF_vars(QuitCleaned(k) \/ QuitStopped(k) \/ QuitStopFailed(k))
    /\ \A c \in Controls :
          /\ WF_vars(Leave(c))
          /\ WF_vars(control[c].cancelled /\ ControlEnds(c))

FairSpec == Spec /\ Fairness

\* Quit ends: a stuck control, a driver start that never returns or a reservation that is never
\* released cannot block stopAll.
ShutdownEnds == shutdown = "interrupting" ~> shutdown = "done"

\* A stuck control cannot block a restart or a settings change: its reservation drains.
ReservationDrains ==
    \A k \in Kinds : at[k] = "draining" ~> at[k] \notin {"draining", "cancelling"}

-----------------------------------------------------------------------------
(* Refinement *)

QuitPhase ==
    CASE shutdown = "open" -> "up"
      [] shutdown = "interrupting" -> "quitting"
      [] shutdown = "done" -> IF quitFailed = {} THEN "ended" ELSE "failed"
      [] OTHER -> "sealed"

Shared == INSTANCE SharedRuntimes WITH
    last <- starts,
    live <- alive,
    serving <- [k \in Kinds |-> IF open[k] THEN handle[k] ELSE 0],
    phase <- QuitPhase

\* The registry implements the promise: whatever reservations, crashes, interrupts, failed
\* cleanups and shutdown do, callers see the behaviour of SharedRuntimes.
ImplementsSharedRuntimes == Shared!Spec

=============================================================================
