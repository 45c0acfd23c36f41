# Verification of OpenDucktor

TLA+ models of the concurrent core of OpenDucktor, checked with TLC on small
instances and partly proved with TLAPS for every instance. Source paths below
are relative to the repository root; `host/…` stands for
`packages/host/src/…`, `orchestration/…` for
`packages/runtime-orchestration/src/…` and `remote-host/…` for
`packages/remote-host/src/…`.

* [1. The system](#1-the-system)
* [2. The modules](#2-the-modules)
* [3. Runs, bounds and fairness](#3-runs-bounds-and-fairness)
* [4. Proofs](#4-proofs)
* [5. What the checks found](#5-what-the-checks-found)
* [6. What is not modelled](#6-what-is-not-modelled)
* [7. Plan](#7-plan)

## 1. The system

OpenDucktor drives coding agents. One **host** process (Electron main, or the
Node backend of the web and remote shells) owns all state that several steps
share. **Clients** (the frontends, remote shells) send it commands and receive
event streams. The agents themselves are **runtimes**: child processes of three
kinds (OpenCode, Codex, Claude) that many sessions share. The host is written
with Effect: a fiber runs without interruption by others from one `yield*` of
an asynchronous effect to the next, so the interleavings that matter are those
of the blocks between two awaits.

| Component | State it keeps | Operations | What makes it correct |
|---|---|---|---|
| Runtime registry and slots (`orchestration/application/runtime-registry.ts`, `runtime-slot-lifecycle.ts`, `runtime-admission-gate.ts`, `domain/runtime-slot.ts`) | a slot per kind: handle, orphan, generation, status, reservation, admitted controls | initialize, reserve, apply, release, admit, stopAll; exit and cleanup callbacks | at most one process of a kind, none forgotten; admission matches the status; shutdown ends, stops everything, and nothing starts after it |
| Runtime orchestrator and lifecycle review (`orchestration/application/runtime-orchestrator.ts`, `orchestration/domain/runtime-impact-review.ts`, `host/application/runtimes/host-runtime-service.ts`, `host/application/workspaces/workspace-settings-service.ts`) | pending confirmations; the saved settings | preview, restart, save | a change stops only what the user reviewed; saved settings and running processes agree at rest |
| Serial gate (`host/effect/serial-gate.ts`) | a lane (last caller, user count) per key | run, isActive, drain | first in, first out, one at a time, whatever waiters are interrupted; drain waits for all it met; nobody waits forever |
| Message delivery (`host/application/agent-sessions/agent-message-*.ts`) | a queue per session: entries, pause, send in flight; session conditions | submit, drain, queue buttons, live events | no message twice, none lost, in order; an unknown result holds the queue; what is queued is delivered or visibly paused |
| Session operation owner (`host/application/agent-sessions/session-operation-owner.ts`) | generation, running and unresolved operation of a session | run, commit, cancel, observe | one operation at a time; work cancelled by a Stop commits nothing; an uncertain operation is confirmed by the session's own events |
| Session and workflow launches (`session-launch-service.ts`, `workflow-launch-service.ts`) | active attempts, a lane per task | launch, cancel, shutdown | one launch of a task at a time, holds released, a cancelled launch leaves no running turn |
| Submission reservations | first result per submission id | submit | a repeat sends nothing and gets the first result |
| Shared flights and cleanups (`host/effect/shared-flight.ts`, `retryable-cleanup.ts`) | running work per key | run | one run per key, every caller gets an end |
| Task event stream (`host/events/task-event-stream.ts`) and leases (`remote-host/task-event-leases.ts`) | sequence, replay buffer, cursors and queues per subscriber; lease generation and expiry | publish, subscribe, acknowledge, resume, replay, reset; attach, detach, expire | each subscriber sees every change in order, or is told to load a snapshot; late detaches do no harm |
| Task stream client (`frontend-core/tasks/task-stream-controller.ts`, `connection/local-host-channel.ts`) | cursors received, processed and acknowledged; one drain, acknowledgement and recovery at a time | receive, drain, read a snapshot, acknowledge, recover, reconnect | what it has processed is shown, or its list reports a failed read; late answers move nothing; it catches up |
| Workspace lifecycle and admission (`host/application/workspaces/…`) | blocked and reserved workspaces, starts in progress, saved removal phase | reserve, close, reopen, remove, admit a start | nothing starts in a workspace that closes; a removal can be retried after any failure |
| Tasks, direct merge, merge detection (`host/application/tasks/…`) | task store rows, completion state | events, close, reset, delete, merge, publish, sync | status follows the workflow; a merge is applied once |
| Workflow engine (`packages/workflows`) | none | evaluate | the actions offered are those of the definition |
| Autopilot (`host/application/autopilot`) | attempts, latest changes, workspace views | start checks, outcomes | nothing starts for a deleted task, a disabled rule or a closed workspace |
| Remote admission and access (`remote-host/remote-admission.ts`, `remote-access-controller.ts`) | pairing window, approvals, listener | enable, pair, renew, stop, revoke | a code works once and in its window; late renewals and expiries change nothing |
| Terminals (`host/application/terminals`) | output sequence, replay chunks, attachments, pause flags | accept, attach, acknowledge, pause, resume | output without gaps per attachment, no lost wake-up of the producer |
| Notifications, browser, git, hosting providers, filesystem, assets, MCP, actions | projections and wrappers | — | mostly input and output |
| Adapters, SQLite, settings files, process infrastructure, router, clients, frontends, build | — | — | input and output, user interface, packaging |

How they interact: commands arrive through the router and call the services. A
service that needs a runtime asks the registry's **admission gate** for a
control; a restart or a settings save goes through the **orchestrator**, which
reserves kinds in the registry and asks the host for live sessions. Everything
that changes one session runs in the session's lane of the **serial gate** under
the **operation owner**; the **delivery service** is the largest user. Runtimes
report back with **live events**, which the owner and the queue observe at
different moments. Task changes are published to the **task event stream**, and
remote clients hold **leases** on it, which the **task stream client** attaches
again after every lost socket. Close, reopen and removal of a workspace exclude
the start of processes through **workspace admission**. Shutdown
(`host/composition/node/node-host-router-lifecycle.ts`) stops users before what
they use: Autopilot, deliveries, launches, task sync, terminals, browser, and
then the runtimes through `stopAll`.

The hard behaviour is listed with its line in `PROJECT.json` under `hazards`:
callbacks of replaced processes, answers lost or late, state read before an
await and used after it, waiters that are interrupted, queues and buffers at
their limit, partial failures of multi-step changes, and shutdown at any of
these moments.

## 2. The modules

| Module | Models | Composition |
|---|---|---|
| `RuntimeRegistry` | the registry, its slots, the admission gate, startup, crash callbacks, shutdown | implements `SharedRuntimes` |
| `SharedRuntimes` | abstract: what the users of the shared runtimes may rely on | |
| `RuntimeReview` | previews, confirmations, restarts and saves over reduced slots | uses the outcome of a stop or start that `RuntimeRegistry` details |
| `SerialGate` | the chain of Deferreds behind a lane, interrupts, drain | implements `FifoLanes` |
| `FifoLanes` | abstract: operations in line, what is ahead of each in the line of its key | |
| `MessageDelivery` | one session: queue, operation owner, commands, runtime, live events | its `lane` is a line of `FifoLanes` |
| `TaskEventStream` | numbering, replay buffer, subscriptions and their microtasks, of any number of subscribers | |
| `TaskEventLeases` | leases, sockets and the host's request handlers | extends `TaskEventStream`; every handler is a step of it or leaves it alone |
| `TaskStreamController` | the client: drain loop, snapshots, acknowledgements, recoveries, reconnects, and faults of the host and the network | extends `TaskEventLeases`; implements `TaskFeed`, and its stream part implements `StreamSpec` |
| `TaskFeed` | abstract: what a user of the task list may rely on | |
| `WorkspaceLifecycle` | one workspace: process starts, close, reopen, remove, crashes, a second host | |
| `MC…` | small instances | |
| `RuntimeRegistryProofs`, `RuntimeReviewProofs`, `SerialGateProofs`, `MessageDeliveryProofs`, `DeliveryFlowProofs`, `TaskEventStreamProofs`, `TaskStreamControllerProofs`, `WorkspaceLifecycleProofs` | theorems | `DeliveryFlowProofs` extends `MessageDeliveryProofs`, `TaskStreamControllerProofs` extends `TaskEventStreamProofs` |

In every module a step is one synchronous block of the code. A definition under
a comment that begins with FAULT is not part of the model: it is a plausible bug
of the definition after it, and shows that a property can notice it.

### RuntimeRegistry

A process of a kind is named by its start attempt (`starts`), 0 is null.
`handle`, `orphan` and `generation` are the slot's fields; `at` is where the
slot's reservation or its apply stands, `owner` who holds it; `open` and
`control` are the admission gate; `alive`, `exited`, `cleanupFailed` are the
processes and what their drivers reported; `shutdown` and the `quit…`
variables are the local state of `stopAll`.

| Actions | Code |
|---|---|
| `Initialize`, `InitializeFails`, `StartKind`, `StartKindRefused` | `initialize` and the detached `startKind` of `runtime-orchestrator.ts`; a command or a quit may come first, since the web host listens before it initializes |
| `Reserve`, `Drained`, `GraceExpired`, `CancelDone`, `Release`, `ReserveInterrupted` | `reserve`, `drainOrCancel`, `releaseKinds`, `withReservation` |
| `BeginApply`, `Cleaned`, `StopFailed`, `HandleStopped` | `applyRequest`, `stopHandle` |
| `StartRefused`, `StartRegistered`, `Driver…`, `StartFailed`, `StartCleaned`, `StartCleanupFailed` | `startHandle`, `ownCleanup`, failure recovery |
| `ProbeVersion`, `InvalidSummary`, `Discarded`, `DiscardFailed`, `BecomeReady` | the second half of the start |
| `Crash`, `ReportExit`, `ReportCleanupFailure` | driver callbacks; they may come late, after a replacement |
| `Admit`, `RequireReady`, `ControlEnds`, `Leave` | the admission gate's `run` |
| `StopAll`, `StartsInterrupted`, `ActionsAwaited`, `Quit…`, `StopLoop`, `StopAllReturns` | `stopAll`, which may be called again after a failure |

Abstracted: messages, versions, paths and timestamps; `configure`, which only
stores data; the order of the stop loop (any order, which includes the code's).
Interrupting an apply in its middle is not modelled: the host never interrupts a
mutating command and detaches a startup start.

### RuntimeReview

`Preview` reads the status and the sessions of the kinds one after the other
(`ReadStatus`, `ListSessions`, `PreviewDone`) and issues a confirmation
(`AfterIssue`, at most `MaxReviews` kept). `RequestRestart` and `RequestSave`
reserve the kinds that their plan touches (`ReserveSave`, `Drained`), read the
impact again, compare and spend the confirmation (`Check`, `Accepts`,
`AfterAccept`), write the settings (`Write`), may fail to read the catalog after
the write (`CatalogUnreadable`), configure (`Configure`), stop and start
(`BeginApply`, `StopRuntime`, `StartRuntime`, `ApplyFails`, `Applied`). A
turn starts through a control (`StartTurn`), which a reservation holds back, or
the runtime begins it in a live session (`OwnTurn`), which nothing holds back;
turns ask for input and end by themselves. Input requested, and a turn that the
runtime began, after the command listed the sessions may be cut off, as in the
code: `OnlyReviewedTurnsStop` allows exactly these turns, and the turns of a kind
that is enabled again although its saved stop was not applied or failed. One host
writes the settings. Crashes, startup and shutdown belong to `RuntimeRegistry`. Dialog
fields and the grouping by workspace are left out.

### SerialGate

`Join` is `runInLane` up to its first await: the caller takes the last caller's
Deferred as `previous` and becomes the last. `Follow` resumes a caller whose
awaited Deferred was completed with another wait, `Start` is its turn, some
arbitrary time later (`yieldNow`), `Ends` and `Interrupted` are the two ways to
leave; both run the lane's bookkeeping and complete the caller's Deferred.
`Drain` lists the keys of the moment, its parts join the lanes one by one, and
`Drained` returns when all parts left. `clock`, `arrival` and `met` are history.
Each operation runs once, so the model ends.

### MessageDelivery

Actors are the composer's messages (each submitted once), the drain, one queue
button at a time, and Stop. Each has a `job`: where its fiber stands. `Join` and
`Begin` enter and pass the session's lane, `Leave`/`Settle` leave it.
`generation` (`gen`), `active` and `unresolved` are those of
`session-operation-owner.ts`.

| Actions | Code |
|---|---|
| `Submit`, `Route`, `Begin`, `Settle` | `submit`, `submitDefault`, `submitSteer` and the owner's `run` |
| `Request`, `SendFails`, `SendBusy`, `Issue`, `Reply` | `sendUserMessage`, the answer and its classification in `agent-message-send-outcome.ts` |
| `Drain`, `DrainJoins`, `DrainFails`, `DrainSettles` | `drain`: it marks its entry at once, its send joins the lane when the path of the repository is resolved (`sendUserMessage`), and its result changes the queue |
| `Manage`, `ResumeChecks`, `ResumeCommits`, `SteerEntry`, `BeginEdit`, `EndEdit`, `RemoveMessage`, `ManageFails` | `manage`, `applyAction` |
| `Stop`, `StopPauses`, `StopTurn`, `StopFails` | `stopSession`, `pauseForStop` |
| `OwnerObserves`, `QueueObserves` | the live events: the owner sees one when it is published, the queue when its batch is handled |
| `Take`, `OwnTurn`, `EndTurn`, `Ask`, `Answered`, `SessionLeaves`, `Reattaches`, `StatusFault`, `StatusReport` | the runtime and its user: external, modelled from what the host expects of it |

A command reads live state that is as old as the queue's or as new as the
runtime (`Reads`). A live user message names the submission it came from, except
those of `Unnamed`, which name the runtime's message id only: the owner does not
find these (`OwnerObserves`), and the queue finds them only as an entry with an
unknown result whose failure told that id (`Finds`; whether it did is chosen per
event). A session leaves its runtime as removed or as finished (`HostAfter` keeps a
pending question in the second case), and a turn may end completed, interrupted,
failed or with an error (`PauseAfter`). `DrainSettles` is one step, since nothing of
`drain` after the send waits. Abstracted: contents, revisions, edit identities and
submission fingerprints; the counter of completed turns, to one flag per send.
Left out: interrupted waiters (in `SerialGate`), several envelopes per batch,
the owner's model, reattach, continue and fork operations, shutdown. That a
scheduled drain starts in the order it was scheduled is not assumed.

### TaskEventStream, TaskEventLeases, TaskStreamController

The three modules are layers of one system: host process, connection, client.

`log` is what a host process keeps of its publications: `epoch` names the
process, `sequence` numbers its changes, `buffer` holds the newest ones and
`replayFloor` is the last number that is not in it. `subs` holds the
subscriptions with the fields of the code. A publication may evict any frames
that leave at most `Capacity`, since the code's budget is in bytes. Frames are
handed to a sink by a microtask (`ResumeDelivery`, `DeliverFrame`); no other
event of the host runs before the microtasks have (`Quiet`).

`leases` and `sockets` are the host's end of a connection, `up` and `down` the
messages that travel on the client's current socket. A socket may be full
(`RefuseFrame`) until it drains, and may close on either side at different
times. A lease outlives its socket (`Detached`) until it expires.

`stream`, `ack`, `drain` and `recovery` are the variables of
`createTaskStreamController`, `task`, `channel` and `socket` those of the
channel. What the client shows is the task list of one open workspace: `missing` is
the set of published changes and resets that the list does not show yet, and
`incomplete` says that its last read failed (`incompleteLists`). Such a read does not
fail the snapshot ("One failed workspace does not stop the others"): the client moves
its processed cursor and acknowledges, while the list reports its failure and takes
no changes until a later read succeeds. `TaskFeed` and `CatchesUp` therefore promise
what the code promises: everything processed is shown, or the list says that its
read failed.

| Actions | Code |
|---|---|
| `PublishChange`, `ResetStream`, `Subscribe`, `Unsubscribe`, `Acknowledge`, `ReplayFrom`, `ResumeDelivery` | the operations of `task-event-stream.ts` |
| `HandleSubscribe`, `RefuseSubscribe`, `HandleAttach`, `HandleAck`, `HandleRelease`, `HandleUnknown` | the requests of `host-channel.ts` and what they call in `task-event-leases.ts` |
| `WriteNext`, `DrainNext`, `ExpireNext`, `HostClosesSocket`, `CloseSocket` | the sink, back-pressure, expiry and the end of a socket |
| `FrameArrives`, `Subscribed`, `SubscribeRefused`, `AckArrives`, `AckFails`, `AckRefused`, `Attached`, `AttachRefused`, `Released` | messages that arrive at the client |
| `DrainTurn`, `ChangesApplied`, `ApplyFails`, `SnapshotApplied`, `SnapshotFails` | the drain loop |
| `PatchList`, `SnapshotRead`, `WorkspaceReadFails`, `ShowList`, `RefreshSucceeds` | the task list of `task-view-sync.ts`: a run of changes, the reads of a snapshot and their failure, a read that the user asks for |
| `Recover`, `AfterRelease`, `OpenSocket`, `NoticeClose`, `LoseSocket`, `SendWaiting` | recovery and reconnection |
| `RestartProcess` | the host process ends and starts again with a new epoch |

Abstracted: an event is its number; the reads of a snapshot are one read of the
list, and a read that was overtaken may or may not have shown what it read; a
snapshot as a whole fails (`SnapshotFails`) where the workflow metadata or a view of
a workspace that is not open cannot be read, which recovers the stream; a subscribe
may be refused at any time, whatever the limit; requests on a lost socket were handled before the loss or never are; a subscription id is
fresh. Frames that arrive while a subscription is being acquired
(`pendingFrames`) stay on the wire until the answer that precedes them in the
code's order. The first subscription is a recovery in its `waiting` state.
Sockets are lost and processes restart only while another socket may be opened
(`MaxSockets`). Left out: session changes that were admitted before their turn,
`stop()`, the release of one workspace, and a sink that
throws, which no lease does. Of the reads outside the stream only the one that
makes up for a failed read is modelled; a refresh of a list that is complete, one
after a change of the retention of tasks, documents, artifacts, session lists and
workspaces that open or close are left out. `reset` has no caller in production, and is kept
since the stream offers it.

### WorkspaceLifecycle

`registered`, `closed` and `removal` are what the settings say of the workspace;
`checkout` and `gitKnows` say of each worktree whether its directory exists and
whether git lists it; `blocked` and `reserved` are the admission service's
memory; a client's command (`call`) and a caller that starts a process (`start`)
each stand between two awaits of the code. `shut` is history: the start was
asked for while the workspace was not open and it has not been opened since.

| Actions | Code |
|---|---|
| `Request`, `ReadCatalog`, `Admitted`, `StartRefused`, `StartReturns` | `withProcessStartAdmission`; the catalog is read in one step and takes effect in a later one |
| `Close`, `Reopen`, `Remove`, `Reserve`, `NotReserved`, `Fails` | the commands of `workspace-lifecycle-service.ts` and their reservation |
| `Inspect`, `WorkIsRunning` | `assertNoBlockingActivity` |
| `CommitClose`, `CommitReopen`, `CommitRefused`, `Saved` | the edits of `workspace-lifecycle-settings.ts` and what follows them |
| `Begin`, `Block`, `SessionsReleased`, `PendingIsGone`, `PendingIsThere` | the beginning of `executeRemoval`, fresh or retried |
| `Collect`, `CollectFails`, `Journal`, `GitRemoves`, `PathRemoved`, `Removed`, `WorktreesDone` | the worktrees; each is recorded as pending before it is touched |
| `AttachmentsRemoved`, `RemoveRegistration`, `Forget` | the later phases |
| `Restart`, `OtherHostEdits`, `RemoveByHand`, `WorkEnds` | a crash of the host, another host of the same settings, the user |

`Known` is the set of worktrees that a task or a session names, `Branched` those whose
branch is one of a task, `Claimed` those of another workspace. A worktree that git lists
and that nothing attributes to a task (`Unclassified`) stops the removal, as a candidate
that git does not list does; the message asks the user to remove either by hand
(`RemoveByHand`). `Fails` stands for any read, write, git command or cleanup
that fails. The lifecycle lock of a repository path is folded into the
reservation, since one workspace per path is modelled. Left out: administrative
access without a reservation, worktrees outside the base path and symbolic
links, claims that change, two hosts that remove at once (the documentation says
that the sessions of other hosts are not checked), and turns that a runtime
starts itself.

## 3. Runs, bounds and fairness

| Run | Instance | Shows | States |
|---|---|---|---|
| `runtime_one` | 1 kind, 2 commands, 2 controls, 2 starts | ownership of runtimes, crash and failure reports, `ImplementsSharedRuntimes`; shutdown ends and reservations drain | 413,224 |
| `runtime_two` | 2 kinds, 1 command, 1 control, 1 start each | one kind's stuck control, failed stop or late start does not leak into the other; shutdown handles both | 1,361,510 |
| `review` | 2 kinds with a session each, 2 paths, 2 callers, 3 calls, 2 pending reviews | beside turns that a runtime begins after the last look, a change cuts off only reviewed turns of the reviewed runtimes; settings and runtimes agree | 3,520,857 |
| `serial_gate` | 2 calls of a key, 1 of another, 1 drain | order, counts, drain, liveness and `ImplementsFifoLanes` | 51,303 |
| `delivery_session` | 2 default messages, one shown without its submission; 1 stop, own turn, question, leave and failure; turns that complete, are interrupted or end with an error | nothing stranded or reordered; when a queue is confirmed, only a message that names no submission is still unresolved | 4,974,377 |
| `delivery_actions` | 2 messages, both modes, every button and every answer | nothing sent twice or lost, an unknown result holds the queue | 3,625,552 |
| `delivery_liveness` | 2 messages, 1 button, 1 unreadable status | every submission returns, every queued message moves on | 161,115 |
| `delivery_stop` | a Stop and a completing turn | **violated**: a delivery slips past a Stop (section 5) | — |
| `delivery_confirm` | an entry with an unknown result, the Steer button | **violated**: Resume stays refused (section 5) | — |
| `task_events` | 2 subscription ids, 2 processes with 2 changes each, a buffer of 1, 2 sockets with room for 1 frame, 1 failed application, snapshot or workspace read | no change skipped, bounded queues, acknowledged means processed; `TaskFeed` and `StreamSpec` are implemented; the client catches up or reports why not | 1,406,937 |
| `task_recovery` | 1 change, 3 sockets | **violated**: a second lost lease ends the stream (section 5) | — |
| `workspace` | 2 clients, 1 process start, 4 worktrees, 4 closes, reopens, failures or restarts | nothing runs under a close or removal, a closed workspace stays quiet, a retried removal ends and leaves nothing | 691,779 |

Why the bounds are enough. A registry slot serves one reservation at a time, so
two commands and shutdown give every order of owners; two starts give a replaced
runtime whose callbacks are late (more starts only repeat that, and the theorems
of section 4 hold for any number). Two kinds are the least that a shared
reservation and the stop loop can mix up. In the review, two callers with three
calls allow a preview, a change in between and the confirmed command, with a
save that touches both kinds; the bound of 2 pending reviews is reached. In a lane, three users and a drain's part give a
head, one that leaves and one behind it, and with the other key a lane that
empties and fills again. Two messages are the least that can overtake each
other; of these one is shown without its submission (`Unnamed`), so both ways to
confirm it occur; the budgets (`Budget`) allow each outside event once per run where it
matters, and `MaxBacklog` lets two live events lag behind. A task client has one
subscription at a time and replaces it, so two ids give an old and a new one; a
buffer of one frame and two changes evict what a slow subscriber still needs;
two processes give cursors of a foreign epoch; two sockets give a reattach and a
late close of the first. Of four worktrees a task names one, only its branch
shows the second, no task has the third, and another workspace claims the fourth; four events
allow two failures or crashes between a close and a reopen. For every safety
property that holds, the theorems of section 4 cover all larger numbers; the bounds
carry weight for liveness only.

`CHECK_DEADLOCK FALSE` is set where the model ends by design: the bounded
commands of the review, the single run of each operation of the gate, the
messages that are each submitted once, and a task client that has caught up or
has stopped.

Fairness.

* Registry: fibers that can go on do go on; a cancelled control ends, an
  interrupted start ends, and the driver's stop, cleanup and version read return
  (the drivers bound these). Not fair: a control that was not cancelled, a
  driver's start, a command that holds a reservation, a crash.
* Gate: fibers are resumed and an operation that runs ends. Interrupts are not
  fair.
* Delivery: one weak fairness over all steps of host fibers, the answer of an
  adapter (if only "unknown", its time limit), taking a sent message, the end of
  turns, the user's answers to questions, reopening of a session that left, and
  the next readable status. Presses of buttons, stops and faults are not fair.
* Task events: requests are handled, frames are written, sockets drain and
  messages arrive; the client's fibers go on, its reads return, and it opens a new
  socket after a lost one. Publications, expiry, lost sockets, restarts and failed
  reads, refused subscriptions and refreshes by the user are not fair. Reads may fail
  only `MaxFailures` times. A refused subscription and an incomplete list end what
  `CatchesUp` asks for, since the client has reported both.
* Workspace: a command goes on to its end; process starts return and running work
  stops, a directory that a failed removal names is removed by hand, and an
  incomplete removal is tried again, since the error messages ask the user for
  each of these. Failures, restarts, closes, reopens and new process starts are
  not fair, and the first four are bounded by `MaxEvents`.

## 4. Proofs

The theorems hold for every value of the constants under the assumptions named
in the modules, which TLC also evaluates: `ConstantsAssumption` (registry),
`ReviewAssumption` and `SettingsAssumption` (review), `KeyAssumption` and
`NamesAssumption` (gate), `ModesAssumption`, `AnswersAssumption`,
`TurnsAssumption`, `UnnamedAssumption`, `BudgetAssumption` and `NamesAssumption`
(delivery),
`StreamAssumption`, `LeaseAssumption` and `ControllerAssumption` (task events),
`WorktreesAssumption` (workspace). They say that bounds are natural numbers and
that sets of model values do not overlap; bounds of the code (`MaxReviews`)
and of the model (`MaxStarts`) may have any positive value.

| Module | Theorem | States |
|---|---|---|
| `RuntimeRegistryProofs` | `TypeCorrect` | `TypeOK` |
| | `OwnershipHolds` | the inductive invariant `Ownership` |
| | `NoRuntimeIsLost`, `AtMostOneRuntime` | a live process is the slot's handle or orphan; at most one per kind |
| | `GateCorrect` | admission is open exactly for a ready, unreserved kind before shutdown |
| | `ShutdownIsFinal` | nothing starts or becomes ready after shutdown began |
| | `NothingStopsUnderControl` | no runtime is stopped under an admitted control |
| | `ShutdownLeavesNothing` | when `stopAll` has returned without a failure, no process lives |
| | `CallbacksStayCurrent` | what is shown of a kind is about the runtime it has |
| | `RefinesSharedRuntimes` | the registry implements `SharedRuntimes` |
| `RuntimeReviewProofs` | `TypeCorrect` | `TypeOK`, with the limit of stored reviews |
| | `StoppedTurnsWereReviewed` | a change cuts off reviewed turns, and beside them only turns that the runtime began in a reviewed session after the last look |
| | `StoppedRuntimesWereReviewed` | the runtime that a command stops is the one that its review named |
| | `RuntimesMatchSettings` | a free kind runs what is saved |
| `SerialGateProofs` | `GateCorrect` | the inductive invariant `GateInv` |
| | `ArrivalOrderKept`, `NobodyWaitsForTooLittle`, `UsersCounted`, `DrainIsComplete` | the safety properties of the gate |
| | `RefinesFifoLanes` | the gate implements `FifoLanes` |
| `MessageDeliveryProofs` | `TypeCorrect` | `TypeOK` |
| | `TakenAtMostOnce` | the runtime takes no message twice |
| | `QueuedIsKept` | what was reported as queued is in the queue or was taken |
| | `UnknownIsPaused` | an unknown result pauses the queue |
| `DeliveryFlowProofs` | `NamedIsForgotten` | without the Steer button, what is unresolved when a queue is confirmed is a message that the conversation showed without its submission |
| | `NothingStranded` | when all is quiet, no message waits for a delivery that nothing starts |
| | `DefaultInOrder` | where nothing is steered, messages are taken in the order of submission |
| `TaskEventStreamProofs` | `StreamTypeCorrect`, `BufferCorrect` | types; the replay buffer has no gap |
| | `NothingSkipped`, `QueuesBounded` | no subscriber skips a change; no queue keeps what the buffer dropped |
| `TaskStreamControllerProofs` | `TypeCorrect`, `StreamIsUsed` | types; the composed system only takes steps of `StreamSpec` |
| | `ClientSkipsNothing`, `ClientQueuesBounded` | the stream's theorems, carried over to it |
| | `LeaseStaysConnected` | the lease of an open channel is connected to the client's socket |
| | `AcknowledgementsFollow` | what counts as acknowledged is processed |
| | `RefinesFeed`, `ClientShowsWhatIsProcessed` | the client implements `TaskFeed`: it shows what it has processed, or its list reports a failed read until a read has made up for it |
| `WorkspaceLifecycleProofs` | `Invariant`, `TypeCorrect` | the inductive invariant `Inv`; types |
| | `QuietHolds`, `ClosedHolds`, `NothingLeftHolds` | the safety properties of the workspace |

*Registry.* `TypeOK` alone is not inductive: a start increments `starts`, so
`TypeInv` adds that a reservation below the bound keeps room for one start
(`BelowBound`) and that a control that left idle names a kind
(`ControlHasKind`). That no process is lost is not inductive either: a start may
only overwrite a slot that is empty, and a stop works on an attempt that it read
before an await. `Ownership` says both for every location of an apply and of the
stop loop: the slot's fields only name the latest attempt; `begin` and `running`
have an empty slot; `stopping`, `cleaning` and their counterparts in `stopAll`
hold the attempt that the slot still names; every driver is interrupted once
shutdown began and none runs after the interrupts were awaited. The proof has one
lemma per group of actions and under it one step per action. `GateMatchesStatus`
is inductive with `TypeInv`; `ShutdownIsFinal` follows from it step by step, as
`BecomeReady` and `StartRegistered` test for shutdown in the step in which they
write. `DrainInv` follows a reservation and the drain of `stopAll`: whoever works
on a slot has drained its kind, which gives `NoStopUnderControl`, and in the stop
loop every kind that is neither left nor failed has neither handle nor orphan,
which gives `ShutdownStopsEveryKind`. `CallbackInv` adds that from its
registration to its end a start has the generation of the latest attempt, and
that an apply first takes its kind out of the ready state. With these, each step
of the registry is one of `SharedRuntimes` or a stutter; most stutter, and the
steps that remain withdraw a runtime, begin an attempt, end a process, serve one,
or move the shutdown.

*Review.* A command reads over several steps and acts later, so the invariant
says what stays true of what it read. `Holds` and `Shape`: a kind is owned by
exactly the command whose plan touches it. `Reads`: while a command owns a kind
and its slot has not moved, the runtime is the one that it read; every live
session is one that it listed, and every turn that still runs is one that it saw
or one that the runtime began since then (`Follows`), since nobody else can change
the runtime and no control can start a turn. After the check the spent
confirmation named what was listed (`Covered`). `Slots`: a slot moves only while
its owner applies, and only a running runtime has turns. `Saves`: the owner of a
kind plans what is saved, or has not written yet; a kind that is neither in error
nor `unapplied` runs the saved choice, or its slot is on the way, or its change is
pending; what an enabling stops was not applied or failed to stop. The limit of
stored reviews is a counting argument about the newest tokens (`IssueType`).

*Serial gate.* There is no list of waiters, so the order must be read off the
Deferreds. `WaitsForAllAhead` says that what a caller awaits, and what its own
`waitForPrevious` awaits, joined no later than the last one ahead of it, and
that a completed Deferred has nothing active before it. It is inductive together
with `Ordered` (arrivals are distinct and the Deferred of whoever has not left is
open) and `LastIsLast` (a lane's last caller joined after all others, and a lane
without a last caller is empty). The latter needs `Counted` (the user count is
the number of active operations), because a lane is forgotten when the count
reaches zero. `InArrivalOrder` follows where an operation starts. `DrainBehind`
places what a drain met ahead of the drain's own part in the same lane, which
gives `DrainWaits`. The same invariant gives the refinement of `FifoLanes`: what
is ahead of an operation is what joined its lane earlier and is still active, an
arrival puts the whole lane ahead of itself, and an operation whose Deferred is
completed has nothing ahead of it.

*Message delivery.* That a message is taken once is a matter of who may still send
it. `Unsent` says it for every place: what a submission, the drain or a queue
action may still send, and every entry that is queued or edited, is neither with
the runtime nor on its way there. This has one exception, `Blocked`: a queue
action whose result is uncertain leaves an operation without a submission id that
nothing clears, so that nothing is admitted any more and nothing is sent. (The
same fact refutes the documentation in `delivery_confirm`.) The rest supports it.
`Lanes`: the lane holds exactly those at work or waiting, and only its head runs.
`QueueFits`: an entry on its way is marked as such, and the drain and a queue
action never send the same one. `Requested`: the requests to the runtime are for
different messages. `Known`: what the host believes to be accepted or received was
taken, so an entry that it drops is not lost (`Kept`). `Paused`: an unknown result
pauses the queue, and there is none when Resume commits. Each action has a lemma
for its effect on the queue and one for each conjunct that it disturbs.

`NamedIsForgotten` says what is left of "a confirmed queue can resume", which
`delivery_confirm` refutes: it assumes that `Actions` does not contain `"steer"`, and it
excepts the messages that the conversation shows without their submission (`Unnamed`),
because the queue then forgets an entry that the owner does not. `Resolvable` says why no
other message can be left: what is unresolved names a message whose entry is unknown, or
one of `Unnamed`, and an operation whose outcome is uncertain has its entry marked as on
its way or, once it is told, as unknown (`EntryIsKept`). The conversation ends both, and the
owner is told before the queue (`OwnerIsAhead`): so neither message is the one that the
owner has observed and the queue has not (`Showing`), and an entry never goes before the
operation that names it.

`NothingStranded` rests on `Awake`. `Signalled` is the fact itself, in every state and not
only a quiet one: a queue that may start (`Startable`, and the session is known to be ready)
has a scheduled drain, or a turn whose end is still to be observed (`TurnEnding`), or a
steer that has counted an end (`SteerCounts`). It is not inductive, because the signals
come while a send holds the queue. So `TakenHasTurn` and `ResultHasTurn` say that a message
that the runtime took, or was too busy to take, comes with a turn that is still to end, or
whose end was counted (`completedTurns`), or that has paused the queue. `HostLearns` says
that what the queue knows of a ready session is right after the events that wait.
`HeldBySend` and `MarkedIsCarried` say that a queue held by a send, and an entry marked as
on its way, have somebody who will let go of them; `SendsAlone` says that a new message is
sent past no entry. Most steps move one actor and leave the entries (`QuietMoveAwake`);
the head of the lane has a lemma per result.

`DefaultInOrder` assumes that neither `Modes` nor `Actions` contains `"steer"`: a steer is
meant to overtake what waits in the queue, and the run `delivery_session`, which checks
`InOrder`, has no steer either. What was taken says little of what may be taken next, so
`InTurn` orders everything a message can be in. `Ahead(m, n)` holds when m was taken, is a
request, an entry or an operation in the lane before n is one, and `Sorted` says that m was
submitted first then. A message is sent past the entries only by a drain, which has the
head of the queue (`DrainsHead`), or when there is none (`SendsAlone`, of `Awake`). A
request whose result is unknown may be taken later than anything else; `OpenIsNamed` says
that it is the unresolved operation, or the running one, so that nothing is sent before it
is settled. A step that adds nothing keeps the order (`InTurnInCalm`, `Thins`); a submission,
a request, a message that is taken and one that enters the queue have a lemma each.

*Task event stream.* `NoChangeIsSkipped` is not inductive: what a replay or an
acknowledgement queues starts at the acknowledged cursor, not at the delivered
one. `StreamInv` adds, for each subscription, that without an open boundary the
acknowledged cursor is of this process and not newer than the delivered one, and
that the queue is the run of changes from some number that the buffer still has
(`FlowsFrom`), possibly behind a boundary that was queued again; with an open
boundary the queue is that boundary or nothing. `LogInv` says that the buffer is
the run after `replayFloor`. Each operation is a function on one subscription, so
the proof has a lemma per helper (`RunFacts`, what `After` keeps of a run) and
one step per operation.

*Task client.* `TypeInv` gives every variable its type with the cursors that the
host has reached (`Past`), so that a publication never reaches the client before
it exists. `Wired` connects both ends of the leases: a socket receives a lease
exactly when the lease names the socket, under one generation. Every handler of
the host then is a sequence of stream operations with one subscription, which
gives `UsesStream`, and with it the theorems of `TaskEventStreamProofs`.
`Exchanges`, `Attaching` and `Owners` say which requests may be under way and for
whom; `Connected` (the lease of an open channel is connected) and `Processed`
(what anyone counts as acknowledged is processed) rest on them. That the processed
cursor never moves back is not inductive: a snapshot moves it wherever its frame
says. `Ordered` therefore follows the frames: a boundary that a subscription
holds, has queued or has sent covers everything that the client has taken and
everything that reaches it before; `Forward` says the same of the drain loop's own
copies, and that a list which reports no failure shows what was processed: a snapshot
that ends without its list (`drain.changes = {}`) leaves the failure where it is, and a
read covers whatever was processed before it. Together they show that each step of the client is one of `TaskFeed`.

*Workspace.* `Inv` joins what each property needs. `OneHolds`: one command is
past its reservation, and no process start is admitted beside it; both directions
are needed, since a start looks for a reservation and a reservation for a start.
`ShutIsSeen`: a start that is shut out has read nothing or something other than
an open workspace, so that `Refreshed` refuses it whatever the memory said.
`AtSavedPhase`: a command stands where the saved record says, which makes a
retry meet the state that the failed attempt left. `Remembered`: a directory that
git forgot is named by a task or by the record (`Findable`), and in the loop every
directory that is left is on the list or being removed (`Listed`); at the end of
the loop nothing is left. Steps of a command share one lemma (`Effect`) for the
reservation, and the steps of a removal have one case each.

The invariants were checked by TLC on the instances of section 3 before they were
proved.

Only model-checked: liveness (`ShutdownEnds`, `ReservationDrains`,
`EveryoneReturns`, `SubmissionsReturn`, `QueuedIsDelivered`, `CatchesUp`,
`RemovalEnds`), which is out of TLAPS's reach here. Every invariant and every action
property of a passing run is the subject of a theorem, two of them under an assumption that
a run or the code's purpose calls for (`NamedIsForgotten`, `DefaultInOrder`). The refuted
statements of section 5 are violated and have no theorem.

## 5. What the checks found

Three statements of the repository are refuted by a run:

* **Stop and delivery** (`delivery_stop`). `stopSession` raises the generation
  and only then, after resolving a path, pauses the queue. A drain that joins the
  lane in between has the new generation: one that a completed turn starts then, or
  one that took its message before the Stop and was still resolving its own path. It
  issues its message after the queue was paused by the stop.
* **Resume after a confirmed message** (`delivery_confirm`). A queued message that
  is steered runs in a queue action, whose operation has no submission id. If its
  result is unknown and the conversation then shows the message, the queue asks
  for Resume, but the owner's unresolved operation names no submission, is never
  cleared by the event, and refuses the Resume. No Steer button is needed when the
  live message names the runtime's message id only: the queue resolves an unknown
  entry by that id (`findAcceptedEntry`), while the owner needs the submission id
  (`observe`). The same configuration with `Actions = {}` and `Unnamed = {m2}` shows it.
* **Recovery after a second lost lease** (`task_recovery`). `docs/web-runner.md`
  says that a task stream whose lease is gone subscribes again. `recoveryUsed` is
  cleared by an acknowledgement only. A client that recovers and finds nothing new
  acknowledges nothing, so the next lost lease finds `recoveryUsed` set and ends the
  stream; `reportDegraded` stays silent, because the stream already is degraded.

Observations that refute no written statement: two saves without a lifecycle
effect hold no reservation, and the one that wrote first may configure last, so
that the published status keeps its older path, or shows a kind as disabled that
a save in between has enabled and started, until the next change; after the settings were written,
a failing catalog read returns before the runtimes are changed, so that saved
settings and runtimes differ until the next command of the kind (`unapplied`);
between the runtime check and the settings write another save without a
reservation can write; a restart applies the saved choice as it is when the
restart runs. A catalog read that began before a close commits may arrive after
it: that start is admitted, and the blocked set forgets the close until the next
read; therefore `ClosedStaysQuiet` speaks of starts asked for after the close. The
advice to "retry without removing task worktrees" has no effect while a pending
worktree is recorded, because the record then keeps its choice.

## 6. What is not modelled

Wrappers of git, files, hosting services, browsers and MCP; the protocol clients
of the three agent runtimes (only what they may report); SQLite (a transaction is
a step); settings files; frontends, mobile, Electron windows and the website;
build tools. These are input and output or user interface. Components with
control of their own that are not modelled yet are in the plan. `PROJECT.json`
lists every component with its status and reason.

## 7. Plan

The order puts first what the rest relies on. Done: the registry with its
abstract specification; the lifecycle review; the serial gate with its abstract
specification; message delivery with its owner; the task event stream from the
host's log to the client with its abstract specification; the workspace lifecycle
with its crashes.

Next modules:

1. `SharedFlight` and `RetryableCleanup`: one run per key, every caller gets an
   end, also when the scope of the work is already closed. Small and fully
   provable.
2. `SessionLaunch`: attempts over `FifoLanes`, holds, cancel, settlement, shutdown.
3. `DirectMerge`: merge, record, publication, close and reset with partial failures.
4. `RemotePairing`, `TerminalOutput`, `Autopilot`, and the pure evaluation of the
   workflow engine against its definition.
5. In the modules that exist: `stop()` and the release of a workspace in the task
   client, a list that is refreshed beside the stream, two workspaces whose worktrees overlap, and the
   model, reattach, continue and fork operations of the session owner.

The runs stay few: where a new module needs one, runs of the same component are
merged first (for example `delivery_liveness` into `delivery_actions` at one
button).

Next theorems: those of the next modules.
