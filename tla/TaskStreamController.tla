------------------------ MODULE TaskStreamController ------------------------
(***************************************************************************)
(* The task stream of a client: the local host channel that reconnects and *)
(* attaches the task lease again (frontend-core/src/connection/            *)
(* local-host-channel.ts) and the controller that applies what arrives     *)
(* (frontend-core/src/tasks/task-stream-controller.ts), on top of the      *)
(* leases and the stream of the host.                                      *)
(*                                                                         *)
(* The controller is asynchronous.  One drain loop applies changes and     *)
(* snapshots, one cumulative acknowledgement of progress runs beside it,   *)
(* and one recovery at a time replaces the subscription.  An await whose   *)
(* owner was replaced, or that a newer snapshot frame overtook, is stale   *)
(* when it returns (isActive).                                             *)
(*                                                                         *)
(* What the client shows is kept as what the task list of one open         *)
(* workspace misses: the published changes and resets that neither an      *)
(* applied change nor a read of the list covers.  A list whose read failed *)
(* (frontend-core/src/queries/task-view-sync.ts) keeps its failure, and    *)
(* takes no changes until a read succeeds.                                 *)
(***************************************************************************)
EXTENDS TaskEventLeases

CONSTANTS
    MaxFailures    \* bound: the applications and snapshot reads that fail

ASSUME ControllerAssumption == MaxFailures \in Nat

VARIABLES
    channel,    \* the local host channel: "down", "attaching" or "open"
    task,       \* the lease with a record in the channel's tasks
    stream,     \* the cursors and flags of the controller
    drain,      \* the drain loop
    ack,        \* the acknowledgement in flight
    recovery,   \* the subscription being acquired
    missing,    \* what the task list does not show yet
    incomplete, \* the last read of the task list failed: it reports that, and takes no changes
    opened,     \* how many sockets the client has opened
    failures    \* how many applications and reads have failed

clientVars == <<channel, task, stream, drain, ack, recovery, opened>>
vars == <<streamVars, leaseVars, wireVars, clientVars, missing, incomplete, failures>>

Stream ==
    [current : Subs \cup {None}, processed : Cursor \cup {None}, acknowledged : Cursor \cup {None},
     awaitingReplay : Cursor \cup {None}, pendingSnapshot : Cursor \cup {None},
     pendingChanges : SUBSET Cursor, paused : BOOLEAN, recoveryUsed : BOOLEAN]

Drain ==
    [at : {"idle", "ready", "waitAck", "apply", "snapshot", "read", "acknowledge", "recover"},
     changes : SUBSET Cursor, cursor : Cursor \cup {None}, stale : BOOLEAN]

Ack ==
    [at : {"none", "waiting", "sent", "recover"}, by : {"drain", "progress"},
     lease : Subs \cup {None}, cursor : Cursor \cup {None}, stale : BOOLEAN]

Recovery ==
    [at : {"none", "release", "waiting", "sent"}, lease : Subs \cup {None},
     cursor : Cursor \cup {None}, gaveUp : BOOLEAN]

TypeOK ==
    /\ StreamTypeOK
    /\ LeaseTypeOK
    /\ channel \in {"down", "attaching", "open"}
    /\ task \in Subs \cup {None}
    /\ stream \in Stream
    /\ drain \in Drain
    /\ ack \in Ack
    /\ recovery \in Recovery
    /\ missing \in SUBSET Cursor
    /\ incomplete \in BOOLEAN
    /\ opened \in 0..MaxSockets
    /\ failures \in 0..MaxFailures

Idle == [at |-> "idle", changes |-> {}, cursor |-> None, stale |-> FALSE]
NoAck == [at |-> "none", by |-> "drain", lease |-> None, cursor |-> None, stale |-> FALSE]
NoRecovery == [at |-> "none", lease |-> None, cursor |-> None, gaveUp |-> FALSE]

AckRequest(lease, cursor) == [method |-> "ack", lease |-> lease, cursor |-> cursor]
SubscribeRequest(cursor) == [method |-> "subscribe", lease |-> None, cursor |-> cursor]
AttachRequest(lease) == [method |-> "attach", lease |-> lease, cursor |-> None]
ReleaseRequest(lease) == [method |-> "release", lease |-> lease, cursor |-> None]

-----------------------------------------------------------------------------
(* The controller, as operators on its state. *)

\* requestDrain: start the loop if it does not run, and if it has something to run for.
Requested(d, st) ==
    IF d.at = "idle" /\ ~st.paused /\ st.current # None THEN [Idle EXCEPT !.at = "ready"] ELSE d

\* isActive fails for what the loop or an acknowledgement awaits now.
Overtaken(job) ==
    IF job.at \in {"apply", "snapshot", "read", "waiting", "sent"}
    THEN [job EXCEPT !.stale = TRUE] ELSE job

MarkRecovered(st) ==
    [st EXCEPT !.recoveryUsed = FALSE, !.paused = FALSE, !.awaitingReplay = None]

\* The received changes that follow the processed cursor without a gap.
NextChanges(st) ==
    {c \in st.pendingChanges :
        /\ st.processed # None
        /\ c.epoch = st.processed.epoch
        /\ c.sequence > st.processed.sequence
        /\ \A n \in (st.processed.sequence + 1)..c.sequence : At(c.epoch, n) \in st.pendingChanges}

Newest(cursors) == CHOOSE c \in cursors : \A d \in cursors : d.sequence <= c.sequence

\* A change frame that receive drops: older than the snapshot it waits for, or applied already.
Ignores(st, c) ==
    IF st.pendingSnapshot # None
    THEN c.epoch # st.pendingSnapshot.epoch \/ c.sequence <= st.pendingSnapshot.sequence
    ELSE /\ st.processed # None
         /\ c.epoch = st.processed.epoch
         /\ \/ c.sequence < st.processed.sequence
            \/ c = st.processed /\ c = st.acknowledged

\* receive, for a change frame of another epoch that no snapshot frame announced.
IsForeign(st, c) ==
    st.pendingSnapshot = None /\ st.processed # None /\ c.epoch # st.processed.epoch

\* receive, for the other change frames.
ReceiveChange(st, c) ==
    IF st.pendingSnapshot = None /\ c = st.processed
    THEN [st EXCEPT !.awaitingReplay = IF @ = c THEN None ELSE @]
    ELSE [st EXCEPT !.pendingChanges = @ \cup {c}]

\* receive, for a snapshot frame: it replaces everything received before it.
ReceiveSnapshot(st, c) ==
    [st EXCEPT !.pendingChanges = {}, !.pendingSnapshot = c,
               !.awaitingReplay = None, !.paused = FALSE]

-----------------------------------------------------------------------------
(* Pieces of actions. *)

\* acknowledge: the request goes out now, or when the channel opens.
SendAck(by, cursor) ==
    /\ ack' = [at |-> IF channel = "open" THEN "sent" ELSE "waiting", by |-> by,
               lease |-> stream.current, cursor |-> cursor, stale |-> FALSE]
    /\ up' = IF channel = "open" THEN Append(up, AckRequest(stream.current, cursor)) ELSE up

\* FAULT: what was received is acknowledged before it is applied.
AcknowledgeReceived(st) ==
    LET received == {c \in st.pendingChanges : c.epoch = st.processed.epoch} \cup {st.processed}
    IN  IF /\ ack.at = "none"
           /\ st.processed # None /\ st.awaitingReplay = None
           /\ Newest(received) # st.acknowledged
        THEN SendAck("progress", Newest(received))
        ELSE UNCHANGED <<ack, up>>

\* acknowledgeProgress, in the controller state st.
AcknowledgeProgress(st) ==
    IF /\ ack.at = "none"
       /\ st.processed # None /\ st.processed # st.acknowledged
       /\ st.awaitingReplay = None
    THEN SendAck("progress", st.processed)
    ELSE UNCHANGED <<ack, up>>

\* startRecovery: close the subscription, and subscribe again from the cursor; but only once
\* until an acknowledgement marks the stream recovered.
Recover(cursor, awaitReplay, open) ==
    LET owner == stream.current
        gaveUp == stream.recoveryUsed
        closed == [stream EXCEPT !.current = None, !.paused = TRUE, !.recoveryUsed = TRUE]
    IN  /\ task' = IF task = owner THEN None ELSE task
        /\ stream' =
             IF gaveUp THEN closed
             ELSE IF awaitReplay
             THEN [closed EXCEPT !.awaitingReplay =
                     IF closed.processed = closed.acknowledged THEN None ELSE closed.processed]
             ELSE [closed EXCEPT !.awaitingReplay = None, !.pendingChanges = {},
                                 !.pendingSnapshot = None]
        /\ recovery' =
             IF open THEN [at |-> "release", lease |-> owner, cursor |-> cursor, gaveUp |-> gaveUp]
             ELSE IF gaveUp THEN NoRecovery
             ELSE [at |-> "waiting", lease |-> None, cursor |-> cursor, gaveUp |-> FALSE]

\* The release that a recovery over an open channel sends first.
ReleaseSent == IF recovery'.at = "release" THEN Append(up, ReleaseRequest(recovery'.lease)) ELSE up

\* The state of a loop or an acknowledgement that awaits the recovery it started.
Awaiting == IF recovery'.at = "none" THEN "idle" ELSE "recover"

\* A drain or an acknowledgement that waits for the recovery when it ends with the outcome ok.
Resumed(d, ok) == IF d.at = "recover" THEN [Idle EXCEPT !.at = IF ok THEN "ready" ELSE "idle"] ELSE d
Settled(a) == IF a.at = "recover" THEN NoAck ELSE a

-----------------------------------------------------------------------------
(* The drain loop. *)

\* One turn of the loop, up to its next await.
DrainTurn ==
    /\ drain.at = "ready" \/ (drain.at = "waitAck" /\ ack.at = "none")
    /\ LET st == stream
           next == NextChanges(st)
       IN  IF st.paused \/ st.current = None
           THEN drain' = Idle /\ UNCHANGED <<ack, up>>
           ELSE IF st.pendingSnapshot # None
           THEN IF ack.at # "none"
                THEN drain' = [Idle EXCEPT !.at = "waitAck"] /\ UNCHANGED <<ack, up>>
                ELSE IF st.processed = st.pendingSnapshot /\ st.processed # st.acknowledged
                THEN IF st.processed = st.awaitingReplay
                     THEN drain' = Idle /\ UNCHANGED <<ack, up>>
                     ELSE /\ drain' = [Idle EXCEPT !.at = "acknowledge", !.cursor = st.processed]
                          /\ SendAck("drain", st.processed)
                ELSE /\ drain' = [Idle EXCEPT !.at = "snapshot", !.cursor = st.pendingSnapshot]
                     /\ UNCHANGED <<ack, up>>
           ELSE IF st.awaitingReplay # None
           THEN drain' = Idle /\ UNCHANGED <<ack, up>>
           ELSE IF next = {}
           THEN drain' = Idle /\ AcknowledgeProgress(st)
           ELSE drain' = [Idle EXCEPT !.at = "apply", !.changes = next] /\ UNCHANGED <<ack, up>>
    /\ UNCHANGED <<streamVars, leaseVars, socket, down, channel, task, stream, recovery,
                   missing, incomplete, opened, failures>>

\* FAULT: a list takes the changes before it was read again, and forgets that its read failed.
PatchFailedList ==
    /\ missing' = missing \ drain.changes
    /\ incomplete' = FALSE

\* patchQuery, for a run of changes: a list whose read failed waits for a full read.
PatchList ==
    /\ missing' = IF incomplete THEN missing ELSE missing \ drain.changes
    /\ UNCHANGED incomplete

\* applyChanges returns.  A stale run may have shown its changes or not.
ChangesApplied ==
    /\ drain.at = "apply"
    /\ drain' = [Idle EXCEPT !.at = "ready"]
    /\ IF drain.stale
       THEN /\ PatchList \/ UNCHANGED <<missing, incomplete>>
            /\ UNCHANGED <<stream, ack, up>>
       ELSE /\ PatchList
            /\ stream' = [stream EXCEPT !.processed = Newest(drain.changes),
                                        !.pendingChanges = @ \ drain.changes]
            /\ AcknowledgeProgress(stream')
    /\ UNCHANGED <<streamVars, leaseVars, socket, down, channel, task, recovery, opened,
                   failures>>

\* applyChanges fails: start over from a snapshot.
ApplyFails ==
    /\ drain.at = "apply"
    /\ failures < MaxFailures
    /\ failures' = failures + 1
    /\ IF drain.stale
       THEN /\ drain' = [Idle EXCEPT !.at = "ready"]
            /\ UNCHANGED <<task, stream, ack, recovery, up>>
       ELSE /\ Recover(None, FALSE, channel = "open")
            /\ up' = ReleaseSent
            /\ drain' = [Idle EXCEPT !.at = Awaiting]
            /\ ack' = Overtaken(ack)
    /\ UNCHANGED <<streamVars, leaseVars, socket, down, channel, opened, missing, incomplete>>

\* The reads of a snapshot have ended: the cursor the list was read at, or none when its read failed.
SnapshotEnds(read) ==
    /\ drain.at = "snapshot"
    /\ drain' = [drain EXCEPT !.at = "read", !.changes = read]
    /\ UNCHANGED <<streamVars, leaseVars, wireVars, channel, task, stream, ack, recovery, missing,
                   opened>>

\* The host answers the reads of a snapshot.
SnapshotRead == SnapshotEnds({CurrentCursor(log)}) /\ UNCHANGED <<incomplete, failures>>

\* The read of this workspace's list fails, which does not fail the snapshot: the list keeps the
\* failure (replaceIncompleteList), and the snapshot ends without it.
WorkspaceReadFails ==
    /\ failures < MaxFailures
    /\ failures' = failures + 1
    /\ SnapshotEnds({})
    /\ incomplete' = TRUE

Covers(read, c) == c.epoch < read.epoch \/ (c.epoch = read.epoch /\ c.sequence <= read.sequence)

\* The list shows what was read.
ShowList ==
    /\ missing' = {c \in missing : \A read \in drain.changes : ~Covers(read, c)}
    /\ incomplete' = (incomplete /\ drain.changes = {})

\* The snapshot is processed and its boundary acknowledged if it is still the newest, whether the
\* list was read or not.  One that was overtaken can have shown its lists or not.
SnapshotApplied ==
    /\ drain.at = "read"
    /\ IF drain.stale
       THEN /\ ShowList \/ UNCHANGED <<missing, incomplete>>
            /\ drain' = [Idle EXCEPT !.at = "ready"]
            /\ UNCHANGED <<stream, ack, up>>
       ELSE /\ ShowList
            /\ drain' = [Idle EXCEPT !.at = "acknowledge", !.cursor = drain.cursor]
            /\ stream' = [stream EXCEPT !.processed = drain.cursor]
            /\ SendAck("drain", drain.cursor)
    /\ UNCHANGED <<streamVars, leaseVars, socket, down, channel, task, recovery, opened,
                   failures>>

\* The snapshot as a whole fails: the workflow metadata, or a view of a workspace that is not open.
SnapshotFails ==
    /\ drain.at \in {"snapshot", "read"}
    /\ failures < MaxFailures
    /\ failures' = failures + 1
    /\ IF drain.stale
       THEN /\ drain' = [Idle EXCEPT !.at = "ready"]
            /\ UNCHANGED <<task, stream, recovery, ack, up>>
       ELSE LET shown == stream.processed = drain.cursor
            IN  /\ Recover(IF shown THEN stream.acknowledged ELSE None, shown, channel = "open")
                /\ up' = ReleaseSent
                /\ drain' = [Idle EXCEPT !.at = Awaiting]
                /\ ack' = Overtaken(ack)
    /\ UNCHANGED <<streamVars, leaseVars, socket, down, channel, opened, missing, incomplete>>

-----------------------------------------------------------------------------
(* The task list, outside the stream. *)

\* refreshManually, for a list whose read failed.  It waits for the read of a snapshot (runForRepo).
RefreshSucceeds ==
    /\ incomplete
    /\ drain.at # "read"
    /\ missing' = {}
    /\ incomplete' = FALSE
    /\ UNCHANGED <<streamVars, leaseVars, wireVars, clientVars, failures>>

-----------------------------------------------------------------------------
(* What arrives on the socket. *)

Arrives(message) ==
    /\ socket # 0
    /\ down # <<>>
    /\ message = Head(down)
    /\ down' = Tail(down)
    /\ UNCHANGED <<streamVars, leaseVars, socket, missing, incomplete, failures>>

\* receive: a frame of a replaced subscription, or of none, is dropped.
FrameArrives(message) ==
    /\ message.type = "task_frame"
    /\ Arrives(message)
    /\ LET frame == message.frame
       IN  IF message.lease # stream.current \/ (frame.type = "change" /\ Ignores(stream, frame.cursor))
           THEN UNCHANGED <<stream, drain, ack>>
           ELSE IF frame.type = "snapshot_required"
           THEN /\ stream' = ReceiveSnapshot(stream, frame.cursor)
                /\ drain' = Requested(Overtaken(drain), stream')
                /\ ack' = Overtaken(ack)
           ELSE IF IsForeign(stream, frame.cursor)
           THEN stream' = [stream EXCEPT !.paused = TRUE] /\ UNCHANGED <<drain, ack>>
           ELSE /\ stream' = ReceiveChange(stream, frame.cursor)
                /\ drain' = Requested(drain, stream')
                /\ UNCHANGED ack
    /\ UNCHANGED <<channel, task, recovery, up>>

\* The subscription is acquired: its frames follow the result.
Subscribed(message) ==
    /\ message.type = "result" /\ message.method = "subscribe"
    /\ Arrives(message)
    /\ task' = message.lease
    /\ stream' = [stream EXCEPT !.current = message.lease, !.paused = FALSE]
    /\ recovery' = NoRecovery
    /\ drain' = Requested(Resumed(drain, TRUE), stream')
    /\ ack' = Settled(ack)
    /\ UNCHANGED <<channel, up>>

\* The host refuses the subscription: the acquisition fails, and nothing tries it again.
SubscribeRefused(message) ==
    /\ message.type = "refused" /\ message.method = "subscribe"
    /\ Arrives(message)
    /\ recovery' = NoRecovery
    /\ drain' = Resumed(drain, FALSE)
    /\ ack' = Settled(ack)
    /\ UNCHANGED <<channel, task, stream, up>>

\* restoreDelivery ends, and the channel is open for what waits on it.  A lease whose owner
\* unsubscribed while it attached is released.
Attached(message) ==
    /\ message.type = "result" /\ message.method = "attach"
    /\ Arrives(message)
    /\ channel' = "open"
    /\ up' = IF task = message.lease THEN up ELSE Append(up, ReleaseRequest(message.lease))
    /\ UNCHANGED <<task, stream, drain, ack, recovery>>

\* The host no longer has the lease: onTerminalFailure of its owner.
AttachRefused(message) ==
    /\ message.type = "refused" /\ message.method = "attach"
    /\ Arrives(message)
    /\ channel' = "open"
    /\ IF task # None /\ task = message.lease /\ stream.current = task
       THEN /\ Recover(stream.acknowledged, TRUE, FALSE)
            /\ drain' = Overtaken(drain)
            /\ ack' = Overtaken(ack)
       ELSE UNCHANGED <<task, stream, drain, ack, recovery>>
    /\ UNCHANGED up

\* acknowledge returns: the progress counts if its owner and its snapshot are still the newest.
AckArrives(message) ==
    /\ message.type = "result" /\ message.method = "ack"
    /\ Arrives(message)
    /\ ack' = NoAck
    /\ stream' =
         IF ack.stale THEN stream
         ELSE MarkRecovered([stream EXCEPT !.acknowledged = ack.cursor,
                !.pendingSnapshot = IF ack.by = "drain" THEN None ELSE @])
    /\ drain' = IF ack.by = "drain" THEN [Idle EXCEPT !.at = "ready"] ELSE Requested(drain, stream')
    /\ UNCHANGED <<channel, task, recovery, up>>

\* An acknowledgement fails, over an open channel or one that was lost: subscribe again from the
\* last acknowledged cursor, unless it is stale.
AckFails(open) ==
    IF ack.stale
    THEN /\ ack' = NoAck
         /\ drain' = IF ack.by = "drain" THEN [Idle EXCEPT !.at = "ready"]
                     ELSE Requested(drain, stream)
         /\ UNCHANGED <<task, stream, recovery>>
    ELSE /\ Recover(stream.acknowledged, TRUE, open)
         /\ ack' = IF ack.by = "progress" /\ recovery'.at # "none"
                   THEN [NoAck EXCEPT !.at = "recover", !.by = "progress"] ELSE NoAck
         /\ drain' = IF ack.by = "drain" THEN [Idle EXCEPT !.at = Awaiting] ELSE Overtaken(drain)

AckRefused(message) ==
    /\ message.type = "refused" /\ message.method = "ack"
    /\ Arrives(message)
    /\ AckFails(TRUE)
    /\ up' = IF ack.stale THEN up ELSE ReleaseSent
    /\ UNCHANGED channel

\* The recovery goes on when its subscription is closed, or ends there.
AfterRelease ==
    IF recovery.gaveUp
    THEN recovery' = NoRecovery /\ drain' = Resumed(drain, FALSE)
    ELSE recovery' = [recovery EXCEPT !.at = "waiting", !.lease = None] /\ UNCHANGED drain

Released(message) ==
    /\ message.type = "result" /\ message.method = "release"
    /\ Arrives(message)
    /\ IF recovery.at = "release" /\ recovery.lease = message.lease
       THEN AfterRelease /\ ack' = IF recovery.gaveUp THEN Settled(ack) ELSE ack
       ELSE UNCHANGED <<recovery, drain, ack>>
    /\ UNCHANGED <<channel, task, stream, up>>

MessageArrives ==
    /\ down # <<>>
    /\ LET message == Head(down)
       IN  \/ FrameArrives(message)
           \/ Subscribed(message)
           \/ SubscribeRefused(message)
           \/ Attached(message)
           \/ AttachRefused(message)
           \/ AckArrives(message)
           \/ AckRefused(message)
           \/ Released(message)
    /\ UNCHANGED opened

\* withOpen: what waited for the channel is sent.
SendWaiting ==
    /\ channel = "open"
    /\ \/ /\ ack.at = "waiting"
          /\ ack' = [ack EXCEPT !.at = "sent"]
          /\ up' = Append(up, AckRequest(ack.lease, ack.cursor))
          /\ UNCHANGED recovery
       \/ /\ recovery.at = "waiting"
          /\ recovery' = [recovery EXCEPT !.at = "sent"]
          /\ up' = Append(up, SubscribeRequest(recovery.cursor))
          /\ UNCHANGED ack
    /\ UNCHANGED <<streamVars, leaseVars, socket, down, channel, task, stream, drain,
                   opened, missing, incomplete, failures>>

-----------------------------------------------------------------------------
(* The channel. *)

\* connect: a new socket, and an attach request for the lease the channel has.
OpenSocket ==
    /\ socket = 0
    /\ opened < MaxSockets
    /\ opened' = opened + 1
    /\ socket' = opened + 1
    /\ sockets' = [sockets EXCEPT ![opened + 1] = NoLeases]
    /\ channel' = IF task = None THEN "open" ELSE "attaching"
    /\ up' = IF task = None THEN <<>> ELSE <<AttachRequest(task)>>
    /\ UNCHANGED <<streamVars, leases, down, task, stream, drain, ack, recovery, missing, incomplete,
                   failures>>

\* The client loses its socket, whether the host closed it or not: what it sent and what was sent
\* to it is gone, and every request that awaits an answer or the channel fails.
LoseSocket ==
    /\ socket # 0
    /\ opened < MaxSockets
    /\ socket' = 0
    /\ up' = <<>>
    /\ down' = <<>>
    /\ channel' = "down"
    /\ IF recovery.at \in {"waiting", "sent"}
       THEN /\ recovery' = NoRecovery
            /\ drain' = IF ack.at # "none" /\ ack.by = "drain" THEN [Idle EXCEPT !.at = "ready"]
                        ELSE Resumed(drain, FALSE)
            /\ ack' = NoAck
            /\ UNCHANGED <<task, stream>>
       ELSE IF recovery.at = "release"
       THEN /\ AfterRelease
            /\ ack' = IF ack.at \in {"waiting", "sent"} \/ recovery.gaveUp THEN NoAck ELSE ack
            /\ UNCHANGED <<task, stream>>
       ELSE IF ack.at # "none"
       THEN AckFails(FALSE)
       ELSE UNCHANGED <<task, stream, drain, ack, recovery>>
    /\ UNCHANGED <<streamVars, leaseVars, opened, missing, incomplete, failures>>

-----------------------------------------------------------------------------
(* The host, as the client sees it. *)

\* A subscription id is never used twice: the ids are the ones the client has forgotten.
Fresh(s) ==
    /\ s \notin {task, stream.current, ack.lease, recovery.lease}
    /\ \A i \in DOMAIN up : up[i].lease # s
    /\ \A i \in DOMAIN down : down[i].lease # s

PublishChange ==
    /\ Publish
    /\ missing' = missing \cup {CurrentCursor(log')}
    /\ UNCHANGED <<leaseVars, wireVars, clientVars, incomplete, failures>>

ResetStream ==
    /\ Reset
    /\ missing' = missing \cup {CurrentCursor(log')}
    /\ UNCHANGED <<leaseVars, wireVars, clientVars, incomplete, failures>>

\* The host process ends and starts again: its leases, its subscriptions and its sockets are gone.
RestartProcess ==
    /\ opened < MaxSockets
    /\ RestartHost
    /\ leases' = [s \in Subs |-> None]
    /\ sockets' = [k \in SocketId |-> None]
    /\ UNCHANGED <<wireVars, clientVars, missing, incomplete, failures>>

HostRest == UNCHANGED <<clientVars, missing, incomplete, failures>>

HandleNext == HandleRequest({s \in Subs : Fresh(s)}) /\ HostRest
WriteNext(s) == (WriteFrame(s) \/ RefuseFrame(s)) /\ HostRest
DrainNext(s) == DrainSocket(s) /\ HostRest
ExpireNext(s) == Expire(s) /\ HostRest

\* The host closes a socket, before or after the client lost it.
HostClosesSocket(k) ==
    /\ k # socket \/ opened < MaxSockets
    /\ CloseSocket(k)
    /\ UNCHANGED <<clientVars, missing, incomplete, failures>>

Init ==
    /\ LeaseInit
    /\ channel = "down"
    /\ task = None
    /\ stream = [current |-> None, processed |-> None, acknowledged |-> None,
                 awaitingReplay |-> None, pendingSnapshot |-> None, pendingChanges |-> {},
                 paused |-> FALSE, recoveryUsed |-> FALSE]
    /\ drain = Idle
    /\ ack = NoAck
    /\ recovery = [NoRecovery EXCEPT !.at = "waiting"]
    /\ missing = {}
    /\ incomplete = FALSE
    /\ opened = 0
    /\ failures = 0

ClientWork ==
    \/ MessageArrives
    \/ SendWaiting
    \/ DrainTurn
    \/ ChangesApplied
    \/ SnapshotRead
    \/ SnapshotApplied
    \/ OpenSocket

Next ==
    \/ PublishChange
    \/ ResetStream
    \/ RestartProcess
    \/ HandleNext
    \/ \E s \in Subs : WriteNext(s) \/ DrainNext(s) \/ ExpireNext(s)
    \/ \E k \in SocketId : HostClosesSocket(k)
    \/ ClientWork
    \/ ApplyFails
    \/ SnapshotFails
    \/ WorkspaceReadFails
    \/ RefreshSucceeds
    \/ LoseSocket

Spec == Init /\ [][Next]_vars

\* A client that still uses a socket the host has closed gets its close event.
NoticeClose == socket # 0 /\ sockets[socket] = None /\ LoseSocket

\* Both sides go on with what they have to do.  Nothing is assumed of publications, expiries,
\* failures, losses of a working socket, and restarts.
Fairness ==
    /\ WF_vars(HandleNext)
    /\ \A s \in Subs : WF_vars(WriteNext(s)) /\ WF_vars(DrainNext(s))
    /\ WF_vars(MessageArrives)
    /\ WF_vars(SendWaiting)
    /\ WF_vars(DrainTurn)
    /\ WF_vars(ChangesApplied)
    /\ WF_vars(SnapshotRead)
    /\ WF_vars(SnapshotApplied)
    /\ WF_vars(OpenSocket)
    /\ WF_vars(NoticeClose)

FairSpec == Spec /\ Fairness

-----------------------------------------------------------------------------
(* Properties. *)

\* What the client acknowledged it has processed, and the host forgets no more than that.
AcknowledgedIsProcessed ==
    /\ stream.acknowledged # None => Covers(stream.processed, stream.acknowledged)
    /\ \A s \in Subs :
         (s = stream.current /\ subs[s] # None /\ subs[s].lastAcknowledged # None)
            => Covers(stream.processed, subs[s].lastAcknowledged)

\* The lease of an open channel stays connected to its socket.
OpenChannelKeepsItsLease ==
    (channel = "open" /\ task # None /\ sockets[socket] # None /\ leases[task] # None)
        => leases[task].connection # None /\ leases[task].connection.sink = socket

\* The client stopped: it has no subscription and acquires none.
Stopped == stream.current = None /\ recovery.at = "none"

\* When the host publishes no more and nothing fails any more, the task list shows every change,
\* reports that its own read failed, or the client has reported that its stream stopped.
CatchesUp == <>[](missing = {} \/ incomplete \/ Stopped)

Feed == INSTANCE TaskFeed WITH published <- CurrentCursor(log), processed <- stream.processed,
                               failed <- incomplete

\* What the client processes it shows, and a failed read of its list stays visible until another
\* read makes up for everything processed in the meantime.
FeedSpec == Feed!Spec

UsesStream == StreamSpec

\* docs/web-runner.md:136: a lease that the host no longer has makes the stream subscribe again.
LostLease == down # <<>> /\ Head(down).type = "refused" /\ Head(down).method = "attach"
                /\ Head(down).lease = task
LostLeaseSubscribesAgain ==
    [][(LostLease /\ MessageArrives) => recovery'.at = "waiting"]_vars

=============================================================================
