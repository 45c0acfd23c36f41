-------------------------- MODULE TaskEventStream --------------------------
(***************************************************************************)
(* The task event stream of the host (host/src/events/task-event-stream.ts) *)
(* One process numbers the task changes it publishes, keeps the newest of  *)
(* them for replay, and gives every subscriber either each change in order *)
(* or a frame that tells it to load a snapshot.                            *)
(*                                                                         *)
(* The stream is synchronous but for its microtasks: an enqueued frame is  *)
(* handed to the sink by a microtask that runs after the operation that    *)
(* queued it.  A task event is only its number: what it says is left out.  *)
(* The byte budget of the replay buffer is abstract: a publication may     *)
(* evict any number of frames that leaves no more than Capacity of them,   *)
(* the new frame included, since one card can exceed the whole budget.     *)
(***************************************************************************)
EXTENDS Integers, Sequences, FiniteSets

CONSTANTS
    Subs,          \* the subscription ids
    None,          \* no cursor, no subscription
    Capacity,      \* the frames the replay buffer can hold
    MaxSequence,   \* bound: the changes and resets of one host process
    MaxEpochs      \* bound: the host processes, one after the other

ASSUME StreamAssumption ==
    /\ Capacity \in Nat \ {0}
    /\ MaxSequence \in Nat
    /\ MaxEpochs \in Nat \ {0}
    /\ None \notin [epoch : Nat, sequence : Nat]

VARIABLES
    log,    \* epoch, sequence, replayFloor and buffer of the running host process
    subs    \* the subscription behind each id, None when it is not active

streamVars == <<log, subs>>

Cursor == [epoch : 1..MaxEpochs, sequence : 0..MaxSequence]
Frame == [type : {"change", "snapshot_required"}, cursor : Cursor]
Log == [epoch : 1..MaxEpochs, sequence : 0..MaxSequence,
        replayFloor : 0..MaxSequence, buffer : Seq(Frame)]
Subscription ==
    [highestDelivered : Cursor \cup {None}, lastAcknowledged : Cursor \cup {None},
     queue : Seq(Frame), scheduled : BOOLEAN, snapshotBoundary : Cursor \cup {None}]

StreamTypeOK ==
    /\ log \in Log
    /\ subs \in [Subs -> Subscription \cup {None}]

At(e, n) == [epoch |-> e, sequence |-> n]
Change(cursor) == [type |-> "change", cursor |-> cursor]
SnapshotRequired(cursor) == [type |-> "snapshot_required", cursor |-> cursor]

CurrentCursor(l) == At(l.epoch, l.sequence)

CanReplayFrom(l, cursor) ==
    /\ cursor.epoch = l.epoch
    /\ cursor.sequence <= l.sequence
    /\ cursor.sequence >= l.replayFloor

\* The frames that follow a sequence number; frames are kept in ascending order.
After(frames, n) ==
    LET passed == {i \in DOMAIN frames : frames[i].cursor.sequence <= n}
    IN  SubSeq(frames, Cardinality(passed) + 1, Len(frames))

-----------------------------------------------------------------------------
(* Operators on one subscription. *)

\* The microtask that drains the queue runs once, however often it is asked for.
Resume(sub) == [sub EXCEPT !.scheduled = @ \/ sub.queue # <<>>]

Enqueue(sub, frames) == Resume([sub EXCEPT !.queue = @ \o frames])

EnqueueSnapshot(l, sub) ==
    IF sub.snapshotBoundary # None
    THEN sub
    ELSE Enqueue([sub EXCEPT !.snapshotBoundary = CurrentCursor(l), !.queue = <<>>],
                 <<SnapshotRequired(CurrentCursor(l))>>)

EnqueueReplay(l, sub) ==
    IF sub.lastAcknowledged = None
    THEN EnqueueSnapshot(l, sub)
    ELSE IF CanReplayFrom(l, sub.lastAcknowledged)
         THEN Enqueue(sub, After(l.buffer, sub.lastAcknowledged.sequence))
         ELSE EnqueueSnapshot(l, sub)

\* FAULT: retention is measured from the newest delivered frame, not from the oldest that waits.
DeliveryProgressOfDelivered(l, sub) ==
    IF sub.highestDelivered # None THEN sub.highestDelivered ELSE sub.lastAcknowledged

\* How far the sink is: the frame before the oldest that waits, or the newest delivered one.
DeliveryProgress(l, sub) ==
    IF sub.queue # <<>> THEN At(l.epoch, sub.queue[1].cursor.sequence - 1)
    ELSE IF sub.highestDelivered # None THEN sub.highestDelivered
    ELSE sub.lastAcknowledged

\* What a publication does to one subscription, in the log that holds the frame already.
Offer(l, frame, sub) ==
    IF sub = None THEN None
    ELSE IF sub.snapshotBoundary # None THEN sub
    ELSE IF /\ sub.lastAcknowledged # None
            /\ CanReplayFrom(l, DeliveryProgress(l, sub))
         THEN Enqueue(sub, <<frame>>)
         ELSE EnqueueSnapshot(l, sub)

NewSubscription(l, cursor) ==
    LET sub == [highestDelivered |-> cursor,
                lastAcknowledged |-> IF cursor # None /\ cursor.epoch = l.epoch
                                     THEN cursor ELSE None,
                queue |-> <<>>, scheduled |-> FALSE, snapshotBoundary |-> None]
    IN  EnqueueReplay(l, sub)

\* FAULT: a reconnected sink is not given the open snapshot boundary again.
ReplayWithoutBoundary(l, sub) ==
    IF sub.snapshotBoundary # None THEN sub ELSE EnqueueReplay(l, [sub EXCEPT !.queue = <<>>])

\* The replay of a reconnected sink starts from the acknowledged frames.
Replay(l, sub) ==
    LET cleared == [sub EXCEPT !.queue = <<>>]
    IN  IF sub.snapshotBoundary # None
        THEN Enqueue(cleared, <<SnapshotRequired(sub.snapshotBoundary)>>)
        ELSE EnqueueReplay(l, cleared)

\* highestDelivered only falls back to an earlier cursor for a snapshot.
Delivered(l, sub, frame) ==
    LET previous == sub.highestDelivered
        moves == \/ frame.type = "snapshot_required"
                 \/ previous = None
                 \/ previous # None /\ previous.epoch # l.epoch
                 \/ previous # None /\ previous.sequence < frame.cursor.sequence
    IN  IF moves THEN frame.cursor ELSE previous

AckAccepted(l, sub, cursor) ==
    /\ cursor.epoch = l.epoch
    /\ IF sub.snapshotBoundary # None
       THEN /\ sub.highestDelivered = sub.snapshotBoundary
            /\ cursor = sub.snapshotBoundary
       ELSE /\ sub.lastAcknowledged # None
            /\ cursor.sequence >= sub.lastAcknowledged.sequence
            /\ \/ cursor = sub.lastAcknowledged
               \/ /\ sub.highestDelivered # None
                  /\ cursor.sequence <= sub.highestDelivered.sequence

\* FAULT: what was published while the snapshot boundary was open is not queued.
AcknowledgedWithoutReplay(l, sub, cursor) ==
    IF sub.snapshotBoundary # None
    THEN [sub EXCEPT !.lastAcknowledged = cursor, !.snapshotBoundary = None]
    ELSE [sub EXCEPT !.lastAcknowledged = cursor, !.queue = After(@, cursor.sequence)]

Acknowledged(l, sub, cursor) ==
    IF sub.snapshotBoundary # None
    THEN EnqueueReplay(l, [sub EXCEPT !.lastAcknowledged = cursor, !.snapshotBoundary = None])
    ELSE IF cursor = sub.lastAcknowledged THEN sub
    ELSE [sub EXCEPT !.lastAcknowledged = cursor,
                     !.queue = After(@, cursor.sequence)]

-----------------------------------------------------------------------------
(* The operations. *)

\* publish: number the change, keep it, evict the oldest frames, offer it to everybody.
Publish ==
    /\ log.sequence < MaxSequence
    /\ LET frame == Change(At(log.epoch, log.sequence + 1))
           buffer == Append(log.buffer, frame)
       IN  \E evicted \in 0..Len(buffer) :
            /\ Len(buffer) - evicted <= Capacity
            /\ log' = [log EXCEPT
                 !.sequence = @ + 1,
                 !.buffer = SubSeq(buffer, evicted + 1, Len(buffer)),
                 !.replayFloor = IF evicted = 0 THEN @ ELSE buffer[evicted].cursor.sequence]
            /\ subs' = [s \in Subs |-> Offer(log', frame, subs[s])]

\* reset: what was published is void, and everybody loads a snapshot.  The port offers it; nothing in
\* the host calls it today.
Reset ==
    /\ log.sequence < MaxSequence
    /\ log' = [log EXCEPT !.sequence = @ + 1, !.replayFloor = log.sequence + 1, !.buffer = <<>>]
    /\ subs' = [s \in Subs |->
                  IF subs[s] = None THEN None
                  ELSE EnqueueSnapshot(log', [subs[s] EXCEPT !.snapshotBoundary = None])]

Subscribe(s, cursor) ==
    /\ subs[s] = None
    /\ subs' = [subs EXCEPT ![s] = NewSubscription(log, cursor)]
    /\ UNCHANGED log

Unsubscribe(s) ==
    /\ subs[s] # None
    /\ subs' = [subs EXCEPT ![s] = None]
    /\ UNCHANGED log

Acknowledge(s, cursor) ==
    /\ subs[s] # None
    /\ AckAccepted(log, subs[s], cursor)
    /\ subs' = [subs EXCEPT ![s] = Acknowledged(log, @, cursor)]
    /\ UNCHANGED log

ReplayFrom(s) ==
    /\ subs[s] # None
    /\ subs' = [subs EXCEPT ![s] = Replay(log, @)]
    /\ UNCHANGED log

ResumeDelivery(s) ==
    /\ subs[s] # None
    /\ subs' = [subs EXCEPT ![s] = Resume(@)]
    /\ UNCHANGED log

\* A microtask is due when it is scheduled and has a frame; the queue can have been emptied since.
Draining(s) == subs[s] # None /\ subs[s].scheduled

\* One frame of the microtask.  The frames of one microtask are separate steps: only the queue's
\* other end can change between them, and the microtask runs until the queue is empty.
DeliverFrame(s) ==
    /\ Draining(s)
    /\ subs[s].queue # <<>>
    /\ LET sub == subs[s]
       IN  subs' = [subs EXCEPT ![s] = [sub EXCEPT
             !.highestDelivered = Delivered(log, sub, Head(sub.queue)),
             !.queue = Tail(sub.queue),
             !.scheduled = Tail(sub.queue) # <<>>]]
    /\ UNCHANGED log

\* The sink takes no frame now, or the queue is empty: the frame keeps its place.
StopDraining(s) ==
    /\ Draining(s)
    /\ subs' = [subs EXCEPT ![s].scheduled = FALSE]
    /\ UNCHANGED log

\* The sink throws: the subscription ends.
FailDelivery(s) ==
    /\ Draining(s)
    /\ subs[s].queue # <<>>
    /\ subs' = [subs EXCEPT ![s] = None]
    /\ UNCHANGED log

EmptyLog(e) == [epoch |-> e, sequence |-> 0, replayFloor |-> 0, buffer |-> <<>>]

\* Another host process starts: a new epoch, and no subscription.
RestartHost ==
    /\ log.epoch < MaxEpochs
    /\ log' = EmptyLog(log.epoch + 1)
    /\ subs' = [s \in Subs |-> None]

StreamInit ==
    /\ log = EmptyLog(1)
    /\ subs = [s \in Subs |-> None]

StreamNext ==
    \/ Publish
    \/ Reset
    \/ RestartHost
    \/ \E s \in Subs :
        \/ \E cursor \in {None} \cup {c \in Cursor : c.epoch <= log.epoch
                                          /\ (c.epoch = log.epoch => c.sequence <= log.sequence)} :
              Subscribe(s, cursor)
        \/ \E cursor \in Cursor : Acknowledge(s, cursor)
        \/ Unsubscribe(s)
        \/ ReplayFrom(s)
        \/ ResumeDelivery(s)
        \/ DeliverFrame(s)
        \/ StopDraining(s)
        \/ FailDelivery(s)

StreamSpec == StreamInit /\ [][StreamNext]_streamVars

-----------------------------------------------------------------------------
(* What the stream promises. *)

\* The frames with the numbers from m to n, in order.
Run(e, m, n) == [i \in 1..(IF n < m THEN 0 ELSE n - m + 1) |-> Change(At(e, m + i - 1))]

\* The buffer holds every change after the replay floor, in order and without a gap.
BufferIsContiguous ==
    log.buffer = Run(log.epoch, log.replayFloor + 1, log.sequence)

\* The queue holds every change from number m on, and no change between the last delivered one
\* and m is left out.  A boundary frame that was queued again while its first delivery was being
\* acknowledged can stand before them.
ContinuesAt(sub, m) ==
    LET rest == Run(log.epoch, m, log.sequence)
    IN  /\ log.replayFloor < m
        /\ sub.highestDelivered # None
        /\ sub.highestDelivered.epoch = log.epoch
        /\ \/ sub.queue = rest /\ m <= sub.highestDelivered.sequence + 1
           \/ sub.queue = <<SnapshotRequired(At(log.epoch, m - 1))>> \o rest

\* task-event-stream.ts:185, 288: whatever is evicted, acknowledged and replayed, a subscriber with
\* no open snapshot boundary has been given or is about to be given every change after the last one
\* it has, in order; one with an open boundary is about to be given it, or has it.
NoChangeIsSkipped ==
    \A s \in Subs : subs[s] # None =>
        IF subs[s].snapshotBoundary = None
        THEN \E m \in 1..(log.sequence + 1) : ContinuesAt(subs[s], m)
        ELSE \/ subs[s].queue = <<SnapshotRequired(subs[s].snapshotBoundary)>>
             \/ subs[s].queue = <<>> /\ subs[s].highestDelivered = subs[s].snapshotBoundary

\* task-event-stream.ts:197: however slow its sink, and whatever is replayed to it, a subscriber keeps
\* no change that the replay buffer has dropped, and its queue has a bound.
QueueIsBounded ==
    \A s \in Subs : subs[s] # None =>
        /\ Len(subs[s].queue) <= Capacity + 1
        /\ \A i \in DOMAIN subs[s].queue : subs[s].queue[i].type = "change" =>
             \E j \in DOMAIN log.buffer : log.buffer[j] = subs[s].queue[i]

=============================================================================
