-------------------- MODULE TaskStreamControllerProofs --------------------
(***************************************************************************)
(* Theorems about TaskStreamController for every number of subscriptions,  *)
(* sockets, changes and host processes: the client and the leases only use *)
(* the stream as TaskEventStream allows, the lease of an open channel stays *)
(* connected, and the client implements TaskFeed.                          *)
(*                                                                         *)
(* That the processed cursor never moves back is not inductive.  A snapshot *)
(* moves it wherever the snapshot frame says, so the invariant follows the *)
(* frames: no frame on its way to the client, and no boundary or waiting   *)
(* boundary frame of its subscription, is older than anything that can     *)
(* reach the client before it (Ordered).                                   *)
(***************************************************************************)
EXTENDS TaskStreamController, TaskEventStreamProofs

-----------------------------------------------------------------------------
(* The inductive invariant *)

\* The cursors up to the newest change or reset of the host.
Past == {c \in Cursor : Covers(CurrentCursor(log), c)}

StreamOf(C) ==
    [current : Subs \cup {None}, processed : C \cup {None}, acknowledged : C \cup {None},
     awaitingReplay : C \cup {None}, pendingSnapshot : C \cup {None},
     pendingChanges : SUBSET C, paused : BOOLEAN, recoveryUsed : BOOLEAN]
DrainOf(C) ==
    [at : {"idle", "ready", "waitAck", "apply", "snapshot", "read", "acknowledge", "recover"},
     changes : SUBSET C, cursor : C \cup {None}, stale : BOOLEAN]
AckOf(C) ==
    [at : {"none", "waiting", "sent", "recover"}, by : {"drain", "progress"},
     lease : Subs \cup {None}, cursor : C \cup {None}, stale : BOOLEAN]
RecoveryOf(C) ==
    [at : {"none", "release", "waiting", "sent"}, lease : Subs \cup {None},
     cursor : C \cup {None}, gaveUp : BOOLEAN]

\* What the client knows of cursors is past.
ClientOf(C) ==
    /\ stream \in StreamOf(C) /\ drain \in DrainOf(C)
    /\ ack \in AckOf(C) /\ recovery \in RecoveryOf(C)
    /\ missing \subseteq C /\ incomplete \in BOOLEAN
    /\ channel \in {"down", "attaching", "open"} /\ task = stream.current
    /\ opened \in 0 .. MaxSockets /\ failures \in 0 .. MaxFailures

\* A request names a lease unless it subscribes; an answer names one unless it refuses that.
RequestOf(C) ==
    [method : {"attach", "release"}, lease : Subs, cursor : {None}]
    \cup [method : {"ack"}, lease : Subs, cursor : C]
    \cup [method : {"subscribe"}, lease : {None}, cursor : C \cup {None}]
MessageOf(C) ==
    [type : {"result"}, method : {"subscribe", "attach", "ack", "release"}, lease : Subs]
    \cup [type : {"refused"}, method : {"attach", "ack"}, lease : Subs]
    \cup [type : {"refused"}, method : {"subscribe"}, lease : {None}]
    \cup [type : {"task_frame"}, lease : Subs, frame : [type : {"change", "snapshot_required"},
                                                        cursor : C]]

WireOf(C) ==
    /\ up \in Seq(RequestOf(C)) /\ down \in Seq(MessageOf(C))
    /\ socket \in 0 .. opened
    /\ socket = 0 => up = <<>> /\ down = <<>>
    /\ socket = 0 <=> channel = "down"

\* A lease is connected to a socket exactly when the socket receives it, under one generation.  No
\* socket attaches a lease twice.
LeasesType ==
    /\ leases \in [Subs -> [connection : Connection \cup {None}, nextGeneration : Generation,
                            expires : BOOLEAN] \cup {None}]
    /\ sockets \in [SocketId -> [Subs -> {0} \cup Generation] \cup {None}]

ConnectedTo(s, k) ==
    leases[s] # None /\ leases[s].connection # None /\ leases[s].connection.sink = k

Wired ==
    /\ \A s \in Subs : leases[s] = None <=> subs[s] = None
    /\ \A s \in Subs : leases[s] # None => leases[s].nextGeneration <= opened
    /\ \A k \in SocketId : k > opened => sockets[k] = None
    /\ \A s \in Subs, k \in SocketId : ConnectedTo(s, k) => sockets[k] # None
    /\ \A s \in Subs, k \in SocketId : sockets[k] # None =>
         sockets[k][s] = IF ConnectedTo(s, k) THEN leases[s].connection.generation ELSE 0

\* At most one attachment, one acknowledgement and one subscription is under way.
Answers(m, method) == m.type \in {"result", "refused"} /\ m.method = method

Single(u, d, method) ==
    /\ \A i, j \in DOMAIN u : u[i].method = method /\ u[j].method = method => i = j
    /\ \A i, j \in DOMAIN d : Answers(d[i], method) /\ Answers(d[j], method) => i = j
    /\ \A i \in DOMAIN u, j \in DOMAIN d : ~(u[i].method = method /\ Answers(d[j], method))

UnderWay(u, d, method) ==
    \/ \E i \in DOMAIN u : u[i].method = method
    \/ \E j \in DOMAIN d : Answers(d[j], method)

Exchanges ==
    /\ Single(up, down, "attach") /\ Single(up, down, "ack") /\ Single(up, down, "subscribe")
    /\ UnderWay(up, down, "attach") => channel = "attaching"
    /\ UnderWay(up, down, "ack") => ack.at = "sent"
    /\ UnderWay(up, down, "subscribe") => recovery.at = "sent" /\ channel = "open"

\* The attachment under way is the client's own, unless that has given up its lease; the lease has
\* had no generation of this socket.
Attaching ==
    /\ \A i \in DOMAIN up : up[i].method = "attach" =>
         /\ task \in {None, up[i].lease}
         /\ leases[up[i].lease] # None => leases[up[i].lease].nextGeneration < opened
    /\ \A j \in DOMAIN down : Answers(down[j], "attach") => task \in {None, down[j].lease}

\* Who awaits what: the owner of a job that is not stale is the current subscription.
Owners ==
    /\ recovery.at # "none" => stream.current = None
    /\ recovery.at = "release" => recovery.lease # None
    /\ drain.at \in {"apply", "snapshot", "read"} /\ ~drain.stale => stream.current # None
    /\ drain.at \in {"snapshot", "read"} => ack.at = "none" /\ drain.cursor # None
    /\ drain.at = "read" /\ drain.changes # {} =>
         \E read \in Past : drain.changes = {read} /\ Covers(read, drain.cursor)
    /\ ack.at \in {"waiting", "sent"} => ack.lease # None /\ ack.cursor # None
    /\ ack.at \in {"waiting", "sent"} /\ ~ack.stale => stream.current # None
    /\ ack.at = "recover" => recovery.at # "none"

\* The lease of an open channel, or of one that is about to open, is connected to the socket.
Here(s) == (leases[s] # None /\ sockets[socket] # None) => ConnectedTo(s, socket)

Connected ==
    /\ channel = "open" /\ task # None => Here(task)
    /\ \A j \in DOMAIN down :
         down[j].type = "result" /\ down[j].method \in {"subscribe", "attach"} => Here(down[j].lease)

\* The cursors up to which the client has processed the stream.
Done(c) == c # None => stream.processed # None /\ Covers(stream.processed, c)

\* Everything the client or its host counts as acknowledged is processed.
Processed ==
    /\ Done(stream.acknowledged) /\ Done(ack.cursor) /\ Done(recovery.cursor)
    /\ \A i \in DOMAIN up : Done(up[i].cursor)
    /\ \A s \in Subs : subs[s] # None => Done(subs[s].lastAcknowledged)

\* What the client has taken from the stream.
Taken ==
    ({stream.processed, stream.pendingSnapshot, drain.cursor} \ {None})
    \cup stream.pendingChanges \cup {c \in drain.changes : drain.at = "apply"}

IsFrame(m, s) == m.type = "task_frame" /\ m.lease = s
Coming(s) == {down[j].frame.cursor : j \in {i \in DOMAIN down : IsFrame(down[i], s)}}

\* The boundary of a subscription and the boundary frames that wait for it.
Boundaries(sub) ==
    ({sub.snapshotBoundary} \ {None})
    \cup {sub.queue[i].cursor : i \in {j \in DOMAIN sub.queue :
                                           sub.queue[j].type = "snapshot_required"}}

\* The subscription whose frames the client takes, now or when it gets the result.
Followed(s) ==
    \/ s = stream.current
    \/ \E j \in DOMAIN down : Answers(down[j], "subscribe") /\ down[j].lease = s

OrderedFor(s) ==
    /\ subs[s] # None =>
         \A b \in Boundaries(subs[s]) : \A c \in Taken \cup Coming(s) : Covers(b, c)
    /\ \A j \in DOMAIN down :
         IsFrame(down[j], s) /\ down[j].frame.type = "snapshot_required" =>
           /\ \A c \in Taken : Covers(down[j].frame.cursor, c)
           /\ \A i \in DOMAIN down :
                i < j /\ IsFrame(down[i], s) => Covers(down[j].frame.cursor, down[i].frame.cursor)

Ordered == \A s \in Subs : Followed(s) => OrderedFor(s)

\* The drain loop moves the processed cursor forward, over what it shows or beside a list whose read
\* failed.
Forward ==
    /\ stream.pendingSnapshot # None /\ stream.processed # None =>
         Covers(stream.pendingSnapshot, stream.processed)
    /\ drain.at \in {"snapshot", "read"} /\ ~drain.stale =>
         /\ stream.pendingSnapshot \in {drain.cursor, None}
         /\ stream.processed # None => Covers(drain.cursor, stream.processed)
    /\ drain.at = "apply" /\ ~drain.stale =>
         /\ stream.pendingSnapshot = None /\ stream.processed # None
         /\ drain.changes # {}
         /\ \A c \in drain.changes :
              /\ c.epoch = stream.processed.epoch /\ c.sequence > stream.processed.sequence
              /\ \A n \in (stream.processed.sequence + 1) .. c.sequence :
                   At(c.epoch, n) \in drain.changes
    /\ drain.at = "read" =>
         /\ drain.changes = {} => incomplete
         /\ stream.processed # None => \A read \in drain.changes : Covers(read, stream.processed)
    /\ stream.processed # None /\ ~incomplete => \A c \in missing : ~Covers(stream.processed, c)

TypeInv ==
    /\ StreamInv /\ ClientOf(Past) /\ WireOf(Past) /\ LeasesType

ClientInv ==
    /\ TypeInv /\ Wired /\ Exchanges /\ Attaching /\ Owners /\ Connected
    /\ Processed /\ Ordered /\ Forward

-----------------------------------------------------------------------------
(* Cursors *)

LEMMA CoversFacts ==
    /\ \A c \in Cursor : Covers(c, c)
    /\ \A b, c, d \in Cursor : Covers(b, c) /\ Covers(c, d) => Covers(b, d)
    /\ \A c, d \in Cursor : Covers(c, d) \/ Covers(d, c)
    /\ \A c, d \in Cursor : Covers(c, d) /\ Covers(d, c) => c = d
BY StreamAssumption DEF StreamAssumption, Covers, Cursor

LEMMA PastFacts ==
    ASSUME StreamInv
    PROVE /\ CurrentCursor(log) \in Past /\ Past \subseteq Cursor /\ None \notin Past
          /\ log.epoch \in 1 .. MaxEpochs /\ log.sequence \in 0 .. MaxSequence
          /\ \A c \in Cursor : c \in Past <=> Covers(CurrentCursor(log), c)
          /\ \A c \in Cursor :
               c \in Past <=> c.epoch <= log.epoch /\ (c.epoch = log.epoch => c.sequence <= log.sequence)
<1>1. /\ CurrentCursor(log) \in Cursor /\ CurrentCursor(log).epoch = log.epoch
      /\ CurrentCursor(log).sequence = log.sequence
      /\ log.epoch \in 1 .. MaxEpochs /\ log.sequence \in 0 .. MaxSequence
  BY LogFacts DEF StreamInv
<1>2. \A c \in Cursor : Covers(CurrentCursor(log), c) <=>
          c.epoch <= log.epoch /\ (c.epoch = log.epoch => c.sequence <= log.sequence)
  BY <1>1, StreamAssumption DEF Covers, Cursor, StreamAssumption
<1> QED BY <1>1, <1>2, CoversFacts, CursorFacts DEF Past

\* The log only moves forward.
LEMMA PastGrows ==
    ASSUME StreamInv, StreamInv', [StreamNext]_streamVars
    PROVE /\ Past \subseteq Past' /\ Covers(CurrentCursor(log'), CurrentCursor(log))
          /\ log' = log => Past' = Past
<1>1. /\ log.epoch \in 1 .. MaxEpochs /\ log.sequence \in 0 .. MaxSequence
      /\ log'.epoch \in 1 .. MaxEpochs /\ log'.sequence \in 0 .. MaxSequence
      /\ CurrentCursor(log) \in Cursor /\ CurrentCursor(log') \in Cursor
      /\ CurrentCursor(log).epoch = log.epoch /\ CurrentCursor(log).sequence = log.sequence
      /\ CurrentCursor(log').epoch = log'.epoch /\ CurrentCursor(log').sequence = log'.sequence
  BY LogFacts DEF StreamInv
<1>2. log' = log \/ log'.epoch > log.epoch
        \/ (log'.epoch = log.epoch /\ log'.sequence = log.sequence + 1)
  <2>1. log \in Log
    BY DEF StreamInv, LogInv
  <2>2. CASE Publish
    BY <2>1, <2>2 DEF Publish, Log
  <2>3. CASE Reset
    BY <2>1, <2>3 DEF Reset, Log
  <2>4. CASE RestartHost
    BY <1>1, <2>4, StreamAssumption DEF RestartHost, EmptyLog, StreamAssumption
  <2>5. CASE UNCHANGED log
    BY <2>5
  <2> QED BY <2>2, <2>3, <2>4, <2>5 DEF StreamNext, streamVars, Subscribe, Unsubscribe, Acknowledge,
         ReplayFrom, ResumeDelivery, DeliverFrame, StopDraining, FailDelivery
<1>3. Covers(CurrentCursor(log'), CurrentCursor(log))
  BY <1>1, <1>2, StreamAssumption DEF Covers, StreamAssumption
<1>4. Past \subseteq Past'
  BY <1>1, <1>3, CoversFacts DEF Past
<1> QED BY <1>3, <1>4 DEF Past

-----------------------------------------------------------------------------
(* Every step uses the stream as it allows *)

LEMMA ResumeTwice ==
    ASSUME StreamInv, NEW cursor \in Cursor \cup {None}
    PROVE Resume(NewSubscription(log, cursor)) = NewSubscription(log, cursor)
<1> DEFINE Entries(queues) == [highestDelivered : Cursor \cup {None},
                lastAcknowledged : Cursor \cup {None}, queue : queues, scheduled : BOOLEAN,
                snapshotBoundary : Cursor \cup {None}]
<1>1. ASSUME NEW sub \in Entries({<<>>}), NEW frames
      PROVE Resume(Enqueue(sub, frames)) = Enqueue(sub, frames)
  <2> DEFINE q == <<>> \o frames
             z == [sub EXCEPT !.queue = q]
             e == Resume(z)
  <2>1. Enqueue(sub, frames) = e
    BY DEF Enqueue
  <2> HIDE DEF q
  <2>2. z \in Entries({<<>>, q})
    OBVIOUS
  <2> HIDE DEF z
  <2>3. (z.scheduled \/ z.queue # <<>>) \in BOOLEAN
    OBVIOUS
  <2>4. /\ e \in Entries({<<>>, q}) /\ e.queue = z.queue
        /\ e.scheduled = (z.scheduled \/ z.queue # <<>>)
    BY <2>2, <2>3 DEF Resume
  <2> HIDE DEF e
  <2>5. (e.scheduled \/ e.queue # <<>>) = e.scheduled
    BY <2>4
  <2>6. Resume(e) = e
    BY <2>4, <2>5 DEF Resume
  <2> QED BY <2>1, <2>6
<1> DEFINE sub == [highestDelivered |-> cursor,
                   lastAcknowledged |-> IF cursor # None /\ cursor.epoch = log.epoch
                                        THEN cursor ELSE None,
                   queue |-> <<>>, scheduled |-> FALSE, snapshotBoundary |-> None]
<1>2. /\ sub \in Entries({<<>>}) /\ sub.snapshotBoundary = None
      /\ NewSubscription(log, cursor) = EnqueueReplay(log, sub)
  BY DEF NewSubscription
<1> HIDE DEF sub
<1>3. CurrentCursor(log) \in Cursor
  BY PastFacts
<1>4. [sub EXCEPT !.snapshotBoundary = CurrentCursor(log), !.queue = <<>>] \in Entries({<<>>})
  BY <1>2, <1>3
<1>5. Resume(EnqueueSnapshot(log, sub)) = EnqueueSnapshot(log, sub)
  BY <1>1, <1>2, <1>4 DEF EnqueueSnapshot
<1>6. \/ EnqueueReplay(log, sub) = EnqueueSnapshot(log, sub)
      \/ \E frames : EnqueueReplay(log, sub) = Enqueue(sub, frames)
  BY DEF EnqueueReplay
<1> QED BY <1>1, <1>2, <1>5, <1>6

\* What the host does with the next request.
LEMMA Handled ==
    ASSUME TypeInv, HandleNext
    PROVE /\ up # <<>> /\ Head(up) \in RequestOf(Past) /\ up' = Tail(up)
          /\ Quiet /\ socket \in SocketId /\ sockets[socket] # None
          /\ UNCHANGED <<log, socket, clientVars, missing, incomplete, failures>>
          /\ \/ HandleSubscribe(Head(up), {s \in Subs : Fresh(s)})
             \/ RefuseSubscribe(Head(up))
             \/ HandleUnknown(Head(up))
             \/ HandleAttach(Head(up))
             \/ HandleAck(Head(up))
             \/ HandleRelease(Head(up))
<1>1. up # <<>> /\ HandleRequest({s \in Subs : Fresh(s)}) /\ HostRest
  BY DEF HandleNext, HandleRequest
<1>2. Handle
  BY <1>1 DEF HandleRequest, HandleSubscribe, RefuseSubscribe, HandleUnknown, HandleAttach, HandleAck,
              HandleRelease
<1>3. Head(up) \in RequestOf(Past)
  BY <1>1 DEF TypeInv, WireOf
<1>4. socket \in SocketId
  BY <1>2, LeaseAssumption DEF Handle, TypeInv, WireOf, ClientOf, SocketId, LeaseAssumption
<1> QED BY <1>1, <1>2, <1>3, <1>4 DEF Handle, HandleRequest, HostRest

LEMMA DeleteIsUnsubscribe ==
    ASSUME Wired, NEW s \in Subs, leases[s] # None, DeleteLease(s), UNCHANGED log
    PROVE Unsubscribe(s)
BY DEF Wired, DeleteLease, Unsubscribe

LEMMA StreamStep ==
    ASSUME TypeInv, Wired, [Next]_vars
    PROVE [StreamNext]_streamVars
<1>1. StreamInv
  BY DEF TypeInv
<1>2. ASSUME NEW s \in Subs, Unsubscribe(s) \/ ReplayFrom(s) \/ ResumeDelivery(s) \/ DeliverFrame(s)
                             \/ StopDraining(s) \/ FailDelivery(s)
      PROVE StreamNext
  BY <1>2 DEF StreamNext
<1>3. CASE HandleNext
  <2>1. PICK request \in RequestOf(Past) : request = Head(up)
    BY <1>3, Handled
  <2>2. CASE HandleSubscribe(request, {s \in Subs : Fresh(s)})
    <3>1. PICK s \in Subs : /\ leases[s] = None
                            /\ AttachTo(socket, s, NewLease, NewSubscription(log, request.cursor))
      BY <2>2 DEF HandleSubscribe
    <3>2. UNCHANGED log
      BY <1>3, Handled
    <3>3. request.cursor \in Past \cup {None}
      BY <2>1, <2>2 DEF HandleSubscribe, RequestOf
    <3>4. subs' = [subs EXCEPT ![s] = NewSubscription(log, request.cursor)]
      <4>1. request.cursor \in Cursor \cup {None}
        BY <1>1, <3>3, PastFacts
      <4>2. NewLease.nextGeneration + 1 = 1
        BY DEF NewLease
      <4> QED BY <1>1, <3>1, <4>1, <4>2, ResumeTwice DEF AttachTo
    <3>5. Subscribe(s, request.cursor)
      BY <3>1, <3>2, <3>4 DEF Wired, Subscribe
    <3>6. request.cursor \in {None} \cup {c \in Cursor : c.epoch <= log.epoch
                                          /\ (c.epoch = log.epoch => c.sequence <= log.sequence)}
      BY <1>1, <3>3, PastFacts
    <3> QED BY <3>5, <3>6 DEF StreamNext
  <2>3. CASE RefuseSubscribe(request) \/ HandleUnknown(request)
    BY <1>3, <2>3, Handled DEF RefuseSubscribe, HandleUnknown, streamVars
  <2>4. CASE HandleAttach(request)
    <3>1. request.lease \in Subs /\ leases[request.lease] # None /\ UNCHANGED log
      BY <1>3, <2>4, Handled DEF HandleAttach, RequestOf
    <3>2. \/ subs' = [subs EXCEPT ![request.lease] = Resume(@)]
          \/ subs' = [subs EXCEPT ![request.lease] = Replay(log, @)]
      BY <2>4, <3>1 DEF HandleAttach, AttachTo, TypeInv, StreamInv
    <3>3. ResumeDelivery(request.lease) \/ ReplayFrom(request.lease)
      BY <3>1, <3>2 DEF Wired, ResumeDelivery, ReplayFrom
    <3> QED BY <1>2, <3>1, <3>3
  <2>5. CASE HandleAck(request)
    <3>1. request.lease \in Subs /\ request.cursor \in Cursor /\ UNCHANGED log
      BY <1>1, <1>3, <2>5, Handled, PastFacts DEF HandleAck, RequestOf
    <3>2. CASE UNCHANGED subs
      BY <3>1, <3>2 DEF streamVars
    <3>3. CASE subs' # subs
      <4>1. Acknowledge(request.lease, request.cursor)
        BY <2>5, <3>1, <3>3 DEF HandleAck, Acknowledge
      <4> QED BY <3>1, <4>1 DEF StreamNext
    <3> QED BY <3>2, <3>3
  <2>6. CASE HandleRelease(request)
    <3>1. request.lease \in Subs /\ UNCHANGED log
      BY <1>3, <2>6, Handled DEF HandleRelease, RequestOf
    <3>2. CASE leases[request.lease] # None
      BY <1>2, <2>6, <3>1, <3>2, DeleteIsUnsubscribe DEF HandleRelease
    <3>3. CASE leases[request.lease] = None
      BY <2>6, <3>1, <3>3 DEF HandleRelease, streamVars
    <3> QED BY <3>2, <3>3
  <2> QED BY <1>3, <2>1, <2>2, <2>3, <2>4, <2>5, <2>6, Handled
<1>4. ASSUME NEW s \in Subs, WriteNext(s) \/ DrainNext(s) PROVE StreamNext
  BY <1>2, <1>4 DEF WriteNext, DrainNext, WriteFrame, RefuseFrame, DrainSocket
<1>5. ASSUME NEW s \in Subs, ExpireNext(s) PROVE StreamNext
  BY <1>2, <1>5, DeleteIsUnsubscribe DEF ExpireNext, Expire
<1>6. CASE PublishChange \/ ResetStream \/ RestartProcess
  BY <1>6 DEF PublishChange, ResetStream, RestartProcess, StreamNext
<1>7. CASE \/ \E k \in SocketId : HostClosesSocket(k)
           \/ ClientWork \/ ApplyFails \/ SnapshotFails \/ WorkspaceReadFails \/ RefreshSucceeds
           \/ LoseSocket
  <2>1. ASSUME NEW k \in SocketId, HostClosesSocket(k) PROVE UNCHANGED streamVars
    BY <2>1 DEF HostClosesSocket, CloseSocket, streamVars
  <2>2. CASE MessageArrives
    BY <2>2 DEF MessageArrives, FrameArrives, Subscribed, SubscribeRefused, Attached, AttachRefused,
                AckArrives, AckRefused, Released, Arrives
  <2>3. CASE SendWaiting \/ DrainTurn \/ ChangesApplied \/ SnapshotRead \/ SnapshotApplied
             \/ OpenSocket \/ ApplyFails \/ SnapshotFails \/ WorkspaceReadFails \/ RefreshSucceeds
             \/ LoseSocket
    BY <2>3 DEF SendWaiting, DrainTurn, ChangesApplied, SnapshotRead, SnapshotApplied, SnapshotEnds,
                OpenSocket, ApplyFails, SnapshotFails, WorkspaceReadFails, RefreshSucceeds, LoseSocket
  <2> QED BY <1>7, <2>1, <2>2, <2>3 DEF ClientWork
<1>8. CASE UNCHANGED vars
  BY <1>8 DEF vars, streamVars
<1> QED BY <1>3, <1>4, <1>5, <1>6, <1>7, <1>8 DEF Next

LEMMA StreamKept ==
    ASSUME TypeInv, Wired, [Next]_vars
    PROVE /\ StreamInv /\ StreamInv' /\ Past \subseteq Past' /\ (log' = log => Past' = Past)
          /\ Covers(CurrentCursor(log'), CurrentCursor(log))
<1>1. StreamInv /\ StreamInv'
  BY StreamStep, StepStream DEF TypeInv
<1> QED BY <1>1, StreamStep, PastGrows

-----------------------------------------------------------------------------
(* The pieces of the client's actions *)

DrainPlaces == {"idle", "ready", "waitAck", "apply", "snapshot", "read", "acknowledge", "recover"}

LEMMA IdleFacts ==
    ASSUME NEW P, NEW a \in DrainPlaces
    PROVE /\ [Idle EXCEPT !.at = a] \in DrainOf(P)
          /\ [Idle EXCEPT !.at = a].at = a /\ [Idle EXCEPT !.at = a].stale = FALSE
          /\ [Idle EXCEPT !.at = a].cursor = None /\ [Idle EXCEPT !.at = a].changes = {}
<1>1. Idle \in DrainOf(P)
  BY DEF Idle, DrainOf
<1> QED BY <1>1 DEF DrainOf, DrainPlaces, Idle

\* requestDrain starts an idle loop, or nothing.
LEMMA RequestedFacts ==
    ASSUME NEW P, NEW d \in DrainOf(P), NEW st
    PROVE /\ Requested(d, st) \in DrainOf(P)
          /\ \/ Requested(d, st) = d
             \/ d.at = "idle" /\ Requested(d, st) = [Idle EXCEPT !.at = "ready"]
BY IdleFacts DEF Requested, DrainPlaces

LEMMA ResumedFacts ==
    ASSUME NEW P, NEW d \in DrainOf(P), NEW ok \in BOOLEAN
    PROVE /\ Resumed(d, ok) \in DrainOf(P)
          /\ \/ Resumed(d, ok) = d
             \/ \E a \in {"ready", "idle"} : Resumed(d, ok) = [Idle EXCEPT !.at = a]
<1>1. [Idle EXCEPT !.at = "ready"] \in DrainOf(P) /\ [Idle EXCEPT !.at = "idle"] \in DrainOf(P)
  BY IdleFacts DEF DrainPlaces
<1> QED BY <1>1 DEF Resumed

LEMMA OvertakenDrain ==
    ASSUME NEW P, NEW d \in DrainOf(P)
    PROVE /\ Overtaken(d) \in DrainOf(P) /\ Overtaken(d).at = d.at
          /\ Overtaken(d).cursor = d.cursor /\ Overtaken(d).changes = d.changes
          /\ d.at \in {"apply", "snapshot", "read"} => Overtaken(d).stale = TRUE
BY DEF Overtaken, DrainOf

LEMMA OvertakenAck ==
    ASSUME NEW P, NEW a \in AckOf(P)
    PROVE /\ Overtaken(a) \in AckOf(P) /\ Overtaken(a).at = a.at /\ Overtaken(a).by = a.by
          /\ Overtaken(a).cursor = a.cursor /\ Overtaken(a).lease = a.lease
          /\ a.at \in {"waiting", "sent"} => Overtaken(a).stale = TRUE
BY DEF Overtaken, AckOf

LEMMA NoAckFacts ==
    ASSUME NEW P
    PROVE /\ NoAck \in AckOf(P) /\ NoAck.at = "none" /\ NoAck.cursor = None /\ NoAck.lease = None
          /\ NoAck.stale = FALSE
          /\ [NoAck EXCEPT !.at = "recover", !.by = "progress"] \in AckOf(P)
          /\ [NoAck EXCEPT !.at = "recover", !.by = "progress"].at = "recover"
          /\ [NoAck EXCEPT !.at = "recover", !.by = "progress"].cursor = None
          /\ [NoAck EXCEPT !.at = "recover", !.by = "progress"].lease = None
<1>1. NoAck \in AckOf(P)
  BY DEF NoAck, AckOf
<1> QED BY <1>1 DEF NoAck, AckOf

LEMMA SettledFacts ==
    ASSUME NEW P, NEW a \in AckOf(P)
    PROVE Settled(a) \in AckOf(P) /\ Settled(a) \in {a, NoAck} /\ Settled(a).at # "recover"
BY NoAckFacts DEF Settled

\* An acknowledgement of the current subscription starts.
AckStarts(P, by, cursor) ==
    /\ ack' \in AckOf(P) /\ ack'.by = by /\ ack'.lease = stream.current
    /\ ack'.cursor = cursor /\ ack'.stale = FALSE
    /\ \/ ack'.at = "waiting" /\ up' = up
       \/ /\ channel = "open" /\ ack'.at = "sent"
          /\ \E r \in RequestOf(P) : r.method = "ack" /\ r.cursor = cursor /\ up' = Append(up, r)

LEMMA SendAckFacts ==
    ASSUME NEW P, NEW by \in {"drain", "progress"}, NEW cursor \in P, stream.current \in Subs,
           SendAck(by, cursor)
    PROVE AckStarts(P, by, cursor)
BY DEF SendAck, AckOf, RequestOf, AckRequest, AckStarts

\* The subscription is given up; what is recovered from it starts.
LEMMA RecoverFacts ==
    ASSUME NEW P, stream \in StreamOf(P), task = stream.current, stream.current # None,
           NEW cursor \in P \cup {None}, NEW awaitReplay \in BOOLEAN, NEW open \in BOOLEAN,
           Recover(cursor, awaitReplay, open)
    PROVE /\ stream' \in StreamOf(P) /\ stream'.current = None /\ task' = None
          /\ stream'.processed = stream.processed /\ stream'.acknowledged = stream.acknowledged
          /\ stream'.pendingChanges \subseteq stream.pendingChanges
          /\ stream'.pendingSnapshot \in {stream.pendingSnapshot, None}
          /\ recovery' \in RecoveryOf(P) /\ recovery'.at \in {"none", "waiting", "release"}
          /\ recovery'.cursor \in {cursor, None}
          /\ recovery'.at = "release" => open /\ recovery'.lease = stream.current
<1> DEFINE closed == [stream EXCEPT !.current = None, !.paused = TRUE, !.recoveryUsed = TRUE]
           replay == IF closed.processed = closed.acknowledged THEN None ELSE closed.processed
<1>1. /\ closed \in StreamOf(P) /\ closed.current = None
      /\ closed.processed = stream.processed /\ closed.acknowledged = stream.acknowledged
      /\ closed.pendingChanges = stream.pendingChanges
      /\ closed.pendingSnapshot = stream.pendingSnapshot
  BY DEF StreamOf
<1>2. \/ stream' = closed
      \/ stream' = [closed EXCEPT !.awaitingReplay = replay]
      \/ stream' = [closed EXCEPT !.awaitingReplay = None, !.pendingChanges = {},
                                  !.pendingSnapshot = None]
  BY DEF Recover
<1> HIDE DEF closed
<1>3. replay \in P \cup {None}
  BY <1>1 DEF StreamOf
<1> HIDE DEF replay
<1>4. /\ stream' \in StreamOf(P) /\ stream'.current = None
      /\ stream'.processed = stream.processed /\ stream'.acknowledged = stream.acknowledged
      /\ stream'.pendingChanges \subseteq stream.pendingChanges
      /\ stream'.pendingSnapshot \in {stream.pendingSnapshot, None}
  BY <1>1, <1>2, <1>3 DEF StreamOf
<1>5. task' = None
  BY DEF Recover
<1>6. /\ recovery' \in RecoveryOf(P) /\ recovery'.at \in {"none", "waiting", "release"}
      /\ recovery'.cursor \in {cursor, None}
      /\ recovery'.at = "release" => open /\ recovery'.lease = stream.current
  BY DEF Recover, RecoveryOf, NoRecovery, StreamOf
<1> QED BY <1>4, <1>5, <1>6

\* What a failed acknowledgement leaves.
LEMMA AckFailsFacts ==
    ASSUME NEW P, stream \in StreamOf(P), drain \in DrainOf(P), ack \in AckOf(P),
           recovery \in RecoveryOf(P), task = stream.current, NEW open \in BOOLEAN,
           ~ack.stale => stream.current # None, AckFails(open)
    PROVE /\ stream' \in StreamOf(P) /\ drain' \in DrainOf(P) /\ ack' \in AckOf(P)
          /\ recovery' \in RecoveryOf(P) /\ task' = stream'.current
          /\ stream'.processed = stream.processed /\ stream'.acknowledged = stream.acknowledged
          /\ stream'.pendingChanges \subseteq stream.pendingChanges
          /\ stream'.pendingSnapshot \in {stream.pendingSnapshot, None}
          /\ ack'.at \in {"none", "recover"} /\ ack'.cursor = None
          /\ ack'.at = "recover" => recovery'.at # "none"
          /\ ack.stale => ack' = NoAck /\ stream' = stream /\ recovery' = recovery
          /\ ~ack.stale => stream'.current = None
          /\ ~ack.stale => recovery'.at \in {"none", "waiting", "release"}
          /\ ~ack.stale => recovery'.cursor \in {stream.acknowledged, None}
          /\ ~ack.stale /\ recovery'.at = "release" =>
               open /\ recovery'.lease = stream.current
          /\ \/ \E a \in {"ready", "idle", "recover"} : drain' = [Idle EXCEPT !.at = a]
             \/ drain' = drain /\ ack.stale
             \/ drain' = Overtaken(drain)
<1>1. CASE ack.stale
  <2>1. /\ ack' = NoAck /\ task' = task /\ stream' = stream /\ recovery' = recovery
        /\ drain' = IF ack.by = "drain" THEN [Idle EXCEPT !.at = "ready"]
                    ELSE Requested(drain, stream)
    BY <1>1 DEF AckFails
  <2>2. drain' \in DrainOf(P) /\ (drain' = drain \/ drain' = [Idle EXCEPT !.at = "ready"])
    <3>1. /\ Requested(drain, stream) \in DrainOf(P)
          /\ \/ Requested(drain, stream) = drain
             \/ Requested(drain, stream) = [Idle EXCEPT !.at = "ready"]
      BY RequestedFacts
    <3>2. [Idle EXCEPT !.at = "ready"] \in DrainOf(P)
      BY IdleFacts DEF DrainPlaces
    <3> QED BY <2>1, <3>1, <3>2
  <2> QED BY <1>1, <2>1, <2>2, NoAckFacts
<1>2. CASE ~ack.stale
  <2>1. /\ Recover(stream.acknowledged, TRUE, open)
        /\ ack' = IF ack.by = "progress" /\ recovery'.at # "none"
                  THEN [NoAck EXCEPT !.at = "recover", !.by = "progress"] ELSE NoAck
        /\ drain' = IF ack.by = "drain" THEN [Idle EXCEPT !.at = Awaiting] ELSE Overtaken(drain)
    BY <1>2 DEF AckFails
  <2>2. stream.acknowledged \in P \cup {None} /\ stream.current # None
    BY <1>2 DEF StreamOf
  <2>3. /\ stream' \in StreamOf(P) /\ stream'.current = None /\ task' = None
        /\ stream'.processed = stream.processed /\ stream'.acknowledged = stream.acknowledged
        /\ stream'.pendingChanges \subseteq stream.pendingChanges
        /\ stream'.pendingSnapshot \in {stream.pendingSnapshot, None}
        /\ recovery' \in RecoveryOf(P) /\ recovery'.at \in {"none", "waiting", "release"}
        /\ recovery'.cursor \in {stream.acknowledged, None}
        /\ recovery'.at = "release" => open /\ recovery'.lease = stream.current
    BY <2>1, <2>2, RecoverFacts
  <2>4. /\ ack' \in AckOf(P) /\ ack'.at \in {"none", "recover"} /\ ack'.cursor = None
        /\ ack'.at = "recover" => recovery'.at # "none"
    BY <2>1, NoAckFacts
  <2>5. Awaiting \in {"idle", "recover"}
    BY DEF Awaiting
  <2>6. /\ drain' \in DrainOf(P)
        /\ \/ \E a \in {"idle", "recover"} : drain' = [Idle EXCEPT !.at = a]
           \/ drain' = Overtaken(drain)
    BY <2>1, <2>5, IdleFacts, OvertakenDrain DEF DrainPlaces
  <2> QED BY <1>2, <2>3, <2>4, <2>6
<1> QED BY <1>1, <1>2 DEF AckOf

-----------------------------------------------------------------------------
(* The frames that wait for a subscription *)

LEMMA QueueFacts ==
    ASSUME StreamInv, NEW s \in Subs, subs[s] # None
    PROVE /\ subs[s] \in Subscription /\ subs[s].queue \in Seq(Frame)
          /\ \A i \in DOMAIN subs[s].queue :
               /\ subs[s].queue[i] \in Frame /\ subs[s].queue[i].cursor \in Past
               /\ subs[s].queue[i].type = "snapshot_required" => i = 1
          /\ subs[s].snapshotBoundary # None =>
               /\ subs[s].snapshotBoundary \in Past
               /\ \/ subs[s].queue = <<>>
                  \/ subs[s].queue = <<SnapshotRequired(subs[s].snapshotBoundary)>>
<1> DEFINE sub == subs[s]
           q == subs[s].queue
           e == log.epoch
           n == log.sequence
<1>1. SubscriptionInv(log, sub) /\ sub \in Subscription /\ q \in Seq(Frame)
  BY DEF StreamInv, SubscriptionInv, Subscription
<1>2. /\ e \in 1 .. MaxEpochs /\ n \in 0 .. MaxSequence /\ MaxSequence \in Nat
      /\ \A c \in Cursor : c \in Past <=> c.epoch <= e /\ (c.epoch = e => c.sequence <= n)
  BY PastFacts, StreamAssumption DEF StreamAssumption
<1>3. \A i \in DOMAIN q : q[i] \in Frame
  BY <1>1
<1> HIDE DEF e, n, q
<1>4. CASE sub.snapshotBoundary # None
  <2>1. /\ BoundaryInv(log, sub) /\ sub.snapshotBoundary \in Cursor
    BY <1>1, <1>4 DEF SubscriptionInv, Subscription
  <2>2. sub.snapshotBoundary \in Past
    BY <1>2, <2>1 DEF BoundaryInv, e, n
  <2>3. q = <<>> \/ q = <<SnapshotRequired(sub.snapshotBoundary)>>
    BY <2>1 DEF BoundaryInv, q
  <2>4. \A i \in DOMAIN q : i = 1 /\ q[i].cursor = sub.snapshotBoundary
    BY <2>3 DEF SnapshotRequired
  <2> QED BY <1>1, <1>3, <2>2, <2>3, <2>4 DEF q
<1>5. CASE sub.snapshotBoundary = None
  <2>1. PICK m \in 1 .. (n + 1) : FlowsFrom(log, sub, m)
    BY <1>1, <1>5 DEF SubscriptionInv, FlowingInv, n
  <2>2. IsRange(m, n)
    BY <1>2 DEF IsRange
  <2>3. CASE q = Run(e, m, n)
    <3>1. /\ Len(q) = n + 1 - m
          /\ \A i \in 1 .. (n + 1 - m) : q[i].type = "change" /\ q[i].cursor = At(e, m + i - 1)
      <4>1. Len(Run(e, m, n)) = n + 1 - m
        BY <1>2, <2>2, RunFacts
      <4>2. \A i \in 1 .. (n + 1 - m) : /\ Run(e, m, n)[i].type = "change"
                                        /\ Run(e, m, n)[i].cursor = At(e, m + i - 1)
        BY <1>2, <2>2, RunFacts
      <4> QED BY <2>3, <4>1, <4>2
    <3>2. \A i \in DOMAIN q : /\ q[i].type = "change" /\ q[i].cursor.epoch = e
                              /\ q[i].cursor.sequence <= n
      <4> TAKE i \in DOMAIN q
      <4>1. i \in 1 .. (n + 1 - m)
        BY <1>1, <3>1
      <4>2. q[i].type = "change" /\ q[i].cursor = At(e, m + i - 1)
        BY <3>1, <4>1
      <4>3. m + i - 1 <= n
        BY <1>2, <4>1
      <4> QED BY <4>2, <4>3 DEF At
    <3> QED BY <1>1, <1>2, <1>3, <1>5, <3>2 DEF Frame, q
  <2>4. CASE q = BoundaryRun(e, m, n)
    <3>1. /\ Len(q) = n + 2 - m /\ q[1] = SnapshotRequired(At(e, m - 1))
          /\ \A i \in 1 .. (n + 1 - m) : q[i + 1] = Run(e, m, n)[i]
      <4>1. /\ Len(BoundaryRun(e, m, n)) = n + 2 - m
            /\ BoundaryRun(e, m, n)[1] = SnapshotRequired(At(e, m - 1))
            /\ \A i \in 1 .. (n + 1 - m) : BoundaryRun(e, m, n)[i + 1] = Run(e, m, n)[i]
        BY <1>2, <2>2, BoundaryRunFacts
      <4> QED BY <2>4, <4>1
    <3>2. \A i \in 1 .. (n + 1 - m) : /\ Run(e, m, n)[i].type = "change"
                                      /\ Run(e, m, n)[i].cursor = At(e, m + i - 1)
      BY <1>2, <2>2, RunFacts
    <3>3. q[1].cursor.epoch = e /\ q[1].cursor.sequence = m - 1
      BY <3>1 DEF SnapshotRequired, At
    <3>4. \A i \in DOMAIN q :
            /\ q[i].cursor.epoch = e /\ q[i].cursor.sequence <= n
            /\ i # 1 => q[i].type = "change"
      <4> TAKE i \in DOMAIN q
      <4>1. i \in 1 .. (n + 2 - m)
        BY <1>1, <3>1
      <4>2. CASE i = 1
        BY <1>2, <3>3, <4>2
      <4>3. CASE i # 1
        <5>1. i - 1 \in 1 .. (n + 1 - m) /\ (i - 1) + 1 = i
          BY <1>2, <4>1, <4>3
        <5>2. q[i].type = "change" /\ q[i].cursor = At(e, m + (i - 1) - 1)
          BY <3>1, <3>2, <5>1
        <5>3. m + (i - 1) - 1 <= n
          BY <1>2, <5>1
        <5> QED BY <5>2, <5>3 DEF At
      <4> QED BY <4>2, <4>3
    <3> QED BY <1>1, <1>2, <1>3, <1>5, <3>4 DEF Frame, q
  <2> QED BY <2>1, <2>3, <2>4 DEF FlowsFrom, BoundaryRun, q, e, n
<1> QED BY <1>4, <1>5

-----------------------------------------------------------------------------
(* Types *)

LEMMA Widened ==
    ASSUME NEW P, NEW C, C \subseteq P
    PROVE /\ StreamOf(C) \subseteq StreamOf(P) /\ DrainOf(C) \subseteq DrainOf(P)
          /\ AckOf(C) \subseteq AckOf(P) /\ RecoveryOf(C) \subseteq RecoveryOf(P)
          /\ Seq(RequestOf(C)) \subseteq Seq(RequestOf(P))
          /\ Seq(MessageOf(C)) \subseteq Seq(MessageOf(P))
<1>1. StreamOf(C) \subseteq StreamOf(P)
  BY DEF StreamOf
<1>2. DrainOf(C) \subseteq DrainOf(P)
  BY DEF DrainOf
<1>3. AckOf(C) \subseteq AckOf(P) /\ RecoveryOf(C) \subseteq RecoveryOf(P)
  BY DEF AckOf, RecoveryOf
<1>4. RequestOf(C) \subseteq RequestOf(P)
  BY DEF RequestOf
<1>5. MessageOf(C) \subseteq MessageOf(P)
  BY DEF MessageOf
<1>6. \A S, T : S \subseteq T => Seq(S) \subseteq Seq(T)
  OBVIOUS
<1> QED BY <1>1, <1>2, <1>3, <1>4, <1>5, <1>6

LEMMA ClientWidened ==
    ASSUME NEW P, NEW C, C \subseteq P, ClientOf(C) PROVE ClientOf(P)
BY Widened DEF ClientOf

LEMMA WireWidened ==
    ASSUME NEW P, NEW C, C \subseteq P, WireOf(C) PROVE WireOf(P)
BY Widened DEF WireOf

LEMMA SocketFacts ==
    ASSUME TypeInv
    PROVE /\ MaxSockets \in Nat /\ opened \in 0 .. MaxSockets /\ socket \in 0 .. opened
          /\ SocketId = 1 .. MaxSockets /\ (socket # 0 => socket \in SocketId)
          /\ SocketId \subseteq Generation /\ None \notin Subs /\ None \notin Past
<1>1. None \notin Past
  BY PastFacts DEF TypeInv
<1> QED BY <1>1, LeaseAssumption DEF TypeInv, ClientOf, WireOf, SocketId, Generation, LeaseAssumption

\* The head of what is under way.
LEMMA HeadFacts ==
    ASSUME NEW S, NEW q \in Seq(S), q # <<>>
    PROVE /\ Head(q) \in S /\ Tail(q) \in Seq(S) /\ 1 \in DOMAIN q /\ Head(q) = q[1]
          /\ \A i \in DOMAIN Tail(q) : i + 1 \in DOMAIN q /\ Tail(q)[i] = q[i + 1] /\ i \in Nat
OBVIOUS

LEMMA AppendFacts ==
    ASSUME NEW S, NEW q \in Seq(S), NEW e \in S
    PROVE /\ Append(q, e) \in Seq(S)
          /\ \A i \in DOMAIN q : i \in DOMAIN Append(q, e) /\ Append(q, e)[i] = q[i]
          /\ \A i \in DOMAIN Append(q, e) :
               \/ i \in DOMAIN q /\ Append(q, e)[i] = q[i]
               \/ /\ i = Len(q) + 1 /\ Append(q, e)[i] = e
                  /\ \A j \in DOMAIN q : j < i
OBVIOUS

LEMMA HandleType ==
    ASSUME TypeInv, HandleNext, NEW P, Past \subseteq P, ClientOf(P), WireOf(P)
    PROVE ClientOf(P)' /\ WireOf(P)'
<1>1. ClientOf(P)'
  BY Handled DEF ClientOf, clientVars
<1>2. up' \in Seq(RequestOf(P))
  BY Handled, HeadFacts DEF WireOf
<1>3. \E m \in MessageOf(P) : down' = Append(down, m)
  <2>1. Head(up) \in RequestOf(Past)
    BY Handled
  <2>2. CASE HandleSubscribe(Head(up), {s \in Subs : Fresh(s)})
    <3>1. PICK s \in Subs : down' = Append(down, Result(Head(up), s))
      BY <2>2 DEF HandleSubscribe
    <3>2. Result(Head(up), s) \in MessageOf(P)
      BY <2>2 DEF HandleSubscribe, Result, MessageOf
    <3> QED BY <3>1, <3>2
  <2>3. CASE RefuseSubscribe(Head(up)) \/ HandleUnknown(Head(up))
    <3>1. down' = Append(down, Refused(Head(up)))
      BY <2>3 DEF RefuseSubscribe, HandleUnknown
    <3>2. Refused(Head(up)) \in MessageOf(P)
      BY <2>1, <2>3 DEF RefuseSubscribe, HandleUnknown, Refused, MessageOf, RequestOf
    <3> QED BY <3>1, <3>2
  <2>4. CASE HandleAttach(Head(up)) \/ HandleRelease(Head(up))
    <3>1. down' = Append(down, Result(Head(up), Head(up).lease))
      BY <2>4 DEF HandleAttach, HandleRelease
    <3>2. Result(Head(up), Head(up).lease) \in MessageOf(P)
      BY <2>1, <2>4 DEF HandleAttach, HandleRelease, Result, MessageOf, RequestOf
    <3> QED BY <3>1, <3>2
  <2>5. CASE HandleAck(Head(up))
    <3>1. \/ down' = Append(down, Result(Head(up), Head(up).lease))
          \/ down' = Append(down, Refused(Head(up)))
      BY <2>5 DEF HandleAck
    <3>2. Result(Head(up), Head(up).lease) \in MessageOf(P) /\ Refused(Head(up)) \in MessageOf(P)
      BY <2>1, <2>5 DEF HandleAck, Result, Refused, MessageOf, RequestOf
    <3> QED BY <3>1, <3>2
  <2> QED BY <2>2, <2>3, <2>4, <2>5, Handled
<1>4. down' \in Seq(MessageOf(P))
  BY <1>3, AppendFacts DEF WireOf
<1> QED BY <1>1, <1>2, <1>4, Handled, SocketFacts DEF WireOf, clientVars

LEMMA FrameType ==
    ASSUME NEW P, Past \subseteq P, StreamInv, NEW s \in Subs, subs[s] # None, subs[s].queue # <<>>
    PROVE /\ TaskFrame(s, Head(subs[s].queue)) \in MessageOf(P)
          /\ TaskFrame(s, Head(subs[s].queue)).type = "task_frame"
          /\ TaskFrame(s, Head(subs[s].queue)).lease = s
          /\ TaskFrame(s, Head(subs[s].queue)).frame = subs[s].queue[1]
          /\ subs[s].queue[1].cursor \in Past
<1>1. /\ Head(subs[s].queue) = subs[s].queue[1] /\ subs[s].queue[1] \in Frame
      /\ subs[s].queue[1].cursor \in Past
  BY QueueFacts, HeadFacts
<1> QED BY <1>1 DEF TaskFrame, MessageOf, Frame

\* What the host writes arrives at the end of what is on its way.
LEMMA Written ==
    ASSUME TypeInv, NEW s \in Subs, WriteFrame(s)
    PROVE /\ subs[s] # None /\ subs[s].queue # <<>> /\ Writable(s)
          /\ leases[s].connection.sink \in SocketId
          /\ \/ down' = down
             \/ /\ leases[s].connection.sink = socket
                /\ down' = Append(down, TaskFrame(s, Head(subs[s].queue)))
<1>1. subs[s] # None /\ subs[s].queue # <<>> /\ Writable(s)
  BY DEF WriteFrame, DeliverFrame, Draining
<1>2. leases[s].connection.sink \in SocketId
  BY <1>1 DEF Writable, TypeInv, LeasesType, Connection
<1>3. down' = IF leases[s].connection.sink = socket
              THEN down \o <<TaskFrame(s, Head(subs[s].queue))>> ELSE down
  BY DEF WriteFrame, Sent
<1>4. down \o <<TaskFrame(s, Head(subs[s].queue))>> = Append(down, TaskFrame(s, Head(subs[s].queue)))
  BY DEF TypeInv, WireOf
<1> QED BY <1>1, <1>2, <1>3, <1>4

LEMMA HostType ==
    ASSUME TypeInv, NEW P, Past \subseteq P, CurrentCursor(log') \in P, ClientOf(P), WireOf(P),
           \/ PublishChange \/ ResetStream \/ RestartProcess
           \/ \E s \in Subs : WriteNext(s) \/ DrainNext(s) \/ ExpireNext(s)
           \/ \E k \in SocketId : HostClosesSocket(k)
    PROVE ClientOf(P)' /\ WireOf(P)'
<1>1. ASSUME NEW s \in Subs, WriteFrame(s), HostRest PROVE ClientOf(P)' /\ WireOf(P)'
  <2>1. \/ down' = down
        \/ down' = Append(down, TaskFrame(s, Head(subs[s].queue))) /\ socket # 0
    BY <1>1, Written, SocketFacts
  <2>2. TaskFrame(s, Head(subs[s].queue)) \in MessageOf(P)
    BY <1>1, Written, FrameType DEF TypeInv
  <2>3. down' \in Seq(MessageOf(P)) /\ (socket = 0 => down' = down)
    BY <2>1, <2>2, AppendFacts DEF WireOf
  <2> QED BY <1>1, <2>3 DEF WriteFrame, HostRest, ClientOf, WireOf, clientVars
<1>2. ASSUME NEW s \in Subs, RefuseFrame(s) \/ DrainSocket(s) \/ Expire(s), HostRest
      PROVE ClientOf(P)' /\ WireOf(P)'
  BY <1>2 DEF RefuseFrame, DrainSocket, Expire, HostRest, ClientOf, WireOf, clientVars, wireVars
<1>3. CASE PublishChange \/ ResetStream \/ RestartProcess
  BY <1>3 DEF PublishChange, ResetStream, RestartProcess, ClientOf, WireOf, clientVars, wireVars
<1>4. ASSUME NEW k \in SocketId, HostClosesSocket(k) PROVE ClientOf(P)' /\ WireOf(P)'
  BY <1>4 DEF HostClosesSocket, CloseSocket, ClientOf, WireOf, clientVars, wireVars
<1> QED BY <1>1, <1>2, <1>3, <1>4 DEF WriteNext, DrainNext, ExpireNext

-----------------------------------------------------------------------------
(* The client's actions *)

\* The sequence numbers of a run of changes after p have a greatest element.
LEMMA RunHasNewest ==
    ASSUME NEW p \in Nat, NEW n \in Nat, NEW D, D \subseteq (p + 1) .. n, D # {},
           \A x \in D : (p + 1) .. x \subseteq D
    PROVE \E m \in D : \A x \in D : x <= m
<1>1. IsFiniteSet(D)
  <2>1. IsFiniteSet((p + 1) .. n)
    BY FS_Interval
  <2> QED BY <2>1, FS_Subset
<1>2. Cardinality(D) \in Nat /\ Cardinality(D) # 0
  BY <1>1, FS_EmptySet, FS_CardinalityType
<1> DEFINE k == Cardinality(D)
<1> HIDE DEF k
<1>3. ASSUME NEW x \in D PROVE x <= p + k
  <2>1. x \in Int /\ x >= p + 1
    OBVIOUS
  <2>2. Cardinality((p + 1) .. x) = x - (p + 1) + 1
    BY <2>1, FS_Interval
  <2>3. Cardinality((p + 1) .. x) <= k
    BY <1>1, FS_Subset DEF k
  <2> QED BY <1>2, <2>1, <2>2, <2>3 DEF k
<1>4. p + k \in D
  <2> SUFFICES ASSUME p + k \notin D PROVE FALSE
    OBVIOUS
  <2>1. D \subseteq (p + 1) .. (p + k - 1)
    BY <1>2, <1>3 DEF k
  <2>2. /\ IsFiniteSet((p + 1) .. (p + k - 1))
        /\ Cardinality((p + 1) .. (p + k - 1)) = k - 1
    <3>1. p + 1 \in Int /\ p + k - 1 \in Int /\ k \in Nat /\ k # 0
      BY <1>2 DEF k
    <3>2. /\ IsFiniteSet((p + 1) .. (p + k - 1))
          /\ Cardinality((p + 1) .. (p + k - 1))
               = IF p + 1 > p + k - 1 THEN 0 ELSE (p + k - 1) - (p + 1) + 1
      BY <3>1, FS_Interval
    <3> QED BY <3>1, <3>2
  <2>3. k <= k - 1
    <3>1. D \in SUBSET ((p + 1) .. (p + k - 1))
      BY <2>1
    <3>2. Cardinality(D) <= Cardinality((p + 1) .. (p + k - 1))
      BY <2>2, <3>1, FS_Subset
    <3> QED BY <2>2, <3>2 DEF k
  <2> QED BY <1>2, <2>3 DEF k
<1> QED BY <1>3, <1>4

LEMMA NewestFacts ==
    ASSUME NEW changes, changes \subseteq Cursor, changes # {}, NEW p \in Cursor,
           \A c \in changes :
             /\ c.epoch = p.epoch /\ c.sequence > p.sequence
             /\ \A n \in (p.sequence + 1) .. c.sequence : At(c.epoch, n) \in changes
    PROVE /\ Newest(changes) \in changes
          /\ \A c \in changes : c.sequence <= Newest(changes).sequence
<1> DEFINE D == {c.sequence : c \in changes}
<1>1. p.sequence \in Nat /\ MaxSequence \in Nat /\ \A c \in changes : c.sequence \in 0 .. MaxSequence
  BY StreamAssumption DEF StreamAssumption, Cursor
<1>2. D \subseteq (p.sequence + 1) .. MaxSequence /\ D # {}
  BY <1>1
<1>3. ASSUME NEW x \in D PROVE (p.sequence + 1) .. x \subseteq D
  <2>1. PICK c \in changes : x = c.sequence
    OBVIOUS
  <2>2. ASSUME NEW n \in (p.sequence + 1) .. x PROVE n \in D
    <3>1. At(c.epoch, n) \in changes /\ At(c.epoch, n).sequence = n
      BY <2>1 DEF At
    <3> QED BY <3>1
  <2> QED BY <2>2
<1>4. \E m \in D : \A x \in D : x <= m
  <2> HIDE DEF D
  <2> QED BY <1>1, <1>2, <1>3, RunHasNewest
<1>5. \E c \in changes : \A d \in changes : d.sequence <= c.sequence
  BY <1>4
<1> QED BY <1>5 DEF Newest

\* The drain loop starts nothing new.
DrainKept ==
    \/ drain' = drain
    \/ drain' = Overtaken(drain)
    \/ \E a \in {"ready", "idle", "waitAck", "recover"} : drain' = [Idle EXCEPT !.at = a]

AckKept ==
    \/ ack' = ack
    \/ ack' = Overtaken(ack)
    \/ ack' = NoAck
    \/ ack.at # "none" /\ ack' = [NoAck EXCEPT !.at = "recover", !.by = "progress"]

LEMMA DrainKeptFacts ==
    ASSUME NEW P, drain \in DrainOf(P), DrainKept
    PROVE /\ drain' \in DrainOf(P)
          /\ drain'.cursor \in {drain.cursor, None} /\ drain'.changes \in {drain.changes, {}}
          /\ drain'.at \in {"apply", "snapshot", "read"} =>
               /\ drain'.at = drain.at /\ drain'.cursor = drain.cursor
               /\ drain'.changes = drain.changes
               /\ ~drain'.stale => drain' = drain
<1>1. CASE drain' = drain
  BY <1>1
<1>2. CASE drain' = Overtaken(drain)
  BY <1>2, OvertakenDrain
<1>3. ASSUME NEW a \in {"ready", "idle", "waitAck", "recover"}, drain' = [Idle EXCEPT !.at = a]
      PROVE /\ drain' \in DrainOf(P) /\ drain'.cursor = None /\ drain'.changes = {}
            /\ drain'.at \notin {"apply", "snapshot", "read"}
  BY <1>3, IdleFacts DEF DrainPlaces
<1> QED BY <1>1, <1>2, <1>3 DEF DrainKept

LEMMA AckKeptFacts ==
    ASSUME NEW P, ack \in AckOf(P), AckKept
    PROVE /\ ack' \in AckOf(P) /\ ack'.cursor \in {ack.cursor, None}
          /\ ack'.at \in {ack.at, "none", "recover"} /\ (ack.at = "none" => ack'.at = "none")
          /\ ack'.at \in {"waiting", "sent"} =>
               /\ ack'.at = ack.at /\ ack'.cursor = ack.cursor /\ ack'.lease = ack.lease
               /\ ~ack'.stale => ack' = ack
BY OvertakenAck, NoAckFacts DEF AckKept

LEMMA FrameEffect ==
    ASSUME NEW P, ClientOf(P), WireOf(P), down # <<>>, FrameArrives(Head(down))
    PROVE /\ IsFrame(Head(down), Head(down).lease) /\ Head(down).lease \in Subs
          /\ Head(down).frame.cursor \in P
          /\ Head(down).frame.type \in {"change", "snapshot_required"}
          /\ stream' \in StreamOf(P) /\ DrainKept /\ AckKept
          /\ ack'.at = ack.at
          /\ stream'.current = stream.current /\ stream'.processed = stream.processed
          /\ stream'.acknowledged = stream.acknowledged
          /\ Head(down).lease # stream.current =>
               stream' = stream /\ drain' = drain /\ ack' = ack
          /\ stream'.pendingChanges \subseteq stream.pendingChanges \cup {Head(down).frame.cursor}
          /\ \/ stream'.pendingSnapshot = stream.pendingSnapshot
             \/ /\ Head(down).lease = stream.current
                /\ Head(down).frame.type = "snapshot_required"
                /\ stream'.pendingSnapshot = Head(down).frame.cursor
                /\ drain'.at \in {"apply", "snapshot", "read"} => drain'.stale = TRUE
<1> DEFINE m == Head(down)
           frame == m.frame
<1>1. m \in MessageOf(P) /\ m.type = "task_frame"
  BY HeadFacts DEF WireOf, FrameArrives
<1>2. /\ m.lease \in Subs /\ frame.cursor \in P /\ frame.type \in {"change", "snapshot_required"}
      /\ IsFrame(m, m.lease)
  BY <1>1 DEF MessageOf, IsFrame
<1>3. stream \in StreamOf(P) /\ drain \in DrainOf(P) /\ ack \in AckOf(P)
  BY DEF ClientOf
<1> HIDE DEF m
<1>4. CASE m.lease # stream.current \/ (frame.type = "change" /\ Ignores(stream, frame.cursor))
  <2>1. UNCHANGED <<stream, drain, ack>>
    BY <1>4 DEF FrameArrives, m
  <2> QED BY <1>2, <1>3, <2>1 DEF m, DrainKept, AckKept
<1>5. CASE m.lease = stream.current /\ frame.type = "snapshot_required"
  <2>1. /\ stream' = ReceiveSnapshot(stream, frame.cursor)
        /\ drain' = Requested(Overtaken(drain), stream')
        /\ ack' = Overtaken(ack)
    BY <1>5 DEF FrameArrives, m
  <2>2. /\ stream' \in StreamOf(P) /\ stream'.pendingSnapshot = frame.cursor
        /\ stream'.pendingChanges = {} /\ stream'.current = stream.current
        /\ stream'.processed = stream.processed /\ stream'.acknowledged = stream.acknowledged
    BY <1>2, <1>3, <2>1 DEF ReceiveSnapshot, StreamOf
  <2>3. drain' = Overtaken(drain) \/ drain' = [Idle EXCEPT !.at = "ready"]
    <3>1. Overtaken(drain) \in DrainOf(P)
      BY <1>3, OvertakenDrain
    <3> QED BY <2>1, <3>1, RequestedFacts
  <2>4. drain'.at \in {"apply", "snapshot", "read"} => drain'.stale = TRUE
    <3>1. /\ Overtaken(drain).at = drain.at
          /\ drain.at \in {"apply", "snapshot", "read"} => Overtaken(drain).stale = TRUE
      BY <1>3, OvertakenDrain
    <3>2. [Idle EXCEPT !.at = "ready"].at = "ready"
      BY DEF Idle
    <3> QED BY <2>3, <3>1, <3>2
  <2> QED BY <1>2, <1>3, <1>5, <2>1, <2>2, <2>3, <2>4, OvertakenAck DEF m, DrainKept, AckKept
<1>6. CASE /\ m.lease = stream.current /\ frame.type = "change"
           /\ ~Ignores(stream, frame.cursor) /\ IsForeign(stream, frame.cursor)
  <2>1. stream' = [stream EXCEPT !.paused = TRUE] /\ drain' = drain /\ ack' = ack
    BY <1>6 DEF FrameArrives, m
  <2>2. /\ stream' \in StreamOf(P) /\ stream'.pendingSnapshot = stream.pendingSnapshot
        /\ stream'.pendingChanges = stream.pendingChanges /\ stream'.current = stream.current
        /\ stream'.processed = stream.processed /\ stream'.acknowledged = stream.acknowledged
    BY <1>3, <2>1 DEF StreamOf
  <2> QED BY <1>2, <1>6, <2>1, <2>2 DEF m, DrainKept, AckKept
<1>7. CASE /\ m.lease = stream.current /\ frame.type = "change"
           /\ ~Ignores(stream, frame.cursor) /\ ~IsForeign(stream, frame.cursor)
  <2>1. /\ stream' = ReceiveChange(stream, frame.cursor)
        /\ drain' = Requested(drain, stream') /\ ack' = ack
    BY <1>7 DEF FrameArrives, m
  <2>2. /\ stream' \in StreamOf(P) /\ stream'.pendingSnapshot = stream.pendingSnapshot
        /\ stream'.pendingChanges \subseteq stream.pendingChanges \cup {frame.cursor}
        /\ stream'.current = stream.current
        /\ stream'.processed = stream.processed /\ stream'.acknowledged = stream.acknowledged
    BY <1>2, <1>3, <2>1 DEF ReceiveChange, StreamOf
  <2>3. drain' = drain \/ drain' = [Idle EXCEPT !.at = "ready"]
    BY <1>3, <2>1, RequestedFacts
  <2> QED BY <1>2, <1>7, <2>1, <2>2, <2>3 DEF m, DrainKept, AckKept
<1> QED BY <1>2, <1>4, <1>5, <1>6, <1>7 DEF m

\* The subscription is given up: what its owner still awaits is stale.
GivenUp ==
    /\ stream'.current = None
    /\ drain'.at \in {"apply", "snapshot", "read"} => drain'.stale = TRUE
    /\ ack'.at \in {"waiting", "sent"} => ack'.stale = TRUE

\* A step that processes nothing and takes nothing from the stream.
ClientMove(P) ==
    /\ stream' \in StreamOf(P) /\ recovery' \in RecoveryOf(P) /\ task' = stream'.current
    /\ DrainKept /\ AckKept
    /\ stream'.processed = stream.processed
    /\ stream'.acknowledged \in {stream.acknowledged, ack.cursor}
    /\ stream'.pendingChanges \subseteq stream.pendingChanges
    /\ stream'.pendingSnapshot \in {stream.pendingSnapshot, None}
    /\ recovery'.cursor \in {recovery.cursor, stream.acknowledged, None}
    /\ stream'.current = stream.current \/ GivenUp
    /\ recovery'.at # "none" => stream'.current = None
    /\ recovery'.at = "release" => recovery'.lease # None
    /\ ack'.at = "recover" => recovery'.at # "none"

LEMMA NothingMoves ==
    ASSUME NEW P, ClientOf(P), Owners, UNCHANGED <<stream, drain, ack, recovery, task>>
    PROVE ClientMove(P)
BY DEF ClientMove, ClientOf, Owners, DrainKept, AckKept

\* A recovery starts that leaves the loop and the acknowledgement stale, or awaiting it.
LEMMA RecoverMove ==
    ASSUME NEW P, ClientOf(P), Owners, stream.current # None,
           NEW cursor \in {stream.acknowledged, None}, NEW awaitReplay \in BOOLEAN,
           NEW open \in BOOLEAN, Recover(cursor, awaitReplay, open),
           drain' = Overtaken(drain) \/ drain' = [Idle EXCEPT !.at = Awaiting],
           ack' = Overtaken(ack)
    PROVE ClientMove(P)
<1>1. /\ stream \in StreamOf(P) /\ drain \in DrainOf(P) /\ ack \in AckOf(P)
      /\ task = stream.current /\ cursor \in P \cup {None}
  BY DEF ClientOf, StreamOf
<1>2. /\ stream' \in StreamOf(P) /\ stream'.current = None /\ task' = None
      /\ stream'.processed = stream.processed /\ stream'.acknowledged = stream.acknowledged
      /\ stream'.pendingChanges \subseteq stream.pendingChanges
      /\ stream'.pendingSnapshot \in {stream.pendingSnapshot, None}
      /\ recovery' \in RecoveryOf(P) /\ recovery'.cursor \in {cursor, None}
      /\ recovery'.at = "release" => recovery'.lease = stream.current
  BY <1>1, RecoverFacts
<1>3. Awaiting \in {"idle", "recover"}
  BY DEF Awaiting
<1>4. DrainKept /\ (drain'.at \in {"apply", "snapshot", "read"} => drain'.stale = TRUE)
  <2>1. CASE drain' = Overtaken(drain)
    BY <1>1, <2>1, OvertakenDrain DEF DrainKept
  <2>2. CASE drain' = [Idle EXCEPT !.at = Awaiting]
    BY <1>3, <2>2 DEF DrainKept, Idle
  <2> QED BY <2>1, <2>2
<1>5. /\ AckKept /\ ack'.at = ack.at /\ ack.at # "recover"
      /\ ack'.at \in {"waiting", "sent"} => ack'.stale = TRUE
  BY <1>1, OvertakenAck DEF AckKept, Owners
<1> QED BY <1>2, <1>4, <1>5 DEF ClientMove, GivenUp

LEMMA AckFailsMove ==
    ASSUME NEW P, ClientOf(P), Owners, ack.at \in {"waiting", "sent"}, NEW open \in BOOLEAN,
           AckFails(open)
    PROVE ClientMove(P) /\ ack'.at \in {"none", "recover"}
<1>1. /\ stream \in StreamOf(P) /\ drain \in DrainOf(P) /\ ack \in AckOf(P)
      /\ recovery \in RecoveryOf(P) /\ task = stream.current
      /\ ~ack.stale => stream.current # None
  BY DEF ClientOf, Owners
<1>2. /\ stream' \in StreamOf(P) /\ ack' \in AckOf(P)
      /\ recovery' \in RecoveryOf(P) /\ task' = stream'.current
      /\ stream'.processed = stream.processed /\ stream'.acknowledged = stream.acknowledged
      /\ stream'.pendingChanges \subseteq stream.pendingChanges
      /\ stream'.pendingSnapshot \in {stream.pendingSnapshot, None}
      /\ ack'.at \in {"none", "recover"}
      /\ ack'.at = "recover" => recovery'.at # "none"
      /\ ack.stale => ack' = NoAck /\ stream' = stream /\ recovery' = recovery
      /\ ~ack.stale => stream'.current = None
      /\ ~ack.stale => recovery'.cursor \in {stream.acknowledged, None}
      /\ ~ack.stale /\ recovery'.at = "release" => recovery'.lease = stream.current
  BY <1>1, AckFailsFacts
<1>3. /\ \/ \E a \in {"ready", "idle", "recover"} : drain' = [Idle EXCEPT !.at = a]
         \/ drain' = drain /\ ack.stale
         \/ drain' = Overtaken(drain)
  BY <1>1, AckFailsFacts
<1>4. DrainKept
  BY <1>3 DEF DrainKept
<1>5. ~ack.stale => (drain'.at \in {"apply", "snapshot", "read"} => drain'.stale = TRUE)
  <2>1. CASE drain' = Overtaken(drain)
    BY <1>1, <2>1, OvertakenDrain
  <2>2. CASE \E a \in {"ready", "idle", "recover"} : drain' = [Idle EXCEPT !.at = a]
    BY <2>2 DEF Idle
  <2> QED BY <1>3, <2>1, <2>2
<1>6. AckKept
  <2>1. CASE ack.stale
    BY <1>2, <2>1 DEF AckKept
  <2>2. CASE ~ack.stale
    BY <2>2 DEF AckFails, AckKept
  <2> QED BY <2>1, <2>2
<1>7. CASE ack.stale
  <2>1. recovery.at # "none" => stream.current = None
    BY DEF Owners
  <2>2. recovery.at = "release" => recovery.lease # None
    BY DEF Owners
  <2> QED BY <1>2, <1>4, <1>6, <1>7, <2>1, <2>2 DEF ClientMove
<1>8. CASE ~ack.stale
  BY <1>1, <1>2, <1>4, <1>5, <1>6, <1>8 DEF ClientMove, GivenUp
<1> QED BY <1>7, <1>8

LEMMA AfterReleaseFacts ==
    ASSUME NEW P, ClientOf(P), Owners, recovery.at = "release", AfterRelease
    PROVE /\ recovery' \in RecoveryOf(P) /\ DrainKept
          /\ recovery'.cursor \in {recovery.cursor, None}
          /\ recovery'.at = IF recovery.gaveUp THEN "none" ELSE "waiting"
<1>1. recovery \in RecoveryOf(P) /\ drain \in DrainOf(P)
  BY DEF ClientOf
<1>2. CASE recovery.gaveUp
  <2>1. recovery' = NoRecovery /\ drain' = Resumed(drain, FALSE)
    BY <1>2 DEF AfterRelease
  <2>2. DrainKept
    BY <1>1, <2>1, ResumedFacts DEF DrainKept
  <2> QED BY <1>2, <2>1, <2>2 DEF NoRecovery, RecoveryOf
<1>3. CASE ~recovery.gaveUp
  BY <1>1, <1>3 DEF AfterRelease, RecoveryOf, DrainKept
<1> QED BY <1>2, <1>3

LEMMA AckArrivesMove ==
    ASSUME NEW P, ClientOf(P), Owners, AckArrives(Head(down))
    PROVE ClientMove(P) /\ ack' = NoAck
<1>1. /\ stream \in StreamOf(P) /\ drain \in DrainOf(P) /\ ack \in AckOf(P)
      /\ task = stream.current
  BY DEF ClientOf
<1>2. /\ ack' = NoAck /\ task' = task /\ recovery' = recovery
      /\ stream' = IF ack.stale THEN stream
                   ELSE MarkRecovered([stream EXCEPT !.acknowledged = ack.cursor,
                          !.pendingSnapshot = IF ack.by = "drain" THEN None ELSE @])
      /\ drain' = IF ack.by = "drain" THEN [Idle EXCEPT !.at = "ready"] ELSE Requested(drain, stream')
  BY DEF AckArrives
<1>3. /\ stream' \in StreamOf(P) /\ stream'.current = stream.current
      /\ stream'.processed = stream.processed
      /\ stream'.acknowledged \in {stream.acknowledged, ack.cursor}
      /\ stream'.pendingChanges = stream.pendingChanges
      /\ stream'.pendingSnapshot \in {stream.pendingSnapshot, None}
  <2> DEFINE st == [stream EXCEPT !.acknowledged = ack.cursor,
                          !.pendingSnapshot = IF ack.by = "drain" THEN None ELSE @]
  <2>1. /\ st \in StreamOf(P) /\ st.current = stream.current
        /\ st.processed = stream.processed /\ st.acknowledged = ack.cursor
        /\ st.pendingChanges = stream.pendingChanges
        /\ st.pendingSnapshot \in {stream.pendingSnapshot, None}
    BY <1>1 DEF StreamOf, AckOf
  <2> HIDE DEF st
  <2>2. stream' = stream \/ stream' = MarkRecovered(st)
    BY <1>2 DEF st
  <2>3. /\ MarkRecovered(st) \in StreamOf(P) /\ MarkRecovered(st).current = st.current
        /\ MarkRecovered(st).processed = st.processed
        /\ MarkRecovered(st).acknowledged = st.acknowledged
        /\ MarkRecovered(st).pendingChanges = st.pendingChanges
        /\ MarkRecovered(st).pendingSnapshot = st.pendingSnapshot
    BY <2>1 DEF MarkRecovered, StreamOf
  <2> QED BY <1>1, <2>1, <2>2, <2>3
<1>4. DrainKept
  <2>1. \/ Requested(drain, stream') = drain
        \/ Requested(drain, stream') = [Idle EXCEPT !.at = "ready"]
    BY <1>1, RequestedFacts
  <2> QED BY <1>2, <2>1 DEF DrainKept
<1>5. ack' = NoAck /\ ack'.at = "none" /\ AckKept
  BY <1>2, NoAckFacts DEF AckKept
<1>6. /\ recovery.at # "none" => stream.current = None
      /\ recovery.at = "release" => recovery.lease # None
      /\ recovery \in RecoveryOf(P)
  BY DEF Owners, ClientOf
<1> QED BY <1>1, <1>2, <1>3, <1>4, <1>5, <1>6 DEF ClientMove

LEMMA ReleasedMove ==
    ASSUME NEW P, ClientOf(P), Owners, Released(Head(down))
    PROVE ClientMove(P)
<1>1. CASE recovery.at = "release" /\ recovery.lease = Head(down).lease
  <2>1. /\ AfterRelease /\ ack' = (IF recovery.gaveUp THEN Settled(ack) ELSE ack)
        /\ stream' = stream /\ task' = task
    BY <1>1 DEF Released
  <2>2. /\ recovery' \in RecoveryOf(P) /\ DrainKept
        /\ recovery'.cursor \in {recovery.cursor, None}
        /\ recovery'.at = IF recovery.gaveUp THEN "none" ELSE "waiting"
    BY <1>1, <2>1, AfterReleaseFacts
  <2>3. ack' \in {ack, NoAck} /\ (recovery.gaveUp => ack'.at # "recover")
    BY <2>1, SettledFacts DEF ClientOf
  <2>4. stream.current = None /\ task = stream.current /\ stream \in StreamOf(P)
    BY <1>1 DEF Owners, ClientOf
  <2> QED BY <2>1, <2>2, <2>3, <2>4 DEF ClientMove, AckKept
<1>2. CASE ~(recovery.at = "release" /\ recovery.lease = Head(down).lease)
  BY <1>2, NothingMoves DEF Released
<1> QED BY <1>1, <1>2

LEMMA LoseSocketMove ==
    ASSUME NEW P, ClientOf(P), Owners, LoseSocket
    PROVE ClientMove(P) /\ ack'.at \in {"none", "recover"} /\ recovery'.at \in {"none", "waiting"}
<1>1. /\ stream \in StreamOf(P) /\ drain \in DrainOf(P) /\ ack \in AckOf(P)
      /\ task = stream.current /\ recovery \in RecoveryOf(P)
  BY DEF ClientOf
<1>2. CASE recovery.at \in {"waiting", "sent"}
  <2>1. /\ recovery' = NoRecovery /\ ack' = NoAck /\ stream' = stream /\ task' = task
        /\ drain' = IF ack.at # "none" /\ ack.by = "drain" THEN [Idle EXCEPT !.at = "ready"]
                    ELSE Resumed(drain, FALSE)
    BY <1>2 DEF LoseSocket
  <2>2. DrainKept
    <3>1. \/ Resumed(drain, FALSE) = drain
          \/ \E a \in {"ready", "idle"} : Resumed(drain, FALSE) = [Idle EXCEPT !.at = a]
      BY <1>1, ResumedFacts
    <3> QED BY <2>1, <3>1 DEF DrainKept
  <2>3. /\ recovery' \in RecoveryOf(P) /\ recovery'.at = "none" /\ recovery'.cursor = None
    BY <2>1 DEF NoRecovery, RecoveryOf
  <2> QED BY <1>1, <2>1, <2>2, <2>3, NoAckFacts DEF ClientMove, AckKept
<1>3. CASE recovery.at = "release"
  <2>1. /\ AfterRelease /\ stream' = stream /\ task' = task
        /\ ack' = IF ack.at \in {"waiting", "sent"} \/ recovery.gaveUp THEN NoAck ELSE ack
    BY <1>3 DEF LoseSocket
  <2>2. /\ recovery' \in RecoveryOf(P) /\ DrainKept
        /\ recovery'.cursor \in {recovery.cursor, None}
        /\ recovery'.at = IF recovery.gaveUp THEN "none" ELSE "waiting"
    BY <1>3, <2>1, AfterReleaseFacts
  <2>3. /\ ack' \in {ack, NoAck} /\ ack'.at \in {"none", "recover"}
        /\ recovery.gaveUp => ack'.at = "none"
    BY <1>1, <2>1, NoAckFacts DEF AckOf
  <2>4. stream.current = None
    BY <1>3 DEF Owners
  <2> QED BY <1>1, <2>1, <2>2, <2>3, <2>4 DEF ClientMove, AckKept
<1>4. CASE recovery.at = "none" /\ ack.at # "none"
  <2>1. AckFails(FALSE) /\ ack.at \in {"waiting", "sent"}
    BY <1>1, <1>4 DEF LoseSocket, Owners, AckOf
  <2>2. ClientMove(P) /\ ack'.at \in {"none", "recover"}
    BY <2>1, AckFailsMove
  <2>3. recovery'.at \in {"none", "waiting"}
    BY <1>1, <1>4, <2>1, AckFailsFacts DEF Owners
  <2> QED BY <2>2, <2>3
<1>5. CASE recovery.at = "none" /\ ack.at = "none"
  BY <1>5, NothingMoves DEF LoseSocket
<1> QED BY <1>1, <1>2, <1>3, <1>4, <1>5 DEF RecoveryOf

LEMMA FailureMove ==
    ASSUME NEW P, ClientOf(P), Owners, ApplyFails \/ SnapshotFails
    PROVE ClientMove(P) /\ ack'.at = ack.at
<1>1. /\ stream \in StreamOf(P) /\ drain \in DrainOf(P) /\ ack \in AckOf(P)
  BY DEF ClientOf
<1>2. (channel = "open") \in BOOLEAN /\ TRUE \in BOOLEAN /\ FALSE \in BOOLEAN
  OBVIOUS
<1>3. CASE drain.stale
  <2>1. /\ drain' = [Idle EXCEPT !.at = "ready"]
        /\ UNCHANGED <<task, stream, recovery, ack>>
    BY <1>3 DEF ApplyFails, SnapshotFails
  <2> QED BY <2>1 DEF ClientMove, DrainKept, AckKept, ClientOf, Owners
<1>4. CASE ~drain.stale
  <2>1. stream.current # None
    BY <1>4 DEF ApplyFails, SnapshotFails, Owners
  <2>2. drain' = [Idle EXCEPT !.at = Awaiting] /\ ack' = Overtaken(ack)
    BY <1>4 DEF ApplyFails, SnapshotFails
  <2>3. ack'.at = ack.at
    BY <1>1, <2>2, OvertakenAck
  <2>4. PICK cursor \in {stream.acknowledged, None}, replay \in BOOLEAN :
          Recover(cursor, replay, channel = "open")
    <3>1. CASE ApplyFails
      BY <1>2, <1>4, <3>1 DEF ApplyFails
    <3>2. CASE SnapshotFails
      <4> DEFINE shown == stream.processed = drain.cursor
      <4>1. shown \in BOOLEAN
        OBVIOUS
      <4>2. Recover(IF shown THEN stream.acknowledged ELSE None, shown, channel = "open")
        BY <1>4, <3>2 DEF SnapshotFails
      <4> QED BY <4>1, <4>2
    <3> QED BY <3>1, <3>2
  <2> QED BY <1>2, <2>1, <2>2, <2>3, <2>4, RecoverMove
<1> QED BY <1>3, <1>4

LEMMA AttachRefusedMove ==
    ASSUME NEW P, ClientOf(P), Owners, AttachRefused(Head(down))
    PROVE ClientMove(P) /\ ack'.at = ack.at /\ task' = (IF task = Head(down).lease THEN None ELSE task)
<1>1. task = stream.current /\ ack \in AckOf(P)
  BY DEF ClientOf
<1>2. CASE task # None /\ task = Head(down).lease
  <2>1. /\ Recover(stream.acknowledged, TRUE, FALSE)
        /\ drain' = Overtaken(drain) /\ ack' = Overtaken(ack)
    BY <1>1, <1>2 DEF AttachRefused
  <2>2. ClientMove(P)
    BY <1>1, <1>2, <2>1, RecoverMove
  <2>3. task' = None
    BY <1>1, <2>1 DEF Recover
  <2> QED BY <1>1, <1>2, <2>1, <2>2, <2>3, OvertakenAck
<1>3. CASE ~(task # None /\ task = Head(down).lease)
  <2>1. UNCHANGED <<task, stream, drain, ack, recovery>>
    BY <1>3 DEF AttachRefused
  <2> QED BY <1>3, <2>1, NothingMoves
<1> QED BY <1>2, <1>3


LEMMA SubscribedEffect ==
    ASSUME NEW P, ClientOf(P), WireOf(P), Exchanges, Owners, down # <<>>, Subscribed(Head(down))
    PROVE /\ recovery.at = "sent" /\ stream.current = None
          /\ Answers(Head(down), "subscribe") /\ Head(down).lease \in Subs
          /\ stream' \in StreamOf(P) /\ stream'.current = Head(down).lease
          /\ stream' = [stream EXCEPT !.current = Head(down).lease, !.paused = FALSE]
          /\ stream'.processed = stream.processed /\ stream'.acknowledged = stream.acknowledged
          /\ stream'.pendingChanges = stream.pendingChanges
          /\ stream'.pendingSnapshot = stream.pendingSnapshot
          /\ recovery' = NoRecovery /\ NoRecovery \in RecoveryOf(P)
          /\ recovery'.at = "none" /\ recovery'.cursor = None
          /\ task' = stream'.current /\ DrainKept /\ AckKept /\ ack' \in {ack, NoAck}
          /\ ack'.at # "recover"
<1> DEFINE m == Head(down)
<1>1. /\ m \in MessageOf(P) /\ m = down[1] /\ 1 \in DOMAIN down
  BY HeadFacts DEF WireOf
<1>2. m.type = "result" /\ m.method = "subscribe" /\ m.lease \in Subs
  BY <1>1 DEF Subscribed, MessageOf
<1>3. recovery.at = "sent" /\ stream.current = None
  BY <1>1, <1>2 DEF Exchanges, UnderWay, Answers, Owners
<1>4. stream \in StreamOf(P) /\ drain \in DrainOf(P) /\ ack \in AckOf(P)
  BY DEF ClientOf
<1>5. /\ task' = m.lease /\ stream' = [stream EXCEPT !.current = m.lease, !.paused = FALSE]
      /\ recovery' = NoRecovery /\ drain' = Requested(Resumed(drain, TRUE), stream')
      /\ ack' = Settled(ack)
  BY DEF Subscribed
<1> HIDE DEF m
<1>6. /\ stream' \in StreamOf(P) /\ stream'.current = m.lease
      /\ stream'.processed = stream.processed /\ stream'.acknowledged = stream.acknowledged
      /\ stream'.pendingChanges = stream.pendingChanges
      /\ stream'.pendingSnapshot = stream.pendingSnapshot
  BY <1>2, <1>4, <1>5 DEF StreamOf
<1>7. DrainKept
  <2>1. /\ Resumed(drain, TRUE) \in DrainOf(P)
        /\ \/ Resumed(drain, TRUE) = drain
           \/ \E a \in {"ready", "idle"} : Resumed(drain, TRUE) = [Idle EXCEPT !.at = a]
    BY <1>4, ResumedFacts
  <2>2. ASSUME NEW d \in DrainOf(P), NEW st PROVE Requested(d, st) \in {d, [Idle EXCEPT !.at = "ready"]}
    BY RequestedFacts
  <2>3. drain' \in {Resumed(drain, TRUE), [Idle EXCEPT !.at = "ready"]}
    BY <1>5, <2>1, <2>2
  <2> QED BY <2>1, <2>3 DEF DrainKept
<1>8. ack' \in {ack, NoAck} /\ ack'.at # "recover" /\ AckKept
  BY <1>4, <1>5, SettledFacts DEF AckKept
<1>9. NoRecovery \in RecoveryOf(P) /\ NoRecovery.at = "none" /\ NoRecovery.cursor = None
  BY DEF NoRecovery, RecoveryOf
<1> QED BY <1>2, <1>3, <1>5, <1>6, <1>7, <1>8, <1>9 DEF m, Answers

\* A refused subscription ends the acquisition.
LEMMA SubscribeRefusedMove ==
    ASSUME NEW P, ClientOf(P), WireOf(P), Exchanges, Owners, down # <<>>,
           SubscribeRefused(Head(down))
    PROVE /\ ClientMove(P) /\ Answers(Head(down), "subscribe")
          /\ up' = up /\ channel' = channel /\ ack' = Settled(ack)
<1>1. 1 \in DOMAIN down /\ Head(down) = down[1]
  BY HeadFacts DEF WireOf
<1>2. Answers(Head(down), "subscribe")
  BY DEF SubscribeRefused, Answers
<1>3. recovery.at = "sent" /\ stream.current = None
  BY <1>1, <1>2 DEF Exchanges, UnderWay, Owners
<1>4. stream \in StreamOf(P) /\ drain \in DrainOf(P) /\ ack \in AckOf(P) /\ task = stream.current
  BY DEF ClientOf
<1>5. /\ UNCHANGED <<channel, task, stream, up>>
      /\ recovery' = NoRecovery /\ drain' = Resumed(drain, FALSE) /\ ack' = Settled(ack)
  BY DEF SubscribeRefused
<1>6. DrainKept
  <2>1. \/ Resumed(drain, FALSE) = drain
        \/ \E a \in {"ready", "idle"} : Resumed(drain, FALSE) = [Idle EXCEPT !.at = a]
    BY <1>4, ResumedFacts
  <2> QED BY <1>5, <2>1 DEF DrainKept
<1>7. AckKept /\ ack'.at # "recover"
  BY <1>4, <1>5, SettledFacts DEF AckKept
<1>8. recovery' \in RecoveryOf(P) /\ recovery'.at = "none" /\ recovery'.cursor = None
  BY <1>5 DEF NoRecovery, RecoveryOf
<1> QED BY <1>2, <1>3, <1>4, <1>5, <1>6, <1>7, <1>8 DEF ClientMove

\* What waited for the channel goes out.
LEMMA SendEffect ==
    ASSUME NEW P, ClientOf(P), WireOf(P), Owners, SendWaiting
    PROVE /\ channel = "open" /\ UNCHANGED <<channel, stream, task, drain, missing, down, socket>>
          /\ ack' \in AckOf(P) /\ recovery' \in RecoveryOf(P)
          /\ ack'.cursor = ack.cursor /\ recovery'.cursor = recovery.cursor
          /\ ack'.lease = ack.lease /\ ack'.stale = ack.stale
          /\ \E r \in RequestOf(P) :
               /\ up' = Append(up, r)
               /\ \/ /\ r.method = "ack" /\ ack.at = "waiting" /\ ack'.at = "sent"
                     /\ r.cursor = ack.cursor /\ recovery' = recovery
                  \/ /\ r.method = "subscribe" /\ recovery.at = "waiting" /\ recovery'.at = "sent"
                     /\ r.cursor = recovery.cursor /\ ack' = ack
<1>1. ack \in AckOf(P) /\ recovery \in RecoveryOf(P)
  BY DEF ClientOf
<1>2. CASE /\ ack.at = "waiting" /\ ack' = [ack EXCEPT !.at = "sent"]
           /\ up' = Append(up, AckRequest(ack.lease, ack.cursor)) /\ recovery' = recovery
  <2>1. /\ ack' \in AckOf(P) /\ ack'.cursor = ack.cursor /\ ack'.lease = ack.lease
        /\ ack'.stale = ack.stale /\ ack'.at = "sent"
    BY <1>1, <1>2 DEF AckOf
  <2>2. /\ AckRequest(ack.lease, ack.cursor) \in RequestOf(P)
        /\ AckRequest(ack.lease, ack.cursor).method = "ack"
        /\ AckRequest(ack.lease, ack.cursor).cursor = ack.cursor
    BY <1>1, <1>2 DEF AckOf, AckRequest, RequestOf, Owners
  <2> QED BY <1>1, <1>2, <2>1, <2>2 DEF SendWaiting
<1>3. CASE /\ recovery.at = "waiting" /\ recovery' = [recovery EXCEPT !.at = "sent"]
           /\ up' = Append(up, SubscribeRequest(recovery.cursor)) /\ ack' = ack
  <2>1. /\ recovery' \in RecoveryOf(P) /\ recovery'.cursor = recovery.cursor
        /\ recovery'.at = "sent"
    BY <1>1, <1>3 DEF RecoveryOf
  <2>2. /\ SubscribeRequest(recovery.cursor) \in RequestOf(P)
        /\ SubscribeRequest(recovery.cursor).method = "subscribe"
        /\ SubscribeRequest(recovery.cursor).cursor = recovery.cursor
    BY <1>1 DEF RecoveryOf, SubscribeRequest, RequestOf
  <2> QED BY <1>1, <1>3, <2>1, <2>2 DEF SendWaiting
<1> QED BY <1>2, <1>3 DEF SendWaiting

\* A turn of the loop ends, waits, acknowledges, or starts a snapshot or a run of changes.
LEMMA DrainTurnEffect ==
    ASSUME NEW P, ClientOf(P), WireOf(P), DrainTurn
    PROVE /\ UNCHANGED <<channel, stream, task, recovery, missing, down, socket, opened>>
          /\ drain.at \in {"ready", "waitAck"} /\ drain' \in DrainOf(P)
          /\ \/ DrainKept /\ UNCHANGED <<ack, up>>
             \/ /\ DrainKept /\ AckStarts(P, "progress", stream.processed)
                /\ stream.current # None /\ stream.processed # None /\ ack.at = "none"
             \/ /\ drain'.at = "acknowledge" /\ drain'.cursor = stream.processed /\ drain'.changes = {}
                /\ AckStarts(P, "drain", stream.processed)
                /\ stream.current # None /\ stream.processed # None /\ ack.at = "none"
             \/ /\ drain'.at = "snapshot" /\ drain'.cursor = stream.pendingSnapshot
                /\ drain'.stale = FALSE /\ drain'.changes = {} /\ stream.pendingSnapshot # None
                /\ stream.current # None /\ ack.at = "none" /\ UNCHANGED <<ack, up>>
             \/ /\ drain'.at = "apply" /\ drain'.changes = NextChanges(stream)
                /\ drain'.stale = FALSE /\ drain'.cursor = None
                /\ NextChanges(stream) # {} /\ NextChanges(stream) \subseteq stream.pendingChanges
                /\ stream.processed # None /\ stream.pendingSnapshot = None
                /\ stream.current # None /\ UNCHANGED <<ack, up>>
<1> DEFINE st == stream
           next == NextChanges(st)
<1>1. /\ UNCHANGED <<channel, stream, task, recovery, missing, down, socket, opened>>
      /\ drain.at \in {"ready", "waitAck"}
  BY DEF DrainTurn
<1>2. /\ st \in StreamOf(P) /\ next \subseteq st.pendingChanges /\ next \in SUBSET P
      /\ next # {} => st.processed # None
  BY DEF ClientOf, StreamOf, NextChanges
<1>3. /\ Idle \in DrainOf(P) /\ Idle.at = "idle" /\ Idle = [Idle EXCEPT !.at = "idle"]
  <2>1. Idle \in DrainOf(P) /\ Idle.at = "idle"
    BY DEF Idle, DrainOf
  <2> QED BY <2>1 DEF DrainOf
<1>4. CASE drain' = Idle /\ UNCHANGED <<ack, up>>
  <2>1. DrainKept
    BY <1>3, <1>4 DEF DrainKept
  <2> QED BY <1>1, <1>3, <1>4, <2>1
<1>5. CASE drain' = [Idle EXCEPT !.at = "waitAck"] /\ UNCHANGED <<ack, up>>
  BY <1>1, <1>5, IdleFacts DEF DrainKept, DrainPlaces
<1>6. CASE /\ drain' = [Idle EXCEPT !.at = "acknowledge", !.cursor = st.processed]
           /\ st.pendingSnapshot # None /\ st.processed = st.pendingSnapshot
           /\ st.current # None /\ ack.at = "none" /\ SendAck("drain", st.processed)
  <2>1. st.processed \in P
    BY <1>2, <1>6 DEF StreamOf
  <2>2. AckStarts(P, "drain", st.processed)
    BY <1>2, <1>6, <2>1, SendAckFacts DEF StreamOf
  <2>4. /\ drain' \in DrainOf(P) /\ drain'.at = "acknowledge" /\ drain'.cursor = stream.processed
        /\ drain'.changes = {}
    BY <1>3, <1>6, <2>1 DEF DrainOf, Idle
  <2> QED BY <1>1, <1>6, <2>1, <2>2, <2>4
<1>7. CASE /\ drain' = [Idle EXCEPT !.at = "snapshot", !.cursor = st.pendingSnapshot]
           /\ st.pendingSnapshot # None /\ st.current # None
           /\ ack.at = "none" /\ UNCHANGED <<ack, up>>
  <2>1. st.pendingSnapshot \in P
    BY <1>2, <1>7 DEF StreamOf
  <2>2. /\ drain' \in DrainOf(P) /\ drain'.at = "snapshot" /\ drain'.cursor = stream.pendingSnapshot
        /\ drain'.stale = FALSE /\ drain'.changes = {}
    BY <1>3, <1>7, <2>1 DEF DrainOf, Idle
  <2> QED BY <1>1, <1>7, <2>2
<1>8. CASE /\ drain' = Idle /\ st.current # None /\ AcknowledgeProgress(st)
  <2>1. DrainKept
    BY <1>3, <1>8 DEF DrainKept
  <2>2. CASE UNCHANGED <<ack, up>>
    BY <1>1, <1>3, <1>8, <2>1, <2>2
  <2>3. CASE /\ ack.at = "none" /\ st.processed # None /\ SendAck("progress", st.processed)
    <3>1. st.processed \in P
      BY <1>2, <2>3 DEF StreamOf
    <3>2. AckStarts(P, "progress", st.processed)
      BY <1>2, <1>8, <2>3, <3>1, SendAckFacts DEF StreamOf
    <3> QED BY <1>1, <1>3, <1>8, <2>1, <2>3, <3>2
  <2> QED BY <1>8, <2>2, <2>3 DEF AcknowledgeProgress
<1>9. CASE /\ drain' = [Idle EXCEPT !.at = "apply", !.changes = next] /\ next # {}
           /\ st.pendingSnapshot = None /\ st.current # None /\ UNCHANGED <<ack, up>>
  <2>1. drain' \in DrainOf(P) /\ drain'.at = "apply" /\ drain'.changes = next /\ drain'.stale = FALSE
        /\ drain'.cursor = None
    <3> HIDE DEF next
    <3> QED BY <1>2, <1>3, <1>9 DEF DrainOf, Idle
  <2> QED BY <1>1, <1>2, <1>9, <2>1
<1> QED BY <1>4, <1>5, <1>6, <1>7, <1>8, <1>9 DEF DrainTurn

\* A run of changes that follows the processed cursor is shown, and the cursor moves to its end.
LEMMA ChangesEffect ==
    ASSUME NEW P, P \subseteq Cursor, ClientOf(P), WireOf(P), Owners, Forward, ChangesApplied
    PROVE /\ UNCHANGED <<channel, task, recovery, down, socket, opened>>
          /\ DrainKept /\ drain'.at = "ready" /\ drain.at = "apply"
          /\ stream' \in StreamOf(P) /\ stream'.current = stream.current
          /\ stream'.acknowledged = stream.acknowledged
          /\ stream'.pendingChanges \subseteq stream.pendingChanges
          /\ stream'.pendingSnapshot = stream.pendingSnapshot
          /\ missing' \subseteq missing /\ incomplete' = incomplete /\ (incomplete => missing' = missing)
          /\ \/ UNCHANGED <<stream, ack, up>>
             \/ /\ ~drain.stale
                /\ stream'.processed \in drain.changes
                /\ stream.pendingSnapshot = None /\ stream.processed # None
                /\ Covers(stream'.processed, stream.processed)
                /\ ~incomplete => \A c \in missing' : ~Covers(stream'.processed, c)
                /\ \/ UNCHANGED <<ack, up>>
                   \/ ack.at = "none" /\ stream.current # None /\ AckStarts(P, "progress", stream'.processed)
<1>1. /\ stream \in StreamOf(P) /\ drain \in DrainOf(P) /\ missing \subseteq P
  BY DEF ClientOf
<1>2. /\ UNCHANGED <<channel, task, recovery, down, socket, opened>>
      /\ drain.at = "apply" /\ drain' = [Idle EXCEPT !.at = "ready"]
  BY DEF ChangesApplied
<1>3. DrainKept /\ drain'.at = "ready"
  BY <1>2 DEF DrainKept, Idle
<1>4. CASE drain.stale
  <2>1. /\ missing' \subseteq missing /\ incomplete' = incomplete /\ (incomplete => missing' = missing)
        /\ UNCHANGED <<stream, ack, up>>
    BY <1>4 DEF ChangesApplied, PatchList
  <2> QED BY <1>1, <1>2, <1>3, <2>1
<1>5. CASE ~drain.stale
  <2> DEFINE run == drain.changes
             p == stream.processed
             top == Newest(run)
  <2>1. /\ missing' = IF incomplete THEN missing ELSE missing \ run
        /\ incomplete' = incomplete
        /\ stream' = [stream EXCEPT !.processed = top, !.pendingChanges = @ \ run]
        /\ AcknowledgeProgress(stream')
    BY <1>5 DEF ChangesApplied, PatchList
  <2>2. /\ stream.current # None /\ stream.pendingSnapshot = None /\ p # None /\ run # {}
        /\ \A c \in run :
             /\ c.epoch = p.epoch /\ c.sequence > p.sequence
             /\ \A n \in (p.sequence + 1) .. c.sequence : At(c.epoch, n) \in run
    BY <1>2, <1>5 DEF Owners, Forward
  <2>3. run \subseteq P /\ p \in P /\ p \in Cursor /\ run \subseteq Cursor
    BY <1>1, <2>2 DEF StreamOf, DrainOf
  <2>4. top \in run
    BY <2>2, <2>3, NewestFacts
  <2> HIDE DEF top, run
  <2>5. /\ stream' \in StreamOf(P) /\ stream'.processed = top /\ stream'.current = stream.current
        /\ stream'.acknowledged = stream.acknowledged
        /\ stream'.pendingChanges \subseteq stream.pendingChanges
        /\ stream'.pendingSnapshot = stream.pendingSnapshot
    BY <1>1, <2>1, <2>3, <2>4 DEF StreamOf
  <2>6. /\ top.epoch = p.epoch /\ top.sequence > p.sequence
        /\ \A n \in (p.sequence + 1) .. top.sequence : At(top.epoch, n) \in run
    BY <2>2, <2>4
  <2>7. top \in Cursor
    BY <2>3, <2>4
  <2>8. Covers(top, p)
    BY <2>3, <2>6, <2>7, StreamAssumption DEF Covers, Cursor, StreamAssumption
  <2>9. ASSUME NEW c \in missing', ~incomplete PROVE ~Covers(top, c)
    <3>1. c \in missing /\ c \notin run /\ c \in Cursor
      BY <1>1, <2>1, <2>9
    <3>2. ~Covers(p, c)
      BY <2>2, <2>9, <3>1 DEF Forward
    <3> SUFFICES ASSUME Covers(top, c) PROVE FALSE
      OBVIOUS
    <3>3. c.epoch = p.epoch /\ c.sequence \in (p.sequence + 1) .. top.sequence
      BY <2>3, <2>6, <2>7, <3>1, <3>2, StreamAssumption DEF Covers, Cursor, StreamAssumption
    <3>4. At(top.epoch, c.sequence) \in run
      BY <2>6, <3>3
    <3>5. c = At(top.epoch, c.sequence)
      BY <2>6, <3>1, <3>3 DEF At, Cursor
    <3> QED BY <3>1, <3>4, <3>5
  <2>10. \/ UNCHANGED <<ack, up>>
         \/ ack.at = "none" /\ AckStarts(P, "progress", stream'.processed)
    <3>1. CASE UNCHANGED <<ack, up>>
      BY <3>1
    <3>2. CASE ack.at = "none" /\ SendAck("progress", stream'.processed)
      <4>1. stream.current \in Subs /\ stream'.processed \in P
        BY <1>1, <2>2, <2>3, <2>4, <2>5 DEF StreamOf
      <4> QED BY <3>2, <4>1, SendAckFacts
    <3> QED BY <2>1, <3>1, <3>2 DEF AcknowledgeProgress
  <2>11. missing' \subseteq missing /\ incomplete' = incomplete /\ (incomplete => missing' = missing)
    BY <2>1
  <2> QED BY <1>2, <1>3, <1>5, <2>2, <2>4, <2>5, <2>8, <2>9, <2>10, <2>11 DEF run
<1> QED BY <1>4, <1>5

\* The reads of a snapshot end with the cursor they were made at, or with a list that is incomplete.
LEMMA SnapshotReadEffect ==
    ASSUME NEW P, ClientOf(P), CurrentCursor(log) \in P, SnapshotRead \/ WorkspaceReadFails
    PROVE /\ UNCHANGED <<channel, stream, task, ack, recovery, missing, down, up, socket, opened>>
          /\ drain.at = "snapshot" /\ drain' \in DrainOf(P) /\ drain'.at = "read"
          /\ drain'.cursor = drain.cursor /\ drain'.stale = drain.stale
          /\ \/ drain'.changes = {CurrentCursor(log)} /\ UNCHANGED <<incomplete, failures>>
             \/ /\ drain'.changes = {} /\ incomplete' = TRUE
                /\ failures' = failures + 1 /\ failures < MaxFailures
<1>1. drain \in DrainOf(P)
  BY DEF ClientOf
<1>2. PICK read \in {{CurrentCursor(log)}, {}} :
        /\ SnapshotEnds(read)
        /\ \/ read = {CurrentCursor(log)} /\ UNCHANGED <<incomplete, failures>>
           \/ /\ read = {} /\ incomplete' = TRUE
              /\ failures' = failures + 1 /\ failures < MaxFailures
  BY DEF SnapshotRead, WorkspaceReadFails
<1>3. /\ UNCHANGED <<channel, stream, task, ack, recovery, missing, down, up, socket, opened>>
      /\ drain.at = "snapshot"
      /\ drain' = [drain EXCEPT !.at = "read", !.changes = read]
  BY <1>2 DEF SnapshotEnds, wireVars
<1>4. read \subseteq P
  BY <1>2
<1>5. /\ drain' \in DrainOf(P) /\ drain'.at = "read"
      /\ drain'.cursor = drain.cursor /\ drain'.stale = drain.stale /\ drain'.changes = read
  BY <1>1, <1>3, <1>4 DEF DrainOf
<1> QED BY <1>2, <1>3, <1>5

\* A snapshot that was read at its boundary or later is shown, or the list whose read failed stays
\* as it is; the cursor moves to the boundary.
LEMMA SnapshotEffect ==
    ASSUME NEW P, P \subseteq Cursor, ClientOf(P), WireOf(P), Owners, Forward, Past \subseteq P,
           SnapshotApplied
    PROVE /\ UNCHANGED <<channel, task, recovery, down, socket, opened>>
          /\ stream' \in StreamOf(P) /\ stream'.current = stream.current
          /\ stream'.acknowledged = stream.acknowledged
          /\ stream'.pendingChanges = stream.pendingChanges
          /\ stream'.pendingSnapshot = stream.pendingSnapshot
          /\ missing' \subseteq missing /\ drain' \in DrainOf(P)
          /\ incomplete' \in BOOLEAN /\ (incomplete' => incomplete /\ missing' = missing)
          /\ drain'.at \in {"ready", "acknowledge"} /\ drain'.cursor \in {drain.cursor, None}
          /\ stream'.processed # None /\ ~incomplete' =>
               \A c \in missing' : ~Covers(stream'.processed, c)
          /\ \/ UNCHANGED <<stream, ack, up>>
             \/ /\ ~drain.stale /\ drain.cursor # None
                /\ stream'.processed = drain.cursor
                /\ stream.pendingSnapshot \in {drain.cursor, None}
                /\ stream.processed # None => Covers(drain.cursor, stream.processed)
                /\ stream.current # None /\ ack.at = "none" /\ AckStarts(P, "drain", drain.cursor)
<1>1. /\ stream \in StreamOf(P) /\ drain \in DrainOf(P) /\ missing \subseteq P
      /\ incomplete \in BOOLEAN
  BY DEF ClientOf
<1>2. UNCHANGED <<channel, task, recovery, down, socket, opened>> /\ drain.at = "read"
  BY DEF SnapshotApplied
<1>3. ShowList \/ (drain.stale /\ UNCHANGED <<missing, incomplete>>)
  BY DEF SnapshotApplied
<1>4. /\ missing' \subseteq missing /\ incomplete' \in BOOLEAN
      /\ incomplete' => incomplete /\ missing' = missing
  <2>1. CASE ShowList
    <3>1. missing' = {c \in missing : \A read \in drain.changes : ~Covers(read, c)}
      BY <2>1 DEF ShowList
    <3>2. incomplete' \in BOOLEAN /\ (incomplete' => incomplete /\ drain.changes = {})
      BY <1>1, <2>1 DEF ShowList
    <3> QED BY <3>1, <3>2
  <2>2. CASE UNCHANGED <<missing, incomplete>>
    BY <1>1, <2>2
  <2> QED BY <1>3, <2>1, <2>2
<1>5. ASSUME ShowList, ~incomplete', NEW cursor \in Cursor,
             cursor = drain.cursor \/ cursor = stream.processed, NEW c \in missing'
      PROVE ~Covers(cursor, c)
  <2>1. drain.changes # {}
    BY <1>2, <1>5 DEF ShowList, Forward
  <2>2. PICK read \in Past :
          /\ drain.changes = {read} /\ Covers(read, drain.cursor)
          /\ stream.processed # None => Covers(read, stream.processed)
    BY <1>2, <2>1 DEF Owners, Forward
  <2>3. Covers(read, cursor)
    <3>1. cursor # None
      BY <1>5, StreamAssumption DEF StreamAssumption, Cursor
    <3>2. CASE cursor = drain.cursor
      BY <2>2, <3>2
    <3>3. CASE cursor = stream.processed
      BY <2>2, <3>1, <3>3
    <3> QED BY <1>5, <3>2, <3>3
  <2>4. missing' = {d \in missing : \A r \in drain.changes : ~Covers(r, d)}
    BY <1>5 DEF ShowList
  <2>5. c \in missing /\ \A r \in drain.changes : ~Covers(r, c)
    BY <2>4
  <2>6. c \in Cursor /\ read \in Cursor /\ ~Covers(read, c)
    BY <1>1, <2>2, <2>5
  <2> QED BY <2>3, <2>6, CoversFacts
<1>6. CASE drain.stale
  <2>1. UNCHANGED <<stream, ack, up>> /\ drain' = [Idle EXCEPT !.at = "ready"]
    BY <1>6 DEF SnapshotApplied
  <2>2. drain' \in DrainOf(P) /\ drain'.at = "ready" /\ drain'.cursor = None
    BY <2>1, IdleFacts DEF DrainPlaces
  <2>3. ASSUME stream.processed # None, ~incomplete', NEW c \in missing'
        PROVE ~Covers(stream.processed, c)
    <3>1. stream.processed \in Cursor
      BY <1>1, <2>3 DEF StreamOf
    <3>2. CASE UNCHANGED <<missing, incomplete>>
      BY <2>3, <3>2 DEF Forward
    <3> QED BY <1>3, <1>5, <2>3, <3>1, <3>2
  <2> QED BY <1>1, <1>2, <1>4, <2>1, <2>2, <2>3
<1>7. CASE ~drain.stale
  <2>1. /\ ShowList /\ stream' = [stream EXCEPT !.processed = drain.cursor]
        /\ drain' = [Idle EXCEPT !.at = "acknowledge", !.cursor = drain.cursor]
        /\ SendAck("drain", drain.cursor)
    BY <1>7 DEF SnapshotApplied
  <2>2. /\ drain.cursor # None /\ ack.at = "none" /\ stream.current # None
        /\ stream.pendingSnapshot \in {drain.cursor, None}
        /\ stream.processed # None => Covers(drain.cursor, stream.processed)
    BY <1>2, <1>7 DEF Owners, Forward
  <2>3. drain.cursor \in P /\ stream.current \in Subs
    BY <1>1, <2>2 DEF DrainOf, StreamOf
  <2>4. /\ stream' \in StreamOf(P) /\ stream'.processed = drain.cursor
        /\ stream'.current = stream.current /\ stream'.acknowledged = stream.acknowledged
        /\ stream'.pendingChanges = stream.pendingChanges
        /\ stream'.pendingSnapshot = stream.pendingSnapshot
    BY <1>1, <2>1, <2>3 DEF StreamOf
  <2>5. drain' \in DrainOf(P) /\ drain'.at = "acknowledge" /\ drain'.cursor = drain.cursor
    <3>1. Idle \in DrainOf(P)
      BY DEF Idle, DrainOf
    <3> QED BY <1>1, <2>1, <2>3, <3>1 DEF DrainOf, Idle
  <2>6. AckStarts(P, "drain", drain.cursor)
    BY <2>1, <2>3, SendAckFacts
  <2>7. ~incomplete' => \A c \in missing' : ~Covers(drain.cursor, c)
    BY <1>5, <2>1, <2>3
  <2> QED BY <1>2, <1>4, <1>7, <2>2, <2>4, <2>5, <2>6, <2>7
<1> QED BY <1>6, <1>7

-----------------------------------------------------------------------------
(* One exchange of a method at a time *)

LEMMA ReceivedKeeps ==
    ASSUME NEW S, NEW u, NEW d \in Seq(S), d # <<>>, NEW method, Single(u, d, method)
    PROVE /\ Single(u, Tail(d), method)
          /\ UnderWay(u, Tail(d), method) => UnderWay(u, d, method)
          /\ Answers(Head(d), method) => UnderWay(u, d, method) /\ ~UnderWay(u, Tail(d), method)
<1>1. /\ 1 \in DOMAIN d /\ Head(d) = d[1]
      /\ \A i \in DOMAIN Tail(d) : i + 1 \in DOMAIN d /\ Tail(d)[i] = d[i + 1] /\ i \in Nat /\ i + 1 # 1
  BY HeadFacts
<1>2. \A i, j \in DOMAIN Tail(d) : i + 1 = j + 1 => i = j
  BY <1>1
<1>3. Single(u, Tail(d), method)
  BY <1>1, <1>2 DEF Single
<1>4. UnderWay(u, Tail(d), method) => UnderWay(u, d, method)
  BY <1>1 DEF UnderWay
<1>5. ASSUME Answers(Head(d), method)
      PROVE UnderWay(u, d, method) /\ ~UnderWay(u, Tail(d), method)
  <2>1. \A i \in DOMAIN u : u[i].method # method
    BY <1>1, <1>5 DEF Single
  <2>2. \A j \in DOMAIN Tail(d) : ~Answers(Tail(d)[j], method)
    BY <1>1, <1>5 DEF Single
  <2> QED BY <1>1, <1>5, <2>1, <2>2 DEF UnderWay
<1> QED BY <1>3, <1>4, <1>5

LEMMA RequestKeeps ==
    ASSUME NEW R, NEW u \in Seq(R), NEW d, NEW r \in R, NEW method, Single(u, d, method),
           r.method = method => ~UnderWay(u, d, method)
    PROVE /\ Single(Append(u, r), d, method)
          /\ UnderWay(Append(u, r), d, method) => UnderWay(u, d, method) \/ r.method = method
<1>1. \A i \in DOMAIN Append(u, r) :
        \/ i \in DOMAIN u /\ Append(u, r)[i] = u[i]
        \/ i = Len(u) + 1 /\ Append(u, r)[i] = r
  BY AppendFacts
<1>2. r.method # method \/ (/\ \A i \in DOMAIN u : u[i].method # method
                            /\ \A j \in DOMAIN d : ~Answers(d[j], method))
  BY DEF UnderWay
<1>3. Single(Append(u, r), d, method)
  BY <1>1, <1>2 DEF Single
<1> QED BY <1>1, <1>3 DEF UnderWay

\* A message that answers nothing.
LEMMA FrameKeeps ==
    ASSUME NEW S, NEW u, NEW d \in Seq(S), NEW m \in S, NEW method, ~Answers(m, method),
           Single(u, d, method)
    PROVE /\ Single(u, Append(d, m), method)
          /\ UnderWay(u, Append(d, m), method) => UnderWay(u, d, method)
<1>1. \A i \in DOMAIN Append(d, m) :
        \/ i \in DOMAIN d /\ Append(d, m)[i] = d[i]
        \/ i = Len(d) + 1 /\ Append(d, m)[i] = m
  BY AppendFacts
<1> QED BY <1>1 DEF Single, UnderWay

\* The host answers the next request.
LEMMA AnswerKeeps ==
    ASSUME NEW R, NEW u \in Seq(R), u # <<>>, NEW S, NEW d \in Seq(S), NEW m \in S, NEW method,
           Answers(m, method) <=> Head(u).method = method, Single(u, d, method)
    PROVE /\ Single(Tail(u), Append(d, m), method)
          /\ UnderWay(Tail(u), Append(d, m), method) => UnderWay(u, d, method)
<1>1. /\ 1 \in DOMAIN u /\ Head(u) = u[1]
      /\ \A i \in DOMAIN Tail(u) : i + 1 \in DOMAIN u /\ Tail(u)[i] = u[i + 1] /\ i \in Nat /\ i + 1 # 1
  BY HeadFacts
<1>2. \A i, j \in DOMAIN Tail(u) : i + 1 = j + 1 => i = j
  BY <1>1
<1>3. \A i \in DOMAIN Append(d, m) :
        \/ i \in DOMAIN d /\ Append(d, m)[i] = d[i]
        \/ i = Len(d) + 1 /\ Append(d, m)[i] = m
  BY AppendFacts
<1>4. UnderWay(Tail(u), Append(d, m), method) => UnderWay(u, d, method)
  BY <1>1, <1>3 DEF UnderWay
<1>5. CASE Head(u).method # method
  <2>1. Single(Tail(u), d, method)
    BY <1>1, <1>2 DEF Single
  <2> QED BY <1>4, <1>5, <2>1, FrameKeeps
<1>6. CASE Head(u).method = method
  <2>1. /\ \A i \in DOMAIN Tail(u) : Tail(u)[i].method # method
        /\ \A j \in DOMAIN d : ~Answers(d[j], method)
    BY <1>1, <1>6 DEF Single
  <2>2. \A i \in DOMAIN Append(d, m) : Answers(Append(d, m)[i], method) => i = Len(d) + 1
    BY <1>3, <2>1
  <2> QED BY <1>4, <2>1, <2>2 DEF Single
<1> QED BY <1>4, <1>5, <1>6

\* The state of the channel and of the client's two jobs that go with what is under way.
Exchange(u, d, ch, a, r) ==
    /\ Single(u, d, "attach") /\ Single(u, d, "ack") /\ Single(u, d, "subscribe")
    /\ UnderWay(u, d, "attach") => ch = "attaching"
    /\ UnderWay(u, d, "ack") => a = "sent"
    /\ UnderWay(u, d, "subscribe") => r = "sent" /\ ch = "open"

LEMMA ExchangesAre == Exchanges <=> Exchange(up, down, channel, ack.at, recovery.at)
BY DEF Exchanges, Exchange

LEMMA NoExchange ==
    ASSUME NEW ch, NEW a, NEW r PROVE Exchange(<<>>, <<>>, ch, a, r)
BY DEF Exchange, Single, UnderWay

\* The answer that arrives ends its exchange.
LEMMA ReceivedExchange ==
    ASSUME NEW S, NEW u, NEW d \in Seq(S), d # <<>>, NEW ch, NEW a, NEW r, Exchange(u, d, ch, a, r),
           NEW ch2, NEW a2, NEW r2,
           ch2 = ch \/ (ch2 = "open" /\ Answers(Head(d), "attach")),
           a = "sent" => a2 = a \/ Answers(Head(d), "ack"),
           r = "sent" => r2 = r \/ Answers(Head(d), "subscribe")
    PROVE Exchange(u, Tail(d), ch2, a2, r2)
<1>1. \A method \in {"attach", "ack", "subscribe"} :
        /\ Single(u, Tail(d), method)
        /\ UnderWay(u, Tail(d), method) => UnderWay(u, d, method)
        /\ Answers(Head(d), method) => UnderWay(u, d, method) /\ ~UnderWay(u, Tail(d), method)
  BY ReceivedKeeps DEF Exchange
<1> QED BY <1>1 DEF Exchange

\* A request starts an exchange that the client's state goes with, or a release.
LEMMA RequestExchange ==
    ASSUME NEW R, NEW u \in Seq(R), NEW d, NEW q \in R, NEW ch, NEW a, NEW r,
           Exchange(u, d, ch, a, r), NEW a2, NEW r2, q.method \in {"ack", "subscribe", "release"},
           a2 = a \/ a # "sent", r2 = r \/ r # "sent",
           q.method = "ack" => a # "sent" /\ a2 = "sent",
           q.method = "subscribe" => r # "sent" /\ r2 = "sent" /\ ch = "open"
    PROVE Exchange(Append(u, q), d, ch, a2, r2)
<1>1. \A method \in {"attach", "ack", "subscribe"} :
        (q.method = method => ~UnderWay(u, d, method))
  BY DEF Exchange
<1>2. \A method \in {"attach", "ack", "subscribe"} :
        /\ Single(Append(u, q), d, method)
        /\ UnderWay(Append(u, q), d, method) => UnderWay(u, d, method) \/ q.method = method
  BY <1>1, RequestKeeps DEF Exchange
<1> QED BY <1>2 DEF Exchange

-----------------------------------------------------------------------------
(* What the client's actions leave under way *)

\* An action changes nothing on the wire but the requests, to which it may add one.
Requests(P) ==
    \/ up' = up
    \/ \E r \in RequestOf(P) :
         /\ up' = Append(up, r)
         /\ r.method \in {"ack", "subscribe", "release"}
         /\ r.cursor \in {None, ack'.cursor, recovery'.cursor}
         /\ r.method = "ack" => ack.at # "sent" /\ ack'.at = "sent"
         /\ r.method = "subscribe" =>
              recovery.at # "sent" /\ recovery'.at = "sent" /\ channel = "open"

LEMMA ReleaseFacts ==
    ASSUME NEW P, NEW s \in Subs, up' = up \/ up' = Append(up, ReleaseRequest(s))
    PROVE Requests(P) /\ (up' = up \/ \E r \in RequestOf(P) : r.method = "release" /\ up' = Append(up, r))
<1>1. /\ ReleaseRequest(s) \in RequestOf(P) /\ ReleaseRequest(s).method = "release"
      /\ ReleaseRequest(s).cursor = None
  BY DEF ReleaseRequest, RequestOf
<1> QED BY <1>1 DEF Requests

\* The release of a subscription that a recovery closes.
LEMMA ReleaseSentFacts ==
    ASSUME NEW P, stream.current \in Subs, up' = ReleaseSent,
           recovery'.at = "release" => recovery'.lease = stream.current
    PROVE up' = up \/ up' = Append(up, ReleaseRequest(stream.current))
BY DEF ReleaseSent

LEMMA ArrivalFacts ==
    ASSUME MessageArrives
    PROVE /\ socket # 0 /\ down # <<>> /\ down' = Tail(down)
          /\ UNCHANGED <<streamVars, leaseVars, socket, opened, missing, incomplete, failures>>
          /\ \/ FrameArrives(Head(down)) \/ Subscribed(Head(down)) \/ Attached(Head(down))
             \/ SubscribeRefused(Head(down)) \/ AttachRefused(Head(down)) \/ AckArrives(Head(down))
             \/ AckRefused(Head(down)) \/ Released(Head(down))
BY DEF MessageArrives, FrameArrives, Subscribed, SubscribeRefused, Attached, AttachRefused,
       AckArrives, AckRefused, Released, Arrives

LEMMA AckRefusedMove ==
    ASSUME NEW P, ClientOf(P), WireOf(P), Exchanges, Owners, down # <<>>, AckRefused(Head(down))
    PROVE /\ ClientMove(P) /\ ack'.at \in {"none", "recover"} /\ Answers(Head(down), "ack")
          /\ recovery.at = "sent" => recovery' = recovery
          /\ up' = up \/ \E s \in Subs : up' = Append(up, ReleaseRequest(s))
<1>1. 1 \in DOMAIN down /\ Head(down) = down[1]
  BY HeadFacts DEF WireOf
<1>2. Answers(Head(down), "ack")
  BY DEF AckRefused, Answers
<1>3. ack.at = "sent"
  BY <1>1, <1>2 DEF Exchanges, UnderWay
<1>4. AckFails(TRUE)
  BY DEF AckRefused
<1>5. ClientMove(P) /\ ack'.at \in {"none", "recover"}
  BY <1>3, <1>4, AckFailsMove
<1>6. /\ stream \in StreamOf(P) /\ drain \in DrainOf(P) /\ ack \in AckOf(P)
      /\ recovery \in RecoveryOf(P) /\ task = stream.current
      /\ ~ack.stale => stream.current # None
  BY <1>3 DEF ClientOf, Owners
<1>7. CASE ack.stale
  BY <1>2, <1>4, <1>5, <1>7 DEF AckRefused, AckFails
<1>8. CASE ~ack.stale
  <2>1. recovery'.at = "release" => recovery'.lease = stream.current
    BY <1>4, <1>6, <1>8, AckFailsFacts
  <2>2. stream.current \in Subs /\ recovery.at = "none"
    BY <1>6, <1>8 DEF StreamOf, Owners
  <2>3. up' = ReleaseSent
    BY <1>8 DEF AckRefused
  <2>4. up' = up \/ up' = Append(up, ReleaseRequest(stream.current))
    BY <2>1, <2>2, <2>3, ReleaseSentFacts
  <2> QED BY <1>2, <1>5, <2>2, <2>4
<1> QED BY <1>7, <1>8

LEMMA ArrivalMoves ==
    ASSUME NEW P, ClientOf(P), WireOf(P), Exchanges, Owners, MessageArrives
    PROVE ClientMove(P) \/ FrameArrives(Head(down)) \/ Subscribed(Head(down))
<1>1. CASE Attached(Head(down))
  BY <1>1, NothingMoves DEF Attached
<1> QED BY <1>1, ArrivalFacts, SubscribeRefusedMove, AttachRefusedMove, AckArrivesMove,
           AckRefusedMove, ReleasedMove

LEMMA ArrivalWire ==
    ASSUME NEW P, ClientOf(P), WireOf(P), Exchanges, Owners, MessageArrives
    PROVE /\ up' = up \/ \E s \in Subs : up' = Append(up, ReleaseRequest(s))
          /\ channel' = channel \/ (channel' = "open" /\ Answers(Head(down), "attach"))
          /\ ack.at = "sent" => ack'.at = ack.at \/ Answers(Head(down), "ack")
          /\ recovery.at = "sent" => recovery'.at = recovery.at \/ Answers(Head(down), "subscribe")
<1> DEFINE m == Head(down)
<1>1. m \in MessageOf(P) /\ down # <<>>
  BY ArrivalFacts, HeadFacts DEF WireOf
<1>2. /\ ack \in AckOf(P) /\ stream \in StreamOf(P) /\ drain \in DrainOf(P) /\ task = stream.current
      /\ recovery.at # "none" => stream.current = None
  BY DEF ClientOf, Owners
<1>3. ack.at = "sent" => Settled(ack) = ack
  BY DEF Settled
<1>4. CASE FrameArrives(m)
  BY <1>1, <1>4, FrameEffect DEF FrameArrives
<1>5. CASE Subscribed(m)
  <2>1. up' = up /\ channel' = channel /\ ack' = Settled(ack) /\ Answers(m, "subscribe")
    BY <1>5 DEF Subscribed, Answers
  <2> QED BY <1>3, <2>1
<1>11. CASE SubscribeRefused(m)
  <2>1. up' = up /\ channel' = channel /\ ack' = Settled(ack) /\ Answers(m, "subscribe")
    BY <1>1, <1>11, SubscribeRefusedMove
  <2> QED BY <1>3, <2>1
<1>6. CASE Attached(m)
  <2>1. /\ up' = up \/ up' = Append(up, ReleaseRequest(m.lease))
        /\ channel' = "open" /\ ack' = ack /\ recovery' = recovery /\ m.type = "result"
        /\ m.method = "attach"
    BY <1>6 DEF Attached
  <2>2. m.lease \in Subs
    BY <1>1, <2>1 DEF MessageOf
  <2> QED BY <2>1, <2>2 DEF Answers
<1>7. CASE AttachRefused(m)
  <2>1. up' = up /\ channel' = "open" /\ Answers(m, "attach")
    BY <1>7 DEF AttachRefused, Answers
  <2>2. ack'.at = ack.at
    BY <1>7, AttachRefusedMove
  <2>3. recovery.at = "sent" => recovery' = recovery
    BY <1>2, <1>7 DEF AttachRefused
  <2> QED BY <2>1, <2>2, <2>3
<1>8. CASE AckArrives(m)
  BY <1>8 DEF AckArrives, Answers
<1>9. CASE AckRefused(m)
  <2>1. channel' = channel
    BY <1>9 DEF AckRefused
  <2> QED BY <1>1, <1>9, <2>1, AckRefusedMove
<1>10. CASE Released(m)
  <2>1. /\ up' = up /\ channel' = channel /\ ack' \in {ack, Settled(ack)}
        /\ recovery.at = "sent" => recovery' = recovery
    BY <1>10 DEF Released
  <2> QED BY <1>3, <2>1
<1> QED BY <1>4, <1>5, <1>6, <1>7, <1>8, <1>9, <1>10, <1>11, ArrivalFacts

\* The actions that neither receive nor open or lose a socket.
ClientActs ==
    \/ SendWaiting \/ DrainTurn \/ ChangesApplied \/ SnapshotRead \/ SnapshotApplied
    \/ ApplyFails \/ SnapshotFails \/ WorkspaceReadFails

LEMMA ActsWire ==
    ASSUME NEW P, P \subseteq Cursor, Past \subseteq P, CurrentCursor(log) \in P,
           ClientOf(P), WireOf(P), Owners, Forward, ClientActs
    PROVE /\ UNCHANGED <<streamVars, leaseVars, socket, down, channel, opened>>
          /\ Requests(P) /\ (up' = up \/ channel = "open")
          /\ ack'.at = ack.at \/ ack.at # "sent"
          /\ recovery'.at = recovery.at \/ recovery.at # "sent"
<1>1. UNCHANGED <<streamVars, leaseVars, socket, down, channel, opened>>
  BY DEF ClientActs, SendWaiting, DrainTurn, ChangesApplied, SnapshotRead, SnapshotApplied,
         SnapshotEnds, WorkspaceReadFails, ApplyFails, SnapshotFails, wireVars
<1>3. CASE SendWaiting
  <2>1. /\ ack'.cursor = ack.cursor /\ recovery'.cursor = recovery.cursor /\ channel = "open"
        /\ \E r \in RequestOf(P) :
               /\ up' = Append(up, r)
               /\ \/ /\ r.method = "ack" /\ ack.at = "waiting" /\ ack'.at = "sent"
                     /\ r.cursor = ack.cursor /\ recovery' = recovery
                  \/ /\ r.method = "subscribe" /\ recovery.at = "waiting" /\ recovery'.at = "sent"
                     /\ r.cursor = recovery.cursor /\ ack' = ack
    BY <1>3, SendEffect
  <2>2. Requests(P)
    BY <2>1 DEF Requests
  <2> QED BY <1>1, <2>1, <2>2
<1>4. CASE DrainTurn
  <2>2. /\ recovery' = recovery
        /\ \/ UNCHANGED <<ack, up>>
           \/ ack.at = "none" /\ (AckStarts(P, "progress", stream.processed) \/ AckStarts(P, "drain", stream.processed))
    BY <1>4, DrainTurnEffect
  <2>1. /\ recovery' = recovery
        /\ (UNCHANGED <<ack, up>> \/ (ack.at = "none" /\ Requests(P)))
        /\ up' = up \/ channel = "open"
    BY <2>2 DEF AckStarts, Requests
  <2> QED BY <1>1, <2>1 DEF Requests
<1>5. CASE ChangesApplied
  <2>2. /\ recovery' = recovery
        /\ \/ UNCHANGED <<ack, up>>
           \/ ack.at = "none" /\ (AckStarts(P, "progress", stream'.processed))
    BY <1>5, ChangesEffect
  <2>1. /\ recovery' = recovery
        /\ (UNCHANGED <<ack, up>> \/ (ack.at = "none" /\ Requests(P)))
        /\ up' = up \/ channel = "open"
    BY <2>2 DEF AckStarts, Requests
  <2> QED BY <1>1, <2>1 DEF Requests
<1>6. CASE SnapshotRead \/ WorkspaceReadFails
  BY <1>1, <1>6, SnapshotReadEffect DEF Requests
<1>7. CASE SnapshotApplied
  <2>2. /\ recovery' = recovery
        /\ \/ UNCHANGED <<ack, up>>
           \/ ack.at = "none" /\ (AckStarts(P, "drain", drain.cursor))
    BY <1>7, SnapshotEffect
  <2>1. /\ recovery' = recovery
        /\ (UNCHANGED <<ack, up>> \/ (ack.at = "none" /\ Requests(P)))
        /\ up' = up \/ channel = "open"
    BY <2>2 DEF AckStarts, Requests
  <2> QED BY <1>1, <2>1 DEF Requests
<1>8. CASE ApplyFails \/ SnapshotFails
  <2>1. ack'.at = ack.at
    BY <1>8, FailureMove
  <2>2. CASE drain.stale
    <3>1. up' = up /\ recovery' = recovery
      BY <1>8, <2>2 DEF ApplyFails, SnapshotFails
    <3> QED BY <1>1, <2>1, <3>1 DEF Requests
  <2>3. CASE ~drain.stale
    <3>1. stream.current # None /\ recovery.at = "none"
      BY <1>8, <2>3 DEF ApplyFails, SnapshotFails, Owners
    <3>2. \E c \in P \cup {None}, b \in BOOLEAN : Recover(c, b, channel = "open")
      <4>1. CASE ApplyFails
        BY <2>3, <4>1 DEF ApplyFails
      <4>2. CASE SnapshotFails
        <5> DEFINE shown == stream.processed = drain.cursor
        <5>1. shown \in BOOLEAN
          OBVIOUS
        <5>2. Recover(IF shown THEN stream.acknowledged ELSE None, shown, channel = "open")
          BY <2>3, <4>2 DEF SnapshotFails
        <5>3. (IF shown THEN stream.acknowledged ELSE None) \in P \cup {None}
          BY DEF ClientOf, StreamOf
        <5> QED BY <5>1, <5>2, <5>3
      <4> QED BY <1>8, <4>1, <4>2
    <3>3. recovery'.at = "release" => recovery'.lease = stream.current /\ channel = "open"
      <4>1. stream \in StreamOf(P) /\ task = stream.current /\ (channel = "open") \in BOOLEAN
        BY DEF ClientOf
      <4> QED BY <3>1, <3>2, <4>1, RecoverFacts
    <3>4. stream.current \in Subs
      BY <3>1 DEF ClientOf, StreamOf
    <3>5. up' = ReleaseSent
      BY <1>8, <2>3 DEF ApplyFails, SnapshotFails
    <3>6. up' = up \/ up' = Append(up, ReleaseRequest(stream.current))
      BY <3>3, <3>4, <3>5, ReleaseSentFacts
    <3>7. Requests(P)
      BY <3>4, <3>6, ReleaseFacts
    <3>8. up' = up \/ channel = "open"
      BY <3>3, <3>5 DEF ReleaseSent
    <3> QED BY <1>1, <2>1, <3>1, <3>7, <3>8
  <2> QED BY <2>2, <2>3
<1> QED BY <1>3, <1>4, <1>5, <1>6, <1>7, <1>8 DEF ClientActs

-----------------------------------------------------------------------------
(* The types and the exchanges after a step *)

LEMMA ArrivalType ==
    ASSUME NEW P, TypeInv, Exchanges, Owners, ClientOf(P), WireOf(P), MessageArrives
    PROVE ClientOf(P)' /\ WireOf(P)'
<1>1. /\ stream' \in StreamOf(P) /\ drain' \in DrainOf(P) /\ ack' \in AckOf(P)
      /\ recovery' \in RecoveryOf(P) /\ task' = stream'.current
  <2>1. drain \in DrainOf(P) /\ ack \in AckOf(P) /\ recovery \in RecoveryOf(P) /\ task = stream.current
    BY DEF ClientOf
  <2>2. CASE ClientMove(P)
    BY <2>1, <2>2, DrainKeptFacts, AckKeptFacts DEF ClientMove
  <2>3. CASE FrameArrives(Head(down))
    <3>1. /\ stream' \in StreamOf(P) /\ DrainKept /\ AckKept /\ stream'.current = stream.current
      BY <2>3, ArrivalFacts, FrameEffect
    <3>2. task' = task /\ recovery' = recovery
      BY <2>3 DEF FrameArrives
    <3> QED BY <2>1, <3>1, <3>2, DrainKeptFacts, AckKeptFacts
  <2>4. CASE Subscribed(Head(down))
    <3>1. /\ stream' \in StreamOf(P) /\ recovery' \in RecoveryOf(P) /\ task' = stream'.current
          /\ DrainKept /\ AckKept
      BY <2>4, ArrivalFacts, SubscribedEffect
    <3> QED BY <2>1, <3>1, DrainKeptFacts, AckKeptFacts
  <2> QED BY <2>2, <2>3, <2>4, ArrivalMoves
<1>2. /\ socket # 0 /\ down # <<>> /\ down' = Tail(down)
      /\ UNCHANGED <<socket, opened, missing, incomplete, failures>>
  BY ArrivalFacts
<1>3. /\ up' = up \/ \E s \in Subs : up' = Append(up, ReleaseRequest(s))
      /\ channel' = channel \/ channel' = "open"
  BY ArrivalWire
<1>4. down' \in Seq(MessageOf(P))
  BY <1>2, HeadFacts DEF WireOf
<1>5. up' \in Seq(RequestOf(P))
  <2>1. ASSUME NEW s \in Subs PROVE ReleaseRequest(s) \in RequestOf(P)
    BY DEF ReleaseRequest, RequestOf
  <2> QED BY <1>3, <2>1, AppendFacts DEF WireOf
<1>6. ClientOf(P)'
  BY <1>1, <1>2, <1>3 DEF ClientOf
<1>7. WireOf(P)'
  BY <1>2, <1>3, <1>4, <1>5 DEF WireOf
<1> QED BY <1>6, <1>7

LEMMA ActsType ==
    ASSUME NEW P, P \subseteq Cursor, Past \subseteq P, CurrentCursor(log) \in P,
           ClientOf(P), WireOf(P), Owners, Forward, ClientActs
    PROVE ClientOf(P)' /\ WireOf(P)'
<1>1. /\ stream \in StreamOf(P) /\ drain \in DrainOf(P) /\ ack \in AckOf(P)
      /\ recovery \in RecoveryOf(P) /\ task = stream.current /\ missing \subseteq P
      /\ failures \in 0 .. MaxFailures /\ incomplete \in BOOLEAN
  BY DEF ClientOf
<1> DEFINE Typed == /\ stream' \in StreamOf(P) /\ drain' \in DrainOf(P) /\ ack' \in AckOf(P)
                    /\ recovery' \in RecoveryOf(P) /\ task' = stream'.current /\ missing' \subseteq P
                    /\ incomplete' \in BOOLEAN /\ failures' \in 0 .. MaxFailures
<1>2. Typed
  <2>1. CASE SendWaiting
    <3>1. failures' = failures /\ incomplete' = incomplete
      BY <2>1 DEF SendWaiting
    <3> QED BY <1>1, <2>1, <3>1, SendEffect
  <2>2. CASE DrainTurn
    <3>1. failures' = failures /\ incomplete' = incomplete
      BY <2>2 DEF DrainTurn
    <3>2. /\ UNCHANGED <<stream, task, recovery, missing>> /\ drain' \in DrainOf(P)
          /\ \/ UNCHANGED <<ack, up>>
             \/ AckStarts(P, "progress", stream.processed) \/ AckStarts(P, "drain", stream.processed)
      BY <2>2, DrainTurnEffect
    <3>3. ack' \in AckOf(P)
      BY <1>1, <3>2 DEF AckStarts
    <3> QED BY <1>1, <3>1, <3>2, <3>3
  <2>3. CASE ChangesApplied
    <3>1. failures' = failures
      BY <2>3 DEF ChangesApplied
    <3>2. /\ UNCHANGED <<task, recovery>> /\ DrainKept /\ missing' \subseteq missing
          /\ incomplete' = incomplete
          /\ stream' \in StreamOf(P) /\ stream'.current = stream.current
          /\ UNCHANGED <<ack, up>> \/ AckStarts(P, "progress", stream'.processed)
      BY <2>3, ChangesEffect
    <3>3. ack' \in AckOf(P)
      BY <1>1, <3>2 DEF AckStarts
    <3> QED BY <1>1, <3>1, <3>2, <3>3, DrainKeptFacts
  <2>4. CASE SnapshotRead \/ WorkspaceReadFails
    <3>1. /\ UNCHANGED <<stream, task, ack, recovery, missing>> /\ drain' \in DrainOf(P)
          /\ \/ UNCHANGED <<incomplete, failures>>
             \/ incomplete' = TRUE /\ failures' = failures + 1 /\ failures < MaxFailures
      BY <2>4, SnapshotReadEffect
    <3>2. CASE UNCHANGED <<incomplete, failures>>
      BY <1>1, <3>1, <3>2
    <3>3. CASE incomplete' = TRUE /\ failures' = failures + 1 /\ failures < MaxFailures
      <4>1. failures' \in 0 .. MaxFailures
        BY <1>1, <3>3, ControllerAssumption DEF ControllerAssumption
      <4>2. incomplete' \in BOOLEAN
        BY <3>3
      <4> QED BY <1>1, <3>1, <4>1, <4>2
    <3> QED BY <3>1, <3>2, <3>3
  <2>5. CASE SnapshotApplied
    <3>1. failures' = failures
      BY <2>5 DEF SnapshotApplied
    <3>2. /\ UNCHANGED <<task, recovery>> /\ drain' \in DrainOf(P) /\ missing' \subseteq missing
          /\ incomplete' \in BOOLEAN
          /\ stream' \in StreamOf(P) /\ stream'.current = stream.current
          /\ UNCHANGED <<ack, up>> \/ AckStarts(P, "drain", drain.cursor)
      BY <2>5, SnapshotEffect
    <3>3. ack' \in AckOf(P)
      BY <1>1, <3>2 DEF AckStarts
    <3> QED BY <1>1, <3>1, <3>2, <3>3
  <2>6. CASE ApplyFails \/ SnapshotFails
    <3>1. /\ failures' = failures + 1 /\ failures < MaxFailures
          /\ missing' = missing /\ incomplete' = incomplete
      BY <2>6 DEF ApplyFails, SnapshotFails
    <3>2. failures' \in 0 .. MaxFailures
      BY <1>1, <3>1, ControllerAssumption DEF ControllerAssumption
    <3>3. ClientMove(P)
      BY <2>6, FailureMove
    <3> QED BY <1>1, <3>1, <3>2, <3>3, DrainKeptFacts, AckKeptFacts DEF ClientMove
  <2> QED BY <2>1, <2>2, <2>3, <2>4, <2>5, <2>6 DEF ClientActs
<1>3. /\ UNCHANGED <<socket, down, channel, opened>> /\ (up' = up \/ channel = "open")
      /\ Requests(P)
  BY ActsWire
<1>4. ClientOf(P)'
  BY <1>2, <1>3 DEF ClientOf
<1>5. up' \in Seq(RequestOf(P))
  BY <1>3, AppendFacts DEF Requests, WireOf
<1> QED BY <1>3, <1>4, <1>5 DEF WireOf

LEMMA ConnectType ==
    ASSUME NEW P, TypeInv, Owners, ClientOf(P), WireOf(P), OpenSocket \/ LoseSocket
    PROVE ClientOf(P)' /\ WireOf(P)'
<1>1. /\ stream \in StreamOf(P) /\ drain \in DrainOf(P) /\ ack \in AckOf(P)
      /\ recovery \in RecoveryOf(P) /\ task = stream.current /\ missing \subseteq P
      /\ incomplete \in BOOLEAN /\ failures \in 0 .. MaxFailures /\ opened \in 0 .. MaxSockets /\ MaxSockets \in Nat
  BY SocketFacts DEF ClientOf
<1>2. CASE OpenSocket
  <2>1. /\ UNCHANGED <<task, stream, drain, ack, recovery, missing, incomplete, failures, down>>
        /\ opened' = opened + 1 /\ opened < MaxSockets /\ socket' = opened + 1 /\ socket = 0
        /\ channel' = IF task = None THEN "open" ELSE "attaching"
        /\ up' = IF task = None THEN <<>> ELSE <<AttachRequest(task)>>
    BY <1>2 DEF OpenSocket
  <2>2. opened' \in 0 .. MaxSockets /\ socket' \in 0 .. opened' /\ socket' # 0
    BY <1>1, <2>1
  <2>3. ClientOf(P)'
    BY <1>1, <2>1, <2>2 DEF ClientOf
  <2>4. up' \in Seq(RequestOf(P))
    <3>1. CASE task = None
      BY <2>1, <3>1
    <3>2. CASE task # None
      <4>1. AttachRequest(task) \in RequestOf(P)
        BY <1>1, <3>2 DEF StreamOf, AttachRequest, RequestOf
      <4> QED BY <2>1, <3>2, <4>1
    <3> QED BY <3>1, <3>2
  <2> QED BY <2>1, <2>2, <2>3, <2>4 DEF WireOf
<1>3. CASE LoseSocket
  <2>1. /\ UNCHANGED <<opened, missing, incomplete, failures>> /\ socket' = 0 /\ up' = <<>> /\ down' = <<>>
        /\ channel' = "down"
    BY <1>3 DEF LoseSocket
  <2>2. ClientMove(P)
    BY <1>3, LoseSocketMove
  <2>3. ClientOf(P)'
    BY <1>1, <2>1, <2>2, DrainKeptFacts, AckKeptFacts DEF ClientMove, ClientOf
  <2>4. <<>> \in Seq(RequestOf(P)) /\ <<>> \in Seq(MessageOf(P)) /\ 0 \in 0 .. opened
    BY <1>1
  <2> QED BY <2>1, <2>3, <2>4 DEF WireOf
<1> QED BY <1>2, <1>3

\* A step of nothing but the task list outside the stream, or a stutter.
Rests == UNCHANGED <<streamVars, leaseVars, wireVars, clientVars, failures>>

\* The host's actions.
HostActs ==
    \/ PublishChange \/ ResetStream \/ RestartProcess
    \/ \E s \in Subs : WriteNext(s) \/ DrainNext(s) \/ ExpireNext(s)
    \/ \E k \in SocketId : HostClosesSocket(k)

LEMMA NextActs ==
    ASSUME [Next]_vars
    PROVE \/ HostActs \/ HandleNext \/ MessageArrives \/ ClientActs \/ OpenSocket \/ LoseSocket
          \/ Rests /\ (UNCHANGED <<missing, incomplete>> \/ RefreshSucceeds)
BY DEF Next, HostActs, ClientWork, ClientActs, Rests, RefreshSucceeds, vars

LEMMA ClientTypeStep ==
    ASSUME TypeInv, Wired, Exchanges, Owners, Forward, [Next]_vars
    PROVE ClientOf(Past)' /\ WireOf(Past)'
<1>1. /\ StreamInv /\ StreamInv' /\ Past \subseteq Past'
  BY StreamKept
<1>2. /\ CurrentCursor(log) \in Past /\ Past \subseteq Cursor
  BY <1>1, PastFacts
<1>3. CurrentCursor(log') \in Past' /\ Past' \subseteq Cursor
  <2>1. LogInv(log')
    BY <1>1 DEF StreamInv
  <2>2. CurrentCursor(log') \in Cursor
    BY <2>1, LogFacts
  <2> QED BY <2>2, CoversFacts DEF Past
<1>4. PICK P : P = Past'
  OBVIOUS
<1>5. /\ P \subseteq Cursor /\ Past \subseteq P /\ CurrentCursor(log) \in P /\ CurrentCursor(log') \in P
  BY <1>1, <1>2, <1>3, <1>4
<1>6. ClientOf(P) /\ WireOf(P)
  BY <1>5, ClientWidened, WireWidened DEF TypeInv
<1>7. ClientOf(P)' /\ WireOf(P)'
  <2>1. CASE HostActs
    BY <1>5, <1>6, <2>1, HostType DEF HostActs
  <2>2. CASE HandleNext
    BY <1>5, <1>6, <2>2, HandleType
  <2>3. CASE MessageArrives
    BY <1>6, <2>3, ArrivalType
  <2>4. CASE ClientActs
    BY <1>5, <1>6, <2>4, ActsType
  <2>5. CASE OpenSocket \/ LoseSocket
    BY <1>6, <2>5, ConnectType
  <2>6. CASE Rests /\ (UNCHANGED <<missing, incomplete>> \/ RefreshSucceeds)
    <3>1. /\ UNCHANGED <<channel, task, stream, drain, ack, recovery, opened, failures>>
          /\ UNCHANGED <<socket, up, down>>
      BY <2>6 DEF Rests, clientVars, wireVars
    <3>2. missing' \subseteq P /\ incomplete' \in BOOLEAN
      BY <1>6, <2>6 DEF RefreshSucceeds, ClientOf
    <3> QED BY <1>6, <3>1, <3>2 DEF ClientOf, WireOf
  <2> QED BY <2>1, <2>2, <2>3, <2>4, <2>5, <2>6, NextActs
<1> QED BY <1>4, <1>7 DEF ClientOf, WireOf

LEMMA HandleAnswer ==
    ASSUME TypeInv, HandleNext
    PROVE \E m \in MessageOf(Past) :
            /\ down' = Append(down, m) /\ m.type \in {"result", "refused"}
            /\ m.method = Head(up).method
            /\ Head(up).method # "subscribe" => m.lease = Head(up).lease
<1>1. Head(up) \in RequestOf(Past)
  BY Handled
<1>2. CASE HandleSubscribe(Head(up), {s \in Subs : Fresh(s)})
  <2>1. PICK s \in Subs : down' = Append(down, Result(Head(up), s))
    BY <1>2 DEF HandleSubscribe
  <2> QED BY <1>2, <2>1 DEF HandleSubscribe, Result, MessageOf
<1>3. CASE RefuseSubscribe(Head(up)) \/ HandleUnknown(Head(up))
  BY <1>1, <1>3 DEF RefuseSubscribe, HandleUnknown, Refused, MessageOf, RequestOf
<1>4. CASE HandleAttach(Head(up)) \/ HandleRelease(Head(up))
  BY <1>1, <1>4 DEF HandleAttach, HandleRelease, Result, MessageOf, RequestOf
<1>5. CASE HandleAck(Head(up))
  BY <1>1, <1>5 DEF HandleAck, Result, Refused, MessageOf, RequestOf
<1> QED BY <1>2, <1>3, <1>4, <1>5, Handled

\* What the host sends unasked is a frame of a subscription that has it.
LEMMA HostWire ==
    ASSUME TypeInv, HostActs
    PROVE /\ UNCHANGED <<up, socket, clientVars, incomplete, failures>>
          /\ \/ down' = down
             \/ \E s \in Subs :
                  /\ WriteFrame(s) /\ leases[s].connection.sink = socket
                  /\ down' = Append(down, TaskFrame(s, Head(subs[s].queue)))
                  /\ TaskFrame(s, Head(subs[s].queue)) \in MessageOf(Past)
                  /\ TaskFrame(s, Head(subs[s].queue)).type = "task_frame"
<1>1. ASSUME NEW s \in Subs, WriteFrame(s), HostRest
      PROVE /\ UNCHANGED <<up, socket, clientVars, incomplete, failures>>
            /\ \/ down' = down
               \/ /\ leases[s].connection.sink = socket
                  /\ down' = Append(down, TaskFrame(s, Head(subs[s].queue)))
                  /\ TaskFrame(s, Head(subs[s].queue)) \in MessageOf(Past)
                  /\ TaskFrame(s, Head(subs[s].queue)).type = "task_frame"
  <2>1. StreamInv /\ subs[s] # None /\ subs[s].queue # <<>>
    BY <1>1, Written DEF TypeInv
  <2> QED BY <1>1, <2>1, Written, FrameType DEF WriteFrame, HostRest
<1>2. ASSUME NEW s \in Subs, RefuseFrame(s) \/ DrainSocket(s) \/ Expire(s), HostRest
      PROVE UNCHANGED <<up, down, socket, clientVars, incomplete, failures>>
  BY <1>2 DEF RefuseFrame, DrainSocket, Expire, HostRest, wireVars
<1>3. CASE PublishChange \/ ResetStream \/ RestartProcess
  BY <1>3 DEF PublishChange, ResetStream, RestartProcess, wireVars
<1>4. ASSUME NEW k \in SocketId, HostClosesSocket(k)
      PROVE UNCHANGED <<up, down, socket, clientVars, incomplete, failures>>
  BY <1>4 DEF HostClosesSocket, CloseSocket, wireVars
<1> QED BY <1>1, <1>2, <1>3, <1>4 DEF HostActs, WriteNext, DrainNext, ExpireNext

LEMMA ExchangesStep ==
    ASSUME TypeInv, Wired, Exchanges, Owners, Forward, [Next]_vars
    PROVE Exchanges'
<1>1. /\ StreamInv /\ Past \subseteq Cursor /\ CurrentCursor(log) \in Past
      /\ ClientOf(Past) /\ WireOf(Past) /\ up \in Seq(RequestOf(Past)) /\ down \in Seq(MessageOf(Past))
  BY PastFacts DEF TypeInv, WireOf
<1>2. Exchange(up, down, channel, ack.at, recovery.at)
  BY ExchangesAre
<1>3. SUFFICES Exchange(up', down', channel', ack'.at, recovery'.at)
  BY DEF Exchange, Exchanges
<1>4. CASE HostActs
  <2>1. UNCHANGED <<up, channel, ack, recovery>>
    BY <1>4, HostWire DEF clientVars
  <2>2. CASE down' = down
    BY <1>2, <2>1, <2>2
  <2>3. ASSUME NEW m \in MessageOf(Past), m.type = "task_frame", down' = Append(down, m)
        PROVE Exchange(up', down', channel', ack'.at, recovery'.at)
    <3>1. \A method \in {"attach", "ack", "subscribe"} : ~Answers(m, method)
      BY <2>3 DEF Answers
    <3>2. \A method \in {"attach", "ack", "subscribe"} :
            /\ Single(up, Append(down, m), method)
            /\ UnderWay(up, Append(down, m), method) => UnderWay(up, down, method)
      BY <1>1, <1>2, <3>1, FrameKeeps DEF Exchange
    <3> QED BY <1>2, <2>1, <2>3, <3>2 DEF Exchange
  <2> QED BY <1>4, <2>2, <2>3, HostWire
<1>5. CASE HandleNext
  <2>1. PICK m \in MessageOf(Past) :
          /\ down' = Append(down, m) /\ m.type \in {"result", "refused"}
          /\ m.method = Head(up).method
    BY <1>5, HandleAnswer
  <2>2. up # <<>> /\ up' = Tail(up) /\ UNCHANGED <<channel, ack, recovery>>
    BY <1>5, Handled DEF clientVars
  <2>3. \A method \in {"attach", "ack", "subscribe"} : Answers(m, method) <=> Head(up).method = method
    BY <2>1 DEF Answers
  <2>4. \A method \in {"attach", "ack", "subscribe"} :
          /\ Single(Tail(up), Append(down, m), method)
          /\ UnderWay(Tail(up), Append(down, m), method) => UnderWay(up, down, method)
    BY <1>1, <1>2, <2>2, <2>3, AnswerKeeps DEF Exchange
  <2> QED BY <1>2, <2>1, <2>2, <2>4 DEF Exchange
<1>6. CASE MessageArrives
  <2>1. down # <<>> /\ down' = Tail(down)
    BY <1>6, ArrivalFacts
  <2>2. /\ up' = up \/ \E s \in Subs : up' = Append(up, ReleaseRequest(s))
        /\ channel' = channel \/ (channel' = "open" /\ Answers(Head(down), "attach"))
        /\ ack.at = "sent" => ack'.at = ack.at \/ Answers(Head(down), "ack")
        /\ recovery.at = "sent" => recovery'.at = recovery.at \/ Answers(Head(down), "subscribe")
    BY <1>1, <1>6, ArrivalWire
  <2>3. Exchange(up, down', channel', ack'.at, recovery'.at)
    <3>1. Exchange(up, Tail(down), channel', ack'.at, recovery'.at)
      BY <1>1, <1>2, <2>1, <2>2, ReceivedExchange
    <3> QED BY <2>1, <3>1
  <2>4. CASE up' = up
    BY <2>3, <2>4
  <2>5. ASSUME NEW s \in Subs, up' = Append(up, ReleaseRequest(s))
        PROVE Exchange(up', down', channel', ack'.at, recovery'.at)
    <3>1. ReleaseRequest(s) \in RequestOf(Past) /\ ReleaseRequest(s).method = "release"
      BY DEF ReleaseRequest, RequestOf
    <3>2. Exchange(Append(up, ReleaseRequest(s)), down', channel', ack'.at, recovery'.at)
      BY <1>1, <2>3, <3>1, RequestExchange
    <3> QED BY <2>5, <3>2
  <2> QED BY <2>2, <2>4, <2>5
<1>7. CASE ClientActs
  <2>1. /\ UNCHANGED <<down, channel>> /\ Requests(Past)
        /\ ack'.at = ack.at \/ ack.at # "sent"
        /\ recovery'.at = recovery.at \/ recovery.at # "sent"
    BY <1>1, <1>7, ActsWire
  <2>2. CASE up' = up
    BY <1>2, <2>1, <2>2 DEF Exchange
  <2>3. ASSUME NEW r \in RequestOf(Past), up' = Append(up, r),
               r.method \in {"ack", "subscribe", "release"},
               r.method = "ack" => ack.at # "sent" /\ ack'.at = "sent",
               r.method = "subscribe" =>
                 recovery.at # "sent" /\ recovery'.at = "sent" /\ channel = "open"
        PROVE Exchange(up', down', channel', ack'.at, recovery'.at)
    <3>1. Exchange(Append(up, r), down, channel, ack'.at, recovery'.at)
      BY <1>1, <1>2, <2>1, <2>3, RequestExchange
    <3> QED BY <2>1, <2>3, <3>1
  <2> QED BY <2>1, <2>2, <2>3 DEF Requests
<1>8. CASE OpenSocket
  <2>1. down = <<>> /\ down' = <<>>
    BY <1>1, <1>8 DEF OpenSocket, WireOf
  <2>2. CASE up' = <<>>
    BY <2>1, <2>2, NoExchange
  <2>3. CASE task # None
    <3>1. up' = <<AttachRequest(task)>> /\ channel' = "attaching"
      BY <1>8, <2>3 DEF OpenSocket
    <3>2. AttachRequest(task).method = "attach"
      BY DEF AttachRequest
    <3>3. \A i \in DOMAIN up' : i = 1 /\ up'[i].method = "attach"
      BY <3>1, <3>2
    <3> QED BY <2>1, <3>1, <3>3 DEF Exchange, Single, UnderWay
  <2> QED BY <1>8, <2>2, <2>3 DEF OpenSocket
<1>9. CASE LoseSocket
  BY <1>9, NoExchange DEF LoseSocket
<1>10. CASE Rests
  BY <1>2, <1>10 DEF Rests, clientVars, wireVars
<1> QED BY <1>4, <1>5, <1>6, <1>7, <1>8, <1>9, <1>10, NextActs

-----------------------------------------------------------------------------
(* Leases and sockets *)

\* A record or a function is not None.
LEMMA NotNone ==
    /\ None \notin Subs /\ None \notin Subscription /\ None \notin Connection
    /\ None \notin [Subs -> {0} \cup Generation]
    /\ None \notin [connection : Connection \cup {None}, nextGeneration : Generation,
                    expires : BOOLEAN]
<1>1. [connection : Connection \cup {None}, nextGeneration : Generation, expires : BOOLEAN]
        \subseteq Lease
  BY DEF Lease
<1> QED BY <1>1, LeaseAssumption DEF LeaseAssumption

\* A connection of a lease to the client's socket, under the next generation.
Attachment(s, lease, subscription) ==
    /\ leases' = [leases EXCEPT ![s] =
         [connection |-> [sink |-> socket, generation |-> lease.nextGeneration + 1],
          nextGeneration |-> lease.nextGeneration + 1, expires |-> FALSE]]
    /\ sockets' = [j \in SocketId |->
         IF j = socket THEN [sockets[socket] EXCEPT ![s] = lease.nextGeneration + 1]
         ELSE IF lease.connection # None /\ lease.connection.sink = j /\ sockets[j] # None
              THEN [sockets[j] EXCEPT ![s] = 0]
              ELSE sockets[j]]
    /\ subs' = [subs EXCEPT ![s] =
         IF lease.nextGeneration + 1 = 1 THEN Resume(subscription) ELSE Replay(log, subscription)]

LEMMA AttachmentFacts ==
    ASSUME NEW s, NEW lease, NEW subscription, AttachTo(socket, s, lease, subscription)
    PROVE Attachment(s, lease, subscription)
BY DEF AttachTo, Attachment

\* Detaching a socket leaves what is connected to another one.
LEMMA DetachedFacts ==
    ASSUME LeasesType, NEW s \in Subs, NEW g
    PROVE \/ Detached(leases[s], g) = leases[s]
          \/ /\ leases[s] # None /\ leases[s].connection # None /\ leases[s].connection.generation = g
             /\ Detached(leases[s], g) # None /\ Detached(leases[s], g).connection = None
             /\ Detached(leases[s], g).nextGeneration = leases[s].nextGeneration
             /\ Detached(leases[s], g) \in [connection : Connection \cup {None},
                                            nextGeneration : Generation, expires : BOOLEAN]
<1> DEFINE L == [connection : Connection \cup {None}, nextGeneration : Generation,
                 expires : BOOLEAN]
           lease == leases[s]
           d == [lease EXCEPT !.connection = None, !.expires = TRUE]
<1>1. leases[s] \in L \cup {None} /\ None \notin L
  BY NotNone DEF LeasesType
<1>2. CASE lease # None /\ lease.connection # None /\ lease.connection.generation = g
  <2>1. Detached(lease, g) = d
    BY <1>2 DEF Detached
  <2>2. d \in L /\ d.connection = None /\ d.nextGeneration = lease.nextGeneration
    BY <1>1, <1>2
  <2> QED BY <1>1, <1>2, <2>1, <2>2
<1>3. CASE ~(lease # None /\ lease.connection # None /\ lease.connection.generation = g)
  BY <1>3 DEF Detached
<1> QED BY <1>2, <1>3

\* An attachment: a new lease, or the one that an attach request names.
Attaches(s) ==
    \E lease, subscription :
      /\ Attachment(s, lease, subscription)
      /\ socket \in SocketId /\ sockets[socket] # None /\ up # <<>>
      /\ HandleNext /\ UNCHANGED <<log, socket, clientVars>>
      /\ \/ /\ leases[s] = None /\ Fresh(s) /\ lease = NewLease
            /\ Head(up).method = "subscribe" /\ subscription = NewSubscription(log, Head(up).cursor)
         \/ /\ leases[s] # None /\ lease = leases[s] /\ subscription = subs[s]
            /\ Head(up).method = "attach" /\ Head(up).lease = s

\* The lease ends, and with it its subscription.
Ends(s) == leases[s] # None /\ DeleteLease(s)

Closes(k) ==
    /\ sockets[k] # None
    /\ leases' = [s \in Subs |->
         IF sockets[k][s] # 0 THEN Detached(leases[s], sockets[k][s]) ELSE leases[s]]
    /\ sockets' = [sockets EXCEPT ![k] = None]
    /\ UNCHANGED subs

Opens ==
    /\ UNCHANGED leases /\ socket = 0 /\ opened < MaxSockets /\ opened' = opened + 1
    /\ socket' = opened + 1 /\ sockets' = [sockets EXCEPT ![opened + 1] = NoLeases]
    /\ UNCHANGED subs

Restarts ==
    /\ leases' = [s \in Subs |-> None] /\ subs' = [s \in Subs |-> None]
    /\ sockets' = [k \in SocketId |-> None]

\* Every step changes the leases and the sockets in one of these ways.
LEMMA LeaseCases ==
    ASSUME TypeInv, Wired, [Next]_vars
    PROVE \/ UNCHANGED leaseVars /\ opened' = opened /\ (socket' = socket \/ socket' = 0)
          \/ (\E s \in Subs : Attaches(s)) /\ UNCHANGED <<opened, socket>>
          \/ (\E s \in Subs : Ends(s)) /\ UNCHANGED <<opened, socket>>
          \/ (\E k \in SocketId : Closes(k)) /\ UNCHANGED <<opened, socket>>
          \/ Restarts /\ UNCHANGED <<opened, socket>>
          \/ Opens
<1>1. CASE HandleNext
  <2>1. /\ up # <<>> /\ Head(up) \in RequestOf(Past) /\ socket \in SocketId /\ sockets[socket] # None
        /\ UNCHANGED <<log, socket, clientVars>> /\ opened' = opened
    BY <1>1, Handled DEF clientVars
  <2>2. CASE HandleSubscribe(Head(up), {s \in Subs : Fresh(s)})
    <3>1. PICK s \in Subs : /\ Fresh(s) /\ leases[s] = None
                            /\ AttachTo(socket, s, NewLease, NewSubscription(log, Head(up).cursor))
      BY <2>2 DEF HandleSubscribe
    <3>2. Head(up).method = "subscribe"
      BY <2>2 DEF HandleSubscribe
    <3>3. Attaches(s)
      BY <1>1, <2>1, <3>1, <3>2, AttachmentFacts DEF Attaches
    <3> QED BY <2>1, <3>3
  <2>3. CASE RefuseSubscribe(Head(up)) \/ HandleUnknown(Head(up))
    BY <2>1, <2>3 DEF RefuseSubscribe, HandleUnknown, leaseVars
  <2>4. CASE HandleAttach(Head(up))
    <3>1. PICK s \in Subs : s = Head(up).lease
      BY <2>1, <2>4 DEF HandleAttach, RequestOf
    <3>2. leases[s] # None /\ AttachTo(socket, s, leases[s], subs[s]) /\ Head(up).method = "attach"
      BY <2>4, <3>1 DEF HandleAttach
    <3>3. Attachment(s, leases[s], subs[s])
      BY <3>2 DEF AttachTo, Attachment
    <3>4. Attaches(s)
      BY <1>1, <2>1, <3>1, <3>2, <3>3 DEF Attaches
    <3> QED BY <2>1, <3>4
  <2>5. CASE HandleAck(Head(up))
    BY <2>1, <2>5 DEF HandleAck
  <2>6. CASE HandleRelease(Head(up))
    <3>1. Head(up).lease \in Subs
      BY <2>1, <2>6 DEF HandleRelease, RequestOf
    <3> QED BY <2>1, <2>6, <3>1 DEF HandleRelease, Ends, leaseVars
  <2> QED BY <1>1, <2>2, <2>3, <2>4, <2>5, <2>6, Handled
<1>2. ASSUME NEW s \in Subs, WriteNext(s) \/ DrainNext(s)
      PROVE UNCHANGED leaseVars /\ opened' = opened /\ socket' = socket
  BY <1>2 DEF WriteNext, DrainNext, WriteFrame, RefuseFrame, DrainSocket, HostRest, clientVars, wireVars
<1>3. ASSUME NEW s \in Subs, ExpireNext(s)
      PROVE Ends(s) /\ UNCHANGED <<opened, socket>>
  BY <1>3 DEF ExpireNext, Expire, HostRest, clientVars, wireVars, Ends
<1>4. ASSUME NEW k \in SocketId, HostClosesSocket(k)
      PROVE Closes(k) /\ UNCHANGED <<opened, socket>>
  BY <1>4 DEF HostClosesSocket, CloseSocket, clientVars, wireVars, Closes
<1>5. CASE PublishChange \/ ResetStream
  BY <1>5 DEF PublishChange, ResetStream, clientVars, wireVars
<1>6. CASE RestartProcess
  BY <1>6 DEF RestartProcess, RestartHost, clientVars, wireVars, Restarts
<1>7. CASE MessageArrives
  BY <1>7, ArrivalFacts
<1>8. CASE ClientActs
  BY <1>8 DEF ClientActs, SendWaiting, DrainTurn, ChangesApplied, SnapshotRead, SnapshotApplied,
              SnapshotEnds, WorkspaceReadFails, ApplyFails, SnapshotFails, wireVars
<1>9. CASE OpenSocket
  BY <1>9 DEF OpenSocket, Opens, streamVars
<1>10. CASE LoseSocket
  BY <1>10 DEF LoseSocket
<1>11. CASE Rests
  BY <1>11 DEF Rests, clientVars, wireVars
<1> QED BY <1>1, <1>2, <1>3, <1>4, <1>5, <1>6, <1>7, <1>8, <1>9, <1>10, <1>11, NextActs DEF HostActs

-----------------------------------------------------------------------------
(* What the stream does to the boundaries of a subscription *)

QueueFrom(q, B) == \A i \in DOMAIN q : q[i].type = "snapshot_required" => q[i].cursor \in B

SubWithin(sub, B) ==
    sub \in Subscription /\ sub.snapshotBoundary \in B \cup {None} /\ QueueFrom(sub.queue, B)

LEMMA WithinBoundaries ==
    ASSUME NEW sub \in Subscription, NEW B
    PROVE SubWithin(sub, B) <=> Boundaries(sub) \subseteq B
<1>1. ASSUME SubWithin(sub, B) PROVE Boundaries(sub) \subseteq B
  BY <1>1 DEF SubWithin, QueueFrom, Boundaries
<1>2. ASSUME Boundaries(sub) \subseteq B PROVE SubWithin(sub, B)
  <2>1. sub.snapshotBoundary \in B \cup {None}
    BY <1>2 DEF Boundaries
  <2>2. QueueFrom(sub.queue, B)
    BY <1>2 DEF Boundaries, QueueFrom
  <2> QED BY <2>1, <2>2 DEF SubWithin
<1> QED BY <1>1, <1>2

LEMMA EnqueueWithin ==
    ASSUME NEW B, NEW sub, SubWithin(sub, B), NEW frames \in Seq(Frame), QueueFrom(frames, B)
    PROVE /\ SubWithin(Enqueue(sub, frames), B)
          /\ Enqueue(sub, frames).lastAcknowledged = sub.lastAcknowledged
<1> DEFINE new == Enqueue(sub, frames)
<1>1. sub \in Subscription /\ sub.queue \in Seq(Frame) /\ sub.snapshotBoundary \in B \cup {None}
      /\ QueueFrom(sub.queue, B)
  BY DEF SubWithin, Subscription
<1>2. /\ new \in Subscription /\ new.queue = sub.queue \o frames
      /\ new.snapshotBoundary = sub.snapshotBoundary
      /\ new.lastAcknowledged = sub.lastAcknowledged
  BY <1>1, EnqueueFacts
<1>3. QueueFrom(sub.queue \o frames, B)
  BY <1>1 DEF QueueFrom
<1> HIDE DEF new
<1>4. SubWithin(new, B) /\ new.lastAcknowledged = sub.lastAcknowledged
  BY <1>1, <1>2, <1>3 DEF SubWithin
<1> QED BY <1>4 DEF new

LEMMA EnqueueSnapshotWithin ==
    ASSUME NEW B, NEW l, LogInv(l), CurrentCursor(l) \in B, NEW sub, SubWithin(sub, B)
    PROVE /\ SubWithin(EnqueueSnapshot(l, sub), B)
          /\ EnqueueSnapshot(l, sub).lastAcknowledged = sub.lastAcknowledged
<1> DEFINE c == CurrentCursor(l)
           z == [sub EXCEPT !.snapshotBoundary = c, !.queue = <<>>]
           f == <<SnapshotRequired(c)>>
<1>1. c \in Cursor
  BY LogFacts
<1> HIDE DEF c
<1>2. sub \in Subscription
  BY DEF SubWithin
<1>3. z \in Subscription /\ z.snapshotBoundary = c /\ z.queue = <<>>
      /\ z.lastAcknowledged = sub.lastAcknowledged
  <2>1. <<>> \in Seq(Frame)
    OBVIOUS
  <2>2. z \in Subscription
    BY <1>1, <1>2, <2>1 DEF Subscription
  <2> QED BY <1>2, <2>2 DEF Subscription
<1>4. f \in Seq(Frame) /\ QueueFrom(f, B)
  BY <1>1 DEF c, SnapshotRequired, Frame, QueueFrom
<1>5. SubWithin(z, B)
  BY <1>3 DEF SubWithin, QueueFrom, c
<1> HIDE DEF z, f
<1>6. /\ SubWithin(Enqueue(z, f), B)
      /\ Enqueue(z, f).lastAcknowledged = sub.lastAcknowledged
  BY <1>3, <1>4, <1>5, EnqueueWithin
<1> QED BY <1>6 DEF EnqueueSnapshot, z, f, c

LEMMA SubSeqFrames ==
    ASSUME NEW B, NEW q \in Seq(Frame), QueueFrom(q, B), NEW n
    PROVE After(q, n) \in Seq(Frame) /\ QueueFrom(After(q, n), B)
<1> DEFINE passed == {i \in DOMAIN q : q[i].cursor.sequence <= n}
           k == Cardinality(passed)
<1>1. k \in Nat
  <2>1. IsFiniteSet(1 .. Len(q))
    BY FS_Interval
  <2>2. passed \in SUBSET (1 .. Len(q))
    OBVIOUS
  <2> QED BY <2>1, <2>2, FS_Subset, FS_CardinalityType
<1>2. After(q, n) = SubSeq(q, k + 1, Len(q))
  BY DEF After
<1> HIDE DEF passed, k
<1>3. /\ SubSeq(q, k + 1, Len(q)) \in Seq(Frame)
      /\ \A i \in DOMAIN SubSeq(q, k + 1, Len(q)) :
           i + k \in DOMAIN q /\ SubSeq(q, k + 1, Len(q))[i] = q[i + k]
  BY <1>1
<1> QED BY <1>2, <1>3 DEF QueueFrom

\* The frames of the replay buffer are changes.
LEMMA BufferFrames ==
    ASSUME NEW B, NEW l, LogInv(l)
    PROVE l.buffer \in Seq(Frame) /\ QueueFrom(l.buffer, B)
<1> DEFINE e == l.epoch
           m == l.replayFloor + 1
           n == l.sequence
<1>1. e \in 1 .. MaxEpochs /\ IsRange(m, n) /\ l.buffer \in Seq(Frame) /\ l.buffer = Run(e, m, n)
  BY LogFacts DEF LogInv
<1> HIDE DEF e, m, n
<1>2. Len(Run(e, m, n)) = n + 1 - m /\ \A i \in 1 .. (n + 1 - m) : Run(e, m, n)[i].type = "change"
  BY <1>1, RunFacts
<1>3. \A i \in DOMAIN l.buffer : l.buffer[i].type = "change"
  BY <1>1, <1>2
<1> QED BY <1>1, <1>3 DEF QueueFrom

LEMMA EnqueueReplayWithin ==
    ASSUME NEW B, NEW l, LogInv(l), CurrentCursor(l) \in B, NEW sub, SubWithin(sub, B)
    PROVE /\ SubWithin(EnqueueReplay(l, sub), B)
          /\ EnqueueReplay(l, sub).lastAcknowledged = sub.lastAcknowledged
<1> DEFINE frames == After(l.buffer, sub.lastAcknowledged.sequence)
<1>1. frames \in Seq(Frame) /\ QueueFrom(frames, B)
  BY BufferFrames, SubSeqFrames
<1> HIDE DEF frames
<1>2. /\ SubWithin(Enqueue(sub, frames), B)
      /\ Enqueue(sub, frames).lastAcknowledged = sub.lastAcknowledged
  BY <1>1, EnqueueWithin
<1>3. \/ EnqueueReplay(l, sub) = EnqueueSnapshot(l, sub)
      \/ EnqueueReplay(l, sub) = Enqueue(sub, frames)
  BY DEF EnqueueReplay, frames
<1> QED BY <1>2, <1>3, EnqueueSnapshotWithin

LEMMA ResumeWithin ==
    ASSUME NEW B, NEW sub, SubWithin(sub, B)
    PROVE SubWithin(Resume(sub), B) /\ Resume(sub).lastAcknowledged = sub.lastAcknowledged
<1> DEFINE b == sub.scheduled \/ sub.queue # <<>>
           z == [sub EXCEPT !.scheduled = b]
<1>1. b \in BOOLEAN /\ sub \in Subscription
  BY DEF SubWithin, Subscription
<1>2. Resume(sub) = z
  BY DEF Resume
<1> HIDE DEF b
<1>3. /\ z \in Subscription /\ z.queue = sub.queue /\ z.snapshotBoundary = sub.snapshotBoundary
      /\ z.lastAcknowledged = sub.lastAcknowledged
  <2>1. z \in Subscription
    BY <1>1 DEF Subscription
  <2> QED BY <1>1, <2>1 DEF Subscription
<1> HIDE DEF z
<1> QED BY <1>2, <1>3 DEF SubWithin

LEMMA ReplayWithin ==
    ASSUME NEW B, NEW l, LogInv(l), CurrentCursor(l) \in B, NEW sub, SubWithin(sub, B)
    PROVE /\ SubWithin(Replay(l, sub), B)
          /\ Replay(l, sub).lastAcknowledged = sub.lastAcknowledged
<1> DEFINE z == [sub EXCEPT !.queue = <<>>]
           f == <<SnapshotRequired(sub.snapshotBoundary)>>
<1>1. sub \in Subscription /\ sub.snapshotBoundary \in B \cup {None}
  BY DEF SubWithin
<1>2. z \in Subscription /\ z.snapshotBoundary = sub.snapshotBoundary /\ z.queue = <<>>
      /\ z.lastAcknowledged = sub.lastAcknowledged
  <2>1. <<>> \in Seq(Frame)
    OBVIOUS
  <2>2. z \in Subscription
    BY <1>1, <2>1 DEF Subscription
  <2> QED BY <1>1, <2>2 DEF Subscription
<1>3. SubWithin(z, B)
  BY <1>1, <1>2 DEF SubWithin, QueueFrom
<1>4. Replay(l, sub) = IF sub.snapshotBoundary # None THEN Enqueue(z, f) ELSE EnqueueReplay(l, z)
  BY DEF Replay
<1> HIDE DEF z
<1>5. CASE sub.snapshotBoundary # None
  <2>1. f \in Seq(Frame) /\ QueueFrom(f, B)
    BY <1>1, <1>5 DEF SnapshotRequired, Frame, QueueFrom, Subscription
  <2> HIDE DEF f
  <2>2. SubWithin(Enqueue(z, f), B) /\ Enqueue(z, f).lastAcknowledged = z.lastAcknowledged
    BY <1>3, <2>1, EnqueueWithin
  <2> QED BY <1>2, <1>4, <1>5, <2>2
<1>6. CASE sub.snapshotBoundary = None
  <2>1. SubWithin(EnqueueReplay(l, z), B) /\ EnqueueReplay(l, z).lastAcknowledged = z.lastAcknowledged
    BY <1>3, EnqueueReplayWithin
  <2> QED BY <1>2, <1>4, <1>6, <2>1
<1> QED BY <1>5, <1>6

LEMMA AcknowledgedWithin ==
    ASSUME NEW B, NEW l, LogInv(l), CurrentCursor(l) \in B, NEW sub, SubWithin(sub, B),
           NEW cursor \in Cursor
    PROVE /\ SubWithin(Acknowledged(l, sub, cursor), B)
          /\ Acknowledged(l, sub, cursor).lastAcknowledged = cursor
<1> DEFINE y == [sub EXCEPT !.lastAcknowledged = cursor, !.snapshotBoundary = None]
           q == After(sub.queue, cursor.sequence)
           z == [sub EXCEPT !.lastAcknowledged = cursor, !.queue = q]
<1>1. sub \in Subscription /\ sub.snapshotBoundary \in B \cup {None} /\ QueueFrom(sub.queue, B)
      /\ sub.queue \in Seq(Frame)
  BY DEF SubWithin, Subscription
<1>2. y \in Subscription /\ y.snapshotBoundary = None /\ y.queue = sub.queue
      /\ y.lastAcknowledged = cursor
  BY <1>1 DEF Subscription
<1>3. SubWithin(y, B)
  BY <1>1, <1>2 DEF SubWithin
<1>4. q \in Seq(Frame) /\ QueueFrom(q, B)
  BY <1>1, SubSeqFrames
<1>5. Acknowledged(l, sub, cursor) = IF sub.snapshotBoundary # None THEN EnqueueReplay(l, y)
                                     ELSE IF cursor = sub.lastAcknowledged THEN sub ELSE z
  BY DEF Acknowledged
<1> HIDE DEF q
<1>6. z \in Subscription /\ z.snapshotBoundary = sub.snapshotBoundary /\ z.queue = q
      /\ z.lastAcknowledged = cursor
  BY <1>1, <1>4 DEF Subscription
<1> HIDE DEF y, z
<1>7. SubWithin(z, B)
  BY <1>1, <1>4, <1>6 DEF SubWithin
<1>8. SubWithin(EnqueueReplay(l, y), B) /\ EnqueueReplay(l, y).lastAcknowledged = cursor
  BY <1>2, <1>3, EnqueueReplayWithin
<1> QED BY <1>5, <1>6, <1>7, <1>8

LEMMA OfferWithin ==
    ASSUME NEW B, NEW l, LogInv(l), CurrentCursor(l) \in B, NEW sub, sub # None, SubWithin(sub, B),
           NEW c \in Cursor
    PROVE /\ SubWithin(Offer(l, Change(c), sub), B)
          /\ Offer(l, Change(c), sub).lastAcknowledged = sub.lastAcknowledged
<1> DEFINE f == <<Change(c)>>
<1>1. f \in Seq(Frame) /\ QueueFrom(f, B)
  BY DEF Change, Frame, QueueFrom
<1>2. Offer(l, Change(c), sub) \in {sub, Enqueue(sub, f), EnqueueSnapshot(l, sub)}
  BY DEF Offer
<1> HIDE DEF f
<1> QED BY <1>1, <1>2, EnqueueWithin, EnqueueSnapshotWithin

LEMMA NewSubscriptionWithin ==
    ASSUME NEW B, NEW l, LogInv(l), CurrentCursor(l) \in B, NEW cursor \in Cursor \cup {None}
    PROVE /\ SubWithin(NewSubscription(l, cursor), B)
          /\ NewSubscription(l, cursor).lastAcknowledged \in {cursor, None}
<1> DEFINE a == IF cursor # None /\ cursor.epoch = l.epoch THEN cursor ELSE None
           z == [highestDelivered |-> cursor, lastAcknowledged |-> a,
                 queue |-> <<>>, scheduled |-> FALSE, snapshotBoundary |-> None]
<1>1. NewSubscription(l, cursor) = EnqueueReplay(l, z)
  BY DEF NewSubscription
<1>2. a \in {cursor, None}
  OBVIOUS
<1> HIDE DEF a
<1>3. /\ z \in Subscription /\ z.queue = <<>> /\ z.snapshotBoundary = None
      /\ z.lastAcknowledged = a
  BY <1>2 DEF Subscription
<1> HIDE DEF z
<1>4. SubWithin(z, B)
  BY <1>3 DEF SubWithin, QueueFrom
<1>5. /\ SubWithin(EnqueueReplay(l, z), B)
      /\ EnqueueReplay(l, z).lastAcknowledged = z.lastAcknowledged
  BY <1>4, EnqueueReplayWithin
<1> QED BY <1>1, <1>2, <1>3, <1>5

LEMMA AttachesFacts ==
    ASSUME TypeInv, Wired, Attaching, NEW s \in Subs, Attaches(s)
    PROVE \E g \in Generation :
            /\ g <= opened /\ socket \in SocketId /\ sockets[socket] # None
            /\ leases' = [leases EXCEPT ![s] =
                 [connection |-> [sink |-> socket, generation |-> g],
                  nextGeneration |-> g, expires |-> FALSE]]
            /\ sockets' = [j \in SocketId |->
                 IF j = socket THEN [sockets[socket] EXCEPT ![s] = g]
                 ELSE IF ConnectedTo(s, j) /\ sockets[j] # None THEN [sockets[j] EXCEPT ![s] = 0]
                 ELSE sockets[j]]
<1>1. PICK lease, subscription :
        /\ Attachment(s, lease, subscription)
        /\ socket \in SocketId /\ sockets[socket] # None /\ up # <<>>
        /\ \/ leases[s] = None /\ lease = NewLease
           \/ leases[s] # None /\ lease = leases[s] /\ Head(up).method = "attach" /\ Head(up).lease = s
  BY DEF Attaches
<1> DEFINE g == lease.nextGeneration + 1
<1>2. g \in Generation /\ g <= opened
  <2>0. /\ MaxSockets \in Nat /\ opened \in 0 .. MaxSockets /\ socket \in 0 .. opened /\ socket # 0
        /\ Generation = 1 .. (2 * MaxSockets)
    BY <1>1, SocketFacts DEF SocketId, Generation
  <2>1. CASE leases[s] = None
    <3>1. g = 1
      BY <1>1, <2>1 DEF NewLease
    <3> HIDE DEF g
    <3> QED BY <2>0, <3>1
  <2>2. CASE leases[s] # None
    <3>1. lease = leases[s] /\ Head(up).method = "attach" /\ Head(up).lease = s
      BY <1>1, <2>2
    <3>2. up \in Seq(RequestOf(Past))
      BY DEF TypeInv, WireOf
    <3>3. 1 \in DOMAIN up /\ Head(up) = up[1]
      BY <1>1, <3>2, HeadFacts
    <3>4. leases[s].nextGeneration < opened
      BY <2>2, <3>1, <3>3 DEF Attaching
    <3>5. leases[s].nextGeneration \in Generation
      BY <2>2 DEF TypeInv, LeasesType
    <3> QED BY <2>0, <3>1, <3>4, <3>5
  <2> QED BY <2>1, <2>2
<1>3. \A j : lease.connection # None /\ lease.connection.sink = j <=> ConnectedTo(s, j)
  BY <1>1 DEF ConnectedTo, NewLease
<1> HIDE DEF g
<1>4. /\ leases' = [leases EXCEPT ![s] =
           [connection |-> [sink |-> socket, generation |-> g],
            nextGeneration |-> g, expires |-> FALSE]]
      /\ sockets' = [j \in SocketId |->
           IF j = socket THEN [sockets[socket] EXCEPT ![s] = g]
           ELSE IF lease.connection # None /\ lease.connection.sink = j /\ sockets[j] # None
                THEN [sockets[j] EXCEPT ![s] = 0]
                ELSE sockets[j]]
  BY <1>1 DEF Attachment, g
<1>5. sockets' = [j \in SocketId |->
           IF j = socket THEN [sockets[socket] EXCEPT ![s] = g]
           ELSE IF ConnectedTo(s, j) /\ sockets[j] # None THEN [sockets[j] EXCEPT ![s] = 0]
           ELSE sockets[j]]
  BY <1>3, <1>4
<1> QED BY <1>1, <1>2, <1>4, <1>5

LeaseRecord == [connection : Connection \cup {None}, nextGeneration : Generation, expires : BOOLEAN]

\* The lease and the socket after an attachment.
LEMMA AttachedLease ==
    ASSUME NEW g \in Generation, socket \in SocketId
    PROVE LET lease == [connection |-> [sink |-> socket, generation |-> g],
                        nextGeneration |-> g, expires |-> FALSE]
          IN  /\ lease \in LeaseRecord /\ lease # None /\ lease.connection # None
              /\ lease.connection.sink = socket /\ lease.connection.generation = g
              /\ lease.nextGeneration = g
<1> DEFINE c == [sink |-> socket, generation |-> g]
           lease == [connection |-> c, nextGeneration |-> g, expires |-> FALSE]
<1>1. c \in Connection /\ c # None /\ c.sink = socket /\ c.generation = g
  BY NotNone DEF Connection
<1> HIDE DEF c
<1>2. lease \in LeaseRecord /\ lease.connection = c /\ lease.nextGeneration = g
  BY <1>1 DEF LeaseRecord
<1> HIDE DEF lease
<1>3. lease # None
  BY <1>2, NotNone DEF LeaseRecord
<1>4. /\ lease \in LeaseRecord /\ lease # None /\ lease.connection # None
      /\ lease.connection.sink = socket /\ lease.connection.generation = g
      /\ lease.nextGeneration = g
  BY <1>1, <1>2, <1>3
<1> QED BY <1>4 DEF lease, c

LEMMA LeasesTypeStep ==
    ASSUME TypeInv, Wired, Attaching, [Next]_vars
    PROVE LeasesType'
<1> DEFINE G == {0} \cup Generation
<1>1. /\ leases \in [Subs -> LeaseRecord \cup {None}]
      /\ sockets \in [SocketId -> [Subs -> G] \cup {None}]
  BY DEF TypeInv, LeasesType, LeaseRecord
<1>2. SUFFICES /\ leases' \in [Subs -> LeaseRecord \cup {None}]
               /\ sockets' \in [SocketId -> [Subs -> G] \cup {None}]
  BY DEF LeasesType, LeaseRecord
<1>3. CASE UNCHANGED leaseVars
  BY <1>1, <1>3 DEF leaseVars
<1>4. ASSUME NEW s \in Subs, Attaches(s)
      PROVE /\ leases' \in [Subs -> LeaseRecord \cup {None}]
            /\ sockets' \in [SocketId -> [Subs -> G] \cup {None}]
  <2>1. PICK g \in Generation :
            /\ socket \in SocketId /\ sockets[socket] # None
            /\ leases' = [leases EXCEPT ![s] =
                 [connection |-> [sink |-> socket, generation |-> g],
                  nextGeneration |-> g, expires |-> FALSE]]
            /\ sockets' = [j \in SocketId |->
                 IF j = socket THEN [sockets[socket] EXCEPT ![s] = g]
                 ELSE IF ConnectedTo(s, j) /\ sockets[j] # None THEN [sockets[j] EXCEPT ![s] = 0]
                 ELSE sockets[j]]
    BY <1>4, AttachesFacts
  <2> DEFINE lease == [connection |-> [sink |-> socket, generation |-> g],
                       nextGeneration |-> g, expires |-> FALSE]
  <2>2. lease \in LeaseRecord
    BY <2>1, AttachedLease
  <2>3. leases' = [leases EXCEPT ![s] = lease]
    BY <2>1
  <2> HIDE DEF lease
  <2>4. leases' \in [Subs -> LeaseRecord \cup {None}]
    BY <1>1, <2>2, <2>3
  <2>5. ASSUME NEW j \in SocketId, NEW x \in G, sockets[j] # None
        PROVE [sockets[j] EXCEPT ![s] = x] \in [Subs -> G]
    BY <1>1, <2>5
  <2>6. g \in G /\ 0 \in G
    OBVIOUS
  <2> HIDE DEF G
  <2>7. ASSUME NEW j \in SocketId PROVE sockets'[j] \in [Subs -> G] \cup {None}
    BY <1>1, <2>1, <2>5, <2>6
  <2> QED BY <2>1, <2>4, <2>7
<1>5. ASSUME NEW s \in Subs, Ends(s)
      PROVE /\ leases' \in [Subs -> LeaseRecord \cup {None}]
            /\ sockets' \in [SocketId -> [Subs -> G] \cup {None}]
  <2>1. leases' = [leases EXCEPT ![s] = None]
    BY <1>5 DEF Ends, DeleteLease
  <2>2. leases' \in [Subs -> LeaseRecord \cup {None}]
    BY <1>1, <2>1
  <2>3. \/ sockets' = sockets
        \/ \E j \in SocketId : sockets[j] # None /\ sockets' = [sockets EXCEPT ![j][s] = 0]
    <3>1. leases[s].connection # None => leases[s].connection.sink \in SocketId
      BY <1>1, <1>5 DEF Ends, LeaseRecord, Connection
    <3> QED BY <1>5, <3>1 DEF Ends, DeleteLease
  <2>4. ASSUME NEW j \in SocketId, sockets[j] # None, sockets' = [sockets EXCEPT ![j][s] = 0]
        PROVE sockets' \in [SocketId -> [Subs -> G] \cup {None}]
    <3>1. [sockets[j] EXCEPT ![s] = 0] \in [Subs -> G]
      BY <1>1, <2>4
    <3> QED BY <1>1, <2>4, <3>1
  <2> QED BY <1>1, <2>2, <2>3, <2>4
<1>6. ASSUME NEW k \in SocketId, Closes(k)
      PROVE /\ leases' \in [Subs -> LeaseRecord \cup {None}]
            /\ sockets' \in [SocketId -> [Subs -> G] \cup {None}]
  <2>1. ASSUME NEW s \in Subs PROVE Detached(leases[s], sockets[k][s]) \in LeaseRecord \cup {None}
    BY <1>1, DetachedFacts DEF LeaseRecord, TypeInv
  <2> QED BY <1>1, <1>6, <2>1 DEF Closes
<1>7. CASE Restarts
  BY <1>7 DEF Restarts
<1>8. CASE Opens
  <2>1. NoLeases \in [Subs -> G] /\ leases' = leases
    BY <1>8 DEF NoLeases, Opens
  <2>2. sockets' = [sockets EXCEPT ![opened + 1] = NoLeases]
    BY <1>8 DEF Opens
  <2> HIDE DEF G
  <2> QED BY <1>1, <2>1, <2>2
<1> QED BY <1>3, <1>4, <1>5, <1>6, <1>7, <1>8, LeaseCases

\* What one step of the stream makes of a subscription that goes on.
Onward(s) ==
    \/ subs'[s] = subs[s]
    \/ /\ subs[s] # None /\ subs'[s] # None
       /\ subs'[s].lastAcknowledged = subs[s].lastAcknowledged
       /\ Boundaries(subs'[s]) \subseteq Boundaries(subs[s]) \cup {CurrentCursor(log')}

SubKept(s) == Onward(s) /\ (leases'[s] = None <=> leases[s] = None)

SubAcked(s) ==
    /\ subs[s] # None /\ subs'[s] # None /\ leases' = leases
    /\ Head(up).method = "ack" /\ subs'[s].lastAcknowledged = Head(up).cursor
    /\ Boundaries(subs'[s]) \subseteq Boundaries(subs[s]) \cup {CurrentCursor(log')}

SubStarts(s) ==
    /\ subs[s] = None /\ subs'[s] # None /\ leases[s] = None /\ leases'[s] # None /\ Fresh(s)
    /\ Head(up).method = "subscribe" /\ subs'[s].lastAcknowledged \in {Head(up).cursor, None}
    /\ Boundaries(subs'[s]) \subseteq {CurrentCursor(log')}
    /\ down' = Append(down, Result(Head(up), s))

SubEnds(s) == subs'[s] = None /\ leases'[s] = None

\* A new value for one subscription that keeps within its boundaries.
LEMMA OnwardIf ==
    ASSUME StreamInv, NEW s \in Subs, subs[s] # None,
           SubWithin(subs'[s], Boundaries(subs[s]) \cup {CurrentCursor(log')}),
           subs'[s].lastAcknowledged = subs[s].lastAcknowledged
    PROVE Onward(s)
<1>1. subs'[s] \in Subscription /\ subs'[s] # None
  BY NotNone DEF SubWithin
<1>2. Boundaries(subs'[s]) \subseteq Boundaries(subs[s]) \cup {CurrentCursor(log')}
  BY <1>1, WithinBoundaries
<1> QED BY <1>1, <1>2 DEF Onward

LEMMA DeliveredFacts ==
    ASSUME StreamInv, NEW s \in Subs, DeliverFrame(s)
    PROVE /\ subs'[s] \in Subscription /\ subs'[s].queue = Tail(subs[s].queue)
          /\ subs'[s].snapshotBoundary = subs[s].snapshotBoundary
          /\ subs'[s].lastAcknowledged = subs[s].lastAcknowledged
          /\ \A t \in Subs \ {s} : subs'[t] = subs[t]
<1> DEFINE sub == subs[s]
           frame == Head(sub.queue)
           rest == Tail(sub.queue)
           high == Delivered(log, sub, frame)
           more == rest # <<>>
           new == [sub EXCEPT !.highestDelivered = high, !.queue = rest, !.scheduled = more]
<1>1. /\ sub \in Subscription /\ sub.queue \in Seq(Frame) /\ sub.queue # <<>>
      /\ sub.highestDelivered \in Cursor \cup {None}
  BY DEF DeliverFrame, Draining, StreamInv, Subscription
<1>2. frame \in Frame /\ rest \in Seq(Frame)
  BY <1>1, HeadTailProperties
<1>3. high \in Cursor \cup {None}
  BY <1>1, <1>2 DEF Delivered, Frame
<1>4. subs' = [subs EXCEPT ![s] = new]
  BY DEF DeliverFrame
<1>5. more \in BOOLEAN
  OBVIOUS
<1> HIDE DEF frame, rest, high, more
<1>6. /\ new \in Subscription /\ new.queue = rest
      /\ new.lastAcknowledged = sub.lastAcknowledged /\ new.snapshotBoundary = sub.snapshotBoundary
  BY <1>1, <1>2, <1>3, <1>5 DEF Subscription
<1> HIDE DEF new
<1> QED BY <1>4, <1>6 DEF StreamInv, rest

LEMMA StreamOps ==
    ASSUME StreamInv, NEW s \in Subs, NEW t \in Subs, LogInv(log'),
           \/ Publish \/ Reset
           \/ DeliverFrame(t) \/ StopDraining(t) \/ ResumeDelivery(t)
    PROVE Onward(s) /\ (subs'[s] = None <=> subs[s] = None)
<1> DEFINE B == Boundaries(subs[s]) \cup {CurrentCursor(log')}
<1>0. subs'[s] = subs[s] => Onward(s)
  BY DEF Onward
<1>1. subs \in [Subs -> Subscription \cup {None}] /\ CurrentCursor(log') \in B
  BY DEF StreamInv
<1>2. subs[s] # None => SubWithin(subs[s], B)
  <2>1. Boundaries(subs[s]) \subseteq B
    OBVIOUS
  <2> HIDE DEF B
  <2> QED BY <1>1, <2>1, WithinBoundaries
<1> HIDE DEF B
<1>3. ASSUME subs[s] # None, SubWithin(subs'[s], B),
             subs'[s].lastAcknowledged = subs[s].lastAcknowledged
      PROVE Onward(s) /\ subs'[s] # None
  BY <1>3, OnwardIf, NotNone DEF B, SubWithin
<1>4. CASE Publish
  <2> DEFINE c == At(log.epoch, log.sequence + 1)
  <2>1. subs'[s] = Offer(log', Change(c), subs[s])
    BY <1>4 DEF Publish
  <2>2. c \in Cursor
    <3>1. log.epoch \in 1 .. MaxEpochs /\ log.sequence \in 0 .. MaxSequence /\ log.sequence < MaxSequence
      BY <1>4, PastFacts DEF Publish
    <3> QED BY <3>1, StreamAssumption DEF At, Cursor, StreamAssumption
  <2> HIDE DEF c
  <2>3. CASE subs[s] = None
    BY <1>0, <2>1, <2>3 DEF Offer
  <2>4. CASE subs[s] # None
    <3>1. SubWithin(subs'[s], B) /\ subs'[s].lastAcknowledged = subs[s].lastAcknowledged
      BY <1>1, <1>2, <2>1, <2>2, <2>4, OfferWithin
    <3> QED BY <1>3, <2>4, <3>1
  <2> QED BY <2>3, <2>4
<1>5. CASE Reset
  <2> DEFINE z == [subs[s] EXCEPT !.snapshotBoundary = None]
  <2>1. subs'[s] = IF subs[s] = None THEN None ELSE EnqueueSnapshot(log', z)
    BY <1>5 DEF Reset
  <2>2. CASE subs[s] = None
    BY <1>0, <2>1, <2>2
  <2>3. CASE subs[s] # None
    <3>1. /\ z \in Subscription /\ z.snapshotBoundary = None /\ z.queue = subs[s].queue
          /\ z.lastAcknowledged = subs[s].lastAcknowledged
      BY <1>1, <2>3 DEF Subscription
    <3> HIDE DEF z
    <3>2. SubWithin(z, B)
      BY <1>2, <2>3, <3>1 DEF SubWithin
    <3>3. SubWithin(subs'[s], B) /\ subs'[s].lastAcknowledged = subs[s].lastAcknowledged
      BY <1>1, <2>1, <2>3, <3>1, <3>2, EnqueueSnapshotWithin
    <3> QED BY <1>3, <2>3, <3>3
  <2> QED BY <2>2, <2>3
<1>6. CASE s # t /\ (DeliverFrame(t) \/ StopDraining(t) \/ ResumeDelivery(t))
  <2>1. subs'[s] = subs[s]
    BY <1>1, <1>6 DEF DeliverFrame, StopDraining, ResumeDelivery
  <2> QED BY <1>0, <2>1
<1>7. CASE DeliverFrame(s)
  <2>1. /\ subs[s] # None /\ subs'[s] \in Subscription /\ subs'[s].queue = Tail(subs[s].queue)
        /\ subs'[s].snapshotBoundary = subs[s].snapshotBoundary
        /\ subs'[s].lastAcknowledged = subs[s].lastAcknowledged
        /\ subs[s].queue # <<>> /\ subs[s].queue \in Seq(Frame)
    BY <1>1, <1>7, DeliveredFacts DEF DeliverFrame, Draining, Subscription
  <2>2. QueueFrom(subs'[s].queue, B)
    <3>1. \A i \in DOMAIN Tail(subs[s].queue) :
            i + 1 \in DOMAIN subs[s].queue /\ Tail(subs[s].queue)[i] = subs[s].queue[i + 1]
      BY <2>1, HeadFacts
    <3> QED BY <1>2, <2>1, <3>1 DEF SubWithin, QueueFrom
  <2>3. SubWithin(subs'[s], B)
    BY <1>2, <2>1, <2>2 DEF SubWithin
  <2> QED BY <1>3, <2>1, <2>3
<1>8. CASE StopDraining(s)
  <2> DEFINE z == [subs[s] EXCEPT !.scheduled = FALSE]
  <2>1. subs[s] \in Subscription /\ subs[s] # None /\ subs'[s] = z
    BY <1>1, <1>8 DEF StopDraining, Draining
  <2>2. /\ z \in Subscription /\ z.snapshotBoundary = subs[s].snapshotBoundary
        /\ z.queue = subs[s].queue /\ z.lastAcknowledged = subs[s].lastAcknowledged
    BY <2>1 DEF Subscription
  <2> HIDE DEF z
  <2>3. SubWithin(subs'[s], B)
    BY <1>2, <2>1, <2>2 DEF SubWithin
  <2> QED BY <1>3, <2>1, <2>2, <2>3
<1>9. CASE ResumeDelivery(s)
  <2>1. subs[s] # None /\ subs'[s] = Resume(subs[s])
    BY <1>1, <1>9 DEF ResumeDelivery
  <2>2. SubWithin(subs'[s], B) /\ subs'[s].lastAcknowledged = subs[s].lastAcknowledged
    BY <1>2, <2>1, ResumeWithin
  <2> QED BY <1>3, <2>1, <2>2
<1> QED BY <1>4, <1>5, <1>6, <1>7, <1>8, <1>9

\* The client leaves the leases and the subscriptions alone.
LEMMA ClientQuiet ==
    ASSUME MessageArrives \/ ClientActs \/ OpenSocket \/ LoseSocket \/ Rests
    PROVE UNCHANGED <<log, subs, leases>>
<1>1. CASE MessageArrives
  BY <1>1, ArrivalFacts DEF streamVars, leaseVars
<1>2. CASE ClientActs
  BY <1>2 DEF ClientActs, SendWaiting, DrainTurn, ChangesApplied, SnapshotRead, SnapshotApplied,
              SnapshotEnds, WorkspaceReadFails, ApplyFails, SnapshotFails, wireVars, streamVars, leaseVars
<1>3. CASE OpenSocket \/ LoseSocket
  BY <1>3 DEF OpenSocket, LoseSocket, streamVars, leaseVars
<1>4. CASE Rests
  BY <1>4 DEF Rests, streamVars, leaseVars
<1> QED BY <1>1, <1>2, <1>3, <1>4

\* An attachment makes or keeps a lease, and keeps or starts its subscription.
LEMMA AttachedSub ==
    ASSUME TypeInv, Wired, Attaching, NEW s \in Subs, HandleNext,
           LogInv(log'),
           \/ HandleSubscribe(Head(up), {x \in Subs : Fresh(x)}) \/ HandleAttach(Head(up))
    PROVE SubKept(s) \/ SubStarts(s)
<1> DEFINE B == Boundaries(subs[s]) \cup {CurrentCursor(log')}
<1>0. /\ Head(up) \in RequestOf(Past) /\ log' = log /\ LogInv(log) /\ StreamInv
      /\ leases \in [Subs -> LeaseRecord \cup {None}] /\ subs \in [Subs -> Subscription \cup {None}]
      /\ UNCHANGED <<log, socket, clientVars>> /\ socket \in SocketId /\ sockets[socket] # None
      /\ up # <<>>
  BY Handled DEF TypeInv, StreamInv, LeasesType, LeaseRecord
<1>1. CASE HandleSubscribe(Head(up), {x \in Subs : Fresh(x)})
  <2>1. PICK r \in Subs : /\ Fresh(r) /\ leases[r] = None /\ down' = Append(down, Result(Head(up), r))
                          /\ AttachTo(socket, r, NewLease, NewSubscription(log, Head(up).cursor))
    BY <1>1 DEF HandleSubscribe
  <2>2. Head(up).method = "subscribe" /\ Head(up).cursor \in Cursor \cup {None}
    BY <1>0, <1>1, PastFacts DEF HandleSubscribe, RequestOf
  <2>3. Attaches(r)
    BY <1>0, <2>1, <2>2, AttachmentFacts DEF Attaches
  <2>4. /\ leases'[r] # None /\ \A x \in Subs \ {r} : leases'[x] = leases[x]
    <3>1. PICK g \in Generation :
            leases' = [leases EXCEPT ![r] = [connection |-> [sink |-> socket, generation |-> g],
                                             nextGeneration |-> g, expires |-> FALSE]]
      BY <2>3, AttachesFacts
    <3> DEFINE lease == [connection |-> [sink |-> socket, generation |-> g],
                         nextGeneration |-> g, expires |-> FALSE]
    <3>2. lease # None
      BY <1>0, AttachedLease
    <3>3. leases' = [leases EXCEPT ![r] = lease]
      BY <3>1
    <3> HIDE DEF lease
    <3> QED BY <1>0, <3>2, <3>3
  <2>5. /\ subs'[r] = Resume(NewSubscription(log, Head(up).cursor))
        /\ \A x \in Subs \ {r} : subs'[x] = subs[x]
    <3>1. NewLease.nextGeneration + 1 = 1
      BY DEF NewLease
    <3> QED BY <1>0, <2>1, <3>1 DEF AttachTo
  <2>6. CASE s # r
    BY <2>4, <2>5, <2>6 DEF SubKept, Onward
  <2>7. CASE s = r
    <3> DEFINE new == NewSubscription(log, Head(up).cursor)
               C == {CurrentCursor(log')}
    <3>1. SubWithin(new, C) /\ new.lastAcknowledged \in {Head(up).cursor, None}
      BY <1>0, <2>2, NewSubscriptionWithin
    <3> HIDE DEF new, C
    <3>2. SubWithin(Resume(new), C) /\ Resume(new).lastAcknowledged = new.lastAcknowledged
      BY <3>1, ResumeWithin
    <3>3. subs'[s] = Resume(new)
      BY <2>5, <2>7 DEF new
    <3>4. subs'[s] \in Subscription /\ subs'[s] # None
      BY <3>2, <3>3, NotNone DEF SubWithin
    <3>5. Boundaries(subs'[s]) \subseteq C
      BY <3>2, <3>3, <3>4, WithinBoundaries
    <3>6. subs[s] = None
      BY <2>1, <2>7 DEF Wired
    <3>7. SubStarts(s)
      BY <2>1, <2>2, <2>4, <2>7, <3>1, <3>2, <3>3, <3>4, <3>5, <3>6 DEF SubStarts, C
    <3> QED BY <3>7
  <2> QED BY <2>6, <2>7
<1>2. CASE HandleAttach(Head(up))
  <2>1. PICK r \in Subs : r = Head(up).lease
    BY <1>0, <1>2 DEF HandleAttach, RequestOf
  <2>2. leases[r] # None /\ AttachTo(socket, r, leases[r], subs[r]) /\ Head(up).method = "attach"
    BY <1>2, <2>1 DEF HandleAttach
  <2>3. Attachment(r, leases[r], subs[r])
    BY <2>2 DEF AttachTo, Attachment
  <2>4. Attaches(r)
    BY <1>0, <2>1, <2>2, <2>3 DEF Attaches
  <2>5. /\ leases'[r] # None /\ \A x \in Subs \ {r} : leases'[x] = leases[x]
    <3>1. PICK g \in Generation :
            leases' = [leases EXCEPT ![r] = [connection |-> [sink |-> socket, generation |-> g],
                                             nextGeneration |-> g, expires |-> FALSE]]
      BY <2>4, AttachesFacts
    <3> DEFINE lease == [connection |-> [sink |-> socket, generation |-> g],
                         nextGeneration |-> g, expires |-> FALSE]
    <3>2. lease # None
      BY <1>0, AttachedLease
    <3>3. leases' = [leases EXCEPT ![r] = lease]
      BY <3>1
    <3> HIDE DEF lease
    <3> QED BY <1>0, <3>2, <3>3
  <2>6. /\ subs'[r] \in {Resume(subs[r]), Replay(log, subs[r])}
        /\ \A x \in Subs \ {r} : subs'[x] = subs[x]
    BY <1>0, <2>2 DEF AttachTo
  <2>7. CASE s # r
    BY <2>5, <2>6, <2>7 DEF SubKept, Onward
  <2>8. CASE s = r
    <3>1. subs[s] # None /\ subs[s] \in Subscription
      BY <1>0, <2>2, <2>8 DEF Wired
    <3>2. Boundaries(subs[s]) \subseteq B /\ CurrentCursor(log) \in B
      BY <1>0
    <3> HIDE DEF B
    <3>3. SubWithin(subs[s], B)
      BY <3>1, <3>2, WithinBoundaries
    <3>4. /\ SubWithin(Resume(subs[s]), B) /\ SubWithin(Replay(log, subs[s]), B)
          /\ Resume(subs[s]).lastAcknowledged = subs[s].lastAcknowledged
          /\ Replay(log, subs[s]).lastAcknowledged = subs[s].lastAcknowledged
      BY <1>0, <3>2, <3>3, ResumeWithin, ReplayWithin
    <3>5. SubWithin(subs'[s], B) /\ subs'[s].lastAcknowledged = subs[s].lastAcknowledged
      BY <2>6, <2>8, <3>4
    <3>6. Onward(s)
      BY <1>0, <3>1, <3>5, OnwardIf DEF B
    <3> QED BY <2>2, <2>5, <2>8, <3>6 DEF SubKept
  <2> QED BY <2>7, <2>8
<1> QED BY <1>1, <1>2

LEMMA SubCases ==
    ASSUME TypeInv, Wired, Attaching, [Next]_vars, NEW s \in Subs
    PROVE SubKept(s) \/ SubEnds(s) \/ (HandleNext /\ (SubAcked(s) \/ SubStarts(s)))
<1>1. /\ StreamInv /\ StreamInv' /\ LogInv(log) /\ LogInv(log')
      /\ subs \in [Subs -> Subscription \cup {None}]
  BY StreamKept DEF StreamInv
<1>2. subs'[s] = subs[s] /\ leases'[s] = leases[s] => SubKept(s)
  BY DEF SubKept, Onward
<1>3. CASE HandleNext
  <2>0. UNCHANGED log /\ Head(up) \in RequestOf(Past)
    BY <1>3, Handled
  <2>1. CASE \/ HandleSubscribe(Head(up), {x \in Subs : Fresh(x)}) \/ HandleAttach(Head(up))
    BY <1>1, <1>3, <2>1, AttachedSub
  <2>2. CASE RefuseSubscribe(Head(up)) \/ HandleUnknown(Head(up))
    BY <1>2, <2>2 DEF RefuseSubscribe, HandleUnknown
  <2>3. CASE HandleAck(Head(up))
    <3>1. /\ Head(up).lease \in Subs /\ Head(up).method = "ack" /\ Head(up).cursor \in Cursor
          /\ leases' = leases
      BY <1>1, <2>0, <2>3, PastFacts DEF HandleAck, RequestOf, leaseVars
    <3>2. CASE subs' = subs
      BY <1>2, <3>1, <3>2
    <3>3. CASE subs' # subs
      <4>1. /\ subs[Head(up).lease] # None
            /\ subs' = [subs EXCEPT ![Head(up).lease] = Acknowledged(log, @, Head(up).cursor)]
        BY <2>3, <3>3 DEF HandleAck
      <4>2. CASE s # Head(up).lease
        BY <1>1, <1>2, <3>1, <4>1, <4>2
      <4>3. CASE s = Head(up).lease
        <5> DEFINE B == Boundaries(subs[s]) \cup {CurrentCursor(log')}
        <5>1. /\ subs[s] \in Subscription /\ subs'[s] = Acknowledged(log, subs[s], Head(up).cursor)
              /\ Boundaries(subs[s]) \subseteq B /\ CurrentCursor(log) \in B
          BY <1>1, <2>0, <4>1, <4>3
        <5> HIDE DEF B
        <5>2. SubWithin(subs[s], B)
          BY <5>1, WithinBoundaries
        <5>3. SubWithin(subs'[s], B) /\ subs'[s].lastAcknowledged = Head(up).cursor
          BY <1>1, <3>1, <5>1, <5>2, AcknowledgedWithin
        <5>4. subs'[s] # None /\ Boundaries(subs'[s]) \subseteq B
          BY <5>3, NotNone, WithinBoundaries DEF SubWithin
        <5> QED BY <1>3, <3>1, <4>1, <4>3, <5>3, <5>4 DEF SubAcked, B
      <4> QED BY <4>2, <4>3
    <3> QED BY <3>2, <3>3
  <2>4. CASE HandleRelease(Head(up))
    <3>1. Head(up).lease \in Subs
      BY <2>0, <2>4 DEF HandleRelease, RequestOf
    <3>2. CASE DeleteLease(Head(up).lease)
      <4>1. (subs'[s] = None /\ leases'[s] = None) \/ (subs'[s] = subs[s] /\ leases'[s] = leases[s])
        BY <1>1, <3>1, <3>2 DEF DeleteLease, TypeInv, LeasesType
      <4> QED BY <1>2, <4>1 DEF SubEnds
    <3>3. CASE UNCHANGED <<leases, sockets, subs>>
      BY <1>2, <3>3
    <3> QED BY <2>4, <3>2, <3>3 DEF HandleRelease
  <2> QED BY <1>3, <2>1, <2>2, <2>3, <2>4, Handled
<1>4. CASE PublishChange \/ ResetStream
  <2>1. (Publish \/ Reset) /\ leases' = leases
    BY <1>4 DEF PublishChange, ResetStream, leaseVars
  <2>2. Onward(s) /\ (subs'[s] = None <=> subs[s] = None)
    BY <1>1, <2>1, StreamOps
  <2> QED BY <2>1, <2>2 DEF SubKept
<1>5. CASE RestartProcess
  BY <1>5 DEF RestartProcess, RestartHost, SubEnds
<1>6. ASSUME NEW t \in Subs, WriteNext(t) \/ DrainNext(t) PROVE SubKept(s)
  <2>1. (DeliverFrame(t) \/ StopDraining(t) \/ ResumeDelivery(t)) /\ leases' = leases
    BY <1>6 DEF WriteNext, DrainNext, WriteFrame, RefuseFrame, DrainSocket, leaseVars
  <2>2. Onward(s) /\ (subs'[s] = None <=> subs[s] = None)
    BY <1>1, <2>1, StreamOps
  <2> QED BY <2>1, <2>2 DEF SubKept
<1>7. ASSUME NEW t \in Subs, ExpireNext(t) PROVE SubKept(s) \/ SubEnds(s)
  <2>1. DeleteLease(t)
    BY <1>7 DEF ExpireNext, Expire
  <2>2. (subs'[s] = None /\ leases'[s] = None) \/ (subs'[s] = subs[s] /\ leases'[s] = leases[s])
    BY <1>1, <2>1 DEF DeleteLease, TypeInv, LeasesType
  <2> QED BY <1>2, <2>2 DEF SubEnds
<1>8. ASSUME NEW k \in SocketId, HostClosesSocket(k) PROVE SubKept(s)
  <2>1. /\ subs' = subs
        /\ leases'[s] = IF sockets[k][s] # 0 THEN Detached(leases[s], sockets[k][s]) ELSE leases[s]
    BY <1>8 DEF HostClosesSocket, CloseSocket
  <2>2. leases'[s] = None <=> leases[s] = None
    BY <2>1, DetachedFacts DEF TypeInv
  <2> QED BY <2>1, <2>2 DEF SubKept, Onward
<1>9. CASE MessageArrives \/ ClientActs \/ OpenSocket \/ LoseSocket \/ Rests
  BY <1>2, <1>9, ClientQuiet
<1> QED BY <1>3, <1>4, <1>5, <1>6, <1>7, <1>8, <1>9, NextActs DEF HostActs

\* A lease is connected to a socket exactly when the socket receives it.
WiredTo(s, k) ==
    /\ ConnectedTo(s, k) => sockets[k] # None
    /\ sockets[k] # None =>
         sockets[k][s] = IF ConnectedTo(s, k) THEN leases[s].connection.generation ELSE 0

LEMMA WiredStep ==
    ASSUME TypeInv, Wired, Attaching, [Next]_vars
    PROVE Wired'
<1>0. /\ leases \in [Subs -> LeaseRecord \cup {None}] /\ None \notin LeaseRecord
      /\ sockets \in [SocketId -> [Subs -> {0} \cup Generation] \cup {None}]
      /\ None \notin [Subs -> {0} \cup Generation]
      /\ MaxSockets \in Nat /\ opened \in 0 .. MaxSockets /\ SocketId = 1 .. MaxSockets
      /\ Generation = 1 .. (2 * MaxSockets)
  BY SocketFacts, NotNone DEF TypeInv, LeasesType, LeaseRecord, Generation
<1>1. ASSUME NEW s \in Subs PROVE leases'[s] = None <=> subs'[s] = None
  BY <1>1, SubCases DEF Wired, SubKept, Onward, SubEnds, SubAcked, SubStarts
<1>2. SUFFICES /\ \A s \in Subs : leases'[s] # None => leases'[s].nextGeneration <= opened'
               /\ \A k \in SocketId : k > opened' => sockets'[k] = None
               /\ \A s \in Subs, k \in SocketId : WiredTo(s, k)'
  BY <1>1 DEF Wired, WiredTo
<1>3. /\ \A s \in Subs : leases[s] # None => leases[s].nextGeneration <= opened
      /\ \A k \in SocketId : k > opened => sockets[k] = None
      /\ \A s \in Subs, k \in SocketId : WiredTo(s, k)
  BY DEF Wired, WiredTo
<1>4. CASE UNCHANGED leaseVars /\ opened' = opened
  BY <1>3, <1>4 DEF leaseVars, WiredTo, ConnectedTo
<1>5. ASSUME NEW s \in Subs, Attaches(s), opened' = opened
      PROVE /\ \A r \in Subs : leases'[r] # None => leases'[r].nextGeneration <= opened'
            /\ \A k \in SocketId : k > opened' => sockets'[k] = None
            /\ \A r \in Subs, k \in SocketId : WiredTo(r, k)'
  <2>1. PICK g \in Generation :
            /\ g <= opened /\ socket \in SocketId /\ sockets[socket] # None
            /\ leases' = [leases EXCEPT ![s] =
                 [connection |-> [sink |-> socket, generation |-> g],
                  nextGeneration |-> g, expires |-> FALSE]]
            /\ sockets' = [j \in SocketId |->
                 IF j = socket THEN [sockets[socket] EXCEPT ![s] = g]
                 ELSE IF ConnectedTo(s, j) /\ sockets[j] # None THEN [sockets[j] EXCEPT ![s] = 0]
                 ELSE sockets[j]]
    BY <1>5, AttachesFacts
  <2> DEFINE lease == [connection |-> [sink |-> socket, generation |-> g],
                       nextGeneration |-> g, expires |-> FALSE]
  <2>2. /\ lease \in LeaseRecord /\ lease # None /\ lease.connection # None
        /\ lease.connection.sink = socket /\ lease.connection.generation = g
        /\ lease.nextGeneration = g
    BY <2>1, AttachedLease
  <2>3. leases' = [leases EXCEPT ![s] = lease]
    BY <2>1
  <2> HIDE DEF lease
  <2>4. leases'[s] = lease /\ \A r \in Subs \ {s} : leases'[r] = leases[r]
    BY <1>0, <2>3
  <2>5. \A r \in Subs : leases'[r] # None => leases'[r].nextGeneration <= opened'
    BY <1>3, <1>5, <2>1, <2>2, <2>4
  <2>6. socket <= opened
    BY <1>3, <2>1, <1>0
  <2>7. ASSUME NEW k \in SocketId PROVE sockets'[k] = None <=> sockets[k] = None
    <3>1. sockets[k] # None =>
            /\ [sockets[k] EXCEPT ![s] = g] \in [Subs -> {0} \cup Generation]
            /\ [sockets[k] EXCEPT ![s] = 0] \in [Subs -> {0} \cup Generation]
      BY <1>0
    <3> QED BY <1>0, <2>1, <3>1
  <2>8. ASSUME NEW r \in Subs, NEW k \in SocketId PROVE WiredTo(r, k)'
    <3>1. WiredTo(r, k)
      BY <1>3
    <3>2. CASE r # s
      <4>1. ConnectedTo(r, k)' <=> ConnectedTo(r, k)
        BY <2>4, <3>2 DEF ConnectedTo
      <4>2. sockets[k] # None => sockets'[k][r] = sockets[k][r]
        BY <1>0, <2>1, <3>2
      <4> QED BY <2>4, <2>7, <3>1, <3>2, <4>1, <4>2 DEF WiredTo
    <3>3. CASE r = s
      <4>1. ConnectedTo(r, k)' <=> k = socket
        BY <2>2, <2>4, <3>3 DEF ConnectedTo
      <4>2. sockets[k] # None => sockets'[k][s] = IF k = socket THEN g ELSE 0
        <5>1. CASE k = socket
          BY <1>0, <2>1, <5>1
        <5>2. CASE k # socket /\ ConnectedTo(s, k) /\ sockets[k] # None
          BY <1>0, <2>1, <5>2
        <5>3. CASE k # socket /\ ~ConnectedTo(s, k) /\ sockets[k] # None
          BY <1>0, <2>1, <3>1, <3>3, <5>3 DEF WiredTo
        <5> QED BY <5>1, <5>2, <5>3
      <4> QED BY <2>1, <2>2, <2>4, <2>7, <3>3, <4>1, <4>2 DEF WiredTo
    <3> QED BY <3>2, <3>3
  <2> QED BY <1>0, <1>3, <1>5, <2>5, <2>7, <2>8
<1>6. ASSUME NEW s \in Subs, Ends(s), opened' = opened
      PROVE /\ \A r \in Subs : leases'[r] # None => leases'[r].nextGeneration <= opened'
            /\ \A k \in SocketId : k > opened' => sockets'[k] = None
            /\ \A r \in Subs, k \in SocketId : WiredTo(r, k)'
  <2>1. leases'[s] = None /\ \A r \in Subs \ {s} : leases'[r] = leases[r]
    BY <1>0, <1>6 DEF Ends, DeleteLease
  <2>2. ASSUME NEW k \in SocketId
        PROVE /\ sockets'[k] = None <=> sockets[k] = None
              /\ sockets[k] # None =>
                   /\ \A r \in Subs \ {s} : sockets'[k][r] = sockets[k][r]
                   /\ sockets'[k][s] = 0
    <3>1. CASE ConnectedTo(s, k)
      <4>1. sockets' = [sockets EXCEPT ![k][s] = 0] /\ sockets[k] # None
        BY <1>3, <1>6, <3>1 DEF Ends, DeleteLease, ConnectedTo, WiredTo
      <4>2. [sockets[k] EXCEPT ![s] = 0] \in [Subs -> {0} \cup Generation]
        BY <1>0, <4>1
      <4> QED BY <1>0, <4>1, <4>2
    <3>2. CASE ~ConnectedTo(s, k)
      <4>1. sockets'[k] = sockets[k]
        BY <1>0, <1>6, <3>2 DEF Ends, DeleteLease, ConnectedTo, LeaseRecord, Connection
      <4> QED BY <1>3, <3>2, <4>1 DEF WiredTo
    <3> QED BY <3>1, <3>2
  <2>3. ASSUME NEW r \in Subs, NEW k \in SocketId PROVE WiredTo(r, k)'
    <3>1. r # s => (ConnectedTo(r, k)' <=> ConnectedTo(r, k))
      BY <2>1 DEF ConnectedTo
    <3>2. ~ConnectedTo(s, k)'
      BY <2>1 DEF ConnectedTo
    <3> QED BY <1>3, <2>1, <2>2, <3>1, <3>2 DEF WiredTo
  <2> QED BY <1>3, <1>6, <2>1, <2>2, <2>3
<1>7. ASSUME NEW k \in SocketId, Closes(k), opened' = opened
      PROVE /\ \A r \in Subs : leases'[r] # None => leases'[r].nextGeneration <= opened'
            /\ \A j \in SocketId : j > opened' => sockets'[j] = None
            /\ \A r \in Subs, j \in SocketId : WiredTo(r, j)'
  <2>1. sockets'[k] = None /\ \A j \in SocketId \ {k} : sockets'[j] = sockets[j]
    BY <1>0, <1>7 DEF Closes
  <2>2. ASSUME NEW r \in Subs
        PROVE \/ leases'[r] = leases[r] /\ ~ConnectedTo(r, k)
              \/ /\ ConnectedTo(r, k) /\ leases'[r] # None /\ leases'[r].connection = None
                 /\ leases'[r].nextGeneration = leases[r].nextGeneration
    <3>1. leases'[r] = IF sockets[k][r] # 0 THEN Detached(leases[r], sockets[k][r]) ELSE leases[r]
      BY <1>7 DEF Closes
    <3>2. sockets[k] # None /\ WiredTo(r, k)
      BY <1>3, <1>7 DEF Closes
    <3>3. CASE ConnectedTo(r, k)
      <4>1. /\ leases[r] \in LeaseRecord /\ leases[r].connection # None
            /\ leases[r].connection \in Connection
            /\ sockets[k][r] = leases[r].connection.generation
        BY <1>0, <3>2, <3>3 DEF ConnectedTo, WiredTo, LeaseRecord
      <4>2. leases[r].connection.generation \in 1 .. (2 * MaxSockets)
        BY <1>0, <4>1 DEF Connection
      <4>3. sockets[k][r] # 0
        BY <1>0, <4>1, <4>2
      <4>4. leases'[r] = [leases[r] EXCEPT !.connection = None, !.expires = TRUE]
        BY <3>1, <3>3, <4>1, <4>3 DEF Detached, ConnectedTo
      <4>5. /\ leases'[r] \in LeaseRecord /\ leases'[r].connection = None
            /\ leases'[r].nextGeneration = leases[r].nextGeneration
        BY <4>1, <4>4 DEF LeaseRecord
      <4> QED BY <1>0, <3>3, <4>5
    <3>4. CASE ~ConnectedTo(r, k)
      BY <3>1, <3>2, <3>4 DEF WiredTo
    <3> QED BY <3>3, <3>4
  <2>3. ASSUME NEW r \in Subs, NEW j \in SocketId PROVE WiredTo(r, j)'
    <3>1. CASE leases'[r] = leases[r] /\ ~ConnectedTo(r, k)
      <4>1. ConnectedTo(r, j)' <=> ConnectedTo(r, j)
        BY <3>1 DEF ConnectedTo
      <4> QED BY <1>3, <2>1, <3>1, <4>1 DEF WiredTo
    <3>2. CASE ConnectedTo(r, k) /\ leases'[r] # None /\ leases'[r].connection = None
      <4>1. ~ConnectedTo(r, j)'
        BY <3>2 DEF ConnectedTo
      <4>2. ConnectedTo(r, j) => j = k
        BY <3>2 DEF ConnectedTo
      <4> QED BY <1>3, <2>1, <4>1, <4>2 DEF WiredTo
    <3> QED BY <2>2, <3>1, <3>2
  <2>4. \A r \in Subs : leases'[r] # None => leases'[r].nextGeneration <= opened'
    BY <1>3, <1>7, <2>2 DEF ConnectedTo
  <2> QED BY <1>3, <1>7, <2>1, <2>3, <2>4
<1>8. CASE Restarts /\ opened' = opened
  BY <1>8 DEF Restarts, WiredTo, ConnectedTo
<1>9. CASE Opens
  <2>1. /\ leases' = leases /\ opened' = opened + 1 /\ opened + 1 \in SocketId
        /\ sockets' = [sockets EXCEPT ![opened + 1] = NoLeases]
    BY <1>0, <1>9 DEF Opens
  <2>2. sockets[opened + 1] = None /\ NoLeases # None /\ \A s \in Subs : NoLeases[s] = 0
    <3>1. NoLeases \in [Subs -> {0} \cup Generation]
      BY DEF NoLeases
    <3> QED BY <1>0, <1>3, <2>1, <3>1 DEF NoLeases
  <2>3. \A s \in Subs : ~ConnectedTo(s, opened + 1)
    BY <1>3, <2>1, <2>2 DEF WiredTo
  <2>4. ASSUME NEW r \in Subs, NEW k \in SocketId PROVE WiredTo(r, k)'
    <3>1. ConnectedTo(r, k)' <=> ConnectedTo(r, k)
      BY <2>1 DEF ConnectedTo
    <3>2. WiredTo(r, k)
      BY <1>3
    <3>3. CASE k = opened + 1
      BY <1>0, <2>1, <2>2, <2>3, <3>1, <3>3 DEF WiredTo
    <3>4. CASE k # opened + 1
      BY <1>0, <2>1, <3>1, <3>2, <3>4 DEF WiredTo
    <3> QED BY <3>3, <3>4
  <2>5. \A k \in SocketId : k > opened' => sockets'[k] = None
    BY <1>0, <1>3, <2>1
  <2>6. ASSUME NEW s \in Subs, leases'[s] # None PROVE leases'[s].nextGeneration <= opened'
    <3>1. leases[s].nextGeneration \in Nat /\ leases[s].nextGeneration <= opened
      BY <1>0, <1>3, <2>1, <2>6 DEF LeaseRecord
    <3> QED BY <1>0, <2>1, <3>1
  <2> QED BY <2>4, <2>5, <2>6
<1> QED BY <1>4, <1>5, <1>6, <1>7, <1>8, <1>9, LeaseCases

-----------------------------------------------------------------------------
(* The attachment under way *)

\* Where the requests and the messages of the next state come from.
LEMMA UpSteps ==
    ASSUME TypeInv, Exchanges, Owners, Forward, [Next]_vars, NEW i \in DOMAIN up'
    PROVE \/ \E k \in DOMAIN up : up'[i] = up[k] /\ (HandleNext => k # 1)
          \/ /\ up'[i].method \in {"ack", "subscribe", "release"}
             /\ up'[i].cursor \in {None, ack'.cursor, recovery'.cursor}
          \/ OpenSocket /\ task # None /\ up'[i] = AttachRequest(task)
<1>1. /\ StreamInv /\ Past \subseteq Cursor /\ CurrentCursor(log) \in Past
      /\ ClientOf(Past) /\ WireOf(Past) /\ up \in Seq(RequestOf(Past))
  BY PastFacts DEF TypeInv, WireOf
<1>2. CASE up' = up
  <2>1. i \in DOMAIN up /\ up'[i] = up[i]
    BY <1>2
  <2>2. ~HandleNext
    BY <1>1, <1>2, Handled
  <2> QED BY <1>2, <2>1, <2>2
<1>3. ASSUME NEW r \in RequestOf(Past), up' = Append(up, r),
             r.method \in {"ack", "subscribe", "release"},
             r.cursor \in {None, ack'.cursor, recovery'.cursor}
      PROVE \/ \E k \in DOMAIN up : up'[i] = up[k] /\ (HandleNext => k # 1)
            \/ /\ up'[i].method \in {"ack", "subscribe", "release"}
               /\ up'[i].cursor \in {None, ack'.cursor, recovery'.cursor}
  <2>1. ~HandleNext
    BY <1>1, <1>3, Handled
  <2>2. \/ i \in DOMAIN up /\ up'[i] = up[i]
        \/ up'[i] = r
    BY <1>1, <1>3, AppendFacts
  <2> QED BY <1>3, <2>1, <2>2
<1>4. CASE HostActs
  BY <1>2, <1>4, HostWire
<1>5. CASE HandleNext
  <2>1. up # <<>> /\ up' = Tail(up)
    BY <1>5, Handled
  <2>2. i \in Nat \ {0} /\ i + 1 \in DOMAIN up /\ up'[i] = up[i + 1]
    BY <1>1, <2>1, HeadFacts
  <2> QED BY <2>1, <2>2
<1>6. CASE MessageArrives
  <2>1. up' = up \/ \E s \in Subs : up' = Append(up, ReleaseRequest(s))
    BY <1>1, <1>6, ArrivalWire
  <2>2. \A s \in Subs : /\ ReleaseRequest(s) \in RequestOf(Past)
                        /\ ReleaseRequest(s).method = "release" /\ ReleaseRequest(s).cursor = None
    BY DEF ReleaseRequest, RequestOf
  <2> QED BY <1>2, <1>3, <2>1, <2>2
<1>7. CASE ClientActs
  <2>1. Requests(Past)
    BY <1>1, <1>7, ActsWire
  <2> QED BY <1>2, <1>3, <2>1 DEF Requests
<1>8. CASE OpenSocket
  <2>1. up' = IF task = None THEN <<>> ELSE <<AttachRequest(task)>>
    BY <1>8 DEF OpenSocket
  <2> QED BY <1>8, <2>1
<1>9. CASE LoseSocket
  BY <1>9 DEF LoseSocket
<1>10. CASE Rests
  BY <1>2, <1>10 DEF Rests, wireVars
<1> QED BY <1>4, <1>5, <1>6, <1>7, <1>8, <1>9, <1>10, NextActs

LEMMA DownSteps ==
    ASSUME TypeInv, Exchanges, Owners, Forward, [Next]_vars, NEW j \in DOMAIN down'
    PROVE \/ \E k \in DOMAIN down : down'[j] = down[k] /\ (MessageArrives => k = j + 1)
          \/ /\ HandleNext /\ down'[j].type \in {"result", "refused"}
             /\ down'[j].method = Head(up).method
             /\ Head(up).method # "subscribe" => down'[j].lease = Head(up).lease
             /\ down' = Append(down, down'[j])
          \/ down'[j].type = "task_frame" /\ HostActs
<1>1. /\ StreamInv /\ Past \subseteq Cursor /\ CurrentCursor(log) \in Past
      /\ ClientOf(Past) /\ WireOf(Past) /\ down \in Seq(MessageOf(Past))
  BY PastFacts DEF TypeInv, WireOf
<1>2. CASE down' = down /\ ~MessageArrives
  BY <1>2
<1>3. MessageArrives => down # <<>> /\ down' = Tail(down)
  BY ArrivalFacts
<1>4. CASE HostActs
  <2>1. ~MessageArrives \/ down' = Tail(down)
    BY <1>3
  <2>2. CASE down' = down
    <3>1. ~MessageArrives
      BY <1>1, <1>3, <2>2
    <3> QED BY <1>2, <2>2, <3>1
  <2>3. ASSUME NEW m \in MessageOf(Past), m.type = "task_frame", down' = Append(down, m)
        PROVE \/ \E k \in DOMAIN down : down'[j] = down[k] /\ (MessageArrives => k = j + 1)
              \/ down'[j].type = "task_frame" /\ HostActs
    <3>1. ~MessageArrives
      BY <1>1, <1>3, <2>3
    <3>2. \/ j \in DOMAIN down /\ down'[j] = down[j]
          \/ down'[j] = m
      BY <1>1, <2>3, AppendFacts
    <3> QED BY <1>4, <2>3, <3>1, <3>2
  <2> QED BY <1>4, <2>2, <2>3, HostWire
<1>5. CASE HandleNext
  <2>1. PICK m \in MessageOf(Past) :
          /\ down' = Append(down, m) /\ m.type \in {"result", "refused"}
          /\ m.method = Head(up).method
          /\ Head(up).method # "subscribe" => m.lease = Head(up).lease
    BY <1>5, HandleAnswer
  <2>2. ~MessageArrives
    BY <1>1, <1>3, <2>1
  <2>3. \/ j \in DOMAIN down /\ down'[j] = down[j]
        \/ down'[j] = m
    BY <1>1, <2>1, AppendFacts
  <2> QED BY <1>5, <2>1, <2>2, <2>3
<1>6. CASE MessageArrives
  <2>1. j + 1 \in DOMAIN down /\ down'[j] = down[j + 1]
    BY <1>1, <1>3, <1>6, HeadFacts
  <2> QED BY <2>1
<1>7. CASE ClientActs
  <2>1. down' = down
    BY <1>1, <1>7, ActsWire
  <2>2. ~MessageArrives
    BY <1>1, <1>3, <2>1
  <2> QED BY <1>2, <2>1, <2>2
<1>8. CASE OpenSocket
  <2>1. down' = <<>>
    BY <1>1, <1>8 DEF OpenSocket, WireOf
  <2> QED BY <2>1
<1>9. CASE LoseSocket
  BY <1>9 DEF LoseSocket
<1>10. CASE Rests
  <2>1. down' = down
    BY <1>10 DEF Rests, wireVars
  <2>2. ~MessageArrives
    BY <1>1, <1>3, <2>1
  <2> QED BY <1>2, <2>1, <2>2
<1> QED BY <1>4, <1>5, <1>6, <1>7, <1>8, <1>9, <1>10, NextActs

\* The client keeps its lease, gives it up, or gets one.
LEMMA TaskMoves ==
    ASSUME TypeInv, Exchanges, Owners, Forward, [Next]_vars
    PROVE task' \in {task, None} \/ (MessageArrives /\ Subscribed(Head(down)))
<1>1. /\ StreamInv /\ Past \subseteq Cursor /\ CurrentCursor(log) \in Past
      /\ ClientOf(Past) /\ WireOf(Past) /\ task = stream.current
  BY PastFacts DEF TypeInv, ClientOf
<1>2. ClientMove(Past) => task' \in {task, None}
  BY <1>1 DEF ClientMove, GivenUp
<1>3. CASE HostActs \/ HandleNext \/ Rests
  BY <1>3, HostWire, Handled DEF clientVars, Rests
<1>4. CASE MessageArrives
  <2>1. FrameArrives(Head(down)) => task' = task
    BY DEF FrameArrives
  <2> QED BY <1>1, <1>2, <1>4, <2>1, ArrivalMoves
<1>5. CASE ClientActs
  <2>1. CASE SendWaiting \/ DrainTurn \/ ChangesApplied \/ SnapshotRead \/ WorkspaceReadFails
             \/ SnapshotApplied
    BY <2>1 DEF SendWaiting, DrainTurn, ChangesApplied, SnapshotRead, WorkspaceReadFails, SnapshotEnds,
                SnapshotApplied
  <2>2. CASE ApplyFails \/ SnapshotFails
    BY <1>1, <1>2, <2>2, FailureMove
  <2> QED BY <1>5, <2>1, <2>2 DEF ClientActs
<1>6. CASE OpenSocket
  BY <1>6 DEF OpenSocket
<1>7. CASE LoseSocket
  BY <1>1, <1>2, <1>7, LoseSocketMove
<1> QED BY <1>3, <1>4, <1>5, <1>6, <1>7, NextActs

\* A lease that an attach request on its way names gets no generation of the socket.
LEMMA AttachStaysAhead ==
    ASSUME TypeInv, Wired, Exchanges, Attaching, [Next]_vars,
           NEW k \in DOMAIN up, up[k].method = "attach", HandleNext => k # 1,
           leases'[up[k].lease] # None
    PROVE leases'[up[k].lease].nextGeneration < opened'
<1> DEFINE t == up[k].lease
<1>1. /\ t \in Subs /\ (leases[t] # None => leases[t].nextGeneration < opened)
      /\ up \in Seq(RequestOf(Past)) /\ opened \in Nat
      /\ leases \in [Subs -> LeaseRecord \cup {None}]
  <2>1. up \in Seq(RequestOf(Past)) /\ leases \in [Subs -> LeaseRecord \cup {None}]
    BY DEF TypeInv, WireOf, LeasesType, LeaseRecord
  <2>2. up[k] \in RequestOf(Past)
    BY <2>1
  <2>3. up[k].lease \in Subs
    BY <2>2 DEF RequestOf
  <2>4. opened \in Nat
    BY SocketFacts
  <2> QED BY <2>1, <2>3, <2>4 DEF Attaching
<1>2. CASE leases' = leases /\ opened' \in {opened, opened + 1}
  <2>1. leases[t] \in LeaseRecord
    BY <1>1, <1>2
  <2>2. leases[t].nextGeneration \in Nat
    BY <2>1, SocketFacts DEF LeaseRecord, Generation
  <2> QED BY <1>1, <1>2, <2>2
<1>3. ASSUME NEW s \in Subs, Attaches(s), UNCHANGED opened
      PROVE leases'[t].nextGeneration < opened'
  <2>1. s # t
    <3>1. CASE Fresh(s)
      BY <3>1 DEF Fresh
    <3>2. CASE Head(up).method = "attach"
      <4>1. HandleNext /\ up # <<>>
        BY <1>3 DEF Attaches
      <4>2. 1 \in DOMAIN up /\ Head(up) = up[1]
        BY <1>1, <4>1, HeadFacts
      <4>3. k # 1
        BY <4>1
      <4> QED BY <3>2, <4>2, <4>3 DEF Exchanges, Single
    <3> QED BY <1>3, <3>1, <3>2 DEF Attaches
  <2>2. leases'[t] = leases[t]
    BY <1>1, <1>3, <2>1, AttachesFacts
  <2> QED BY <1>1, <1>3, <2>2
<1>4. ASSUME NEW s \in Subs, Ends(s), UNCHANGED opened
      PROVE leases'[t].nextGeneration < opened'
  BY <1>1, <1>4 DEF Ends, DeleteLease
<1>5. ASSUME NEW j \in SocketId, Closes(j), UNCHANGED opened
      PROVE leases'[t].nextGeneration < opened'
  <2>1. leases'[t] = IF sockets[j][t] # 0 THEN Detached(leases[t], sockets[j][t]) ELSE leases[t]
    BY <1>1, <1>5 DEF Closes
  <2> QED BY <1>1, <1>5, <2>1, DetachedFacts DEF TypeInv
<1>6. CASE Restarts
  BY <1>1, <1>6 DEF Restarts
<1> QED BY <1>2, <1>3, <1>4, <1>5, <1>6, LeaseCases DEF leaseVars, Opens

LEMMA AttachingStep ==
    ASSUME TypeInv, Wired, Exchanges, Attaching, Owners, Forward, [Next]_vars
    PROVE Attaching'
<1>1. /\ ClientOf(Past) /\ WireOf(Past) /\ up \in Seq(RequestOf(Past)) /\ down \in Seq(MessageOf(Past))
  BY DEF TypeInv, WireOf
<1>2. task' \in {task, None} \/ ~UnderWay(up, down, "attach")
  <2>1. CASE MessageArrives /\ Subscribed(Head(down))
    <3>1. Answers(Head(down), "subscribe") /\ down # <<>>
      BY <2>1, ArrivalFacts DEF Subscribed, Answers
    <3>2. 1 \in DOMAIN down /\ Head(down) = down[1]
      BY <1>1, <3>1, HeadFacts
    <3>3. channel = "open"
      BY <3>1, <3>2 DEF Exchanges, UnderWay
    <3> QED BY <3>3 DEF Exchanges
  <2> QED BY <2>1, TaskMoves
<1>3. ASSUME NEW i \in DOMAIN up', up'[i].method = "attach"
      PROVE /\ task' \in {None, up'[i].lease}
            /\ leases'[up'[i].lease] # None => leases'[up'[i].lease].nextGeneration < opened'
  <2>1. CASE \E k \in DOMAIN up : up'[i] = up[k] /\ (HandleNext => k # 1)
    <3>1. PICK k \in DOMAIN up : up'[i] = up[k] /\ (HandleNext => k # 1)
      BY <2>1
    <3>2. UnderWay(up, down, "attach") /\ task \in {None, up[k].lease}
      BY <1>3, <3>1 DEF UnderWay, Attaching
    <3>3. task' \in {None, up[k].lease}
      BY <1>2, <3>2
    <3> QED BY <1>3, <3>1, <3>3, AttachStaysAhead
  <2>2. CASE OpenSocket /\ task # None /\ up'[i] = AttachRequest(task)
    <3>1. /\ up'[i].lease = task /\ task' = task /\ leases' = leases /\ opened' = opened + 1
      BY <2>2 DEF OpenSocket, AttachRequest
    <3>2. task \in Subs
      BY <1>1, <2>2 DEF ClientOf, StreamOf
    <3>3. leases[task] # None => leases[task].nextGeneration <= opened
                                 /\ leases[task].nextGeneration \in Nat
      BY <3>2, SocketFacts DEF Wired, TypeInv, LeasesType, Generation
    <3> QED BY <3>1, <3>3, SocketFacts
  <2> QED BY <1>3, <2>1, <2>2, UpSteps
<1>4. ASSUME NEW j \in DOMAIN down', Answers(down'[j], "attach")
      PROVE task' \in {None, down'[j].lease}
  <2>1. CASE \E k \in DOMAIN down : down'[j] = down[k]
    BY <1>2, <1>4, <2>1 DEF UnderWay, Attaching
  <2>2. CASE /\ HandleNext /\ down'[j].method = Head(up).method
             /\ Head(up).method # "subscribe" => down'[j].lease = Head(up).lease
    <3>1. task' = task /\ up # <<>>
      BY <2>2, Handled DEF clientVars
    <3>2. 1 \in DOMAIN up /\ Head(up) = up[1]
      BY <1>1, <3>1, HeadFacts
    <3> QED BY <1>4, <2>2, <3>1, <3>2 DEF Attaching, Answers
  <2> QED BY <1>4, <2>1, <2>2, DownSteps DEF Answers
<1> QED BY <1>3, <1>4 DEF Attaching

-----------------------------------------------------------------------------
(* The lease of the client on its socket *)

\* The same in the next state, for a lease of this one or of the next one.
HereNext(s) ==
    leases'[s] # None /\ sockets'[socket'] # None =>
      leases'[s].connection # None /\ leases'[s].connection.sink = socket'

LEMMA HereStep ==
    ASSUME TypeInv, Wired, Attaching, [Next]_vars, NEW t \in Subs,
           socket \in SocketId, socket' = socket, Here(t)
    PROVE HereNext(t)
<1>1. /\ leases \in [Subs -> LeaseRecord \cup {None}]
      /\ sockets \in [SocketId -> [Subs -> {0} \cup Generation] \cup {None}]
      /\ None \notin [Subs -> {0} \cup Generation] /\ MaxSockets \in Nat /\ SocketId = 1 .. MaxSockets
  BY SocketFacts, NotNone DEF TypeInv, LeasesType, LeaseRecord
<1>2. SUFFICES ASSUME leases'[t] # None, sockets'[socket] # None
               PROVE leases'[t].connection # None /\ leases'[t].connection.sink = socket
  BY DEF HereNext
<1>3. leases[t] # None /\ sockets[socket] # None =>
        leases[t].connection # None /\ leases[t].connection.sink = socket
  BY DEF Here, ConnectedTo
<1>4. CASE UNCHANGED leaseVars
  BY <1>2, <1>3, <1>4 DEF leaseVars
<1>5. ASSUME NEW s \in Subs, Attaches(s)
      PROVE leases'[t].connection # None /\ leases'[t].connection.sink = socket
  <2>1. PICK g \in Generation :
            /\ sockets[socket] # None
            /\ leases' = [leases EXCEPT ![s] =
                 [connection |-> [sink |-> socket, generation |-> g],
                  nextGeneration |-> g, expires |-> FALSE]]
    BY <1>5, AttachesFacts
  <2>2. CASE t = s
    <3> DEFINE lease == [connection |-> [sink |-> socket, generation |-> g],
                         nextGeneration |-> g, expires |-> FALSE]
    <3>1. lease.connection # None /\ lease.connection.sink = socket
      BY AttachedLease
    <3>2. leases' = [leases EXCEPT ![t] = lease]
      BY <2>1, <2>2
    <3> HIDE DEF lease
    <3> QED BY <1>1, <3>1, <3>2
  <2>3. CASE t # s
    BY <1>1, <1>2, <1>3, <2>1, <2>3
  <2> QED BY <2>2, <2>3
<1>6. ASSUME NEW s \in Subs, Ends(s)
      PROVE leases'[t].connection # None /\ leases'[t].connection.sink = socket
  <2>1. t # s /\ leases'[t] = leases[t]
    BY <1>1, <1>2, <1>6 DEF Ends, DeleteLease
  <2>2. sockets[socket] # None
    BY <1>1, <1>2, <1>6 DEF Ends, DeleteLease
  <2> QED BY <1>2, <1>3, <2>1, <2>2
<1>7. ASSUME NEW k \in SocketId, Closes(k)
      PROVE leases'[t].connection # None /\ leases'[t].connection.sink = socket
  <2>1. k # socket /\ sockets[socket] # None /\ sockets[k] # None
    BY <1>1, <1>2, <1>7 DEF Closes
  <2>2. leases'[t] = IF sockets[k][t] # 0 THEN Detached(leases[t], sockets[k][t]) ELSE leases[t]
    BY <1>7 DEF Closes
  <2>3. leases[t] # None
    BY <1>2, <2>2 DEF Detached
  <2>4. ~ConnectedTo(t, k)
    BY <1>3, <2>1, <2>3 DEF ConnectedTo
  <2>5. sockets[k][t] = 0
    BY <2>1, <2>4 DEF Wired
  <2> QED BY <1>3, <2>1, <2>2, <2>3, <2>5
<1>8. CASE Restarts
  BY <1>2, <1>8 DEF Restarts
<1>9. CASE Opens
  BY <1>1, <1>9 DEF Opens
<1> QED BY <1>4, <1>5, <1>6, <1>7, <1>8, <1>9, LeaseCases

\* An answer that gives the client a lease says that the socket has it.
LEMMA AnswerAttaches ==
    ASSUME TypeInv, Wired, Attaching, HandleNext, NEW m \in MessageOf(Past), down' = Append(down, m),
           m.type = "result", m.method \in {"subscribe", "attach"}
    PROVE HereNext(m.lease)
<1>1. /\ Head(up) \in RequestOf(Past) /\ socket \in SocketId /\ sockets[socket] # None
      /\ UNCHANGED <<log, socket, clientVars>> /\ up # <<>>
      /\ leases \in [Subs -> LeaseRecord \cup {None}]
  BY Handled DEF TypeInv, LeasesType, LeaseRecord
<1>2. down \in Seq(MessageOf(Past))
  BY DEF TypeInv, WireOf
<1>3. ASSUME NEW x \in MessageOf(Past), down' = Append(down, x) PROVE x = m
  <2>1. Append(down, m)[Len(down) + 1] = m /\ Append(down, x)[Len(down) + 1] = x
    BY <1>2
  <2> QED BY <1>3, <2>1
<1>4. ASSUME NEW s \in Subs, Attaches(s) PROVE HereNext(s)
  <2>1. PICK g \in Generation :
            leases' = [leases EXCEPT ![s] =
                 [connection |-> [sink |-> socket, generation |-> g],
                  nextGeneration |-> g, expires |-> FALSE]]
    BY <1>4, AttachesFacts
  <2> DEFINE lease == [connection |-> [sink |-> socket, generation |-> g],
                       nextGeneration |-> g, expires |-> FALSE]
  <2>2. lease # None /\ lease.connection # None /\ lease.connection.sink = socket
    BY <1>1, AttachedLease
  <2>3. leases' = [leases EXCEPT ![s] = lease]
    BY <2>1
  <2> HIDE DEF lease
  <2>4. leases'[s] = lease /\ socket' = socket
    BY <1>1, <2>3
  <2> QED BY <2>2, <2>4 DEF HereNext
<1>5. CASE HandleSubscribe(Head(up), {s \in Subs : Fresh(s)})
  <2>1. PICK s \in Subs : /\ Fresh(s) /\ leases[s] = None /\ down' = Append(down, Result(Head(up), s))
                          /\ AttachTo(socket, s, NewLease, NewSubscription(log, Head(up).cursor))
    BY <1>5 DEF HandleSubscribe
  <2>2. Head(up).method = "subscribe"
    BY <1>5 DEF HandleSubscribe
  <2>3. Attaches(s)
    BY <1>1, <2>1, <2>2, AttachmentFacts DEF Attaches
  <2>4. Result(Head(up), s) \in MessageOf(Past) /\ Result(Head(up), s).lease = s
    BY <2>2 DEF Result, MessageOf
  <2>5. m.lease = s
    BY <1>3, <2>1, <2>4
  <2> QED BY <1>4, <2>3, <2>5
<1>6. CASE HandleAttach(Head(up))
  <2>1. PICK r \in Subs : r = Head(up).lease
    BY <1>1, <1>6 DEF HandleAttach, RequestOf
  <2>2. /\ leases[r] # None /\ AttachTo(socket, r, leases[r], subs[r]) /\ Head(up).method = "attach"
        /\ down' = Append(down, Result(Head(up), r))
    BY <1>6, <2>1 DEF HandleAttach
  <2>3. Attachment(r, leases[r], subs[r])
    BY <2>2 DEF AttachTo, Attachment
  <2>4. Attaches(r)
    BY <1>1, <2>1, <2>2, <2>3 DEF Attaches
  <2>5. Result(Head(up), r) \in MessageOf(Past) /\ Result(Head(up), r).lease = r
    BY <2>2 DEF Result, MessageOf
  <2>6. m.lease = r
    BY <1>3, <2>2, <2>5
  <2> QED BY <1>4, <2>4, <2>6
<1>7. CASE RefuseSubscribe(Head(up)) \/ HandleUnknown(Head(up))
  <2>1. /\ Head(up).method \in {"attach", "ack", "subscribe"}
        /\ down' = Append(down, Refused(Head(up)))
    BY <1>7 DEF RefuseSubscribe, HandleUnknown
  <2>2. Refused(Head(up)) \in MessageOf(Past) /\ Refused(Head(up)).type = "refused"
    BY <1>1, <2>1 DEF Refused, MessageOf, RequestOf
  <2> QED BY <1>3, <2>1, <2>2
<1>8. CASE HandleAck(Head(up)) \/ HandleRelease(Head(up))
  <2>1. Head(up).method \in {"ack", "release"}
    BY <1>8 DEF HandleAck, HandleRelease
  <2>2. PICK x \in MessageOf(Past) : down' = Append(down, x) /\ x.method = Head(up).method
    BY HandleAnswer
  <2> QED BY <1>3, <2>1, <2>2
<1> QED BY <1>5, <1>6, <1>7, <1>8, Handled

LEMMA ConnectedStep ==
    ASSUME TypeInv, Wired, Exchanges, Attaching, Owners, Connected, Forward, [Next]_vars
    PROVE Connected'
<1>1. /\ StreamInv /\ Past \subseteq Cursor /\ CurrentCursor(log) \in Past
      /\ ClientOf(Past) /\ WireOf(Past) /\ down \in Seq(MessageOf(Past))
      /\ task \in Subs \cup {None} /\ opened \in Nat
      /\ socket = 0 \/ socket \in SocketId
  BY SocketFacts, PastFacts DEF TypeInv, WireOf, ClientOf, StreamOf
<1>2. ASSUME NEW t \in Subs, socket # 0, socket' = socket, Here(t) PROVE HereNext(t)
  BY <1>1, <1>2, HereStep
<1>3. ASSUME NEW j \in DOMAIN down', down'[j].type = "result",
             down'[j].method \in {"subscribe", "attach"}
      PROVE HereNext(down'[j].lease)
  <2>1. CASE \E k \in DOMAIN down : down'[j] = down[k]
    <3>1. PICK k \in DOMAIN down : down'[j] = down[k]
      BY <2>1
    <3>2. down[k] \in MessageOf(Past) /\ Here(down[k].lease)
      BY <1>1, <1>3, <3>1 DEF Connected
    <3>3. down[k].lease \in Subs
      BY <1>3, <3>1, <3>2 DEF MessageOf
    <3>4. socket # 0
      BY <1>1, <3>1 DEF WireOf
    <3>5. socket' = socket
      <4>1. CASE LoseSocket
        BY <4>1 DEF LoseSocket
      <4>2. CASE OpenSocket
        BY <3>4, <4>2 DEF OpenSocket
      <4>3. CASE MessageArrives
        BY <4>3, ArrivalFacts
      <4>4. CASE ClientActs
        BY <1>1, <4>4, ActsWire
      <4>5. CASE HostActs \/ HandleNext \/ Rests
        BY <4>5, HostWire, Handled DEF Rests, wireVars
      <4> QED BY <4>1, <4>2, <4>3, <4>4, <4>5, NextActs
    <3> QED BY <1>2, <3>1, <3>2, <3>3, <3>4, <3>5
  <2>2. CASE HandleNext /\ down' = Append(down, down'[j])
    <3>1. PICK m \in MessageOf(Past) : down' = Append(down, m)
      BY <2>2, HandleAnswer
    <3>2. m = down'[j]
      <4>1. Append(down, m)[Len(down) + 1] = m /\ Append(down, down'[j])[Len(down) + 1] = down'[j]
        BY <1>1
      <4> QED BY <2>2, <3>1, <4>1
    <3>3. HereNext(m.lease)
      BY <1>3, <2>2, <3>1, <3>2, AnswerAttaches
    <3> QED BY <3>2, <3>3
  <2> QED BY <1>3, <2>1, <2>2, DownSteps
<1>4. ASSUME channel' = "open", task' # None PROVE HereNext(task')
  <2>1. ASSUME channel' = channel, task' = task, socket' = socket PROVE HereNext(task')
    <3>1. socket # 0 /\ Here(task) /\ task \in Subs
      BY <1>1, <1>4, <2>1 DEF Connected, WireOf
    <3> QED BY <1>2, <2>1, <3>1
  <2>2. CASE HostActs \/ HandleNext \/ Rests
    BY <2>1, <2>2, HostWire, Handled DEF Rests, clientVars, wireVars
  <2>3. CASE ClientActs
    <3>1. channel' = channel /\ socket' = socket
      BY <1>1, <2>3, ActsWire
    <3>2. task' = task
      <4>1. ~MessageArrives
        BY <1>1, <2>3, ActsWire, ArrivalFacts
      <4> QED BY <1>4, <4>1, TaskMoves
    <3> QED BY <2>1, <3>1, <3>2
  <2>4. CASE MessageArrives
    <3>1. /\ down # <<>> /\ 1 \in DOMAIN down /\ Head(down) = down[1]
          /\ UNCHANGED leaseVars /\ socket' = socket
      BY <1>1, <2>4, HeadFacts, ArrivalFacts
    <3>2. \A t : Here(t) => HereNext(t)
      BY <3>1 DEF Here, HereNext, ConnectedTo, leaseVars
    <3>3. CASE Attached(Head(down))
      <4>1. Answers(Head(down), "attach") /\ Head(down).type = "result" /\ task' = task
        BY <3>3 DEF Attached, Answers
      <4>2. task = Head(down).lease
        BY <1>4, <3>1, <4>1 DEF Attaching
      <4>3. Here(Head(down).lease)
        BY <3>1, <3>3 DEF Connected, Attached
      <4> QED BY <3>2, <4>1, <4>2, <4>3
    <3>4. CASE AttachRefused(Head(down))
      <4>1. Answers(Head(down), "attach")
        BY <3>4 DEF AttachRefused, Answers
      <4>2. task \in {None, Head(down).lease}
        BY <3>1, <4>1 DEF Attaching
      <4>3. task' = IF task = Head(down).lease THEN None ELSE task
        BY <1>1, <3>4, AttachRefusedMove
      <4> QED BY <1>4, <4>2, <4>3
    <3>5. CASE Subscribed(Head(down))
      <4>1. Here(Head(down).lease) /\ task' = Head(down).lease
        BY <3>1, <3>5 DEF Subscribed, Connected
      <4> QED BY <3>2, <4>1
    <3>6. CASE \/ FrameArrives(Head(down)) \/ SubscribeRefused(Head(down)) \/ AckArrives(Head(down))
               \/ AckRefused(Head(down)) \/ Released(Head(down))
      <4>1. channel' = channel
        BY <3>6 DEF FrameArrives, SubscribeRefused, AckArrives, AckRefused, Released
      <4>2. ~Subscribed(Head(down))
        BY <3>6 DEF FrameArrives, SubscribeRefused, AckArrives, AckRefused, Released, Subscribed
      <4>3. task' = task
        BY <1>4, <4>2, TaskMoves
      <4> QED BY <2>1, <3>1, <4>1, <4>3
    <3> QED BY <2>4, <3>3, <3>4, <3>5, <3>6, ArrivalFacts
  <2>5. CASE OpenSocket
    BY <1>4, <2>5 DEF OpenSocket
  <2>6. CASE LoseSocket
    BY <1>4, <2>6 DEF LoseSocket
  <2> QED BY <2>2, <2>3, <2>4, <2>5, <2>6, NextActs
<1> QED BY <1>3, <1>4 DEF Connected, Here, ConnectedTo, HereNext

-----------------------------------------------------------------------------
(* Who awaits what *)

\* Owners, of the next state.
OwnersNext ==
    /\ recovery'.at # "none" => stream'.current = None
    /\ recovery'.at = "release" => recovery'.lease # None
    /\ drain'.at \in {"apply", "snapshot", "read"} /\ ~drain'.stale => stream'.current # None
    /\ drain'.at \in {"snapshot", "read"} => ack'.at = "none" /\ drain'.cursor # None
    /\ drain'.at = "read" /\ drain'.changes # {} =>
         \E read \in Past : drain'.changes = {read} /\ Covers(read, drain'.cursor)
    /\ ack'.at \in {"waiting", "sent"} => ack'.lease # None /\ ack'.cursor # None
    /\ ack'.at \in {"waiting", "sent"} /\ ~ack'.stale => stream'.current # None
    /\ ack'.at = "recover" => recovery'.at # "none"

\* The drain loop and the acknowledgement go on or stop while the owner stays or both are stale.
LEMMA OwnersKept ==
    ASSUME ClientOf(Past), Owners, DrainKept, AckKept,
           stream'.current = stream.current \/ stream'.current # None \/ GivenUp,
           recovery'.at # "none" => stream'.current = None,
           recovery'.at = "release" => recovery'.lease # None,
           ack'.at = "recover" => recovery'.at # "none"
    PROVE OwnersNext
<1>1. drain \in DrainOf(Past) /\ ack \in AckOf(Past)
  BY DEF ClientOf
<1>2. /\ drain'.at \in {"apply", "snapshot", "read"} =>
           /\ drain'.at = drain.at /\ drain'.cursor = drain.cursor
           /\ drain'.changes = drain.changes
           /\ ~drain'.stale => drain' = drain
  BY <1>1, DrainKeptFacts
<1>3. /\ ack'.at \in {ack.at, "none", "recover"} /\ (ack.at = "none" => ack'.at = "none")
      /\ ack'.at \in {"waiting", "sent"} =>
           /\ ack'.at = ack.at /\ ack'.cursor = ack.cursor /\ ack'.lease = ack.lease
           /\ ~ack'.stale => ack' = ack
  BY <1>1, AckKeptFacts
<1>4. drain'.at \in {"apply", "snapshot", "read"} /\ ~drain'.stale => stream'.current # None
  <2>1. CASE stream'.current = stream.current
    BY <1>2, <2>1 DEF Owners
  <2>2. CASE GivenUp
    BY <2>2 DEF GivenUp
  <2> QED BY <2>1, <2>2
<1>5. ack'.at \in {"waiting", "sent"} /\ ~ack'.stale => stream'.current # None
  <2>1. CASE stream'.current = stream.current
    BY <1>3, <2>1 DEF Owners
  <2>2. CASE GivenUp
    BY <2>2 DEF GivenUp
  <2> QED BY <2>1, <2>2
<1>6. drain'.at \in {"snapshot", "read"} => ack'.at = "none" /\ drain'.cursor # None
  BY <1>2, <1>3 DEF Owners
<1>7. drain'.at = "read" /\ drain'.changes # {} =>
        \E read \in Past : drain'.changes = {read} /\ Covers(read, drain'.cursor)
  BY <1>2 DEF Owners
<1>8. ack'.at \in {"waiting", "sent"} => ack'.lease # None /\ ack'.cursor # None
  BY <1>3 DEF Owners
<1> QED BY <1>4, <1>5, <1>6, <1>7, <1>8 DEF OwnersNext

\* Where every step leaves the drain loop, the acknowledgement and their owner.
LEMMA OwnersStep ==
    ASSUME TypeInv, Wired, Exchanges, Owners, Forward, [Next]_vars
    PROVE Owners'
<1>1. /\ StreamInv /\ Past \subseteq Cursor /\ CurrentCursor(log) \in Past /\ None \notin Past
      /\ ClientOf(Past) /\ WireOf(Past) /\ Past \subseteq Past'
  BY StreamKept, PastFacts DEF TypeInv
<1>2. SUFFICES OwnersNext
  BY <1>1 DEF OwnersNext, Owners
<1>3. ASSUME UNCHANGED <<stream, drain, ack, recovery>> PROVE OwnersNext
  BY <1>3 DEF OwnersNext, Owners
<1>4. ClientMove(Past) => OwnersNext
  BY <1>1, OwnersKept DEF ClientMove
<1>5. CASE HostActs \/ HandleNext \/ OpenSocket \/ Rests
  <2>1. UNCHANGED <<stream, drain, ack, recovery>>
    BY <1>5, HostWire, Handled DEF Rests, clientVars, OpenSocket
  <2> QED BY <1>3, <2>1
<1>6. CASE MessageArrives
  <2>1. CASE FrameArrives(Head(down))
    <3>1. DrainKept /\ AckKept /\ ack'.at = ack.at /\ stream'.current = stream.current
      BY <1>1, <1>6, <2>1, FrameEffect, ArrivalFacts
    <3>2. recovery' = recovery
      BY <2>1 DEF FrameArrives
    <3>3. /\ recovery'.at # "none" => stream'.current = None
          /\ recovery'.at = "release" => recovery'.lease # None
          /\ ack'.at = "recover" => recovery'.at # "none"
      BY <3>1, <3>2 DEF Owners
    <3> QED BY <1>1, <3>1, <3>3, OwnersKept
  <2>2. CASE Subscribed(Head(down))
    <3>1. /\ DrainKept /\ AckKept /\ ack'.at # "recover" /\ stream'.current = Head(down).lease
          /\ Head(down).lease \in Subs /\ recovery'.at = "none"
      BY <1>1, <1>6, <2>2, SubscribedEffect, ArrivalFacts
    <3>2. stream'.current # None
      BY <3>1, NotNone
    <3> QED BY <1>1, <3>1, <3>2, OwnersKept
  <2> QED BY <1>1, <1>4, <1>6, <2>1, <2>2, ArrivalMoves
<1>7. CASE SendWaiting
  <2>1. /\ UNCHANGED <<stream, drain>>
        /\ ack'.cursor = ack.cursor /\ ack'.lease = ack.lease /\ ack'.stale = ack.stale
        /\ \/ ack.at = "waiting" /\ ack'.at = "sent" /\ recovery' = recovery
           \/ recovery.at = "waiting" /\ recovery'.at = "sent" /\ ack' = ack
    BY <1>1, <1>7, SendEffect
  <2> QED BY <2>1 DEF OwnersNext, Owners
<1>8. CASE DrainTurn
  <2>1. UNCHANGED <<stream, recovery>>
    BY <1>1, <1>8, DrainTurnEffect
  <2>2. CASE DrainKept /\ UNCHANGED ack
    <3>1. AckKept /\ stream'.current = stream.current
      BY <2>1, <2>2 DEF AckKept
    <3>2. /\ recovery'.at # "none" => stream'.current = None
          /\ recovery'.at = "release" => recovery'.lease # None
          /\ ack'.at = "recover" => recovery'.at # "none"
      BY <2>1, <2>2 DEF Owners
    <3> QED BY <1>1, <2>2, <3>1, <3>2, OwnersKept
  <2>3. ASSUME NEW by, AckStarts(Past, by, stream.processed), stream.current # None,
               stream.processed # None,
               drain'.at \notin {"apply", "snapshot", "read"}
        PROVE OwnersNext
    <3>1. /\ ack'.at \in {"waiting", "sent"} /\ ack'.lease = stream.current
          /\ ack'.cursor = stream.processed
      BY <2>3 DEF AckStarts
    <3> QED BY <2>1, <2>3, <3>1 DEF OwnersNext, Owners
  <2>4. CASE /\ DrainKept /\ AckStarts(Past, "progress", stream.processed)
             /\ stream.current # None /\ stream.processed # None
    <3>1. drain.at \in {"ready", "waitAck"} /\ drain \in DrainOf(Past)
      BY <1>1, <1>8, DrainTurnEffect DEF ClientOf
    <3>2. drain'.at \notin {"apply", "snapshot", "read"}
      BY <2>4, <3>1, DrainKeptFacts
    <3> QED BY <2>3, <2>4, <3>2
  <2>5. CASE /\ drain'.at = "acknowledge" /\ AckStarts(Past, "drain", stream.processed)
             /\ stream.current # None /\ stream.processed # None
    BY <2>3, <2>5
  <2>6. CASE /\ drain'.at = "snapshot" /\ drain'.cursor = stream.pendingSnapshot
             /\ stream.pendingSnapshot # None
             /\ stream.current # None /\ ack.at = "none" /\ UNCHANGED ack
    BY <2>1, <2>6 DEF OwnersNext, Owners
  <2>7. CASE drain'.at = "apply" /\ stream.current # None /\ UNCHANGED ack
    BY <2>1, <2>7 DEF OwnersNext, Owners
  <2> QED BY <1>1, <1>8, <2>2, <2>4, <2>5, <2>6, <2>7, DrainTurnEffect
<1>9. CASE ChangesApplied
  <2>1. /\ recovery' = recovery /\ drain'.at = "ready" /\ stream'.current = stream.current
        /\ stream' \in StreamOf(Past)
        /\ \/ UNCHANGED ack
           \/ /\ stream.current # None /\ AckStarts(Past, "progress", stream'.processed)
              /\ stream'.processed \in drain.changes
    BY <1>1, <1>9, ChangesEffect
  <2>2. CASE UNCHANGED ack
    BY <2>1, <2>2 DEF OwnersNext, Owners
  <2>3. CASE /\ stream.current # None /\ AckStarts(Past, "progress", stream'.processed)
             /\ stream'.processed \in drain.changes
    <3>1. /\ ack'.at \in {"waiting", "sent"} /\ ack'.lease = stream.current
          /\ ack'.cursor = stream'.processed
      BY <2>3 DEF AckStarts
    <3>2. drain.changes \subseteq Past
      BY <1>1 DEF ClientOf, DrainOf
    <3>3. ack'.cursor # None
      BY <1>1, <2>3, <3>1, <3>2
    <3> QED BY <2>1, <2>3, <3>1, <3>3 DEF OwnersNext, Owners
  <2> QED BY <2>1, <2>2, <2>3
<1>10. CASE SnapshotRead \/ WorkspaceReadFails
  <2>1. /\ UNCHANGED <<stream, ack, recovery>>
        /\ drain.at = "snapshot" /\ drain'.at = "read"
        /\ drain'.cursor = drain.cursor /\ drain'.stale = drain.stale
        /\ drain'.changes \in {{CurrentCursor(log)}, {}}
    BY <1>1, <1>10, SnapshotReadEffect
  <2>2. drain.cursor \in Past
    BY <1>1, <2>1 DEF Owners, ClientOf, DrainOf
  <2>3. Covers(CurrentCursor(log), drain.cursor)
    BY <2>2 DEF Past
  <2> QED BY <1>1, <2>1, <2>3 DEF OwnersNext, Owners
<1>11. CASE SnapshotApplied
  <2>1. /\ recovery' = recovery /\ drain'.at \in {"ready", "acknowledge"}
        /\ stream'.current = stream.current
        /\ \/ UNCHANGED ack
           \/ stream.current # None /\ drain.cursor # None /\ AckStarts(Past, "drain", drain.cursor)
    BY <1>1, <1>11, SnapshotEffect
  <2>2. CASE UNCHANGED ack
    BY <2>1, <2>2 DEF OwnersNext, Owners
  <2>3. CASE stream.current # None /\ drain.cursor # None /\ AckStarts(Past, "drain", drain.cursor)
    <3>1. /\ ack'.at \in {"waiting", "sent"} /\ ack'.lease = stream.current
          /\ ack'.cursor = drain.cursor
      BY <2>3 DEF AckStarts
    <3> QED BY <2>1, <2>3, <3>1 DEF OwnersNext, Owners
  <2> QED BY <2>1, <2>2, <2>3
<1>12. CASE ApplyFails \/ SnapshotFails
  BY <1>1, <1>4, <1>12, FailureMove
<1>13. CASE LoseSocket
  BY <1>1, <1>4, <1>13, LoseSocketMove
<1> QED BY <1>5, <1>6, <1>7, <1>8, <1>9, <1>10, <1>11, <1>12, <1>13, NextActs DEF ClientActs

-----------------------------------------------------------------------------
(* What is acknowledged is processed *)

\* The processed cursor moves forward; the others follow it.
LEMMA CursorMoves ==
    ASSUME TypeInv, Exchanges, Owners, Forward, [Next]_vars
    PROVE /\ \/ stream'.processed = stream.processed
             \/ /\ stream'.processed \in Past
                /\ stream.processed # None => Covers(stream'.processed, stream.processed)
          /\ stream'.acknowledged \in {stream.acknowledged, ack.cursor}
          /\ ack'.cursor \in {ack.cursor, None, stream'.processed}
          /\ recovery'.cursor \in {recovery.cursor, stream.acknowledged, None}
<1>1. /\ StreamInv /\ Past \subseteq Cursor /\ CurrentCursor(log) \in Past /\ None \notin Past
      /\ ClientOf(Past) /\ WireOf(Past) /\ drain \in DrainOf(Past) /\ ack \in AckOf(Past)
  BY PastFacts DEF TypeInv, ClientOf
<1>2. AckKept => ack'.cursor \in {ack.cursor, None}
  BY <1>1, AckKeptFacts
<1>3. CASE ClientMove(Past)
  BY <1>2, <1>3 DEF ClientMove
<1>4. CASE HostActs \/ HandleNext \/ OpenSocket \/ Rests
  <2>1. UNCHANGED <<stream, ack, recovery>>
    BY <1>4, HostWire, Handled DEF Rests, clientVars, OpenSocket
  <2> QED BY <2>1
<1>5. CASE MessageArrives
  <2>1. CASE FrameArrives(Head(down))
    <3>1. /\ AckKept /\ stream'.processed = stream.processed
          /\ stream'.acknowledged = stream.acknowledged
      BY <1>1, <1>5, <2>1, FrameEffect, ArrivalFacts
    <3>2. recovery' = recovery
      BY <2>1 DEF FrameArrives
    <3> QED BY <1>2, <3>1, <3>2
  <2>2. CASE Subscribed(Head(down))
    <3>1. /\ AckKept /\ stream'.processed = stream.processed
          /\ stream'.acknowledged = stream.acknowledged /\ recovery'.cursor = None
      BY <1>1, <1>5, <2>2, SubscribedEffect, ArrivalFacts
    <3> QED BY <1>2, <3>1
  <2> QED BY <1>1, <1>3, <1>5, <2>1, <2>2, ArrivalMoves
<1>6. CASE SendWaiting
  <2>1. stream' = stream /\ ack'.cursor = ack.cursor /\ recovery'.cursor = recovery.cursor
    BY <1>1, <1>6, SendEffect
  <2> QED BY <2>1
<1>7. CASE DrainTurn
  <2>1. /\ UNCHANGED <<stream, recovery>>
        /\ UNCHANGED ack \/ \E by : AckStarts(Past, by, stream.processed)
    BY <1>1, <1>7, DrainTurnEffect
  <2>2. ack'.cursor \in {ack.cursor, stream.processed}
    BY <2>1 DEF AckStarts
  <2> QED BY <2>1, <2>2
<1>8. CASE ChangesApplied
  <2>1. /\ recovery' = recovery /\ stream'.acknowledged = stream.acknowledged
        /\ \/ UNCHANGED <<stream, ack>>
           \/ /\ stream'.processed \in drain.changes
              /\ Covers(stream'.processed, stream.processed)
              /\ UNCHANGED ack \/ AckStarts(Past, "progress", stream'.processed)
    BY <1>1, <1>8, ChangesEffect
  <2>2. drain.changes \subseteq Past
    BY <1>1 DEF DrainOf
  <2>3. UNCHANGED ack \/ AckStarts(Past, "progress", stream'.processed)
    BY <2>1
  <2>4. ack'.cursor \in {ack.cursor, stream'.processed}
    BY <2>3 DEF AckStarts
  <2> QED BY <2>1, <2>2, <2>4
<1>9. CASE SnapshotRead \/ WorkspaceReadFails
  <2>1. UNCHANGED <<stream, ack, recovery>>
    BY <1>1, <1>9, SnapshotReadEffect
  <2> QED BY <2>1
<1>10. CASE SnapshotApplied
  <2>1. /\ recovery' = recovery /\ stream'.acknowledged = stream.acknowledged
        /\ \/ UNCHANGED <<stream, ack>>
           \/ /\ drain.cursor # None /\ stream'.processed = drain.cursor
              /\ stream.processed # None => Covers(drain.cursor, stream.processed)
              /\ AckStarts(Past, "drain", drain.cursor)
    BY <1>1, <1>10, SnapshotEffect
  <2>2. CASE UNCHANGED <<stream, ack>>
    BY <2>1, <2>2
  <2>3. CASE /\ drain.cursor # None /\ stream'.processed = drain.cursor
             /\ stream.processed # None => Covers(drain.cursor, stream.processed)
             /\ AckStarts(Past, "drain", drain.cursor)
    <3>1. drain.cursor \in Past
      BY <1>1, <2>3 DEF DrainOf
    <3>2. ack'.cursor = stream'.processed
      BY <2>3 DEF AckStarts
    <3> QED BY <2>1, <2>3, <3>1, <3>2
  <2> QED BY <2>1, <2>2, <2>3
<1>11. CASE ApplyFails \/ SnapshotFails
  BY <1>1, <1>3, <1>11, FailureMove
<1>12. CASE LoseSocket
  BY <1>1, <1>3, <1>12, LoseSocketMove
<1> QED BY <1>4, <1>5, <1>6, <1>7, <1>8, <1>9, <1>10, <1>11, <1>12, NextActs DEF ClientActs

DoneNext(c) == c # None => stream'.processed # None /\ Covers(stream'.processed, c)

LEMMA ProcessedStep ==
    ASSUME TypeInv, Wired, Exchanges, Attaching, Owners, Processed, Forward, [Next]_vars
    PROVE Processed'
<1>1. /\ StreamInv /\ StreamInv' /\ Past \subseteq Cursor /\ None \notin Past
      /\ stream \in StreamOf(Past) /\ ack \in AckOf(Past) /\ recovery \in RecoveryOf(Past)
      /\ up \in Seq(RequestOf(Past))
  BY StreamKept, PastFacts DEF TypeInv, ClientOf, WireOf
<1>2. \A c \in Past : c # None
  BY <1>1
<1>3. ASSUME NEW c \in Cursor \cup {None}, Done(c) PROVE DoneNext(c)
  <2>1. CASE stream'.processed = stream.processed
    BY <1>3, <2>1 DEF Done, DoneNext
  <2>2. CASE /\ stream'.processed \in Past
             /\ stream.processed # None => Covers(stream'.processed, stream.processed)
    <3>1. stream.processed # None => stream.processed \in Cursor
      BY <1>1 DEF StreamOf
    <3> QED BY <1>1, <1>3, <2>2, <3>1, CoversFacts DEF Done, DoneNext
  <2> QED BY <2>1, <2>2, CursorMoves
<1>4. DoneNext(None)
  BY DEF DoneNext
<1>5. DoneNext(stream'.acknowledged)
  <2>1. stream'.acknowledged \in {stream.acknowledged, ack.cursor}
    BY CursorMoves
  <2>2. /\ stream.acknowledged \in Cursor \cup {None} /\ ack.cursor \in Cursor \cup {None}
        /\ Done(stream.acknowledged) /\ Done(ack.cursor)
    BY <1>1 DEF StreamOf, AckOf, Processed
  <2> QED BY <1>3, <2>1, <2>2
<1>6. DoneNext(stream'.processed)
  <2>1. stream'.processed \in Cursor \cup {None}
    BY <1>1, CursorMoves DEF StreamOf
  <2> QED BY <2>1, CoversFacts DEF DoneNext
<1>7. DoneNext(ack'.cursor)
  <2>1. ack'.cursor \in {ack.cursor, None, stream'.processed}
    BY CursorMoves
  <2>2. ack.cursor \in Cursor \cup {None} /\ Done(ack.cursor)
    BY <1>1 DEF AckOf, Processed
  <2> QED BY <1>3, <1>4, <1>6, <2>1, <2>2
<1>8. DoneNext(recovery'.cursor)
  <2>1. recovery'.cursor \in {recovery.cursor, stream.acknowledged, None}
    BY CursorMoves
  <2>2. /\ recovery.cursor \in Cursor \cup {None} /\ Done(recovery.cursor)
        /\ stream.acknowledged \in Cursor \cup {None} /\ Done(stream.acknowledged)
    BY <1>1 DEF RecoveryOf, StreamOf, Processed
  <2> QED BY <1>3, <1>4, <2>1, <2>2
<1>9. \A k \in DOMAIN up : up[k].cursor \in Cursor \cup {None} /\ Done(up[k].cursor)
  <2> TAKE k \in DOMAIN up
  <2>1. up[k] \in RequestOf(Past)
    BY <1>1
  <2> QED BY <1>1, <2>1 DEF RequestOf, Processed
<1>10. ASSUME NEW i \in DOMAIN up' PROVE DoneNext(up'[i].cursor)
  <2>1. CASE \E k \in DOMAIN up : up'[i] = up[k]
    BY <1>3, <1>9, <2>1
  <2>2. CASE up'[i].cursor \in {None, ack'.cursor, recovery'.cursor}
    BY <1>4, <1>7, <1>8, <2>2
  <2>3. CASE up'[i] = AttachRequest(task)
    BY <1>4, <2>3 DEF AttachRequest
  <2> QED BY <2>1, <2>2, <2>3, UpSteps
<1>11. ASSUME NEW s \in Subs, subs'[s] # None PROVE DoneNext(subs'[s].lastAcknowledged)
  <2>1. subs[s] # None => subs[s].lastAcknowledged \in Cursor \cup {None} /\ Done(subs[s].lastAcknowledged)
    BY <1>1 DEF StreamInv, Subscription, Processed
  <2>2. CASE SubKept(s)
    BY <1>3, <1>11, <2>1, <2>2 DEF SubKept, Onward
  <2>3. CASE HandleNext /\ (SubAcked(s) \/ SubStarts(s))
    <3>1. 1 \in DOMAIN up /\ Head(up) = up[1]
      BY <1>1, <2>3, Handled, HeadFacts
    <3>2. subs'[s].lastAcknowledged \in {Head(up).cursor, None}
      BY <2>3 DEF SubAcked, SubStarts
    <3> QED BY <1>3, <1>4, <1>9, <3>1, <3>2
  <2> QED BY <1>11, <2>2, <2>3, SubCases DEF SubEnds
<1> QED BY <1>5, <1>7, <1>8, <1>10, <1>11 DEF Processed, Done, DoneNext

-----------------------------------------------------------------------------
(* The order of boundaries *)

LEMMA TakenPast ==
    ASSUME TypeInv
    PROVE Taken \subseteq Past /\ \A s \in Subs : Coming(s) \subseteq Past
<1>1. stream \in StreamOf(Past) /\ drain \in DrainOf(Past) /\ down \in Seq(MessageOf(Past))
  BY DEF TypeInv, ClientOf, WireOf
<1>2. Taken \subseteq Past
  BY <1>1 DEF Taken, StreamOf, DrainOf
<1>3. ASSUME NEW s \in Subs, NEW c \in Coming(s) PROVE c \in Past
  <2>1. PICK j \in DOMAIN down : IsFrame(down[j], s) /\ c = down[j].frame.cursor
    BY <1>3 DEF Coming
  <2>2. down[j] \in MessageOf(Past) /\ down[j].type = "task_frame"
    BY <1>1, <2>1 DEF IsFrame
  <2> QED BY <2>1, <2>2 DEF MessageOf
<1> QED BY <1>2, <1>3

\* What a step of the client takes from the stream.
LEMMA TakenMoves ==
    ASSUME TypeInv, Exchanges, Owners, Forward,
           MessageArrives \/ ClientActs \/ LoseSocket
    PROVE \/ Taken' \subseteq Taken
          \/ /\ MessageArrives /\ IsFrame(Head(down), stream.current)
             /\ Taken' \subseteq Taken \cup {Head(down).frame.cursor}
<1>1. /\ StreamInv /\ Past \subseteq Cursor /\ CurrentCursor(log) \in Past
      /\ ClientOf(Past) /\ WireOf(Past) /\ drain \in DrainOf(Past)
  BY PastFacts DEF TypeInv, ClientOf
<1>2. ASSUME NEW X, DrainKept, stream'.processed = stream.processed,
             stream'.pendingChanges \subseteq stream.pendingChanges \cup X,
             stream'.pendingSnapshot \in {stream.pendingSnapshot, None} \cup X
      PROVE Taken' \subseteq Taken \cup X
  <2>1. /\ drain'.cursor \in {drain.cursor, None}
        /\ drain'.at = "apply" => drain.at = "apply" /\ drain'.changes = drain.changes
    BY <1>1, <1>2, DrainKeptFacts
  <2> QED BY <1>2, <2>1 DEF Taken
<1>3. CASE ClientMove(Past)
  <2>1. /\ DrainKept /\ stream'.processed = stream.processed
        /\ stream'.pendingChanges \subseteq stream.pendingChanges \cup {}
        /\ stream'.pendingSnapshot \in {stream.pendingSnapshot, None} \cup {}
    BY <1>3 DEF ClientMove
  <2> QED BY <1>2, <2>1
<1>4. CASE MessageArrives
  <2>1. CASE FrameArrives(Head(down))
    <3>1. /\ DrainKept /\ stream'.processed = stream.processed
          /\ IsFrame(Head(down), Head(down).lease)
          /\ Head(down).lease # stream.current => stream' = stream
          /\ stream'.pendingChanges \subseteq stream.pendingChanges \cup {Head(down).frame.cursor}
          /\ \/ stream'.pendingSnapshot = stream.pendingSnapshot
             \/ stream'.pendingSnapshot = Head(down).frame.cursor
      BY <1>1, <1>4, <2>1, FrameEffect, ArrivalFacts
    <3>2. CASE Head(down).lease = stream.current
      <4> DEFINE X == {Head(down).frame.cursor}
      <4>1. /\ stream'.pendingChanges \subseteq stream.pendingChanges \cup X
            /\ stream'.pendingSnapshot \in {stream.pendingSnapshot, None} \cup X
        BY <3>1
      <4>2. Taken' \subseteq Taken \cup X
        BY <1>2, <3>1, <4>1
      <4> QED BY <1>4, <3>1, <3>2, <4>2
    <3>3. CASE Head(down).lease # stream.current
      <4>1. /\ stream'.pendingChanges \subseteq stream.pendingChanges \cup {}
            /\ stream'.pendingSnapshot \in {stream.pendingSnapshot, None} \cup {}
        BY <3>1, <3>3
      <4> QED BY <1>2, <3>1, <4>1
    <3> QED BY <3>2, <3>3
  <2>2. CASE Subscribed(Head(down))
    <3>1. /\ DrainKept /\ stream'.processed = stream.processed
          /\ stream'.pendingChanges \subseteq stream.pendingChanges \cup {}
          /\ stream'.pendingSnapshot \in {stream.pendingSnapshot, None} \cup {}
      BY <1>1, <1>4, <2>2, SubscribedEffect, ArrivalFacts
    <3> QED BY <1>2, <3>1
  <2> QED BY <1>1, <1>3, <1>4, <2>1, <2>2, ArrivalMoves
<1>5. CASE SendWaiting
  <2>1. stream' = stream /\ drain' = drain
    BY <1>1, <1>5, SendEffect
  <2> QED BY <2>1 DEF Taken
<1>6. CASE DrainTurn
  <2>1. stream' = stream
    BY <1>1, <1>6, DrainTurnEffect
  <2>2. \/ DrainKept
        \/ drain'.cursor \in {stream.processed, stream.pendingSnapshot, None} /\ drain'.at # "apply"
        \/ /\ drain'.at = "apply" /\ drain'.cursor = None
           /\ drain'.changes \subseteq stream.pendingChanges
    BY <1>1, <1>6, DrainTurnEffect
  <2>3. CASE DrainKept
    <3>1. /\ stream'.pendingChanges \subseteq stream.pendingChanges \cup {}
          /\ stream'.pendingSnapshot \in {stream.pendingSnapshot, None} \cup {}
      BY <2>1
    <3> QED BY <1>2, <2>1, <2>3, <3>1
  <2>4. CASE drain'.cursor \in {stream.processed, stream.pendingSnapshot, None} /\ drain'.at # "apply"
    BY <2>1, <2>4 DEF Taken
  <2>5. CASE /\ drain'.at = "apply" /\ drain'.cursor = None
             /\ drain'.changes \subseteq stream.pendingChanges
    BY <2>1, <2>5 DEF Taken
  <2> QED BY <2>2, <2>3, <2>4, <2>5
<1>7. CASE ChangesApplied
  <2>1. /\ DrainKept /\ drain'.at = "ready" /\ drain.at = "apply"
        /\ stream'.pendingChanges \subseteq stream.pendingChanges
        /\ stream'.pendingSnapshot = stream.pendingSnapshot
        /\ stream'.processed \in drain.changes \cup {stream.processed}
    BY <1>1, <1>7, ChangesEffect
  <2>2. drain'.cursor \in {drain.cursor, None}
    BY <1>1, <2>1, DrainKeptFacts
  <2> QED BY <2>1, <2>2 DEF Taken
<1>8. CASE SnapshotRead \/ WorkspaceReadFails
  <2>1. stream' = stream /\ drain'.at = "read" /\ drain'.cursor = drain.cursor
    BY <1>1, <1>8, SnapshotReadEffect
  <2> QED BY <2>1 DEF Taken
<1>9. CASE SnapshotApplied
  <2>1. /\ drain'.at # "apply" /\ drain'.cursor \in {drain.cursor, None}
        /\ stream'.pendingChanges = stream.pendingChanges
        /\ stream'.pendingSnapshot = stream.pendingSnapshot
        /\ stream'.processed \in {drain.cursor, stream.processed}
    BY <1>1, <1>9, SnapshotEffect
  <2> QED BY <2>1 DEF Taken
<1>10. CASE ApplyFails \/ SnapshotFails
  BY <1>1, <1>3, <1>10, FailureMove
<1>11. CASE LoseSocket
  BY <1>1, <1>3, <1>11, LoseSocketMove
<1> QED BY <1>4, <1>5, <1>6, <1>7, <1>8, <1>9, <1>10, <1>11 DEF ClientActs

\* The client follows a subscription that it followed, or one that has just started.
LEMMA FollowedMoves ==
    ASSUME TypeInv, Wired, Exchanges, Attaching, Owners, Forward, [Next]_vars,
           NEW s \in Subs, Followed(s)'
    PROVE Followed(s) \/ (HandleNext /\ Fresh(s) /\ subs[s] = None)
<1>1. /\ ClientOf(Past) /\ WireOf(Past) /\ down \in Seq(MessageOf(Past)) /\ up \in Seq(RequestOf(Past))
      /\ task = stream.current /\ s # None
  BY NotNone DEF TypeInv, WireOf, ClientOf
<1>2. CASE s = stream'.current
  <2>0. ClientOf(Past)'
    BY ClientTypeStep
  <2>1. task' = stream'.current
    BY <2>0 DEF ClientOf
  <2>2. CASE task' \in {task, None}
    BY <1>1, <1>2, <2>1, <2>2 DEF Followed
  <2>3. CASE MessageArrives /\ Subscribed(Head(down))
    <3>1. 1 \in DOMAIN down /\ Head(down) = down[1]
      BY <1>1, <2>3, ArrivalFacts, HeadFacts
    <3>2. task' = Head(down).lease /\ Answers(Head(down), "subscribe")
      BY <2>3 DEF Subscribed, Answers
    <3> QED BY <1>2, <2>1, <3>1, <3>2 DEF Followed
  <2> QED BY <2>2, <2>3, TaskMoves
<1>3. ASSUME NEW j \in DOMAIN down', Answers(down'[j], "subscribe"), down'[j].lease = s
      PROVE Followed(s) \/ (HandleNext /\ Fresh(s) /\ subs[s] = None)
  <2>1. CASE \E k \in DOMAIN down : down'[j] = down[k]
    BY <1>3, <2>1 DEF Followed
  <2>2. CASE /\ HandleNext /\ down'[j].method = Head(up).method /\ down' = Append(down, down'[j])
    <3>1. Head(up).method = "subscribe"
      BY <1>3, <2>2 DEF Answers
    <3>2. HandleSubscribe(Head(up), {x \in Subs : Fresh(x)})
      <4>1. ASSUME RefuseSubscribe(Head(up)) PROVE FALSE
        <5>1. down' = Append(down, Refused(Head(up)))
          BY <4>1 DEF RefuseSubscribe
        <5>2. /\ Append(down, Refused(Head(up)))[Len(down) + 1] = Refused(Head(up))
              /\ Append(down, down'[j])[Len(down) + 1] = down'[j]
          BY <1>1
        <5>3. down'[j].lease = Head(up).lease
          BY <2>2, <5>1, <5>2 DEF Refused
        <5>4. Head(up) \in RequestOf(Past)
          BY <2>2, Handled
        <5>5. Head(up).lease = None
          BY <3>1, <5>4 DEF RequestOf
        <5> QED BY <1>1, <1>3, <5>3, <5>5
      <4> QED BY <2>2, <3>1, <4>1, Handled DEF HandleUnknown, HandleAttach, HandleAck, HandleRelease
    <3>3. PICK r \in Subs : Fresh(r) /\ leases[r] = None /\ down' = Append(down, Result(Head(up), r))
      BY <3>2 DEF HandleSubscribe
    <3>4. Result(Head(up), r) = down'[j]
      <4>1. /\ Append(down, Result(Head(up), r))[Len(down) + 1] = Result(Head(up), r)
            /\ Append(down, down'[j])[Len(down) + 1] = down'[j]
        BY <1>1
      <4> QED BY <2>2, <3>3, <4>1
    <3>5. Result(Head(up), r).lease = r
      BY DEF Result
    <3> QED BY <1>3, <2>2, <3>3, <3>4, <3>5 DEF Wired
  <2> QED BY <1>3, <2>1, <2>2, DownSteps DEF Answers
<1> QED BY <1>2, <1>3 DEF Followed

\* A step of the client leaves the order: it drops the first message, and takes it when it follows
\* that subscription.
LEMMA OrderedClient ==
    ASSUME TypeInv, Exchanges, Owners, Ordered, Forward, NEW s \in Subs, Followed(s),
           MessageArrives \/ ClientActs \/ LoseSocket
    PROVE OrderedFor(s)'
<1>1. /\ StreamInv /\ Past \subseteq Cursor /\ CurrentCursor(log) \in Past
      /\ ClientOf(Past) /\ WireOf(Past) /\ down \in Seq(MessageOf(Past)) /\ None \notin Subs
  BY PastFacts, NotNone DEF TypeInv, WireOf
<1>2. subs' = subs
  BY ClientQuiet
<1>3. /\ subs[s] # None =>
           \A b \in Boundaries(subs[s]) : \A c \in Taken \cup Coming(s) : Covers(b, c)
      /\ \A j \in DOMAIN down :
           IsFrame(down[j], s) /\ down[j].frame.type = "snapshot_required" =>
             /\ \A c \in Taken : Covers(down[j].frame.cursor, c)
             /\ \A i \in DOMAIN down :
                  i < j /\ IsFrame(down[i], s) => Covers(down[j].frame.cursor, down[i].frame.cursor)
  BY DEF Ordered, OrderedFor
<1>4. CASE down' = down /\ Taken' \subseteq Taken
  <2>1. Coming(s)' = Coming(s)
    BY <1>4 DEF Coming
  <2> QED BY <1>2, <1>3, <1>4, <2>1 DEF OrderedFor
<1>5. CASE down' = <<>> /\ Taken' \subseteq Taken
  <2>1. Coming(s)' = {}
    BY <1>5 DEF Coming
  <2> QED BY <1>2, <1>3, <1>5, <2>1 DEF OrderedFor
<1>6. CASE MessageArrives
  <2>1. /\ down # <<>> /\ down' = Tail(down) /\ 1 \in DOMAIN down /\ Head(down) = down[1]
        /\ \A i \in DOMAIN down' : i + 1 \in DOMAIN down /\ down'[i] = down[i + 1] /\ i \in Nat
    BY <1>1, <1>6, ArrivalFacts, HeadFacts
  <2>2. Coming(s)' \subseteq Coming(s)
    BY <2>1 DEF Coming
  <2>3. \A i \in DOMAIN down' : i # 0
    <3>1. Tail(down) \in Seq(MessageOf(Past))
      BY <1>1, <2>1, HeadFacts
    <3> QED BY <2>1, <3>1
  <2>4. ASSUME NEW X, Taken' \subseteq Taken \cup X,
               \A c \in X : /\ c \in Coming(s)
                            /\ c = down[1].frame.cursor /\ IsFrame(down[1], s)
        PROVE OrderedFor(s)'
    <3>1. subs[s] # None => \A b \in Boundaries(subs[s]) : \A c \in Taken' \cup Coming(s)' : Covers(b, c)
      BY <1>3, <2>2, <2>4
    <3>2. ASSUME NEW j \in DOMAIN down', IsFrame(down'[j], s), down'[j].frame.type = "snapshot_required"
          PROVE /\ \A c \in Taken' : Covers(down'[j].frame.cursor, c)
                /\ \A i \in DOMAIN down' :
                     i < j /\ IsFrame(down'[i], s) => Covers(down'[j].frame.cursor, down'[i].frame.cursor)
      <4>1. /\ j + 1 \in DOMAIN down /\ down'[j] = down[j + 1] /\ j \in Nat /\ 1 < j + 1
        BY <2>1, <2>3
      <4>2. /\ \A c \in Taken : Covers(down[j + 1].frame.cursor, c)
            /\ \A i \in DOMAIN down :
                 i < j + 1 /\ IsFrame(down[i], s) => Covers(down[j + 1].frame.cursor, down[i].frame.cursor)
        BY <1>3, <3>2, <4>1
      <4>3. \A c \in X : Covers(down[j + 1].frame.cursor, c)
        BY <2>1, <2>4, <4>1, <4>2
      <4>4. ASSUME NEW i \in DOMAIN down', i < j, IsFrame(down'[i], s)
            PROVE Covers(down'[j].frame.cursor, down'[i].frame.cursor)
        <5>1. i + 1 \in DOMAIN down /\ down'[i] = down[i + 1] /\ i + 1 < j + 1
          BY <2>1, <4>1, <4>4
        <5> QED BY <4>1, <4>2, <4>4, <5>1
      <4> QED BY <2>4, <4>1, <4>2, <4>3, <4>4
    <3> QED BY <1>2, <3>1, <3>2 DEF OrderedFor
  <2>5. CASE Taken' \subseteq Taken
    <3> DEFINE X == {c \in Coming(s) : FALSE}
    <3>1. Taken' \subseteq Taken \cup X
      BY <2>5
    <3>2. \A c \in X : /\ c \in Coming(s)
                      /\ c = down[1].frame.cursor /\ IsFrame(down[1], s)
      OBVIOUS
    <3> HIDE DEF X
    <3> QED BY <2>4, <3>1, <3>2
  <2>6. CASE /\ IsFrame(Head(down), stream.current)
             /\ Taken' \subseteq Taken \cup {Head(down).frame.cursor}
    <3>1. s = stream.current
      <4>1. stream.current # None
        <5>1. Head(down) \in MessageOf(Past) /\ Head(down).type = "task_frame"
          BY <1>1, <2>1, <2>6 DEF IsFrame
        <5> QED BY <1>1, <2>6, <5>1 DEF IsFrame, MessageOf
      <4>2. ~UnderWay(up, down, "subscribe")
        BY <4>1 DEF Exchanges, Owners
      <4> QED BY <4>2 DEF Followed, UnderWay
    <3>2. Head(down).frame.cursor \in Coming(s) /\ IsFrame(down[1], s)
      BY <2>1, <2>6, <3>1 DEF Coming
    <3> QED BY <2>1, <2>4, <2>6, <3>2
  <2> QED BY <1>6, <2>5, <2>6, TakenMoves
<1>7. CASE ClientActs
  <2>1. down' = down
    BY <1>1, <1>7, ActsWire
  <2>2. ~MessageArrives
    BY <1>1, <2>1, ArrivalFacts
  <2> QED BY <1>4, <1>7, <2>1, <2>2, TakenMoves
<1>8. CASE LoseSocket
  <2>1. down' = <<>> /\ socket # 0 /\ socket' = 0
    BY <1>8 DEF LoseSocket
  <2>2. ~MessageArrives
    BY <2>1, ArrivalFacts
  <2> QED BY <1>5, <1>8, <2>1, <2>2, TakenMoves
<1> QED BY <1>6, <1>7, <1>8

\* The newest cursor of the log covers everything the client or its host knew before.
LEMMA NewestCovers ==
    ASSUME TypeInv, Wired, [Next]_vars
    PROVE CurrentCursor(log') \in Cursor /\ \A c \in Past : Covers(CurrentCursor(log'), c)
<1>1. /\ StreamInv /\ LogInv(log') /\ Covers(CurrentCursor(log'), CurrentCursor(log))
      /\ Past \subseteq Cursor /\ CurrentCursor(log) \in Cursor
  BY StreamKept, PastFacts DEF StreamInv
<1>2. CurrentCursor(log') \in Cursor
  BY <1>1, LogFacts
<1>3. \A c \in Past : Covers(CurrentCursor(log), c)
  BY DEF Past
<1> QED BY <1>1, <1>2, <1>3, CoversFacts

\* A subscription that was just given its id is in order.
LEMMA FreshIsOrdered ==
    ASSUME NEW s \in Subs, Fresh(s), subs[s] = None
    PROVE OrderedFor(s)
BY DEF OrderedFor, Fresh, IsFrame

\* Whatever the host does, the boundaries cover what the client has and what is on its way.
LEMMA BoundariesStep ==
    ASSUME TypeInv, Wired, Attaching, [Next]_vars, NEW s \in Subs, OrderedFor(s), subs'[s] # None
    PROVE \A b \in Boundaries(subs'[s]) : \A c \in Taken \cup Coming(s) : Covers(b, c)
<1>1. \A c \in Taken \cup Coming(s) : Covers(CurrentCursor(log'), c)
  BY TakenPast, NewestCovers
<1>2. ASSUME subs[s] # None,
             Boundaries(subs'[s]) \subseteq Boundaries(subs[s]) \cup {CurrentCursor(log')}
      PROVE \A b \in Boundaries(subs'[s]) : \A c \in Taken \cup Coming(s) : Covers(b, c)
  <2>1. \A b \in Boundaries(subs[s]) : \A c \in Taken \cup Coming(s) : Covers(b, c)
    BY <1>2 DEF OrderedFor
  <2> QED BY <1>1, <1>2, <2>1
<1>3. CASE SubKept(s)
  <2>1. CASE subs'[s] = subs[s]
    BY <2>1 DEF OrderedFor
  <2>2. CASE subs'[s] # subs[s]
    BY <1>2, <1>3, <2>2 DEF SubKept, Onward
  <2> QED BY <2>1, <2>2
<1>4. CASE SubAcked(s)
  BY <1>2, <1>4 DEF SubAcked
<1>5. CASE SubStarts(s)
  <2>1. Boundaries(subs'[s]) \subseteq {CurrentCursor(log')}
    BY <1>5 DEF SubStarts
  <2> QED BY <1>1, <2>1
<1> QED BY <1>3, <1>4, <1>5, SubCases DEF SubEnds

\* The frame that goes out is older than what waits behind it; a boundary is not older than
\* anything before it.
LEMMA FrameIsOrdered ==
    ASSUME TypeInv, NEW s \in Subs, OrderedFor(s), WriteFrame(s), subs'[s] # None
    PROVE LET f == subs[s].queue[1]
          IN  /\ f.cursor \in Past
              /\ f.type = "change" => Boundaries(subs'[s]) = {}
              /\ f.type = "snapshot_required" =>
                   /\ \A c \in Taken \cup Coming(s) : Covers(f.cursor, c)
                   /\ Boundaries(subs'[s]) \subseteq {f.cursor}
<1> DEFINE f == subs[s].queue[1]
<1>1. /\ StreamInv /\ subs[s] # None /\ subs[s].queue # <<>> /\ DeliverFrame(s)
  BY Written DEF TypeInv, WriteFrame
<1>2. /\ subs[s] \in Subscription /\ subs[s].queue \in Seq(Frame)
      /\ \A i \in DOMAIN subs[s].queue :
           /\ subs[s].queue[i] \in Frame /\ subs[s].queue[i].cursor \in Past
           /\ subs[s].queue[i].type = "snapshot_required" => i = 1
      /\ subs[s].snapshotBoundary # None =>
           subs[s].queue = <<>> \/ subs[s].queue = <<SnapshotRequired(subs[s].snapshotBoundary)>>
  BY <1>1, QueueFacts
<1>3. /\ subs'[s].queue = Tail(subs[s].queue)
      /\ subs'[s].snapshotBoundary = subs[s].snapshotBoundary
  BY <1>1, DeliveredFacts
<1>4. /\ 1 \in DOMAIN subs[s].queue
      /\ \A i \in DOMAIN Tail(subs[s].queue) :
           i + 1 \in DOMAIN subs[s].queue /\ Tail(subs[s].queue)[i] = subs[s].queue[i + 1] /\ i \in Nat
  BY <1>1, <1>2, HeadFacts
<1>5. \A i \in DOMAIN subs'[s].queue : subs'[s].queue[i].type # "snapshot_required"
  <2>1. \A i \in DOMAIN Tail(subs[s].queue) : i # 0
    BY <1>1, <1>2
  <2> QED BY <1>2, <1>3, <1>4, <2>1
<1>6. Boundaries(subs'[s]) \subseteq {subs[s].snapshotBoundary} \ {None}
  BY <1>3, <1>5 DEF Boundaries
<1>7. subs[s].snapshotBoundary # None =>
        f.type = "snapshot_required" /\ f.cursor = subs[s].snapshotBoundary
  BY <1>1, <1>2 DEF SnapshotRequired
<1>8. f.type = "snapshot_required" => f.cursor \in Boundaries(subs[s])
  BY <1>4 DEF Boundaries
<1>9. f.type = "snapshot_required" => \A c \in Taken \cup Coming(s) : Covers(f.cursor, c)
  BY <1>1, <1>8 DEF OrderedFor
<1>10. f.type = "change" => Boundaries(subs'[s]) = {}
  BY <1>6, <1>7
<1>11. f.type = "snapshot_required" => Boundaries(subs'[s]) \subseteq {f.cursor}
  BY <1>6, <1>7
<1> QED BY <1>2, <1>4, <1>9, <1>10, <1>11

\* A step of the host leaves the order.
LEMMA OrderedHost ==
    ASSUME TypeInv, Wired, Attaching, [Next]_vars, NEW s \in Subs, OrderedFor(s),
           HostActs \/ HandleNext \/ OpenSocket \/ Rests
    PROVE OrderedFor(s)'
<1>1. /\ StreamInv /\ Past \subseteq Cursor /\ down \in Seq(MessageOf(Past)) /\ None \notin Subs
  BY PastFacts, NotNone DEF TypeInv, WireOf
<1>2. Taken' = Taken
  <2>1. UNCHANGED <<stream, drain>>
    <3>1. CASE HostActs
      BY <3>1, HostWire DEF clientVars
    <3>2. CASE HandleNext
      BY <3>2, Handled DEF clientVars
    <3>3. CASE OpenSocket \/ Rests
      BY <3>3 DEF OpenSocket, Rests, clientVars
    <3> QED BY <3>1, <3>2, <3>3
  <2> QED BY <2>1 DEF Taken
<1>3. \A j \in DOMAIN down :
         IsFrame(down[j], s) /\ down[j].frame.type = "snapshot_required" =>
           /\ \A c \in Taken : Covers(down[j].frame.cursor, c)
           /\ \A i \in DOMAIN down :
                i < j /\ IsFrame(down[i], s) => Covers(down[j].frame.cursor, down[i].frame.cursor)
  BY DEF OrderedFor
<1>4. subs'[s] # None =>
        \A b \in Boundaries(subs'[s]) : \A c \in Taken \cup Coming(s) : Covers(b, c)
  BY BoundariesStep
<1>5. CASE down' = down
  <2>1. Coming(s)' = Coming(s)
    BY <1>5 DEF Coming
  <2> QED BY <1>2, <1>3, <1>4, <1>5, <2>1 DEF OrderedFor
<1>6. ASSUME NEW m \in MessageOf(Past), down' = Append(down, m)
      PROVE /\ \A i \in DOMAIN down : i \in DOMAIN down' /\ down'[i] = down[i]
            /\ \A i \in DOMAIN down' :
                 \/ i \in DOMAIN down /\ down'[i] = down[i]
                 \/ i \notin DOMAIN down /\ down'[i] = m /\ \A j \in DOMAIN down : j < i
            /\ \A i, j \in DOMAIN down' : j \in DOMAIN down /\ i < j => i \in DOMAIN down
  <2>1. \A i \in DOMAIN down : i \in DOMAIN Append(down, m) /\ Append(down, m)[i] = down[i]
    BY <1>1, AppendFacts
  <2>2. \A i \in DOMAIN Append(down, m) :
               \/ i \in DOMAIN down /\ Append(down, m)[i] = down[i]
               \/ /\ i = Len(down) + 1 /\ Append(down, m)[i] = m
                  /\ \A j \in DOMAIN down : j < i
    BY <1>1, AppendFacts
  <2>3. DOMAIN down = 1 .. Len(down) /\ Len(down) \in Nat
    BY <1>1
  <2> QED BY <1>6, <2>1, <2>2, <2>3
<1>7. ASSUME NEW m \in MessageOf(Past), down' = Append(down, m), ~IsFrame(m, s)
      PROVE OrderedFor(s)'
  <2>1. Coming(s)' \subseteq Coming(s)
    <3>1. \A i \in DOMAIN down' : IsFrame(down'[i], s) => i \in DOMAIN down /\ down'[i] = down[i]
      BY <1>6, <1>7
    <3> QED BY <3>1 DEF Coming
  <2>2. ASSUME NEW j \in DOMAIN down', IsFrame(down'[j], s), down'[j].frame.type = "snapshot_required"
        PROVE /\ \A c \in Taken : Covers(down'[j].frame.cursor, c)
              /\ \A i \in DOMAIN down' :
                   i < j /\ IsFrame(down'[i], s) => Covers(down'[j].frame.cursor, down'[i].frame.cursor)
    <3>1. j \in DOMAIN down /\ down'[j] = down[j]
      BY <1>6, <1>7, <2>2
    <3>2. \A i \in DOMAIN down' : i < j => i \in DOMAIN down /\ down'[i] = down[i]
      BY <1>6, <1>7, <3>1
    <3> QED BY <1>3, <2>2, <3>1, <3>2
  <2> QED BY <1>2, <1>4, <2>1, <2>2 DEF OrderedFor
<1>8. ASSUME WriteFrame(s), down' = Append(down, TaskFrame(s, Head(subs[s].queue)))
      PROVE OrderedFor(s)'
  <2> DEFINE f == subs[s].queue[1]
             m == TaskFrame(s, Head(subs[s].queue))
  <2>1. subs[s] # None /\ subs[s].queue # <<>> /\ DeliverFrame(s)
    BY <1>8, Written DEF WriteFrame
  <2>2. /\ m \in MessageOf(Past) /\ m.type = "task_frame" /\ m.lease = s /\ m.frame = f
        /\ f.cursor \in Past
    BY <1>1, <2>1, FrameType
  <2>3. subs'[s] # None /\ f.type \in {"change", "snapshot_required"}
    <3>1. subs'[s] \in Subscription
      BY <1>1, <2>1, DeliveredFacts
    <3>2. subs[s].queue[1] \in Frame
      <4>1. subs[s].queue \in Seq(Frame) /\ \A i \in DOMAIN subs[s].queue : subs[s].queue[i] \in Frame
        BY <1>1, <2>1, QueueFacts
      <4> QED BY <2>1, <4>1, HeadFacts
    <3> QED BY <3>1, <3>2, NotNone DEF Frame
  <2>4. /\ f.type = "change" => Boundaries(subs'[s]) = {}
        /\ f.type = "snapshot_required" =>
             /\ \A c \in Taken \cup Coming(s) : Covers(f.cursor, c)
             /\ Boundaries(subs'[s]) \subseteq {f.cursor}
    BY <1>8, <2>3, FrameIsOrdered
  <2> HIDE DEF m, f
  <2>5. /\ \A i \in DOMAIN down : i \in DOMAIN down' /\ down'[i] = down[i]
        /\ \A i \in DOMAIN down' :
                 \/ i \in DOMAIN down /\ down'[i] = down[i]
                 \/ i \notin DOMAIN down /\ down'[i] = m /\ \A j \in DOMAIN down : j < i
        /\ \A i, j \in DOMAIN down' : j \in DOMAIN down /\ i < j => i \in DOMAIN down
    BY <1>6, <1>8, <2>2 DEF m
  <2>6. Coming(s)' \subseteq Coming(s) \cup {f.cursor}
    <3>1. ASSUME NEW i \in DOMAIN down', IsFrame(down'[i], s)
          PROVE down'[i].frame.cursor \in Coming(s) \cup {f.cursor}
      <4>1. CASE i \in DOMAIN down /\ down'[i] = down[i]
        BY <3>1, <4>1 DEF Coming
      <4>2. CASE down'[i] = m
        BY <2>2, <4>2
      <4> QED BY <2>5, <4>1, <4>2
    <3> QED BY <3>1 DEF Coming
  <2>7. \A b \in Boundaries(subs'[s]) : \A c \in Taken' \cup Coming(s)' : Covers(b, c)
    <3>1. f.type = "snapshot_required" => Covers(f.cursor, f.cursor)
      BY <1>1, <2>2, CoversFacts
    <3> QED BY <1>2, <2>3, <2>4, <2>6, <3>1
  <2>8. ASSUME NEW j \in DOMAIN down', IsFrame(down'[j], s), down'[j].frame.type = "snapshot_required"
        PROVE /\ \A c \in Taken : Covers(down'[j].frame.cursor, c)
              /\ \A i \in DOMAIN down' :
                   i < j /\ IsFrame(down'[i], s) => Covers(down'[j].frame.cursor, down'[i].frame.cursor)
    <3>1. CASE j \in DOMAIN down
      <4>1. down'[j] = down[j] /\ \A i \in DOMAIN down' : i < j => i \in DOMAIN down /\ down'[i] = down[i]
        BY <2>5, <3>1
      <4> QED BY <1>3, <2>8, <3>1, <4>1
    <3>2. CASE j \notin DOMAIN down
      <4>1. down'[j] = m /\ f.type = "snapshot_required"
        BY <2>2, <2>5, <2>8, <3>2
      <4>2. \A c \in Taken \cup Coming(s) : Covers(f.cursor, c)
        BY <2>4, <4>1
      <4>3. ASSUME NEW i \in DOMAIN down', i < j, IsFrame(down'[i], s)
            PROVE down'[i].frame.cursor \in Coming(s)
        <5>1. i \in DOMAIN down /\ down'[i] = down[i]
          <6>1. DOMAIN down = 1 .. Len(down) /\ Len(down) \in Nat /\ DOMAIN down' = 1 .. (Len(down) + 1)
            <7>1. Append(down, m) \in Seq(MessageOf(Past)) /\ Len(Append(down, m)) = Len(down) + 1
              BY <1>1, <2>2
            <7> QED BY <1>1, <1>8, <7>1 DEF m
          <6>2. i < Len(down) + 1 /\ i \in 1 .. (Len(down) + 1)
            BY <4>3, <6>1
          <6> QED BY <2>5, <6>1, <6>2
        <5> QED BY <4>3, <5>1 DEF Coming
      <4> QED BY <2>2, <4>1, <4>2, <4>3
    <3> QED BY <3>1, <3>2
  <2> QED BY <1>2, <2>7, <2>8 DEF OrderedFor
<1>9. CASE HostActs
  <2>1. PICK t \in Subs :
          \/ down' = down
          \/ /\ WriteFrame(t) /\ down' = Append(down, TaskFrame(t, Head(subs[t].queue)))
             /\ TaskFrame(t, Head(subs[t].queue)) \in MessageOf(Past)
    BY <1>9, HostWire
  <2>2. CASE WriteFrame(t) /\ down' = Append(down, TaskFrame(t, Head(subs[t].queue)))
             /\ TaskFrame(t, Head(subs[t].queue)) \in MessageOf(Past)
    <3>1. CASE t = s
      BY <1>8, <2>2, <3>1
    <3>2. CASE t # s
      <4>1. ~IsFrame(TaskFrame(t, Head(subs[t].queue)), s)
        BY <3>2 DEF IsFrame, TaskFrame
      <4> QED BY <1>7, <2>2, <4>1
    <3> QED BY <3>1, <3>2
  <2> QED BY <1>5, <2>1, <2>2
<1>10. CASE HandleNext
  <2>1. PICK m \in MessageOf(Past) : down' = Append(down, m) /\ m.type \in {"result", "refused"}
    BY <1>10, HandleAnswer
  <2>2. ~IsFrame(m, s)
    BY <2>1 DEF IsFrame
  <2> QED BY <1>7, <2>1, <2>2
<1>11. CASE OpenSocket \/ Rests
  BY <1>5, <1>11 DEF OpenSocket, Rests, wireVars
<1> QED BY <1>9, <1>10, <1>11

LEMMA OrderedStep ==
    ASSUME TypeInv, Wired, Exchanges, Attaching, Owners, Ordered, Forward, [Next]_vars
    PROVE Ordered'
<1>1. ASSUME NEW s \in Subs, Followed(s)' PROVE OrderedFor(s)'
  <2>1. CASE MessageArrives \/ ClientActs \/ LoseSocket
    <3>1. CASE Followed(s)
      BY <2>1, <3>1, OrderedClient
    <3>2. CASE HandleNext /\ Fresh(s) /\ subs[s] = None
      <4>1. OrderedFor(s)
        BY <3>2, FreshIsOrdered
      <4> QED BY <3>2, <4>1, OrderedHost
    <3> QED BY <1>1, <3>1, <3>2, FollowedMoves
  <2>2. CASE HostActs \/ HandleNext \/ OpenSocket \/ Rests
    <3>1. OrderedFor(s)
      BY <1>1, FollowedMoves, FreshIsOrdered DEF Ordered
    <3> QED BY <2>2, <3>1, OrderedHost
  <2> QED BY <2>1, <2>2, NextActs
<1> QED BY <1>1 DEF Ordered

-----------------------------------------------------------------------------
(* The processed cursor moves forward *)

\* The changes that follow the processed cursor have no gap.
LEMMA NextChangesFacts ==
    ASSUME NEW st, st.pendingChanges \subseteq Cursor, st.processed \in Cursor,
           NEW c \in NextChanges(st)
    PROVE /\ c.epoch = st.processed.epoch /\ c.sequence > st.processed.sequence
          /\ \A n \in (st.processed.sequence + 1) .. c.sequence : At(c.epoch, n) \in NextChanges(st)
<1>1. /\ c.epoch = st.processed.epoch /\ c.sequence > st.processed.sequence
      /\ \A n \in (st.processed.sequence + 1) .. c.sequence : At(c.epoch, n) \in st.pendingChanges
      /\ st.processed # None /\ c \in Cursor
  BY DEF NextChanges
<1>2. st.processed.sequence \in Nat /\ c.sequence \in Nat
  BY <1>1, StreamAssumption DEF Cursor, StreamAssumption
<1>3. ASSUME NEW n \in (st.processed.sequence + 1) .. c.sequence
      PROVE At(c.epoch, n) \in NextChanges(st)
  <2>1. /\ At(c.epoch, n) \in st.pendingChanges
        /\ At(c.epoch, n).epoch = c.epoch /\ At(c.epoch, n).sequence = n
    BY <1>1, <1>3 DEF At
  <2>2. n > st.processed.sequence
    BY <1>2, <1>3
  <2>3. \A m \in (st.processed.sequence + 1) .. n : At(c.epoch, m) \in st.pendingChanges
    BY <1>1, <1>2, <1>3
  <2> QED BY <1>1, <2>1, <2>2, <2>3 DEF NextChanges
<1> QED BY <1>1, <1>3

\* A publication or a reset is newer than everything before it.
LEMMA PublishedIsNewer ==
    ASSUME StreamInv, LogInv(log'), Publish \/ Reset, NEW c \in Past
    PROVE ~Covers(c, CurrentCursor(log'))
<1>1. log'.epoch = log.epoch /\ log'.sequence = log.sequence + 1
  <2>1. log \in Log
    BY DEF StreamInv, LogInv
  <2>2. CASE Publish
    BY <2>1, <2>2 DEF Publish, Log
  <2>3. CASE Reset
    BY <2>1, <2>3 DEF Reset, Log
  <2> QED BY <2>2, <2>3
<1>2. /\ CurrentCursor(log').epoch = log'.epoch /\ CurrentCursor(log').sequence = log'.sequence
      /\ log.epoch \in Int /\ log.sequence \in Int
  BY LogFacts DEF StreamInv
<1>3. c \in Cursor /\ c.epoch <= log.epoch /\ (c.epoch = log.epoch => c.sequence <= log.sequence)
  BY PastFacts
<1>4. c.epoch \in Int /\ c.sequence \in Int
  BY <1>3, StreamAssumption DEF Cursor, StreamAssumption
<1> QED BY <1>1, <1>2, <1>3, <1>4 DEF Covers

\* A snapshot frame that the client takes is not older than what it has processed.
LEMMA SnapshotFrameCovers ==
    ASSUME TypeInv, Ordered, down # <<>>, IsFrame(Head(down), stream.current),
           Head(down).frame.type = "snapshot_required", stream.processed # None
    PROVE Covers(Head(down).frame.cursor, stream.processed)
<1>1. down \in Seq(MessageOf(Past)) /\ 1 \in DOMAIN down /\ Head(down) = down[1] /\ down[1] \in MessageOf(Past)
  BY HeadFacts DEF TypeInv, WireOf
<1>2. stream.current \in Subs
  BY <1>1 DEF IsFrame, MessageOf
<1>3. OrderedFor(stream.current)
  BY <1>2 DEF Ordered, Followed
<1>4. stream.processed \in Taken
  BY DEF Taken
<1> QED BY <1>1, <1>3, <1>4 DEF OrderedFor

LEMMA ForwardStep ==
    ASSUME TypeInv, Wired, Exchanges, Attaching, Owners, Ordered, Forward, [Next]_vars
    PROVE Forward'
<1>1. /\ StreamInv /\ LogInv(log') /\ Past \subseteq Cursor /\ CurrentCursor(log) \in Past
      /\ ClientOf(Past) /\ WireOf(Past) /\ stream \in StreamOf(Past) /\ drain \in DrainOf(Past)
  BY StreamKept, PastFacts DEF StreamInv, TypeInv, ClientOf
<1>2. stream.processed # None => stream.processed \in Past /\ stream.processed \in Cursor
  BY <1>1 DEF StreamOf
<1>3. ASSUME DrainKept, stream'.processed = stream.processed, missing' \subseteq missing,
             incomplete' = incomplete,
             stream'.pendingSnapshot \in {stream.pendingSnapshot, None}
      PROVE Forward'
  <2>1. /\ drain'.at \in {"apply", "snapshot", "read"} /\ ~drain'.stale => drain' = drain
        /\ drain'.at = "read" => drain.at = "read" /\ drain'.changes = drain.changes
    BY <1>1, <1>3, DrainKeptFacts
  <2> QED BY <1>3, <2>1 DEF Forward
<1>4. ASSUME ClientMove(Past), UNCHANGED <<missing, incomplete>> PROVE Forward'
  BY <1>3, <1>4 DEF ClientMove
<1>5. ASSUME UNCHANGED <<stream, drain, missing, incomplete>> PROVE Forward'
  BY <1>5 DEF Forward
<1>6. CASE HostActs
  <2>1. UNCHANGED <<stream, drain, incomplete>>
    BY <1>6, HostWire DEF clientVars
  <2>2. CASE missing' = missing
    BY <1>5, <2>1, <2>2
  <2>3. CASE (Publish \/ Reset) /\ missing' = missing \cup {CurrentCursor(log')}
    <3>1. stream.processed # None => ~Covers(stream.processed, CurrentCursor(log'))
      BY <1>1, <1>2, <2>3, PublishedIsNewer
    <3> QED BY <2>1, <2>3, <3>1 DEF Forward
  <2> QED BY <1>6, <2>2, <2>3
       DEF HostActs, PublishChange, ResetStream, RestartProcess, WriteNext, DrainNext, ExpireNext,
           HostRest, HostClosesSocket
<1>7. CASE HandleNext
  BY <1>5, <1>7, Handled DEF clientVars
<1>8. CASE MessageArrives
  <2>1. UNCHANGED <<missing, incomplete>> /\ down # <<>>
    BY <1>8, ArrivalFacts
  <2>2. CASE FrameArrives(Head(down))
    <3>1. /\ DrainKept /\ stream'.processed = stream.processed
          /\ IsFrame(Head(down), Head(down).lease)
          /\ \/ stream'.pendingSnapshot = stream.pendingSnapshot
             \/ /\ Head(down).lease = stream.current
                /\ Head(down).frame.type = "snapshot_required"
                /\ stream'.pendingSnapshot = Head(down).frame.cursor
                /\ drain'.at \in {"apply", "snapshot", "read"} => drain'.stale = TRUE
      BY <1>1, <2>1, <2>2, FrameEffect
    <3>2. CASE stream'.pendingSnapshot = stream.pendingSnapshot
      BY <1>3, <2>1, <3>1, <3>2
    <3>3. CASE /\ Head(down).lease = stream.current
               /\ Head(down).frame.type = "snapshot_required"
               /\ stream'.pendingSnapshot = Head(down).frame.cursor
               /\ drain'.at \in {"apply", "snapshot", "read"} => drain'.stale = TRUE
      <4>1. stream.processed # None => Covers(stream'.pendingSnapshot, stream.processed)
        BY <2>1, <3>1, <3>3, SnapshotFrameCovers
      <4>2. drain'.at = "read" => drain.at = "read" /\ drain'.changes = drain.changes
        BY <1>1, <3>1, DrainKeptFacts
      <4> QED BY <2>1, <3>1, <3>3, <4>1, <4>2 DEF Forward
    <3> QED BY <3>1, <3>2, <3>3
  <2>3. CASE Subscribed(Head(down))
    <3>1. /\ DrainKept /\ stream'.processed = stream.processed
          /\ stream'.pendingSnapshot = stream.pendingSnapshot
      BY <1>1, <2>1, <2>3, SubscribedEffect
    <3> QED BY <1>3, <2>1, <3>1
  <2>4. CASE ClientMove(Past)
    BY <1>4, <2>1, <2>4
  <2> QED BY <1>1, <1>8, <2>2, <2>3, <2>4, ArrivalMoves
<1>9. CASE SendWaiting
  <2>1. UNCHANGED <<stream, drain, missing, incomplete>>
    BY <1>9 DEF SendWaiting
  <2> QED BY <1>5, <2>1
<1>10. CASE DrainTurn
  <2>1. UNCHANGED <<stream, missing, incomplete>>
    BY <1>10 DEF DrainTurn
  <2>2. \/ DrainKept
        \/ drain'.at = "acknowledge"
        \/ /\ drain'.at = "snapshot" /\ drain'.cursor = stream.pendingSnapshot
           /\ stream.pendingSnapshot # None
        \/ /\ drain'.at = "apply" /\ drain'.changes = NextChanges(stream)
           /\ NextChanges(stream) # {} /\ stream.processed # None /\ stream.pendingSnapshot = None
    BY <1>1, <1>10, DrainTurnEffect
  <2>3. CASE DrainKept
    BY <1>3, <2>1, <2>3
  <2>4. CASE drain'.at = "acknowledge"
    BY <2>1, <2>4 DEF Forward
  <2>5. CASE /\ drain'.at = "snapshot" /\ drain'.cursor = stream.pendingSnapshot
             /\ stream.pendingSnapshot # None
    BY <2>1, <2>5 DEF Forward
  <2>6. CASE /\ drain'.at = "apply" /\ drain'.changes = NextChanges(stream)
             /\ NextChanges(stream) # {} /\ stream.processed # None /\ stream.pendingSnapshot = None
    <3>1. stream.pendingChanges \subseteq Cursor
      BY <1>1 DEF StreamOf
    <3>2. \A c \in NextChanges(stream) :
            /\ c.epoch = stream.processed.epoch /\ c.sequence > stream.processed.sequence
            /\ \A n \in (stream.processed.sequence + 1) .. c.sequence :
                 At(c.epoch, n) \in NextChanges(stream)
      BY <1>2, <2>6, <3>1, NextChangesFacts
    <3> QED BY <2>1, <2>6, <3>2 DEF Forward
  <2> QED BY <2>2, <2>3, <2>4, <2>5, <2>6
<1>11. CASE ChangesApplied
  <2>1. /\ DrainKept /\ drain'.at = "ready" /\ missing' \subseteq missing
        /\ incomplete' = incomplete
        /\ stream'.pendingSnapshot = stream.pendingSnapshot
        /\ \/ stream' = stream
           \/ /\ stream.pendingSnapshot = None
              /\ ~incomplete => \A c \in missing' : ~Covers(stream'.processed, c)
    BY <1>1, <1>11, ChangesEffect
  <2>2. CASE stream' = stream
    BY <1>3, <2>1, <2>2
  <2>3. CASE /\ stream.pendingSnapshot = None
             /\ ~incomplete => \A c \in missing' : ~Covers(stream'.processed, c)
    BY <2>1, <2>3 DEF Forward
  <2> QED BY <2>1, <2>2, <2>3
<1>12. CASE SnapshotRead \/ WorkspaceReadFails
  <2>1. /\ UNCHANGED <<stream, missing>> /\ drain.at = "snapshot" /\ drain'.at = "read"
        /\ drain'.cursor = drain.cursor /\ drain'.stale = drain.stale
        /\ \/ drain'.changes = {CurrentCursor(log)} /\ UNCHANGED incomplete
           \/ drain'.changes = {} /\ incomplete' = TRUE
    BY <1>1, <1>12, SnapshotReadEffect
  <2>2. stream.processed # None => Covers(CurrentCursor(log), stream.processed)
    BY <1>2 DEF Past
  <2> QED BY <2>1, <2>2 DEF Forward
<1>13. CASE SnapshotApplied
  <2>1. /\ drain'.at \in {"ready", "acknowledge"}
        /\ stream'.pendingSnapshot = stream.pendingSnapshot
        /\ stream'.processed # None /\ ~incomplete' =>
             \A c \in missing' : ~Covers(stream'.processed, c)
        /\ \/ stream' = stream
           \/ /\ drain.cursor # None /\ stream'.processed = drain.cursor
              /\ stream.pendingSnapshot \in {drain.cursor, None}
    BY <1>1, <1>13, SnapshotEffect
  <2>2. CASE stream' = stream
    BY <2>1, <2>2 DEF Forward
  <2>3. CASE /\ drain.cursor # None /\ stream'.processed = drain.cursor
             /\ stream.pendingSnapshot \in {drain.cursor, None}
    <3>1. Covers(drain.cursor, drain.cursor)
      BY <1>1, <2>3, CoversFacts DEF DrainOf
    <3> QED BY <2>1, <2>3, <3>1 DEF Forward
  <2> QED BY <2>1, <2>2, <2>3
<1>14. CASE ApplyFails \/ SnapshotFails
  <2>1. UNCHANGED <<missing, incomplete>>
    BY <1>14 DEF ApplyFails, SnapshotFails
  <2> QED BY <1>1, <1>4, <1>14, <2>1, FailureMove
<1>15. CASE LoseSocket
  <2>1. UNCHANGED <<missing, incomplete>>
    BY <1>15 DEF LoseSocket
  <2> QED BY <1>1, <1>4, <1>15, <2>1, LoseSocketMove
<1>16. CASE OpenSocket \/ (Rests /\ UNCHANGED <<missing, incomplete>>)
  BY <1>5, <1>16 DEF OpenSocket, Rests, clientVars
<1>17. CASE Rests /\ RefreshSucceeds
  BY <1>17 DEF Rests, RefreshSucceeds, clientVars, Forward
<1> QED BY <1>6, <1>7, <1>8, <1>9, <1>10, <1>11, <1>12, <1>13, <1>14, <1>15, <1>16, <1>17, NextActs
     DEF ClientActs

-----------------------------------------------------------------------------
(* The invariant *)

LEMMA InitClient == Init => ClientInv
<1> SUFFICES ASSUME Init PROVE ClientInv
  OBVIOUS
<1> USE DEF Init, LeaseInit
<1>1. StreamInv
  BY InitStream
<1>2. Idle \in DrainOf(Past) /\ Idle.at = "idle" /\ Idle.cursor = None /\ Idle.changes = {}
  BY DEF Idle, DrainOf
<1>3. /\ recovery \in RecoveryOf(Past) /\ recovery.at = "waiting" /\ recovery.cursor = None
  <2>1. NoRecovery \in RecoveryOf(Past) /\ NoRecovery.cursor = None
    BY DEF NoRecovery, RecoveryOf
  <2> QED BY <2>1 DEF RecoveryOf
<1>4. /\ stream \in StreamOf(Past) /\ stream.current = None /\ stream.processed = None
      /\ stream.acknowledged = None /\ stream.pendingSnapshot = None /\ stream.pendingChanges = {}
  BY DEF StreamOf
<1>5. MaxSockets \in Nat /\ MaxFailures \in Nat /\ SocketId = 1 .. MaxSockets
  BY LeaseAssumption, ControllerAssumption DEF LeaseAssumption, ControllerAssumption, SocketId
<1>6. NoAck \in AckOf(Past) /\ NoAck.at = "none" /\ NoAck.cursor = None
  BY NoAckFacts
<1>7. TypeInv
  <2>1. ClientOf(Past)
    <3>1. incomplete \in BOOLEAN /\ missing \subseteq Past
      OBVIOUS
    <3>2. drain \in DrainOf(Past) /\ ack \in AckOf(Past) /\ recovery \in RecoveryOf(Past)
      BY <1>2, <1>3, <1>6
    <3>3. opened \in 0 .. MaxSockets /\ failures \in 0 .. MaxFailures
      BY <1>5
    <3>4. channel \in {"down", "attaching", "open"} /\ task = stream.current
      BY <1>4
    <3> QED BY <1>4, <3>1, <3>2, <3>3, <3>4 DEF ClientOf
  <2>2. WireOf(Past)
    BY DEF WireOf
  <2>3. LeasesType
    BY DEF LeasesType
  <2> QED BY <1>1, <2>1, <2>2, <2>3 DEF TypeInv
<1>8. Wired
  BY <1>1, <1>5 DEF Wired, StreamInit, ConnectedTo
<1>9. Exchanges /\ Attaching /\ Connected
  BY DEF Exchanges, Attaching, Connected, Single, UnderWay
<1>10. Owners
  BY <1>2, <1>3, <1>4, <1>6 DEF Owners
<1>11. Processed
  BY <1>3, <1>4, <1>6 DEF Processed, Done, StreamInit
<1>12. Ordered
  BY DEF Ordered, OrderedFor, StreamInit
<1>13. Forward
  BY <1>2, <1>4 DEF Forward
<1> QED BY <1>7, <1>8, <1>9, <1>10, <1>11, <1>12, <1>13 DEF ClientInv

LEMMA StepClient == ClientInv /\ [Next]_vars => ClientInv'
<1> SUFFICES ASSUME ClientInv, [Next]_vars PROVE ClientInv'
  OBVIOUS
<1>1. /\ TypeInv /\ Wired /\ Exchanges /\ Attaching /\ Owners /\ Connected
      /\ Processed /\ Ordered /\ Forward
  BY DEF ClientInv
<1>2. TypeInv'
  BY <1>1, StreamKept, ClientTypeStep, LeasesTypeStep DEF TypeInv
<1>3. Wired'
  BY <1>1, WiredStep
<1>4. Exchanges'
  BY <1>1, ExchangesStep
<1>5. Attaching'
  BY <1>1, AttachingStep
<1>6. Owners'
  BY <1>1, OwnersStep
<1>7. Connected'
  BY <1>1, ConnectedStep
<1>8. Processed'
  BY <1>1, ProcessedStep
<1>9. Ordered'
  BY <1>1, OrderedStep
<1>10. Forward'
  BY <1>1, ForwardStep
<1> QED BY <1>2, <1>3, <1>4, <1>5, <1>6, <1>7, <1>8, <1>9, <1>10 DEF ClientInv

\* Whatever becomes of sockets, leases and host processes, the invariant holds.
THEOREM ClientInvariant == Spec => []ClientInv
BY InitClient, StepClient, PTL DEF Spec

-----------------------------------------------------------------------------
(* What the invariant says *)

\* The leases, what is on the wire and the state of the controller always have their types.
THEOREM TypeCorrect == Spec => []TypeOK
<1>1. ASSUME ClientInv PROVE TypeOK
  <2>1. /\ StreamInv /\ ClientOf(Past) /\ WireOf(Past) /\ LeasesType /\ Past \subseteq Cursor
    BY <1>1, PastFacts DEF ClientInv, TypeInv
  <2>2. StreamTypeOK
    BY <2>1 DEF StreamInv, LogInv, StreamTypeOK
  <2>3. /\ stream \in Stream /\ drain \in Drain /\ ack \in Ack /\ recovery \in Recovery
        /\ missing \in SUBSET Cursor
    <3>1. /\ stream \in StreamOf(Cursor) /\ drain \in DrainOf(Cursor) /\ ack \in AckOf(Cursor)
          /\ recovery \in RecoveryOf(Cursor) /\ missing \subseteq Cursor
      BY <2>1, ClientWidened DEF ClientOf
    <3> QED BY <3>1 DEF StreamOf, DrainOf, AckOf, RecoveryOf, Stream, Drain, Ack, Recovery
  <2>4. /\ channel \in {"down", "attaching", "open"} /\ task \in Subs \cup {None}
        /\ incomplete \in BOOLEAN /\ opened \in 0 .. MaxSockets /\ failures \in 0 .. MaxFailures
    BY <2>1, <2>3 DEF ClientOf, Stream
  <2>5. leases \in [Subs -> Lease \cup {None}]
    BY <2>1 DEF LeasesType, Lease
  <2>6. up \in Seq(Request) /\ down \in Seq(Message)
    <3>1. RequestOf(Past) \subseteq Request /\ MessageOf(Past) \subseteq Message
      BY <2>1 DEF RequestOf, MessageOf, Request, Message, Frame
    <3> QED BY <2>1, <3>1 DEF WireOf
  <2>7. socket \in {0} \cup SocketId
    BY <1>1, SocketFacts DEF ClientInv
  <2> QED BY <2>1, <2>2, <2>3, <2>4, <2>5, <2>6, <2>7 DEF TypeOK, LeaseTypeOK, LeasesType
<1> QED BY <1>1, ClientInvariant, PTL

\* Every request that the host takes, every frame and every expiry uses the stream of the host as
\* TaskEventStream allows: a subscription is made once, and acknowledged as far as it got frames.
THEOREM StreamIsUsed == Spec => UsesStream
<1>1. Init => StreamInit
  BY DEF Init, LeaseInit
<1>2. ClientInv /\ [Next]_vars => [StreamNext]_streamVars
  BY StreamStep DEF ClientInv
<1> QED BY <1>1, <1>2, ClientInvariant, PTL DEF Spec, UsesStream, StreamSpec

\* Whatever the client loses, no subscription of its host skips a change.
THEOREM ClientSkipsNothing == Spec => []NoChangeIsSkipped
BY StreamIsUsed, NothingSkipped, PTL DEF UsesStream

\* However slow the client is, no subscription of its host queues more than the replay buffer holds.
THEOREM ClientQueuesBounded == Spec => []QueueIsBounded
BY StreamIsUsed, QueuesBounded, PTL DEF UsesStream

\* task-event-leases.ts:102-106, 146-161: no late close of an older socket, expiry or second
\* attachment takes the lease of an open channel from its socket.
THEOREM LeaseStaysConnected == Spec => []OpenChannelKeepsItsLease
<1>1. ClientInv => OpenChannelKeepsItsLease
  BY DEF ClientInv, Connected, Here, ConnectedTo, OpenChannelKeepsItsLease
<1> QED BY <1>1, ClientInvariant, PTL

\* task-stream-controller.ts:129-166: the client, and the host on its behalf, never count a change
\* as acknowledged that the client has not processed.
THEOREM AcknowledgementsFollow == Spec => []AcknowledgedIsProcessed
<1>1. ClientInv => AcknowledgedIsProcessed
  BY DEF ClientInv, Processed, Done, AcknowledgedIsProcessed
<1> QED BY <1>1, ClientInvariant, PTL

\* Every step of the client and of its host is a step of TaskFeed or a stutter: the processed
\* cursor only moves forward, over what the client shows or beside the failure that it reports.
LEMMA FeedStep ==
    ASSUME ClientInv, [Next]_vars
    PROVE [Feed!Next]_(Feed!feedVars)
<1>1. /\ TypeInv /\ Wired /\ Exchanges /\ Attaching /\ Owners /\ Ordered /\ Forward /\ Forward'
      /\ StreamInv /\ StreamInv' /\ LogInv(log) /\ LogInv(log')
  BY StepClient, StreamKept DEF ClientInv, StreamInv
<1>2. /\ ClientOf(Past) /\ ClientOf(Past)' /\ incomplete \in BOOLEAN /\ missing \subseteq Past /\ stream \in StreamOf(Past)
      /\ Past \subseteq Cursor /\ CurrentCursor(log) \in Past /\ WireOf(Past)
  BY <1>1, PastFacts, ClientTypeStep DEF TypeInv, ClientOf
<1>3. log \in Log /\ CurrentCursor(log) = [epoch |-> log.epoch, sequence |-> log.sequence]
  BY <1>1 DEF LogInv, CurrentCursor, At
<1>4. CASE PublishChange \/ ResetStream
  <2>1. /\ stream' = stream /\ missing' = missing \cup {CurrentCursor(log')}
        /\ incomplete' = incomplete
        /\ log'.epoch = log.epoch /\ log'.sequence = log.sequence + 1
    <3>1. CASE Publish
      BY <1>3, <1>4, <3>1 DEF PublishChange, ResetStream, clientVars, Publish, Log
    <3>2. CASE Reset
      BY <1>3, <1>4, <3>2 DEF PublishChange, ResetStream, clientVars, Reset, Log
    <3> QED BY <1>4, <3>1, <3>2 DEF PublishChange, ResetStream
  <2>2. CurrentCursor(log') = [CurrentCursor(log) EXCEPT !.sequence = @ + 1]
    BY <1>3, <2>1 DEF CurrentCursor, At
  <2> QED BY <2>1, <2>2 DEF Feed!Next, Feed!Publish
<1>5. CASE RestartProcess
  <2>1. /\ UNCHANGED <<stream, missing, incomplete>> /\ log' = EmptyLog(log.epoch + 1)
    BY <1>5 DEF RestartProcess, RestartHost, clientVars
  <2>2. CurrentCursor(log') = [epoch |-> CurrentCursor(log).epoch + 1, sequence |-> 0]
    BY <1>3, <2>1 DEF CurrentCursor, At, EmptyLog
  <2> QED BY <2>1, <2>2 DEF Feed!Next, Feed!Restart
<1>6. CASE /\ ~(PublishChange \/ ResetStream \/ RestartProcess) /\ HostActs
  <2>1. UNCHANGED <<log, stream, missing, incomplete>>
    BY <1>6
    DEF HostActs, WriteNext, DrainNext, ExpireNext, HostRest, HostClosesSocket, WriteFrame, DeliverFrame,
        RefuseFrame, StopDraining, DrainSocket, ResumeDelivery, Expire, CloseSocket, clientVars
  <2> QED BY <2>1 DEF Feed!feedVars
<1>7. CASE HandleNext
  <2>1. UNCHANGED <<log, stream, missing, incomplete>>
    BY <1>1, <1>7, Handled DEF clientVars
  <2> QED BY <2>1 DEF Feed!feedVars
<1>8. CASE \/ MessageArrives \/ ClientActs \/ OpenSocket \/ LoseSocket
           \/ Rests /\ (UNCHANGED <<missing, incomplete>> \/ RefreshSucceeds)
  <2>1. log' = log
    BY <1>8, ClientQuiet
  <2>2. /\ missing' \subseteq missing
        /\ incomplete' => /\ missing' = missing
                          /\ incomplete \/ stream'.processed = stream.processed
    <3>1. CASE MessageArrives
      BY <3>1, ArrivalFacts
    <3>2. CASE ChangesApplied
      BY <1>1, <1>2, <3>2, ChangesEffect
    <3>3. CASE SnapshotApplied
      BY <1>1, <1>2, <3>3, SnapshotEffect
    <3>4. CASE SendWaiting \/ DrainTurn \/ SnapshotRead \/ ApplyFails \/ SnapshotFails
      <4>1. UNCHANGED <<missing, incomplete>>
        BY <3>4 DEF SendWaiting, DrainTurn, SnapshotRead, SnapshotEnds, ApplyFails, SnapshotFails
      <4> QED BY <4>1
    <3>5. CASE WorkspaceReadFails
      BY <3>5 DEF WorkspaceReadFails, SnapshotEnds
    <3>6. CASE OpenSocket \/ LoseSocket
      <4>1. UNCHANGED <<missing, incomplete>>
        BY <3>6 DEF OpenSocket, LoseSocket
      <4> QED BY <4>1
    <3>7. CASE Rests /\ (UNCHANGED <<missing, incomplete>> \/ RefreshSucceeds)
      BY <3>7 DEF Rests, RefreshSucceeds, clientVars
    <3> QED BY <1>8, <3>1, <3>2, <3>3, <3>4, <3>5, <3>6, <3>7 DEF ClientActs
  <2>5. stream'.processed # None /\ ~incomplete' =>
          \A c \in missing' : ~Feed!UpTo(c, stream'.processed)
    BY <1>1 DEF Forward, Feed!UpTo, Covers
  <2>3. CASE stream'.processed = stream.processed
    <3>1. CASE incomplete'
      <4>1. incomplete' = TRUE
        BY <1>2, <3>1 DEF ClientOf
      <4> QED BY <2>1, <2>2, <2>3, <3>1, <4>1 DEF Feed!Next, Feed!Fail
    <3>2. CASE ~incomplete'
      BY <2>1, <2>2, <2>3, <2>5, <3>2 DEF Feed!Next, Feed!Show, Feed!NothingProcessedIsMissing
    <3> QED BY <3>1, <3>2
  <2>4. CASE /\ stream'.processed \in Past
             /\ stream.processed # None => Covers(stream'.processed, stream.processed)
    <3>1. stream'.processed \in Cursor /\ Covers(CurrentCursor(log), stream'.processed)
      BY <1>2, <2>4 DEF Past
    <3>2. stream'.processed \in Feed!Cursors
      BY <3>1, CursorFacts DEF Feed!Cursors
    <3>3. Feed!UpTo(stream'.processed, CurrentCursor(log))
      BY <3>1 DEF Feed!UpTo, Covers
    <3>4. stream.processed # None => Feed!UpTo(stream.processed, stream'.processed)
      BY <2>4 DEF Feed!UpTo, Covers
    <3>5. CASE stream'.processed # stream.processed /\ incomplete'
      <4>1. UNCHANGED <<missing, incomplete>> /\ incomplete
        BY <1>2, <2>2, <3>5 DEF ClientOf
      <4> QED BY <2>1, <3>2, <3>3, <3>4, <4>1 DEF Feed!Next, Feed!Advance
    <3>6. CASE ~incomplete'
      <4>1. Feed!NothingProcessedIsMissing'
        BY <2>5 DEF Feed!NothingProcessedIsMissing
      <4> QED BY <2>1, <2>2, <3>2, <3>3, <3>4, <3>6, <4>1 DEF Feed!Next, Feed!Advance
    <3> QED BY <2>3, <3>5, <3>6
  <2> QED BY <1>1, <2>3, <2>4, CursorMoves
<1> QED BY <1>4, <1>5, <1>6, <1>7, <1>8, NextActs

\* task-stream-controller.ts:171-241, task-view-sync.ts:543-593: over lost sockets, expired leases,
\* overtaken answers, new host processes and reads of the task list that fail, the client implements
\* TaskFeed.
THEOREM RefinesFeed == Spec => FeedSpec
<1>1. Init => Feed!Init
  BY DEF Init, LeaseInit, StreamInit, EmptyLog, CurrentCursor, At, Feed!Init
<1>2. ClientInv /\ [Next]_vars => [Feed!Next]_(Feed!feedVars)
  BY FeedStep
<1> QED BY <1>1, <1>2, ClientInvariant, PTL DEF Spec, FeedSpec, Feed!Spec

\* What TaskFeed keeps: the client has processed no more than was published.
FeedInv ==
    /\ CurrentCursor(log) \in Feed!Cursors
    /\ stream.processed # None =>
          stream.processed \in Feed!Cursors /\ Feed!UpTo(stream.processed, CurrentCursor(log))
    /\ missing \subseteq Feed!Cursors
    /\ Feed!NothingProcessedIsMissing

\* A feed begins with nothing processed and nothing missing.
LEMMA InitFeedInv == Feed!Init => FeedInv
  BY DEF Feed!Init, FeedInv, Feed!Cursors, Feed!NothingProcessedIsMissing

\* Each step of TaskFeed keeps it, whoever takes the step.
LEMMA NextFeedInv == FeedInv /\ [Feed!Next]_(Feed!feedVars) => FeedInv'
<1> DEFINE published == CurrentCursor(log)
<1> DEFINE processed == stream.processed
<1> SUFFICES ASSUME FeedInv, [Feed!Next]_(Feed!feedVars) PROVE FeedInv'
  OBVIOUS
<1> USE DEF FeedInv, Feed!Cursors, Feed!NothingProcessedIsMissing
\* A new change is newer than everything the client has processed.
<1>1. CASE Feed!Publish
  <2>1. /\ published' \in Feed!Cursors /\ missing' \subseteq Feed!Cursors
        /\ processed # None => Feed!UpTo(processed, published')
    BY <1>1 DEF Feed!Publish, Feed!UpTo
  <2>2. processed # None => ~Feed!UpTo(published', processed)
    BY <1>1 DEF Feed!Publish, Feed!UpTo
  <2> QED
    BY <1>1, <2>1, <2>2 DEF Feed!Publish
<1>2. CASE Feed!Restart
  <2>1. published' \in Feed!Cursors /\ (processed # None => Feed!UpTo(processed, published'))
    BY <1>2 DEF Feed!Restart, Feed!UpTo
  <2> QED
    BY <1>2, <2>1 DEF Feed!Restart
<1>3. CASE Feed!Advance
  BY <1>3 DEF Feed!Advance
<1>4. CASE Feed!Show
  BY <1>4 DEF Feed!Show
<1>5. CASE Feed!Fail
  BY <1>5 DEF Feed!Fail
<1>6. CASE UNCHANGED Feed!feedVars
  BY <1>6 DEF Feed!feedVars
<1> QED
  BY <1>1, <1>2, <1>3, <1>4, <1>5, <1>6 DEF Feed!Next

\* An implementation of TaskFeed keeps what every step of it keeps.
LEMMA FeedShowsWhatIsProcessed == FeedSpec => []Feed!NothingProcessedIsMissing
<1>1. FeedInv => Feed!NothingProcessedIsMissing
  BY DEF FeedInv
<1> QED
  BY <1>1, InitFeedInv, NextFeedInv, PTL DEF FeedSpec, Feed!Spec

\* task-stream-controller.ts:171-241, task-view-sync.ts:183-207, 543-593: the client shows every
\* change up to the cursor that it has processed, unless its list reports a failed read; it goes on
\* without the list then, but never takes that report back before a read has caught up.
THEOREM ClientShowsWhatIsProcessed == Spec => []Feed!NothingProcessedIsMissing
BY RefinesFeed, FeedShowsWhatIsProcessed, PTL

=============================================================================
