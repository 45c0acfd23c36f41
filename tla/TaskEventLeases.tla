-------------------------- MODULE TaskEventLeases --------------------------
(***************************************************************************)
(* Task event leases (remote-host/src/task-event-leases.ts) and the socket *)
(* handlers that use them (remote-host/src/host-channel.ts).  A lease owns *)
(* one subscription of the stream and outlives the socket that receives    *)
(* its frames: a closing socket detaches the lease, a later socket attaches *)
(* it again under a new generation and gets the unacknowledged frames      *)
(* again, and a lease that stays detached expires.                         *)
(*                                                                         *)
(* Sockets are numbered in the order the client opens them.  The client    *)
(* notices the loss of a socket before or after the host does: until the   *)
(* host closes it, the host still writes to it and the frames are lost.    *)
(***************************************************************************)
EXTENDS TaskEventStream

CONSTANTS
    MaxSockets,   \* bound: the sockets the client opens
    Room          \* the messages a socket takes before it asks the host to wait

VARIABLES
    leases,     \* the lease of each id, None when there is none
    sockets,    \* per socket: the generation of each lease it receives, None once it is closed
    socket,     \* the socket the client uses now, 0 when it has none
    up,         \* the requests on their way from the client on that socket
    down        \* the messages on their way to the client on that socket

leaseVars == <<leases, sockets>>
wireVars == <<socket, up, down>>

SocketId == 1..MaxSockets
Generation == 1..(2 * MaxSockets)
Connection == [sink : SocketId, generation : Generation]
Lease == [connection : Connection \cup {None}, nextGeneration : {0} \cup Generation,
          expires : BOOLEAN]

Request == [method : {"subscribe", "attach", "ack", "release"}, lease : Subs \cup {None},
            cursor : Cursor \cup {None}]
Message == [type : {"result", "refused"}, method : {"subscribe", "attach", "ack", "release"},
            lease : Subs \cup {None}]
           \cup [type : {"task_frame"}, lease : Subs, frame : Frame]

\* None is no id and no record.
ASSUME LeaseAssumption ==
    /\ MaxSockets \in Nat
    /\ None \notin Subs \cup Subscription \cup Lease \cup Connection \cup [Subs -> {0} \cup Generation]

LeaseTypeOK ==
    /\ leases \in [Subs -> Lease \cup {None}]
    /\ sockets \in [SocketId -> [Subs -> {0} \cup Generation] \cup {None}]
    /\ socket \in {0} \cup SocketId
    /\ up \in Seq(Request)
    /\ down \in Seq(Message)

Result(request, s) == [type |-> "result", method |-> request.method, lease |-> s]
Refused(request) == [type |-> "refused", method |-> request.method, lease |-> request.lease]
TaskFrame(s, frame) == [type |-> "task_frame", lease |-> s, frame |-> frame]

\* What the host sends on a socket arrives only while the client still uses that socket.
Sent(k, messages) == IF k = socket THEN down \o messages ELSE down

NoLeases == [s \in Subs |-> 0]

-----------------------------------------------------------------------------
(* Operators on a lease; an expiry timer is armed exactly when "expires" holds. *)

\* detach ignores a generation that is not the connected one.
Detached(lease, generation) ==
    IF lease # None /\ lease.connection # None /\ lease.connection.generation = generation
    THEN [lease EXCEPT !.connection = None, !.expires = TRUE]
    ELSE lease

NewLease == [connection |-> None, nextGeneration |-> 0, expires |-> TRUE]

\* FAULT: the first connection takes the generation before it is counted.
AttachToUncounted(k, s, lease, subscription) ==
    /\ leases' = [leases EXCEPT ![s] =
         [connection |-> [sink |-> k, generation |-> lease.nextGeneration],
          nextGeneration |-> lease.nextGeneration + 1, expires |-> FALSE]]
    /\ sockets' = [sockets EXCEPT ![k][s] = lease.nextGeneration]
    /\ subs' = [subs EXCEPT ![s] = Resume(subscription)]

\* attach: the new sink takes the lease at once, and the previous sink forgets it.
AttachTo(k, s, lease, subscription) ==
    LET generation == lease.nextGeneration + 1
        previous == lease.connection
    IN  /\ leases' = [leases EXCEPT ![s] =
             [connection |-> [sink |-> k, generation |-> generation],
              nextGeneration |-> generation, expires |-> FALSE]]
        /\ sockets' = [j \in SocketId |->
             IF j = k THEN [sockets[k] EXCEPT ![s] = generation]
             ELSE IF previous # None /\ previous.sink = j /\ sockets[j] # None
                  THEN [sockets[j] EXCEPT ![s] = 0]
                  ELSE sockets[j]]
        /\ subs' = [subs EXCEPT ![s] =
             IF generation = 1 THEN Resume(subscription) ELSE Replay(log, subscription)]

-----------------------------------------------------------------------------
(* The requests the host handles, in the order they arrive. *)

\* The microtasks of the stream run before the host takes its next request, timer or socket event.
Quiet == \A s \in Subs : ~Draining(s)

Handle ==
    /\ Quiet
    /\ socket # 0
    /\ sockets[socket] # None
    /\ up # <<>>
    /\ up' = Tail(up)
    /\ UNCHANGED <<log, socket>>

\* task_events.subscribe: a lease and its subscription, the result, and then the attachment.
HandleSubscribe(request, fresh) ==
    /\ request.method = "subscribe"
    /\ Handle
    /\ \E s \in fresh :
        /\ leases[s] = None
        /\ down' = Append(down, Result(request, s))
        /\ AttachTo(socket, s, NewLease, NewSubscription(log, request.cursor))

\* The host takes no more work, or the socket's client has all the leases it may have.
RefuseSubscribe(request) ==
    /\ request.method = "subscribe"
    /\ Handle
    /\ down' = Append(down, Refused(request))
    /\ UNCHANGED <<leases, sockets, subs>>

\* The lease an attach or an acknowledgement names is gone: the client must subscribe again.
HandleUnknown(request) ==
    /\ request.method \in {"attach", "ack"}
    /\ Handle
    /\ leases[request.lease] = None
    /\ down' = Append(down, Refused(request))
    /\ UNCHANGED <<leases, sockets, subs>>

\* task_events.attach
HandleAttach(request) ==
    /\ request.method = "attach"
    /\ Handle
    /\ leases[request.lease] # None
    /\ down' = Append(down, Result(request, request.lease))
    /\ AttachTo(socket, request.lease, leases[request.lease], subs[request.lease])

\* FAULT: the stream takes every acknowledgement of a registered lease.
HandleAckUnchecked(request) ==
    /\ request.method = "ack"
    /\ Handle
    /\ leases[request.lease] # None
    /\ down' = Append(down, Result(request, request.lease))
    /\ subs' = [subs EXCEPT ![request.lease] = Acknowledged(log, @, request.cursor)]
    /\ UNCHANGED leaseVars

\* task_events.ack
HandleAck(request) ==
    LET s == request.lease
        accepted == subs[s] # None /\ AckAccepted(log, subs[s], request.cursor)
    IN  /\ request.method = "ack"
        /\ Handle
        /\ leases[s] # None
        /\ down' = Append(down, IF accepted THEN Result(request, s) ELSE Refused(request))
        /\ subs' = IF accepted THEN [subs EXCEPT ![s] = Acknowledged(log, @, request.cursor)]
                   ELSE subs
        /\ UNCHANGED leaseVars

\* deleteLease, for a lease that is still registered.
DeleteLease(s) ==
    /\ leases' = [leases EXCEPT ![s] = None]
    /\ subs' = [subs EXCEPT ![s] = None]
    /\ LET connection == leases[s].connection
       IN  sockets' = IF connection # None /\ sockets[connection.sink] # None
                      THEN [sockets EXCEPT ![connection.sink][s] = 0]
                      ELSE sockets

\* task_events.release
HandleRelease(request) ==
    /\ request.method = "release"
    /\ Handle
    /\ down' = Append(down, Result(request, request.lease))
    /\ IF leases[request.lease] # None THEN DeleteLease(request.lease)
       ELSE UNCHANGED <<leases, sockets, subs>>

HandleRequest(fresh) ==
    /\ up # <<>>
    /\ LET request == Head(up)
       IN  \/ HandleSubscribe(request, fresh)
           \/ RefuseSubscribe(request)
           \/ HandleUnknown(request)
           \/ HandleAttach(request)
           \/ HandleAck(request)
           \/ HandleRelease(request)

\* The expiry timer of a detached lease fires.
Expire(s) ==
    /\ Quiet
    /\ leases[s] # None
    /\ leases[s].expires
    /\ DeleteLease(s)
    /\ UNCHANGED <<log, wireVars>>

-----------------------------------------------------------------------------
(* The frames of a lease. *)

\* desiredSize: a socket the host has not closed takes a frame while its buffer has room.
Takes(k) == sockets[k] # None /\ (k = socket => Len(down) < Room)

\* write takes the frame: the lease is connected to a sink that has room.
Writable(s) ==
    /\ leases[s] # None
    /\ leases[s].connection # None
    /\ Takes(leases[s].connection.sink)

\* write, for the next frame of the microtask.
WriteFrame(s) ==
    /\ Writable(s)
    /\ DeliverFrame(s)
    /\ down' = Sent(leases[s].connection.sink, <<TaskFrame(s, Head(subs[s].queue))>>)
    /\ UNCHANGED <<leaseVars, socket, up>>

\* write returns false, or a frame that was queued when the microtask was scheduled is gone.
RefuseFrame(s) ==
    /\ Draining(s)
    /\ ~(Writable(s) /\ subs[s].queue # <<>>)
    /\ StopDraining(s)
    /\ UNCHANGED <<leaseVars, wireVars>>

\* The socket has room again: resume the lease if this socket still is its connection.
DrainSocket(s) ==
    /\ Quiet
    /\ socket # 0 /\ sockets[socket] # None
    /\ Len(down) < Room
    /\ sockets[socket][s] # 0
    /\ leases[s] # None /\ leases[s].connection # None
    /\ leases[s].connection.generation = sockets[socket][s]
    /\ subs[s].queue # <<>>
    /\ ResumeDelivery(s)
    /\ UNCHANGED <<leaseVars, wireVars>>

-----------------------------------------------------------------------------
(* The sockets. *)

\* FAULT: a closing socket detaches every lease of its client, whichever socket receives it.
CloseSocketOfClient(k) ==
    /\ Quiet
    /\ sockets[k] # None
    /\ leases' = [s \in Subs |->
         IF leases[s] = None \/ leases[s].connection = None THEN leases[s]
         ELSE Detached(leases[s], leases[s].connection.generation)]
    /\ sockets' = [sockets EXCEPT ![k] = None]
    /\ UNCHANGED <<log, subs, wireVars>>

\* The host closes a socket: each lease it receives is detached, by generation.
CloseSocket(k) ==
    /\ Quiet
    /\ sockets[k] # None
    /\ leases' = [s \in Subs |->
         IF sockets[k][s] # 0 THEN Detached(leases[s], sockets[k][s]) ELSE leases[s]]
    /\ sockets' = [sockets EXCEPT ![k] = None]
    /\ UNCHANGED <<log, subs, wireVars>>

LeaseInit ==
    /\ StreamInit
    /\ leases = [s \in Subs |-> None]
    /\ sockets = [k \in SocketId |-> None]
    /\ socket = 0
    /\ up = <<>>
    /\ down = <<>>

=============================================================================
