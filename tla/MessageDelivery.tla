--------------------------- MODULE MessageDelivery ---------------------------
(***************************************************************************)
(* Messages to one agent session: the queue of the delivery service, the   *)
(* gate that admits one session operation at a time, the composer, the     *)
(* queue's buttons, Stop, and the runtime's answers and live events.       *)
(*                                                                         *)
(* An operation is modelled from the step in which it joins the session's  *)
(* lane to the step in which it leaves it.  Everything between two awaits  *)
(* of the code is one action.  The runtime is external: it may take a      *)
(* request or leave it, answer early, late or unclearly, start turns of    *)
(* its own, ask for input, and leave.  Its live events reach the owner of  *)
(* operations first and the queue later.                                   *)
(***************************************************************************)
EXTENDS Integers, FiniteSets, SequencesExt

CONSTANTS
    Messages,    \* what the composer submits, each once
    Modes,       \* the composer modes used: "default", "steer"
    Outcomes,    \* the answers a runtime may give to a request
    Actions,     \* the queue buttons used
    TurnEnds,    \* how a turn may end: "completed", "interrupted", "failed", "error"
    Unnamed,     \* messages whose live message names the runtime's id only
    Budget,      \* how often each outside event may happen
    MaxBacklog   \* unobserved live events before the runtime pauses

AllOutcomes == {"accepted", "received", "refused", "unknown", "unclear"}
AllActions  == {"resume", "steer", "begin_edit", "end_edit", "remove"}
Bounded     == {"stops", "manages", "turns", "asks", "leaves", "faults", "failures"}

ASSUME ModesAssumption   == Modes \subseteq {"default", "steer"}
ASSUME AnswersAssumption == Outcomes \subseteq AllOutcomes /\ Actions \subseteq AllActions
AllTurnEnds == {"completed", "interrupted", "failed", "error"}
ASSUME TurnsAssumption   == TurnEnds \subseteq AllTurnEnds
ASSUME UnnamedAssumption == Unnamed \subseteq Messages
ASSUME BudgetAssumption  == Budget \in [Bounded -> Nat] /\ MaxBacklog \in Nat

None   == "none"
Actors == Messages \cup {"drain", "manage", "stop"}
ASSUME NamesAssumption == Messages \cap {None, "unnamed", "drain", "manage", "stop"} = {}

VARIABLES
    gen,         \* session.generation: a Stop raises it
    lane,        \* the actors in the session's lane of the gate; the head runs
    job,         \* where each actor is
    active,      \* session.active: the running operation and its native outcome
    unresolved,  \* session.unresolved: the submission it names, or "unnamed"
    queue,       \* the session's message queue
    due,         \* scheduled drains that have not run
    host,        \* what the queue knows of the session
    rt,          \* the runtime: turn, pending question, attachment, open requests
    took,        \* the messages the runtime took, in order
    events,      \* live events the queue has not observed
    seen,        \* the operation owner has observed the first of them
    status,      \* what the composer was told of each message
    joined,      \* the order in which submissions joined the lane
    budget       \* outside events left

owner == <<gen, lane, active, unresolved>>
live  == <<rt, took, events, seen>>
told  == <<status, joined>>
vars  == <<gen, lane, job, active, unresolved, queue, due, host, rt, took,
           events, seen, status, joined, budget>>

------------------------------------------------------------------------------
(* Shapes *)

Stages == {"idle", "joining", "waiting", "preparing", "routing", "sending", "issued",
           "committing", "cancelled", "settling", "done"}
EntryStates == {"queued", "editing", "sending", "steering", "acceptance_unknown"}
Pauses == {None, "stopped", "turn_interrupted", "turn_failed", "agent_error", "left_runtime",
           "acceptance_unknown", "acceptance_confirmed", "delivery_failed",
           "steer_failed", "accepted_then_failed"}
Entries  == [msg : Messages, state : EntryStates]
Requests == [msg : Messages, via : {"new_turn", "steer"}]
StateEvent == [kind : {"state"}, turn : BOOLEAN, asking : BOOLEAN, readable : BOOLEAN]
Events == StateEvent
    \cup [kind : {"user"}, msg : Messages]
    \cup [kind : {"ended"}, outcome : AllTurnEnds]
    \cup [kind : {"removed", "finished", "fault"}]

Idle == [at |-> "idle", gen |-> 0, msg |-> None, how |-> None, via |-> "new_turn",
         outcome |-> None, ended |-> FALSE]
Jobs == [at : Stages, gen : Nat, msg : Messages \cup {None},
         how : AllActions \cup {"default", None}, via : {"new_turn", "steer"},
         outcome : AllOutcomes \cup {"busy", None}, ended : BOOLEAN]

Queues == [entries : Seq(Entries), pause : Pauses, sending : BOOLEAN]

NoOperation == [op |-> None, native |-> "not_issued"]

(* The state has its shape, and no actor waits twice in the lane. *)
TypeOK ==
    /\ gen \in Nat
    /\ lane \in Seq(Actors) /\ IsInjective(lane)
    /\ job \in [Actors -> Jobs]
    /\ active \in [op : Actors \cup {None},
                   native : {"not_issued", "uncertain", "accepted", "refused"}]
    /\ unresolved \in Messages \cup {None, "unnamed"}
    /\ queue \in Queues
    /\ due \in 0..2
    /\ host \in [working : BOOLEAN, blocked : BOOLEAN, left : BOOLEAN, unavailable : BOOLEAN]
    /\ rt \in [turn : BOOLEAN, asking : BOOLEAN, attached : BOOLEAN, readable : BOOLEAN,
               open : SUBSET Requests]
    /\ took \in Seq(Messages)
    /\ events \in Seq(Events) /\ seen \in BOOLEAN
    /\ status \in [Messages -> {"unsent", "pending", "accepted", "queued", "failed", "removed"}]
    /\ joined \in Seq(Messages)
    /\ budget \in [Bounded -> Nat]

Init ==
    /\ gen = 0 /\ lane = <<>> /\ job = [a \in Actors |-> Idle]
    /\ active = NoOperation /\ unresolved = None
    /\ queue = [entries |-> <<>>, pause |-> None, sending |-> FALSE]
    /\ due = 0
    /\ host = [working |-> FALSE, blocked |-> FALSE, left |-> FALSE, unavailable |-> FALSE]
    /\ rt = [turn |-> FALSE, asking |-> FALSE, attached |-> TRUE, readable |-> TRUE, open |-> {}]
    /\ took = <<>> /\ events = <<>> /\ seen = FALSE
    /\ status = [m \in Messages |-> "unsent"] /\ joined = <<>>
    /\ budget = Budget

------------------------------------------------------------------------------
(* The queue model *)

InQueue(q, m)  == \E i \in DOMAIN q.entries : q.entries[i].msg = m
Place(q, m)    == CHOOSE i \in DOMAIN q.entries : q.entries[i].msg = m
StateOf(q, m)  == q.entries[Place(q, m)].state
HasUnknown(q)  == \E i \in DOMAIN q.entries : q.entries[i].state = "acceptance_unknown"
Unused(q)      == q.entries = <<>> /\ q.pause = None /\ ~q.sending
Without(q, m)  == IF InQueue(q, m) THEN RemoveAt(q.entries, Place(q, m)) ELSE q.entries

Mark(q, m, s) ==
    [q EXCEPT !.entries = [i \in DOMAIN @ |-> IF @[i].msg = m THEN [@[i] EXCEPT !.state = s]
                                              ELSE @[i]]]
EnqueueFirst(q, m, s) == [q EXCEPT !.entries = <<[msg |-> m, state |-> s]>> \o @]
EnqueueLast(q, m)     == [q EXCEPT !.entries = Append(@, [msg |-> m, state |-> "queued"])]

FirstPause(q, p)   == [q EXCEPT !.pause = IF @ = None THEN p ELSE @]
EndPauseIfEmpty(q) == IF q.entries = <<>> THEN [q EXCEPT !.pause = None] ELSE q
RemoveEntry(q, m)  == EndPauseIfEmpty([q EXCEPT !.entries = Without(q, m)])

(* Pauses queued messages and sends in flight; the first cause stays. *)
PauseQueue(q, p) == IF q.entries = <<>> /\ ~q.sending THEN q ELSE FirstPause(q, p)

(* A failed delivery of entry m.  A live user message may have removed it. *)
FailEntry(q, m, outcome) ==
    CASE outcome = "received" \/ ~InQueue(q, m)
           -> FirstPause([q EXCEPT !.entries = Without(q, m)], "accepted_then_failed")
      [] outcome = "unknown" /\ InQueue(q, m)
           -> FirstPause(Mark(q, m, "acceptance_unknown"), "acceptance_unknown")
      [] OTHER -> FirstPause(Mark(q, m, "queued"), "delivery_failed")

(* findAcceptedEntry: by its submission, once its delivery began.  A live message that  *)
(* names none only finds an unknown result, if the failure told the runtime's id.       *)
Finds(q, m, idKnown) ==
    /\ InQueue(q, m)
    /\ IF m \in Unnamed THEN idKnown /\ StateOf(q, m) = "acceptance_unknown"
       ELSE StateOf(q, m) \notin {"queued", "editing"}

(* The transcript shows message m. *)
ResolveAccepted(q, m, idKnown) ==
    IF ~Finds(q, m, idKnown) THEN q
    ELSE LET rest == RemoveEntry(q, m)
             lastUnknown == StateOf(q, m) = "acceptance_unknown" /\ ~HasUnknown(rest)
         IN IF lastUnknown /\ rest.pause = "acceptance_unknown"
            THEN [rest EXCEPT !.pause = "acceptance_confirmed"] ELSE rest

CanDeliver(h) == ~h.working /\ ~h.blocked /\ ~h.left /\ ~h.unavailable

(* scheduleDrain, n times: a third waiting drain would find what the others left. *)
Schedule(n) == due' = IF due + n > 2 THEN 2 ELSE due + n
Once(c)     == IF c THEN 1 ELSE 0

------------------------------------------------------------------------------
(* The gate and the operation owner *)

Spend(e) == budget[e] > 0 /\ budget' = [budget EXCEPT ![e] = @ - 1]
AtHead(a)  == lane # <<>> /\ Head(lane) = a
Current(a) == job[a].gen = gen

(* owner.run: capture the guard and join the lane in one step. *)
Join(a, m, how) ==
    /\ job' = [job EXCEPT ![a] = [Idle EXCEPT !.at = "waiting", !.gen = gen,
                                              !.msg = m, !.how = how]]
    /\ lane' = Append(lane, a)

Moved(a, at) == [job EXCEPT ![a].at = at]
GoTo(a, at)  == job' = Moved(a, at)

(* The operation fails: no queue changes but the drain's, when it settles. *)
Failed(a) ==
    /\ job' = [job EXCEPT ![a].at = "settling",
                          ![a].outcome = IF a = "drain" THEN "refused" ELSE None]
    /\ status' = IF a \in Messages THEN [status EXCEPT ![a] = "failed"] ELSE status

Submit(m, mode) ==
    /\ status[m] = "unsent"
    /\ Join(m, m, mode)
    /\ status' = [status EXCEPT ![m] = "pending"]
    /\ joined' = Append(joined, m)
    /\ UNCHANGED <<gen, active, unresolved, queue, due, host, live, budget>>

(* The head of the lane is admitted, unless an earlier operation is unresolved *)
(* or a Stop came while it waited.                                             *)
Admitted(a) == Current(a) /\ (a = "stop" \/ unresolved = None)
FirstStage(a) == CASE a = "drain" -> "sending" [] a = "stop" -> "issued" [] OTHER -> "preparing"

Begin(a) ==
    /\ AtHead(a) /\ job[a].at = "waiting"
    /\ \/ /\ Admitted(a)
          /\ active' = [op |-> a, native |-> "not_issued"]
          /\ GoTo(a, FirstStage(a)) /\ UNCHANGED status
       \/ /\ ~Admitted(a)
          /\ Failed(a) /\ UNCHANGED active
    /\ UNCHANGED <<gen, lane, unresolved, queue, due, host, live, joined, budget>>

\* FAULT: only operations that carry a submission are remembered as unresolved.
LeaveForgets(a) ==
    /\ lane' = Tail(lane)
    /\ active' = NoOperation
    /\ unresolved' = IF active.op = a /\ active.native = "uncertain" /\ a # "manage"
                     THEN job[a].msg ELSE unresolved

\* FAULT: an operation that was not admitted keeps its place in the lane.
LeaveOnlyAdmitted(a) ==
    /\ lane' = IF active.op = a THEN Tail(lane) ELSE lane
    /\ active' = NoOperation
    /\ unresolved' = IF active.op = a /\ active.native = "uncertain" THEN job[a].msg ELSE unresolved

(* An operation that leaves with an uncertain native outcome is unresolved.  A *)
(* queue action has no submission, so nothing names what it left.              *)
NameOf(a) == IF a = "manage" THEN "unnamed" ELSE job[a].msg

Leave(a) ==
    /\ lane' = Tail(lane)
    /\ active' = NoOperation
    /\ unresolved' = IF active.op = a /\ active.native = "uncertain" THEN NameOf(a) ELSE unresolved

Settle(a) ==
    /\ AtHead(a) /\ job[a].at = "settling" /\ a # "drain"
    /\ Leave(a)
    /\ job' = [job EXCEPT ![a] = [Idle EXCEPT !.at = IF a \in Messages THEN "done" ELSE "idle"]]
    /\ UNCHANGED <<gen, queue, due, host, live, told, budget>>

------------------------------------------------------------------------------
(* Sending one message *)

Request(a) == [msg |-> job[a].msg, via |-> job[a].via]

(* The session as the commands read it from the live state: as old as what the   *)
(* queue observed, or as new as the runtime.                                     *)
Reads == {[ready |-> ~host.blocked /\ ~host.left /\ ~host.unavailable, turn |-> host.working],
          [ready |-> rt.attached /\ rt.readable /\ ~rt.asking, turn |-> rt.turn]}

(* What the delivery service makes of an answer.  Only a submission carries the *)
(* owner's observation, so for a queue action an unclear failure is a refusal.  *)
ShownMeanwhile(a) == a # "manage" /\ active.op = a /\ active.native = "accepted"
Classified(a, answer) ==
    IF answer = "unclear" /\ a = "manage" THEN "refused"
    ELSE IF answer # "accepted" /\ ShownMeanwhile(a) THEN "received"
    ELSE IF answer = "unclear" THEN "unknown" ELSE answer

(* The result of a default submission, whose send held the queue. *)
AfterNewTurn(m, outcome) ==
    LET q == [queue EXCEPT !.sending = FALSE]
        ended == Once(job[m].ended)
    IN CASE outcome = "accepted" -> queue' = EndPauseIfEmpty(q) /\ Schedule(ended)
         [] outcome = "busy" -> queue' = EnqueueFirst(q, m, "queued") /\ Schedule(ended)
         [] outcome = "unknown" ->
              /\ queue' = FirstPause(EnqueueFirst(q, m, "acceptance_unknown"), "acceptance_unknown")
              /\ UNCHANGED due
         [] outcome = "received" ->
              /\ queue' = EndPauseIfEmpty(PauseQueue(q, "accepted_then_failed"))
              /\ Schedule(ended)
         [] outcome = "refused" ->
              /\ queue' = EndPauseIfEmpty(q)
              /\ Schedule(ended + Once(q.entries # <<>>))

(* The result of a composer steer, which held no queue. *)
AfterSteer(m, outcome) ==
    /\ queue' = CASE outcome = "accepted" -> queue
                  [] outcome = "unknown" -> FirstPause(
                       EnqueueFirst(queue, m, "acceptance_unknown"), "acceptance_unknown")
                  [] outcome = "received" -> PauseQueue(queue, "accepted_then_failed")
                  [] outcome \in {"busy", "refused"} -> PauseQueue(queue, "steer_failed")
    /\ UNCHANGED due

\* FAULT: a steered entry leaves the queue whatever the runtime answered.
AfterSteerEntryDrops(m, outcome) == queue' = RemoveEntry(queue, m) /\ UNCHANGED due

(* The result of steering an entry; its queue may have ended meanwhile. *)
AfterSteerEntry(m, outcome) ==
    IF Unused(queue) THEN UNCHANGED <<queue, due>>
    ELSE /\ queue' = IF outcome = "accepted" THEN RemoveEntry(queue, m)
                     ELSE FailEntry(queue, m, outcome)
         /\ Schedule(Once(job["manage"].ended))

Told(m, outcome) ==
    status' = [status EXCEPT ![m] =
        CASE outcome = "accepted" -> "accepted"
          [] outcome = "unknown" -> "queued"
          [] outcome = "busy" /\ job[m].how = "default" -> "queued"
          [] OTHER -> "failed"]

(* A send ends with this answer: a submission and a queue action change the    *)
(* queue at once, a drain when its own operation has left the lane.            *)
Answer(a, answer) ==
    /\ job' = [job EXCEPT ![a].at = "settling",
                          ![a].outcome = IF a = "drain" THEN answer ELSE None]
    /\ IF a = "drain" THEN UNCHANGED <<queue, due, status>>
       ELSE IF a = "manage"
       THEN AfterSteerEntry(job[a].msg, Classified(a, answer)) /\ UNCHANGED status
       ELSE /\ Told(a, Classified(a, answer))
            /\ IF job[a].how = "default"
               THEN AfterNewTurn(a, Classified(a, answer))
               ELSE AfterSteer(a, Classified(a, answer))

\* FAULT: a message is sent past the ones that wait.
MustWaitForSend == queue.sending

MustWait == queue.entries # <<>> \/ queue.sending

(* A submission whose preparation is done: the message is blocked by pending     *)
(* input, waits behind other messages, or is sent, which holds the queue.        *)
Prepared(m) ==
    /\ m \in Messages /\ AtHead(m) /\ job[m].at = "preparing"
    /\ \/ /\ Failed(m) /\ UNCHANGED queue
          /\ IF host.blocked \/ \E read \in Reads : ~read.ready
             THEN UNCHANGED budget ELSE Spend("failures")
       \/ /\ ~host.blocked /\ (\E read \in Reads : read.ready)
          /\ IF job[m].how = "steer"
             THEN GoTo(m, "routing") /\ UNCHANGED <<queue, status>>
             ELSE IF MustWait
             THEN /\ queue' = EnqueueLast(queue, m)
                  /\ GoTo(m, "settling")
                  /\ status' = [status EXCEPT ![m] = "queued"]
             ELSE /\ queue' = [queue EXCEPT !.sending = TRUE]
                  /\ job' = [job EXCEPT ![m].at = "sending", ![m].ended = FALSE]
                  /\ UNCHANGED status
          /\ UNCHANGED budget
    /\ UNCHANGED <<owner, due, host, live, joined>>

(* A steer reads whether the agent works once it knows if steering is possible. *)
(* When it is not, nothing reaches the runtime and an entry waits again.        *)
Route(a) ==
    /\ AtHead(a) /\ job[a].at = "routing"
    /\ \/ /\ job' = [job EXCEPT ![a].at = "sending",
                                ![a].via = IF host.working THEN "steer" ELSE "new_turn"]
          /\ UNCHANGED <<queue, due, status>>
       \/ /\ host.working
          /\ Failed(a)
          /\ IF a = "manage" /\ ~Unused(queue)
             THEN queue' = Mark(queue, job[a].msg, "queued") /\ Schedule(Once(job[a].ended))
             ELSE UNCHANGED <<queue, due>>
    /\ UNCHANGED <<owner, host, live, joined, budget>>

(* sendUserMessage up to the request: it may fail in preparation, it does fail *)
(* when a Stop came, input is pending or the turn to steer is over, and an     *)
(* adapter refuses a new turn during a turn before it sends anything.          *)
Sendable(a, read) ==
    /\ Current(a) /\ read.ready
    /\ job[a].via = "steer" => read.turn

SendFails(a) ==
    /\ AtHead(a) /\ job[a].at = "sending"
    /\ IF \E read \in Reads : ~Sendable(a, read)
       THEN UNCHANGED budget ELSE Spend("failures")
    /\ Answer(a, "refused")
    /\ UNCHANGED <<owner, host, live, joined>>

SendBusy(a) ==
    /\ AtHead(a) /\ job[a].at = "sending"
    /\ \E read \in Reads : Sendable(a, read)
    /\ rt.turn /\ job[a].via = "new_turn"
    /\ Answer(a, "busy")
    /\ UNCHANGED <<owner, host, live, joined, budget>>

Issue(a) ==
    /\ AtHead(a) /\ job[a].at = "sending"
    /\ \E read \in Reads : Sendable(a, read)
    /\ rt.turn => job[a].via = "steer"
    /\ active' = [active EXCEPT !.native = "uncertain"]
    /\ rt' = [rt EXCEPT !.open = @ \cup {Request(a)}]
    /\ GoTo(a, "issued")
    /\ UNCHANGED <<gen, lane, unresolved, queue, due, host, took, events, seen, told, budget>>

(* The runtime answers.  It can lose its answer whether it took the message or *)
(* not; "received" is a message taken whose recording in the host then failed. *)
NativeAfter(answer) ==
    CASE answer \in {"accepted", "received"} -> "accepted"
      [] answer = "refused" -> "refused"
      [] answer \in {"unknown", "unclear"} -> active.native

Reply(a, answer) ==
    /\ AtHead(a) /\ job[a].at = "issued" /\ a # "stop"
    /\ answer \in {"accepted", "received"} => Request(a) \notin rt.open
    /\ answer = "refused" => Request(a) \in rt.open
    /\ rt' = IF answer = "refused" THEN [rt EXCEPT !.open = @ \ {Request(a)}] ELSE rt
    /\ active' = [active EXCEPT !.native = NativeAfter(answer)]
    /\ Answer(a, answer)
    /\ UNCHANGED <<gen, lane, unresolved, host, took, events, seen, joined, budget>>

------------------------------------------------------------------------------
(* Automatic delivery *)

\* FAULT: a drain does not look for a send in flight.
DeliverableDuringSend ==
    /\ queue.pause = None
    /\ queue.entries # <<>> /\ Head(queue.entries).state \in {"queued", "sending"}
    /\ CanDeliver(host)

Deliverable ==
    /\ queue.pause = None /\ ~queue.sending
    /\ queue.entries # <<>> /\ Head(queue.entries).state = "queued"
    /\ CanDeliver(host)

(* One scheduled drain runs: it takes the head of the queue or finds nothing. *)
Drain ==
    /\ due > 0 /\ due' = due - 1
    /\ IF Deliverable
       THEN LET m == Head(queue.entries).msg
            IN  /\ queue' = [Mark(queue, m, "sending") EXCEPT !.sending = TRUE]
                /\ job' = [job EXCEPT !["drain"] = [Idle EXCEPT !.at = "joining", !.msg = m]]
       ELSE UNCHANGED <<queue, job>>
    /\ UNCHANGED <<owner, host, live, told, budget>>

(* sendUserMessage resolves the path of the repository before it joins the lane. *)
DrainJoins ==
    /\ job["drain"].at = "joining"
    /\ job' = [job EXCEPT !["drain"].at = "waiting", !["drain"].gen = gen]
    /\ lane' = Append(lane, "drain")
    /\ UNCHANGED <<gen, active, unresolved, queue, due, host, live, told, budget>>

(* The path cannot be resolved: the message returns to its queue. *)
DrainFails ==
    /\ job["drain"].at = "joining" /\ Spend("failures")
    /\ queue' = FailEntry([queue EXCEPT !.sending = FALSE], job["drain"].msg, "refused")
    /\ Schedule(Once(job["drain"].ended))
    /\ job' = [job EXCEPT !["drain"] = Idle]
    /\ UNCHANGED <<owner, host, live, told>>

(* The send of a drain leaves the lane and its result changes the queue. *)
DrainSettles ==
    LET a == "drain"
        m == job[a].msg
        q == [queue EXCEPT !.sending = FALSE]
        outcome == Classified(a, job[a].outcome)
    IN /\ AtHead(a) /\ job[a].at = "settling"
       /\ Leave(a)
       /\ job' = [job EXCEPT ![a] = Idle]
       /\ queue' = CASE outcome = "accepted" -> RemoveEntry(q, m)
                     [] outcome = "busy" -> Mark(q, m, "queued")
                     [] OTHER -> FailEntry(q, m, outcome)
       /\ Schedule(Once(job[a].ended))
       /\ UNCHANGED <<gen, host, live, told, budget>>

------------------------------------------------------------------------------
(* The queue's buttons, one at a time *)

Manage(how, m) ==
    /\ job["manage"].at = "idle" /\ Spend("manages")
    /\ Join("manage", m, how)
    /\ UNCHANGED <<gen, active, unresolved, queue, due, host, live, told>>

Pressed(how) == AtHead("manage") /\ job["manage"].at = "preparing" /\ job["manage"].how = how
Entry == job["manage"].msg
\* FAULT: Resume overlooks a message with an unknown result.
MayResumeAnyway == ~Unused(queue)

MayResume == /\ ~Unused(queue) /\ ~HasUnknown(queue) /\ ~host.blocked
             /\ queue.entries # <<>> => \E read \in Reads : read.ready
MayChange ==
    /\ InQueue(queue, Entry)
    /\ StateOf(queue, Entry) \in CASE job["manage"].how = "end_edit" -> {"editing"}
                                   [] job["manage"].how = "remove" -> {"queued", "editing"}
                                   [] OTHER -> {"queued"}

(* publishAndRelease *)
ReleaseWith(q) == queue' = q /\ Schedule(Once(CanDeliver(host)))

(* Resume reads the queue, then prepares the head, then commits. *)
ResumeChecks ==
    /\ Pressed("resume") /\ MayResume
    /\ GoTo("manage", "committing")
    /\ UNCHANGED <<owner, queue, due, host, live, told, budget>>

ResumeCommits ==
    /\ AtHead("manage") /\ job["manage"].at = "committing"
    /\ IF Current("manage") THEN ReleaseWith([queue EXCEPT !.pause = None])
       ELSE UNCHANGED <<queue, due>>
    /\ GoTo("manage", "settling")
    /\ UNCHANGED <<owner, host, live, told, budget>>

SteerEntry ==
    /\ Pressed("steer") /\ ~host.blocked /\ MayChange
    /\ queue' = Mark(queue, Entry, "steering")
    /\ job' = [job EXCEPT !["manage"].at = "routing", !["manage"].ended = FALSE]
    /\ UNCHANGED <<owner, due, host, live, told, budget>>

BeginEdit ==
    /\ Pressed("begin_edit") /\ MayChange
    /\ queue' = Mark(queue, Entry, "editing")
    /\ GoTo("manage", "settling")
    /\ UNCHANGED <<owner, due, host, live, told, budget>>

(* Save or cancel, with the id of the current edit. *)
EndEdit ==
    /\ Pressed("end_edit") /\ MayChange
    /\ ReleaseWith(Mark(queue, Entry, "queued"))
    /\ GoTo("manage", "settling")
    /\ UNCHANGED <<owner, host, live, told, budget>>

RemoveMessage ==
    /\ Pressed("remove") /\ MayChange
    /\ ReleaseWith(RemoveEntry(queue, Entry))
    /\ GoTo("manage", "settling")
    /\ status' = [status EXCEPT ![Entry] = "removed"]
    /\ UNCHANGED <<owner, host, live, joined, budget>>

Allowed ==
    \/ job["manage"].at = "committing"
    \/ job["manage"].how = "resume" /\ MayResume
    \/ job["manage"].how = "steer" /\ MayChange /\ ~host.blocked
    \/ job["manage"].how \notin {"resume", "steer"} /\ MayChange

(* The action is not allowed now, or its preparation fails. *)
ManageFails ==
    /\ AtHead("manage") /\ job["manage"].at \in {"preparing", "committing"}
    /\ IF Allowed /\ \A read \in Reads : read.ready THEN Spend("failures") ELSE UNCHANGED budget
    /\ GoTo("manage", "settling")
    /\ UNCHANGED <<owner, queue, due, host, live, told>>

------------------------------------------------------------------------------
(* Stop: cancel what waits, then pause the queue, then stop the runtime *)

Stop ==
    /\ job["stop"].at = "idle" /\ Spend("stops")
    /\ gen' = gen + 1
    /\ GoTo("stop", "cancelled")
    /\ UNCHANGED <<lane, active, unresolved, queue, due, host, live, told>>

StopPauses ==
    /\ job["stop"].at = "cancelled"
    /\ queue' = PauseQueue(queue, "stopped")
    /\ Join("stop", None, None)
    /\ UNCHANGED <<gen, active, unresolved, due, host, live, told, budget>>

------------------------------------------------------------------------------
(* The runtime *)

RuntimeState(r) == [kind |-> "state", turn |-> r.turn, asking |-> r.asking,
                    readable |-> r.readable]

(* The runtime changes and reports it, with another event before or after it. *)
Reports(r, others) ==
    /\ Len(events) + 1 + Len(others) <= MaxBacklog
    /\ rt' = r
    /\ \/ events' = events \o <<RuntimeState(r)>> \o others
       \/ events' = events \o others \o <<RuntimeState(r)>>
    /\ UNCHANGED seen

Take(request) ==
    /\ request \in rt.open /\ rt.attached
    /\ rt.turn <=> request.via = "steer"
    /\ took' = Append(took, request.msg)
    /\ Reports([rt EXCEPT !.turn = TRUE, !.open = @ \ {request}],
               <<[kind |-> "user", msg |-> request.msg]>>)
    /\ UNCHANGED <<owner, job, queue, due, host, told, budget>>

OwnTurn ==
    /\ rt.attached /\ ~rt.turn /\ Spend("turns")
    /\ Reports([rt EXCEPT !.turn = TRUE], <<>>)
    /\ UNCHANGED <<owner, job, queue, due, host, took, told>>

TurnOver(outcome) == Reports([rt EXCEPT !.turn = FALSE, !.asking = FALSE],
                             <<[kind |-> "ended", outcome |-> outcome]>>)

EndTurn(outcome) ==
    /\ rt.turn /\ TurnOver(outcome)
    /\ UNCHANGED <<owner, job, queue, due, host, took, told, budget>>

StopTurn ==
    /\ AtHead("stop") /\ job["stop"].at = "issued"
    /\ IF rt.turn THEN TurnOver("interrupted") ELSE UNCHANGED <<rt, events, seen>>
    /\ GoTo("stop", "settling")
    /\ UNCHANGED <<owner, queue, due, host, took, told, budget>>

StopFails ==
    /\ AtHead("stop") /\ job["stop"].at = "issued" /\ Spend("failures")
    /\ GoTo("stop", "settling")
    /\ UNCHANGED <<owner, queue, due, host, live, told>>

Ask ==
    /\ rt.turn /\ ~rt.asking /\ Spend("asks")
    /\ Reports([rt EXCEPT !.asking = TRUE], <<>>)
    /\ UNCHANGED <<owner, job, queue, due, host, took, told>>

Answered ==
    /\ rt.asking
    /\ Reports([rt EXCEPT !.asking = FALSE], <<>>)
    /\ UNCHANGED <<owner, job, queue, due, host, took, told, budget>>

(* The runtime drops the session, or reports that it has finished. *)
SessionLeaves ==
    /\ rt.attached /\ Spend("leaves") /\ Len(events) < MaxBacklog
    /\ rt' = [rt EXCEPT !.attached = FALSE, !.turn = FALSE, !.asking = FALSE]
    /\ \E kind \in {"removed", "finished"} : events' = Append(events, [kind |-> kind])
    /\ UNCHANGED <<owner, job, queue, due, host, took, seen, told>>

Reattaches ==
    /\ ~rt.attached
    /\ Reports([rt EXCEPT !.attached = TRUE], <<>>)
    /\ UNCHANGED <<owner, job, queue, due, host, took, told, budget>>

(* The runtime cannot read the session's status; a later report ends that. *)
StatusFault ==
    /\ rt.attached /\ rt.readable /\ Spend("faults") /\ Len(events) < MaxBacklog
    /\ rt' = [rt EXCEPT !.readable = FALSE]
    /\ events' = Append(events, [kind |-> "fault"])
    /\ UNCHANGED <<owner, job, queue, due, host, took, seen, told>>

StatusReport ==
    /\ rt.attached /\ ~rt.readable
    /\ Reports([rt EXCEPT !.readable = TRUE], <<>>)
    /\ UNCHANGED <<owner, job, queue, due, host, took, told, budget>>

------------------------------------------------------------------------------
(* Live events: first the operation owner, then the queue *)

\* FAULT: an unresolved operation stays when the conversation shows its message.
StillUnresolvedForever(m) == unresolved

StillUnresolved(m) == IF unresolved = m THEN None ELSE unresolved

(* The owner knows a message by its submission only. *)
OwnerObserves ==
    /\ events # <<>> /\ Head(events).kind = "user" /\ ~seen
    /\ LET m == Head(events).msg
       IN IF m \in Unnamed
          THEN UNCHANGED <<active, unresolved>>
          ELSE IF active.op \notin {None, "manage", "stop"} /\ job[active.op].msg = m
          THEN active' = [active EXCEPT !.native = "accepted"] /\ UNCHANGED unresolved
          ELSE unresolved' = StillUnresolved(m) /\ UNCHANGED active
    /\ seen' = TRUE
    /\ UNCHANGED <<gen, lane, job, queue, due, host, rt, took, events, told, budget>>

\* FAULT: a session that came back still counts as gone.
HostAfterStaysLeft(event) ==
    CASE event.kind = "state" -> [host EXCEPT !.working = event.turn, !.blocked = event.asking,
                                              !.unavailable = ~event.readable]
      [] event.kind = "removed" -> [host EXCEPT !.working = FALSE, !.blocked = FALSE, !.left = TRUE]
      [] event.kind = "finished" -> [host EXCEPT !.working = FALSE, !.left = TRUE]
      [] event.kind = "fault" -> [host EXCEPT !.unavailable = TRUE]
      [] OTHER -> host

HostAfter(event) ==
    CASE event.kind = "state" -> [working |-> event.turn, blocked |-> event.asking,
                                  left |-> FALSE, unavailable |-> ~event.readable]
      [] event.kind = "removed" -> [host EXCEPT !.working = FALSE, !.blocked = FALSE, !.left = TRUE]
      [] event.kind = "finished" -> [host EXCEPT !.working = FALSE, !.left = TRUE]
      [] event.kind = "fault" -> [host EXCEPT !.unavailable = TRUE]
      [] OTHER -> host

PauseAfter(outcome) ==
    CASE outcome = "interrupted" -> "turn_interrupted"
      [] outcome = "failed" -> "turn_failed"
      [] outcome = "error" -> "agent_error"

QueueAfter(event, idKnown) ==
    CASE event.kind = "user" -> ResolveAccepted(queue, event.msg, idKnown)
      [] event.kind \in {"removed", "finished"} -> PauseQueue(queue, "left_runtime")
      [] event.kind = "ended" /\ event.outcome # "completed"
           -> PauseQueue(queue, PauseAfter(event.outcome))
      [] OTHER -> queue

\* FAULT: turns that complete during a send are not counted.
TurnNotCounted == job

(* queue.completedTurns, as what each send sees of it: a turn completed meanwhile. *)
Delivering(a) == \/ job[a].at \in {"routing", "sending", "issued"}
                 \/ a = "drain" /\ job[a].at # "idle"
TurnCompleted == [a \in Actors |-> [job[a] EXCEPT !.ended = @ \/ Delivering(a)]]

(* A session that becomes ready and a completed turn release the queue. *)
QueueObserves ==
    /\ events # <<>> /\ (Head(events).kind = "user" => seen)
    /\ LET event == Head(events)
           ready == event.kind = "state" /\ ~CanDeliver(host)
           completed == event.kind = "ended" /\ event.outcome = "completed"
       IN /\ host' = HostAfter(event)
          /\ \E idKnown \in BOOLEAN : queue' = QueueAfter(event, idKnown)
          /\ job' = IF completed THEN TurnCompleted ELSE job
          /\ Schedule(Once((ready \/ completed) /\ ~Unused(queue) /\ CanDeliver(host')))
    /\ events' = Tail(events) /\ seen' = FALSE
    /\ UNCHANGED <<owner, rt, took, told, budget>>

------------------------------------------------------------------------------
Host ==
    \/ \E a \in Actors : Begin(a) \/ Settle(a)
    \/ \E m \in Messages : Prepared(m)
    \/ \E a \in Actors \ {"stop"} : Route(a) \/ SendFails(a) \/ SendBusy(a) \/ Issue(a)
    \/ Drain \/ DrainJoins \/ DrainFails \/ DrainSettles
    \/ ResumeChecks \/ ResumeCommits \/ SteerEntry \/ BeginEdit \/ EndEdit \/ RemoveMessage \/ ManageFails
    \/ StopPauses \/ OwnerObserves \/ QueueObserves

User ==
    \/ \E m \in Messages, mode \in Modes : Submit(m, mode)
    \/ \E m \in Messages, how \in Actions : Manage(how, m)
    \/ Stop \/ Answered

Runtime ==
    \/ \E a \in Actors, answer \in Outcomes : Reply(a, answer)
    \/ \E request \in rt.open : Take(request)
    \/ OwnTurn \/ Ask \/ SessionLeaves \/ Reattaches \/ StatusFault \/ StatusReport
    \/ \E outcome \in TurnEnds : EndTurn(outcome)
    \/ StopTurn \/ StopFails

Next == Host \/ User \/ Runtime

Spec == Init /\ [][Next]_vars

------------------------------------------------------------------------------
(* Safety *)

TimesTaken(m) == Cardinality({i \in DOMAIN took : took[i] = m})

(* The runtime takes no message twice, whatever answers were lost, and whatever *)
(* the user pressed after that (markAcceptanceUnknown, session.unresolved).     *)
SentOnce == \A m \in Messages : TimesTaken(m) <= 1

(* A message the composer was told is queued, and that nobody removed, waits in *)
(* the queue until the runtime takes it.                                        *)
NothingLost ==
    \A m \in Messages : status[m] = "queued" => InQueue(queue, m) \/ TimesTaken(m) > 0

(* Default messages reach the runtime in the order in which they were submitted, *)
(* however sends, refusals, pauses and edits fall.                               *)
InOrder ==
    \A i, j \in DOMAIN took, k, l \in DOMAIN joined :
        i < j /\ took[i] = joined[k] /\ took[j] = joined[l] => k < l

Quiet == lane = <<>> /\ due = 0 /\ events = <<>> /\ \A a \in Actors : job[a].at \in {"idle", "done"}

(* When all is quiet and the runtime is ready for a turn, no message waits for a  *)
(* delivery that nothing will start: the queue is empty or paused, or the user    *)
(* edits its head.  Each signal that could release the queue can come while a     *)
(* send is in flight (settle, completedTurns, delivery_ready).                    *)
NoStranded ==
    Quiet /\ rt.attached /\ rt.readable /\ ~rt.turn /\ ~rt.asking
          /\ queue.entries # <<>> /\ Head(queue.entries).state = "queued"
    => queue.pause # None

(* "The queue stays paused until the conversation shows it": while the result of *)
(* a delivery is unknown the queue is paused (agent-message-queue-model.ts:62).  *)
UnknownKeepsPause == HasUnknown(queue) => queue.pause # None

(* Once the conversation confirmed the last unknown delivery, no earlier         *)
(* operation refuses the user's Resume but one whose message the conversation    *)
(* names by the runtime's id only: queue and owner are told one after the other, *)
(* and the owner first (session-operation-owner.ts:415, queue model 130-140).    *)
NamedDeliveryIsForgotten ==
    queue.pause = "acceptance_confirmed" /\ ~HasUnknown(queue)
        => unresolved \in {None} \cup Unnamed

(* "Resume the queue to send the next message": once the conversation confirmed  *)
(* the last unknown delivery, no earlier operation refuses the user's Resume     *)
(* (pauseMessage of acceptance_confirmed).                                       *)
ConfirmedQueueCanResume ==
    queue.pause = "acceptance_confirmed" /\ ~HasUnknown(queue) => unresolved = None

(* "A stop keeps the queue, but delivery waits until the user resumes it": no    *)
(* drain issues a message while the queue is paused by a stop.                   *)
StopHoldsDelivery ==
    [][job["drain"].at = "sending" /\ job'["drain"].at = "issued" => queue.pause # "stopped"]_vars

------------------------------------------------------------------------------
(* Liveness.  Host fibers are scheduled, an adapter answers a request at last, if *)
(* only that the result is unknown, the runtime handles what it was sent, turns   *)
(* end, the user answers questions and a session that left is reopened.           *)

Progress ==
    \/ Host \/ StopTurn \/ Answered \/ Reattaches \/ StatusReport
    \/ \E a \in Actors, answer \in Outcomes : Reply(a, answer)
    \/ \E request \in rt.open : Take(request)
    \/ \E outcome \in TurnEnds : EndTurn(outcome)

FairSpec == Spec /\ WF_vars(Progress)

(* Every submission returns to the composer, whoever holds the lane before it.    *)
SubmissionsReturn == \A m \in Messages : job[m].at = "waiting" ~> job[m].at = "done"

(* A queued message is delivered, removed, or held by a pause the user can see.   *)
QueuedIsDelivered ==
    \A m \in Messages :
        status[m] = "queued" /\ InQueue(queue, m) ~> ~InQueue(queue, m) \/ queue.pause # None
==============================================================================
