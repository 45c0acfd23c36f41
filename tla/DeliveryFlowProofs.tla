------------------------- MODULE DeliveryFlowProofs -------------------------
(***************************************************************************)
(* What keeps the messages of MessageDelivery moving, and in order.  When  *)
(* all is quiet nothing is left waiting; without the Steer button no named *)
(* delivery keeps the queue from resuming once the conversation confirmed  *)
(* it; and where nothing is steered at all, messages are taken in the      *)
(* order of their submission.  All rests on MessageDeliveryProofs.         *)
(***************************************************************************)
EXTENDS MessageDeliveryProofs

-----------------------------------------------------------------------------
(* A confirmed delivery is forgotten, where no entry is steered *)

\* The owner has learned from the conversation that m was taken, and the queue is next.
Showing(m) == seen /\ events # <<>> /\ Head(events).kind = "user" /\ Head(events).msg = m

OwnerIsAhead == seen => events # <<>> /\ Head(events).kind = "user"

NothingSteers == job["manage"].how # "steer" /\ ~Steering

\* An unresolved operation names an entry whose result is unknown and stays so until the
\* conversation shows its message, to the owner first.
UnresolvedIsUnknown ==
    /\ unresolved \in Messages \cup {None}
    /\ unresolved \notin {None} \cup Unnamed =>
          Has(queue, unresolved, "acceptance_unknown") /\ ~Showing(unresolved)

DrainIsMarked ==
    job["drain"].at \in Pending \cup {"sending"} => Has(queue, job["drain"].msg, "sending")

\* An operation whose outcome is uncertain has an entry, or will have one when it is told so.
EntryIsKept(a) ==
    /\ ~Showing(job[a].msg)
    /\ a = "drain" => Has(queue, job[a].msg, "sending")
    /\ a = "drain" /\ job[a].at = "settling" => job[a].outcome \in {"unknown", "unclear"}
    /\ a # "drain" /\ job[a].at = "settling" => Has(queue, a, "acceptance_unknown")

\* The owner keeps the outcome of an unnamed message uncertain when it is shown.
UncertainIsKept(a) ==
    /\ a \in Messages \cup {"drain"} /\ job[a].at \in {"issued", "settling"}
    /\ job[a].msg \notin Unnamed => EntryIsKept(a)

Uncertain == active.native = "uncertain"

Resolvable ==
    /\ NothingSteers /\ OwnerIsAhead /\ UnresolvedIsUnknown /\ DrainIsMarked
    /\ Uncertain => UncertainIsKept(active.op)

\* Entries on their way and unknown ones stay as they are.
KeepsMarked ==
    \A m \in Messages, s \in {"sending", "acceptance_unknown"} : Has(queue, m, s) => Has(queue', m, s)

ShowsNothingNew == OwnerIsAhead' /\ \A m \in Messages : Showing(m)' => Showing(m)

\* Who carries which message.
LEMMA CarriedMessages ==
    ASSUME Inv
    PROVE  /\ job["drain"].at # "idle" => job["drain"].msg \in Messages
           /\ \A m \in Messages : job[m].at \notin {"idle", "done"} => job[m].msg = m
           /\ \A a \in Messages \cup {"drain"} :
                 job[a].at \in {"issued", "settling"} => job[a].msg \in Messages
           /\ "drain" \in Actors \ Messages /\ Messages \subseteq Actors
BY Names DEF Inv, JobsFit, DrainFits, SubmissionFits

\* A step that adds no uncertain operation keeps what is unresolved.
LEMMA ResolvableInCalm ==
    ASSUME Inv, Resolvable, KeepsMarked, ShowsNothingNew, unresolved' = unresolved,
           NothingSteers', Stays("drain") \/ DrainIsMarked',
           Uncertain' => active' = active /\ Stays(active.op)
    PROVE  Resolvable'
<1>1. NothingSteers' /\ OwnerIsAhead'
  BY DEF ShowsNothingNew
<1>2. UnresolvedIsUnknown'
  BY DEF Resolvable, UnresolvedIsUnknown, KeepsMarked, ShowsNothingNew
<1>3. DrainIsMarked'
  <2>1. CASE Stays("drain")
    BY <2>1, CarriedMessages DEF Stays, Resolvable, DrainIsMarked, Pending, KeepsMarked
  <2> QED BY <2>1
<1>4. ASSUME Uncertain' PROVE UncertainIsKept(active.op)'
  <2> DEFINE a == active.op
  <2>1. active' = active /\ Stays(a) /\ UncertainIsKept(a)
    BY <1>4 DEF Uncertain, Resolvable
  <2>2. a \in Messages \cup {"drain"} /\ job[a].at \in {"issued", "settling"} /\ job[a].msg \in Messages
    BY <2>1, CarriedMessages DEF UncertainIsKept
  <2>3. ASSUME job[a].msg \notin Unnamed PROVE EntryIsKept(a)'
    <3>0. EntryIsKept(a)
      BY <2>1, <2>3 DEF UncertainIsKept
    <3>1. ~Showing(job[a].msg)'
      BY <2>1, <2>2, <3>0 DEF EntryIsKept, ShowsNothingNew, Stays, Showing
    <3>2. a = "drain" => Has(queue', job[a].msg, "sending")
      BY <2>2, <3>0 DEF EntryIsKept, KeepsMarked
    <3>3. a # "drain" /\ job[a].at = "settling" => Has(queue', a, "acceptance_unknown")
      BY <2>2, <3>0 DEF EntryIsKept, KeepsMarked
    <3> QED
      BY <2>1, <3>0, <3>1, <3>2, <3>3 DEF EntryIsKept, Stays
  <2> QED
    BY <2>1, <2>2, <2>3 DEF UncertainIsKept, Stays
<1> QED
  BY <1>1, <1>2, <1>3, <1>4 DEF Resolvable

\* Only a submission or a drain whose request is out can be uncertain.
LEMMA CertainAtHead ==
    ASSUME Inv, Resolvable, NEW a \in Actors, AtHead(a),
           a \in {"manage", "stop"} \/ job[a].at \notin {"issued", "settling"}
    PROVE  ~Uncertain
<1>1. active.op \in {None, a}
  BY HeadIsAlone DEF Inv
<1> QED
  BY <1>1, Names DEF Resolvable, UncertainIsKept

\* Who has issued nothing is no uncertain operation.
LEMMA RestingIsCertain ==
    ASSUME Inv, Resolvable, NEW a \in Actors, job[a].at \notin {"issued", "settling"}
    PROVE  Uncertain => active.op \in Actors \ {a}
BY Names DEF Resolvable, UncertainIsKept

\* Events that come later show nothing at once.
LEMMA ReportsShowNothing ==
    ASSUME Inv, OwnerIsAhead, events \in Seq(Events), seen' = seen,
           \/ events' = events
           \/ \E others \in Seq(Events) : events' = events \o others
    PROVE  ShowsNothingNew
<1>1. CASE events' = events
  BY <1>1 DEF ShowsNothingNew, OwnerIsAhead, Showing
<1>2. CASE ~seen
  BY <1>2 DEF ShowsNothingNew, OwnerIsAhead, Showing
<1>3. ASSUME seen, NEW others \in Seq(Events), events' = events \o others
      PROVE  ShowsNothingNew
  <2>1. events # <<>>
    BY <1>3 DEF OwnerIsAhead
  <2>2. events' # <<>> /\ Head(events') = Head(events)
    BY <1>3, <2>1
  <2> QED
    BY <1>3, <2>1, <2>2 DEF ShowsNothingNew, OwnerIsAhead, Showing
<1> QED
  BY <1>1, <1>2, <1>3

\* A report comes after what waits.
LEMMA ReportsComeLater ==
    ASSUME TypeOK, NEW r \in RuntimeStates, NEW others \in Seq(Events), Reports(r, others)
    PROVE  seen' = seen /\ \E later \in Seq(Events) : events' = events \o later
<1> DEFINE e == RuntimeState(r)
<1>1. e \in Events
  BY DEF RuntimeState, RuntimeStates, Events, StateEvent
<1>2. events \in Seq(Events) /\ seen' = seen
  BY DEF Reports, TypeOK
<1>3. events' = events \o <<e>> \o others \/ events' = events \o others \o <<e>>
  BY DEF Reports
<1> HIDE DEF e
<1>4. <<e>> \o others \in Seq(Events) /\ others \o <<e>> \in Seq(Events)
  BY <1>1
<1>5. events \o <<e>> \o others = events \o (<<e>> \o others)
  BY <1>1, <1>2
<1>6. events \o others \o <<e>> = events \o (others \o <<e>>)
  BY <1>1, <1>2
<1> QED
  BY <1>2, <1>3, <1>4, <1>5, <1>6

\* What the runtime reports on its own comes later.
ComesLater ==
    /\ UNCHANGED <<owner, job, queue, seen>>
    /\ \/ events' = events
       \/ \E others \in Seq(Events) : events' = events \o others

\* Each report of the runtime alone comes later.
LEMMA ReportsOnlyComeLater ==
    ASSUME Inv, ReportsOnly
    PROVE  ComesLater
<1>1. TypeOK /\ rt \in RuntimeStates /\ events \in Seq(Events) /\ <<>> \in Seq(Events)
  BY DEF Inv, TypeOK, RuntimeStates
<1>2. ASSUME NEW r \in RuntimeStates, NEW others \in Seq(Events), Reports(r, others),
             UNCHANGED <<owner, job, queue>>
      PROVE  ComesLater
  BY <1>1, <1>2, ReportsComeLater DEF ComesLater
<1>3. ASSUME NEW event \in Events, events' = Append(events, event),
             UNCHANGED <<owner, job, queue, seen>>
      PROVE  ComesLater
  <2>1. <<event>> \in Seq(Events) /\ events' = events \o <<event>>
    BY <1>1, <1>3
  <2> QED
    BY <1>3, <2>1 DEF ComesLater
<1> DEFINE working == [rt EXCEPT !.turn = TRUE]
<1> DEFINE asks == [rt EXCEPT !.asking = TRUE]
<1> DEFINE answered == [rt EXCEPT !.asking = FALSE]
<1> DEFINE attached == [rt EXCEPT !.attached = TRUE]
<1> DEFINE readable == [rt EXCEPT !.readable = TRUE]
<1> DEFINE over == [rt EXCEPT !.turn = FALSE, !.asking = FALSE]
<1>4. /\ working \in RuntimeStates /\ asks \in RuntimeStates /\ answered \in RuntimeStates
      /\ attached \in RuntimeStates /\ readable \in RuntimeStates /\ over \in RuntimeStates
  BY <1>1 DEF RuntimeStates
<1>5. CASE OwnTurn
  <2>1. Reports(working, <<>>) /\ UNCHANGED <<owner, job, queue>>
    BY <1>5 DEF OwnTurn
  <2> HIDE DEF working
  <2> QED BY <1>1, <1>2, <1>4, <2>1
<1>6. CASE Ask
  <2>1. Reports(asks, <<>>) /\ UNCHANGED <<owner, job, queue>>
    BY <1>6 DEF Ask
  <2> HIDE DEF asks
  <2> QED BY <1>1, <1>2, <1>4, <2>1
<1>7. CASE Answered
  <2>1. Reports(answered, <<>>) /\ UNCHANGED <<owner, job, queue>>
    BY <1>7 DEF Answered
  <2> HIDE DEF answered
  <2> QED BY <1>1, <1>2, <1>4, <2>1
<1>8. CASE Reattaches
  <2>1. Reports(attached, <<>>) /\ UNCHANGED <<owner, job, queue>>
    BY <1>8 DEF Reattaches
  <2> HIDE DEF attached
  <2> QED BY <1>1, <1>2, <1>4, <2>1
<1>9. CASE StatusReport
  <2>1. Reports(readable, <<>>) /\ UNCHANGED <<owner, job, queue>>
    BY <1>9 DEF StatusReport
  <2> HIDE DEF readable
  <2> QED BY <1>1, <1>2, <1>4, <2>1
<1>10. ASSUME NEW outcome \in TurnEnds, EndTurn(outcome)
       PROVE  ComesLater
  <2> DEFINE ended == <<[kind |-> "ended", outcome |-> outcome]>>
  <2>1. Reports(over, ended) /\ UNCHANGED <<owner, job, queue>>
    BY <1>10 DEF EndTurn, TurnOver
  <2>2. ended \in Seq(Events)
    BY TurnsAssumption DEF Events
  <2> HIDE DEF over, ended
  <2> QED BY <1>2, <1>4, <2>1, <2>2
<1>11. CASE SessionLeaves
  <2>1. PICK kind \in {"removed", "finished"} : events' = Append(events, [kind |-> kind])
    BY <1>11 DEF SessionLeaves
  <2>2. [kind |-> kind] \in Events /\ UNCHANGED <<owner, job, queue, seen>>
    BY <1>11 DEF SessionLeaves, Events
  <2> QED BY <1>3, <2>1, <2>2
<1>12. CASE StatusFault
  <2> DEFINE event == [kind |-> "fault"]
  <2>1. event \in Events /\ events' = Append(events, event) /\ UNCHANGED <<owner, job, queue, seen>>
    BY <1>12 DEF StatusFault, Events
  <2> HIDE DEF event
  <2> QED BY <1>3, <2>1
<1> QED
  BY <1>5, <1>6, <1>7, <1>8, <1>9, <1>10, <1>11, <1>12 DEF ReportsOnly

\* What leaves the queue as it is keeps what is marked.
LEMMA SameQueueKeeps ==
    ASSUME queue' = queue
    PROVE  KeepsMarked
BY DEF KeepsMarked

\* What the runtime reports on its own, and what it takes.
LEMMA ReportsResolvable ==
    ASSUME Inv, Resolvable, ComesLater
    PROVE  Resolvable'
<1>1. /\ active' = active /\ unresolved' = unresolved /\ job' = job /\ queue' = queue /\ seen' = seen
      /\ events \in Seq(Events) /\ OwnerIsAhead /\ NothingSteers
      /\ \/ events' = events
         \/ \E others \in Seq(Events) : events' = events \o others
  BY DEF ComesLater, owner, Inv, TypeOK, Resolvable
<1>2. ShowsNothingNew
  BY <1>1, ReportsShowNothing
<1>3. KeepsMarked
  BY <1>1, SameQueueKeeps
<1>4. NothingSteers' /\ \A b : Stays(b)
  BY <1>1 DEF NothingSteers, Steering, Stays
<1> QED
  BY <1>1, <1>2, <1>3, <1>4, ResolvableInCalm

\* A message that the runtime takes is shown later.
LEMMA TakeResolvable ==
    ASSUME Inv, Resolvable, NEW request \in rt.open, Take(request)
    PROVE  Resolvable'
<1> DEFINE r == [rt EXCEPT !.turn = TRUE, !.open = @ \ {request}]
<1> DEFINE shown == [kind |-> "user", msg |-> request.msg]
<1>1. TypeOK /\ Reports(r, <<shown>>) /\ UNCHANGED <<owner, job, queue>>
  BY DEF Take, Inv
<1>2. rt \in RuntimeStates /\ request \in Requests
  BY <1>1 DEF TypeOK, RuntimeStates
<1>3. r \in RuntimeStates /\ shown \in Events /\ <<shown>> \in Seq(Events)
  <2>1. r \in RuntimeStates
    BY <1>2 DEF RuntimeStates
  <2>2. request.msg \in Messages
    BY <1>2 DEF Requests
  <2>3. shown \in Events
    BY <2>2 DEF Events
  <2> QED
    BY <2>1, <2>3
<1> HIDE DEF r, shown
<1>4. ComesLater
  BY <1>1, <1>3, ReportsComeLater DEF ComesLater
<1> QED
  BY <1>4, ReportsResolvable

\* A stage of an actor whose operation is certain does not matter, but for a drain's.
LEMMA MovesResolvable ==
    ASSUME Inv, Resolvable, NEW a \in Actors \ {"drain"}, OthersStay(a),
           Uncertain' => active' = active /\ active.op # a,
           a = "manage" => job'[a].how # "steer" /\ ~Steering', unresolved' = unresolved,
           KeepsMarked, ShowsNothingNew
    PROVE  Resolvable'
<1>1. Stays("drain")
  BY Names DEF OthersStay
<1>2. NothingSteers'
  <2>1. CASE a = "manage"
    BY <2>1 DEF NothingSteers
  <2>2. CASE a # "manage"
    BY <2>2, Names DEF NothingSteers, Resolvable, OthersStay, Stays, Steering
  <2> QED BY <2>1, <2>2
<1>3. Uncertain' => active' = active /\ Stays(active.op)
  <2>1. Uncertain => active.op \in Actors
    BY Names DEF Resolvable, UncertainIsKept
  <2> QED
    BY <2>1 DEF OthersStay, Uncertain
<1> QED
  BY <1>1, <1>2, <1>3, ResolvableInCalm

\* The owner learns of a message: then it is neither uncertain nor unresolved.
LEMMA OwnerObservesResolvable ==
    ASSUME Inv, Resolvable, OwnerObserves
    PROVE  Resolvable'
<1>1. /\ events # <<>> /\ Head(events).kind = "user" /\ ~seen /\ seen' = TRUE
      /\ UNCHANGED <<job, queue, events>>
  BY DEF OwnerObserves
<1>2. PICK m \in Messages : m = Head(events).msg
  BY <1>1, FirstEventFacts
<1>3. \/ m \in Unnamed /\ active' = active /\ unresolved' = unresolved
      \/ /\ active.op \notin {None, "manage", "stop"} /\ job[active.op].msg = m
         /\ active' = [active EXCEPT !.native = "accepted"] /\ unresolved' = unresolved
      \/ /\ ~(active.op \notin {None, "manage", "stop"} /\ job[active.op].msg = m)
         /\ unresolved' = StillUnresolved(m) /\ active' = active
  BY <1>2 DEF OwnerObserves
<1>4. \A n \in Messages : Showing(n)' => n = m
  BY <1>1, <1>2 DEF Showing
<1>5. NothingSteers' /\ OwnerIsAhead' /\ DrainIsMarked'
  BY <1>1 DEF Resolvable, NothingSteers, Steering, OwnerIsAhead, DrainIsMarked
<1>6. UnresolvedIsUnknown'
  <2>1. CASE unresolved' = unresolved /\ active.op \notin {None, "manage", "stop"}
    <3>1. unresolved' = None
      BY <2>1 DEF Inv, Lanes
    <3> QED
      BY <3>1 DEF UnresolvedIsUnknown
  <2>2. CASE unresolved' = StillUnresolved(m)
    <3>1. unresolved' # None => unresolved' = unresolved /\ unresolved # m
      BY <2>2 DEF StillUnresolved
    <3> QED
      BY <1>1, <1>4, <3>1 DEF UnresolvedIsUnknown, Resolvable
  <2>3. CASE m \in Unnamed /\ unresolved' = unresolved
    BY <1>1, <1>4, <2>3 DEF UnresolvedIsUnknown, Resolvable
  <2> QED
    BY <1>3, <2>1, <2>2, <2>3
<1>7. ASSUME Uncertain' PROVE UncertainIsKept(active.op)'
  <2> DEFINE a == active.op
  <2>0. active \in [op : Actors \cup {None}, native : {"not_issued", "uncertain", "accepted", "refused"}]
    BY DEF Inv, TypeOK
  <2>1. /\ active' = active
        /\ m \in Unnamed \/ ~(a \notin {None, "manage", "stop"} /\ job[a].msg = m)
    BY <1>3, <1>7, <2>0 DEF Uncertain
  <2>2. UncertainIsKept(a)
    BY <1>7, <2>1 DEF Uncertain, Resolvable
  <2>3. a \in Messages \cup {"drain"} /\ job[a].at \in {"issued", "settling"}
    BY <2>2 DEF UncertainIsKept
  <2>4. job[a].msg \in Messages /\ (job[a].msg \notin Unnamed => job[a].msg # m)
    BY <2>1, <2>3, CarriedMessages, Names
  <2>5. job[a].msg \notin Unnamed => ~Showing(job[a].msg)'
    BY <1>1, <1>4, <2>1, <2>4 DEF Showing
  <2>6. job[a].msg \notin Unnamed => EntryIsKept(a)'
    BY <1>1, <2>1, <2>2, <2>5 DEF UncertainIsKept, EntryIsKept
  <2> QED
    BY <1>1, <2>1, <2>2, <2>6 DEF UncertainIsKept
<1> QED
  BY <1>5, <1>6, <1>7 DEF Resolvable

\* A queue action or a Stop that goes on without the queue.
LEMMA QuietMovesResolvable ==
    ASSUME Inv, Resolvable, ResumeChecks \/ ManageFails \/ StopTurn \/ StopFails
    PROVE  Resolvable'
<1>1. PICK a \in {"manage", "stop"}, s \in {"settling", "committing"} :
         /\ AtHead(a) /\ GoTo(a, s) /\ UNCHANGED <<owner, queue>>
         /\ (UNCHANGED live \/ TurnOver("interrupted") \/ UNCHANGED <<rt, events, seen>>)
  <2>1. CASE ResumeChecks
    BY <2>1 DEF ResumeChecks, Pressed
  <2>2. CASE ManageFails
    BY <2>2 DEF ManageFails
  <2>3. CASE StopTurn
    BY <2>3 DEF StopTurn
  <2>4. CASE StopFails
    BY <2>4 DEF StopFails
  <2> QED
    BY <2>1, <2>2, <2>3, <2>4
<1>2. a \in Actors \ {"drain"} /\ s \in Stages /\ TypeOK /\ events \in Seq(Events) /\ rt \in RuntimeStates
  BY <1>1, Names DEF Stages, Inv, TypeOK, RuntimeStates
<1>3. OthersStay(a) /\ job'[a].at = s /\ job'[a].how = job[a].how
  BY <1>1, <1>2, MovedTypes DEF GoTo, OthersStay, Stays
<1>4. ~Uncertain /\ ~Uncertain'
  BY <1>1, <1>2, CertainAtHead DEF Uncertain, owner
<1>5. KeepsMarked /\ unresolved' = unresolved
  BY <1>1, SameQueueKeeps DEF owner
<1>6. ShowsNothingNew
  <2>1. CASE seen' = seen /\ events' = events
    BY <1>2, <2>1, ReportsShowNothing DEF Resolvable
  <2>2. CASE TurnOver("interrupted")
    <3> DEFINE over == [rt EXCEPT !.turn = FALSE, !.asking = FALSE]
    <3> DEFINE ended == <<[kind |-> "ended", outcome |-> "interrupted"]>>
    <3>1. over \in RuntimeStates
      BY <1>2 DEF RuntimeStates
    <3>2. ended \in Seq(Events)
      BY DEF Events, AllTurnEnds
    <3>3. Reports(over, ended)
      BY <2>2 DEF TurnOver
    <3> HIDE DEF over, ended
    <3> QED
      BY <1>2, <3>1, <3>2, <3>3, ReportsComeLater, ReportsShowNothing DEF Resolvable
  <2> QED
    BY <1>1, <2>1, <2>2 DEF live
<1>7. a = "manage" => job'[a].how # "steer" /\ ~Steering'
  BY <1>3 DEF Resolvable, NothingSteers, Steering
<1> QED
  BY <1>2, <1>3, <1>4, <1>5, <1>6, <1>7, MovesResolvable

\* An operation that leaves is remembered by the entry that keeps its message.
LEMMA SettleResolvable ==
    ASSUME Inv, Resolvable, NEW a \in Actors, Settle(a)
    PROVE  Resolvable'
<1>1. /\ AtHead(a) /\ job[a].at = "settling" /\ a # "drain" /\ Leave(a)
      /\ job' = [job EXCEPT ![a] = [Idle EXCEPT !.at = IF a \in Messages THEN "done" ELSE "idle"]]
      /\ queue' = queue /\ events' = events /\ seen' = seen
  BY DEF Settle, live
<1>2. job \in [Actors -> Jobs] /\ events \in Seq(Events)
  BY DEF Inv, TypeOK
<1>3. OthersStay(a) /\ job'[a] = [Idle EXCEPT !.at = IF a \in Messages THEN "done" ELSE "idle"]
  BY <1>1, <1>2 DEF OthersStay, Stays
<1>4. job'[a].how = None /\ job'[a].at \in {"done", "idle"}
  BY <1>3 DEF Idle
<1>5. NothingSteers'
  <2>1. CASE a = "manage"
    BY <1>4, <2>1 DEF NothingSteers, Steering, None
  <2>2. CASE a # "manage"
    BY <1>3, <2>2, Names DEF NothingSteers, Resolvable, OthersStay, Stays, Steering
  <2> QED BY <2>1, <2>2
<1>6. KeepsMarked /\ ShowsNothingNew
  BY <1>1, <1>2, SameQueueKeeps, ReportsShowNothing DEF Resolvable
<1>7. DrainIsMarked'
  BY <1>1, <1>3, Names DEF OthersStay, Stays, DrainIsMarked, Resolvable
<1>8. ~Uncertain'
  BY <1>1 DEF Leave, NoOperation, Uncertain
<1>9. UnresolvedIsUnknown'
  <2>1. CASE active.op = a /\ Uncertain
    <3>1. UncertainIsKept(a) /\ a \in Messages /\ job[a].msg = a
      BY <1>1, <2>1, CarriedMessages DEF Resolvable, UncertainIsKept
    <3>2. unresolved' = a
      BY <1>1, <2>1, <3>1, Names DEF Leave, NameOf, Uncertain
    <3>3. a \notin Unnamed => Has(queue, a, "acceptance_unknown") /\ ~Showing(a)
      BY <1>1, <3>1, Names DEF UncertainIsKept, EntryIsKept
    <3> QED
      BY <1>1, <1>6, <3>1, <3>2, <3>3 DEF UnresolvedIsUnknown, ShowsNothingNew
  <2>2. CASE ~(active.op = a /\ Uncertain)
    <3>1. unresolved' = unresolved
      BY <1>1, <2>2 DEF Leave, Uncertain
    <3> QED
      BY <1>1, <1>6, <3>1 DEF UnresolvedIsUnknown, ShowsNothingNew, Resolvable
  <2> QED BY <2>1, <2>2
<1> QED
  BY <1>5, <1>6, <1>7, <1>8, <1>9 DEF Resolvable, ShowsNothingNew

\* The head goes on with a change of one entry that was not marked.
LEMMA EntryResolvable ==
    ASSUME Inv, Resolvable, NEW a \in Actors \ {"drain"}, OthersStay(a),
           Uncertain' => active' = active /\ active.op # a,
           a = "manage" => job'[a].how # "steer" /\ ~Steering', unresolved' = unresolved,
           NEW m \in Messages, Others(queue, queue', m),
           ~Has(queue, m, "sending") /\ ~Has(queue, m, "acceptance_unknown"),
           events' = events, seen' = seen
    PROVE  Resolvable'
<1>1. KeepsMarked
  BY DEF KeepsMarked, Others, EntryStates
<1>2. ShowsNothingNew
  BY ReportsShowNothing DEF Resolvable, Inv, TypeOK
<1> QED
  BY <1>1, <1>2, MovesResolvable

\* The queue has no entry of a message whose submission is under way.
LEMMA NotYetQueued ==
    ASSUME Inv, NEW m \in Messages, job[m].at \notin Returned
    PROVE  ~InQueue(queue, m) /\ \A s : ~Has(queue, m, s)
BY DEF Inv, QueueFits, InQueue, Has

\* An operation that is admitted or refused has issued nothing.
LEMMA BeginResolvable ==
    ASSUME Inv, Resolvable, NEW a \in Actors, Begin(a)
    PROVE  Resolvable'
<1>1. /\ AtHead(a) /\ job[a].at = "waiting" /\ UNCHANGED <<unresolved, queue, live>> /\ TypeOK
      /\ \/ active' = [op |-> a, native |-> "not_issued"] /\ GoTo(a, FirstStage(a))
         \/ active' = active /\ Failed(a)
  BY DEF Begin, Inv
<1>2. ~Uncertain /\ ~Uncertain'
  BY <1>1, CertainAtHead DEF Uncertain
<1>3. FirstStage(a) \in Stages
  BY DEF FirstStage, Stages
<1>4. OthersStay(a) /\ job'[a].msg = job[a].msg /\ job'[a].how = job[a].how
  <2>1. CASE GoTo(a, FirstStage(a))
    BY <1>1, <1>3, <2>1, MovedTypes DEF GoTo, OthersStay, Stays
  <2>2. CASE Failed(a)
    BY <1>1, <2>2, FailedTypes DEF OthersStay, Stays
  <2> QED BY <1>1, <2>1, <2>2
<1>5. job'[a].at = "settling" \/ job'[a].at = FirstStage(a)
  <2>1. CASE GoTo(a, FirstStage(a))
    BY <1>1, <1>3, <2>1, MovedTypes DEF GoTo
  <2>2. CASE Failed(a)
    BY <1>1, <2>2, FailedTypes
  <2> QED BY <1>1, <2>1, <2>2
<1>6. KeepsMarked /\ ShowsNothingNew
  BY <1>1, SameQueueKeeps, ReportsShowNothing DEF live, Resolvable, TypeOK
<1>7. CASE a = "drain"
  <2>1. DrainIsMarked'
    BY <1>1, <1>4, <1>7 DEF DrainIsMarked, Pending, Resolvable
  <2>2. NothingSteers'
    BY <1>4, <1>7, Names DEF NothingSteers, Resolvable, OthersStay, Stays, Steering
  <2> QED
    BY <1>1, <1>2, <1>6, <2>1, <2>2, ResolvableInCalm
<1>8. CASE a # "drain"
  <2>1. a = "manage" => job'[a].how # "steer" /\ ~Steering'
    BY <1>4, <1>5 DEF FirstStage, Resolvable, NothingSteers, Steering
  <2> QED
    BY <1>1, <1>2, <1>4, <1>6, <1>8, <2>1, MovesResolvable
<1> QED
  BY <1>7, <1>8

\* A submission that is prepared enters the queue last or not at all.
LEMMA PreparedResolvable ==
    ASSUME Inv, Resolvable, NEW m \in Messages, Prepared(m)
    PROVE  Resolvable'
<1>1. /\ m \in Actors \ {"drain"} /\ m # "manage" /\ AtHead(m) /\ job[m].at = "preparing"
      /\ UNCHANGED <<owner, live>> /\ TypeOK /\ GoodQueue(queue)
  BY Names DEF Prepared, Inv, QueueFits
<1>2. ~InQueue(queue, m) /\ \A s : ~Has(queue, m, s)
  BY <1>1, NotYetQueued DEF Returned
<1>3. ~Uncertain'
  BY <1>1, CertainAtHead DEF Uncertain, owner
<1>4. OthersStay(m)
  <2>1. \/ Failed(m) \/ GoTo(m, "routing") \/ GoTo(m, "settling")
        \/ job' = [job EXCEPT ![m].at = "sending", ![m].ended = FALSE]
    BY DEF Prepared
  <2>2. CASE Failed(m)
    BY <1>1, <2>2, FailedTypes DEF OthersStay, Stays
  <2>3. ASSUME NEW s \in {"routing", "settling"}, GoTo(m, s) PROVE OthersStay(m)
    BY <1>1, <2>3, MovedTypes DEF GoTo, OthersStay, Stays, Stages
  <2>4. CASE job' = [job EXCEPT ![m].at = "sending", ![m].ended = FALSE]
    BY <1>1, <2>4 DEF OthersStay, Stays, TypeOK
  <2> QED BY <2>1, <2>2, <2>3, <2>4
<1>5. Others(queue, queue', m)
  <2>1. \/ queue' = queue \/ queue' = EnqueueLast(queue, m)
        \/ queue' = [queue EXCEPT !.sending = TRUE]
    BY DEF Prepared
  <2>2. CASE queue' = queue
    BY <2>2 DEF Others
  <2>3. CASE queue' = EnqueueLast(queue, m)
    BY <1>1, <1>2, <2>3, EnqueueLastFacts
  <2>4. CASE queue' = [queue EXCEPT !.sending = TRUE]
    BY <1>1, <2>4, SendingFacts DEF Alike, Others
  <2> QED BY <2>1, <2>2, <2>3, <2>4
<1> QED
  BY <1>1, <1>2, <1>3, <1>4, <1>5, EntryResolvable DEF owner, live

\* Only a composer steer is routed, and the queue stays.
LEMMA RouteResolvable ==
    ASSUME Inv, Resolvable, NEW a \in Actors \ {"stop"}, Route(a)
    PROVE  Resolvable'
<1>1. AtHead(a) /\ job[a].at = "routing" /\ UNCHANGED <<owner, live>> /\ TypeOK
  BY DEF Route, Inv
<1>2. a \in Messages /\ a \in Actors \ {"drain"} /\ a # "manage"
  BY <1>1, Names DEF Resolvable, NothingSteers, Steering, Inv, JobsFit, DrainFits
<1>3. ~Uncertain'
  BY <1>1, CertainAtHead DEF Uncertain, owner
<1>4. /\ queue' = queue
      /\ \/ Failed(a)
         \/ job' = [job EXCEPT ![a].at = "sending",
                               ![a].via = IF host.working THEN "steer" ELSE "new_turn"]
  BY <1>2 DEF Route
<1>5. OthersStay(a)
  <2>1. CASE Failed(a)
    BY <1>1, <2>1, FailedTypes DEF OthersStay, Stays
  <2>2. CASE job' = [job EXCEPT ![a].at = "sending",
                                ![a].via = IF host.working THEN "steer" ELSE "new_turn"]
    BY <1>1, <2>2 DEF OthersStay, Stays, TypeOK
  <2> QED BY <1>4, <2>1, <2>2
<1>6. KeepsMarked /\ ShowsNothingNew
  <2>1. seen' = seen /\ events' = events /\ OwnerIsAhead /\ events \in Seq(Events)
    BY <1>1 DEF live, Resolvable, TypeOK
  <2>2. KeepsMarked
    BY <1>4, SameQueueKeeps
  <2>3. ShowsNothingNew
    BY <2>1, ReportsShowNothing
  <2> QED
    BY <2>2, <2>3
<1> QED
  BY <1>1, <1>2, <1>3, <1>5, <1>6, MovesResolvable DEF owner

\* A request that is issued is uncertain, and nothing has shown its message yet.
LEMMA IssueResolvable ==
    ASSUME Inv, Resolvable, NEW a \in Actors \ {"stop"}, Issue(a)
    PROVE  Resolvable'
<1>1. /\ AtHead(a) /\ job[a].at = "sending" /\ GoTo(a, "issued") /\ TypeOK
      /\ active' = [active EXCEPT !.native = "uncertain"]
      /\ UNCHANGED <<unresolved, queue, events, seen>>
  BY DEF Issue, Inv
<1>2. a \in Messages \cup {"drain"} /\ a # "manage" /\ job[a].msg \in Messages
  BY <1>1, CarriedMessages, Names DEF Resolvable, NothingSteers, Steering
<1>3. OthersStay(a) /\ job'[a].at = "issued" /\ job'[a].msg = job[a].msg
  BY <1>1, MovedTypes DEF GoTo, OthersStay, Stays, Stages
<1>4. active.op = a
  BY <1>1, HeadIsAlone DEF Running, Inv
<1>5. active'.op = a
  BY <1>1, <1>4 DEF TypeOK
<1>6. ~Showing(job[a].msg)
  <2>1. ~Taken(job[a].msg)
    BY <1>1, NotOutWhenSending
  <2>2. Showing(job[a].msg) => Taken(job[a].msg)
    BY FirstEventFacts DEF Showing
  <2> QED BY <2>1, <2>2
<1>7. a = "drain" => Has(queue, job[a].msg, "sending")
  BY <1>1 DEF Resolvable, DrainIsMarked
<1>8. UncertainIsKept(a)'
  BY <1>1, <1>2, <1>3, <1>6, <1>7 DEF UncertainIsKept, EntryIsKept, Showing
<1>9. NothingSteers' /\ OwnerIsAhead' /\ UnresolvedIsUnknown'
  BY <1>1, <1>2, <1>3, Names DEF NothingSteers, Resolvable, OthersStay, Stays, Steering,
     OwnerIsAhead, UnresolvedIsUnknown, Showing
<1>10. DrainIsMarked'
  BY <1>1, <1>2, <1>3, Names DEF DrainIsMarked, Resolvable, OthersStay, Stays
<1> QED
  BY <1>5, <1>8, <1>9, <1>10 DEF Resolvable

\* A send that ends moves its actor alone.
LEMMA AnswerMoves ==
    ASSUME TypeOK, NEW a \in Actors, NEW answer, Answer(a, answer)
    PROVE  /\ OthersStay(a) /\ job'[a].at = "settling" /\ job'[a].msg = job[a].msg
           /\ job'[a].how = job[a].how
           /\ job'[a].outcome = IF a = "drain" THEN answer ELSE None
<1>1. job \in [Actors -> Jobs]
  BY DEF TypeOK
<1>2. job' = [job EXCEPT ![a].at = "settling",
                         ![a].outcome = IF a = "drain" THEN answer ELSE None]
  BY DEF Answer
<1>3. \A b \in Actors \ {a} : job'[b] = job[b]
  BY <1>1, <1>2
<1>4. job'[a] = [job[a] EXCEPT !.at = "settling", !.outcome = IF a = "drain" THEN answer ELSE None]
  BY <1>1, <1>2
<1>5. job[a] \in Jobs
  BY <1>1
<1>6. /\ job'[a].at = "settling" /\ job'[a].msg = job[a].msg /\ job'[a].how = job[a].how
      /\ job'[a].outcome = IF a = "drain" THEN answer ELSE None
  BY <1>4, <1>5 DEF Jobs
<1> QED
  BY <1>3, <1>6 DEF OthersStay, Stays

\* A submission that is answered leaves the other entries, and is kept while unknown.
LEMMA SubmissionAnswered ==
    ASSUME Inv, NEW m \in Messages, NEW answer \in AllOutcomes \cup {"busy"},
           job[m].at \in {"sending", "issued"}, Answer(m, answer)
    PROVE  /\ Others(queue, queue', m)
           /\ Classified(m, answer) = "unknown" => Has(queue', m, "acceptance_unknown")
<1> DEFINE c == Classified(m, answer)
<1>1. TypeOK /\ GoodQueue(queue) /\ m \notin {"drain", "manage"} /\ ~InQueue(queue, m)
  BY Names, NotYetQueued DEF Inv, QueueFits, Returned
<1>2. c \in Results
  BY DEF Classified, Results, AllOutcomes
<1>3. AfterNewTurn(m, c) \/ AfterSteer(m, c)
  BY <1>1 DEF Answer
<1> HIDE DEF c
<1>4. EntersQueue(queue', m, c, TRUE) \/ EntersQueue(queue', m, c, FALSE)
  BY <1>1, <1>2, <1>3, AfterNewTurnFacts, AfterSteerFacts
<1>5. Others(queue, queue', m) /\ GoodQueue(queue')
  BY <1>4 DEF EntersQueue
<1>6. ASSUME c = "unknown" PROVE Has(queue', m, "acceptance_unknown")
  <2>1. InQueue(queue', m) /\ \A s \in EntryStates : Has(queue', m, s) => s = "acceptance_unknown"
    BY <1>4, <1>6 DEF EntersQueue
  <2> QED
    BY <1>5, <2>1, HasIsState
<1> QED
  BY <1>5, <1>6 DEF c

\* A send that fails before its request was never uncertain.
LEMMA SendResolvable ==
    ASSUME Inv, Resolvable, NEW a \in Actors \ {"stop"}, SendFails(a) \/ SendBusy(a)
    PROVE  Resolvable'
<1>1. PICK answer \in {"refused", "busy"} : Answer(a, answer)
  BY DEF SendFails, SendBusy
<1>2. AtHead(a) /\ job[a].at = "sending" /\ UNCHANGED <<owner, live>> /\ TypeOK
  BY DEF SendFails, SendBusy, Inv
<1>3. a \in Messages \cup {"drain"} /\ a # "manage" /\ answer \in AllOutcomes \cup {"busy"}
  BY <1>1, <1>2, Names DEF Resolvable, NothingSteers, Steering, AllOutcomes
<1>4. ~Uncertain'
  BY <1>2, CertainAtHead DEF Uncertain, owner
<1>5. OthersStay(a) /\ job'[a].at = "settling"
  BY <1>1, <1>2, AnswerMoves
<1>6. seen' = seen /\ events' = events /\ OwnerIsAhead /\ events \in Seq(Events) /\ unresolved' = unresolved
  BY <1>2 DEF live, owner, Resolvable, TypeOK
<1>7. CASE a = "drain"
  <2>1. KeepsMarked /\ ShowsNothingNew
    BY <1>1, <1>6, <1>7, SameQueueKeeps, ReportsShowNothing DEF Answer
  <2>2. DrainIsMarked'
    BY <1>5, <1>7 DEF DrainIsMarked, Pending
  <2>3. NothingSteers'
    BY <1>5, <1>7, Names DEF NothingSteers, Resolvable, OthersStay, Stays, Steering
  <2> QED
    BY <1>4, <1>6, <2>1, <2>2, <2>3, ResolvableInCalm
<1>8. CASE a # "drain"
  <2>1. a \in Messages /\ a \in Actors \ {"drain"}
    BY <1>3, <1>8
  <2>2. Others(queue, queue', a) /\ \A s : ~Has(queue, a, s)
    BY <1>1, <1>2, <1>3, <2>1, SubmissionAnswered, NotYetQueued DEF Returned
  <2> QED
    BY <1>3, <1>4, <1>5, <1>6, <2>1, <2>2, EntryResolvable
<1> QED
  BY <1>7, <1>8

\* An answer makes the outcome certain, or its submission is kept as unknown.
LEMMA ReplyResolvable ==
    ASSUME Inv, Resolvable, NEW a \in Actors, NEW answer \in Outcomes, Reply(a, answer)
    PROVE  Resolvable'
<1>1. /\ AtHead(a) /\ job[a].at = "issued" /\ a # "stop" /\ Answer(a, answer) /\ TypeOK
      /\ active' = [active EXCEPT !.native = NativeAfter(answer)]
      /\ UNCHANGED <<unresolved, events, seen>> /\ answer \in AllOutcomes
  BY AnswersAssumption DEF Reply, Inv
<1>2. a \in Messages \cup {"drain"} /\ a # "manage" /\ active.op = a
  BY <1>1, HeadIsAlone, Names DEF Resolvable, NothingSteers, Steering, Running, Inv
<1>3. OthersStay(a) /\ job'[a].at = "settling" /\ job'[a].msg = job[a].msg
      /\ job'[a].outcome = IF a = "drain" THEN answer ELSE None
  BY <1>1, AnswerMoves
<1>4. active \in [op : Actors \cup {None}, native : {"not_issued", "uncertain", "accepted", "refused"}]
  BY <1>1 DEF TypeOK
<1>5. active'.native = NativeAfter(answer) /\ active'.op = a
  BY <1>1, <1>2, <1>4
<1>6. Uncertain' => answer \in {"unknown", "unclear"} /\ Uncertain
  BY <1>1, <1>5 DEF Uncertain, NativeAfter, AllOutcomes
<1>7. KeepsMarked
  <2>1. CASE a = "drain"
    BY <1>1, <2>1, SameQueueKeeps DEF Answer
  <2>2. CASE a # "drain"
    <3>1. Others(queue, queue', a) /\ a \in Messages /\ \A s : ~Has(queue, a, s)
      BY <1>1, <1>2, <2>2, SubmissionAnswered, NotYetQueued DEF Returned
    <3> QED
      BY <3>1 DEF KeepsMarked, Others, EntryStates
  <2> QED BY <2>1, <2>2
<1>8. ShowsNothingNew
  BY <1>1, ReportsShowNothing DEF Resolvable, TypeOK
<1>9. NothingSteers'
  BY <1>2, <1>3, Names DEF NothingSteers, Resolvable, OthersStay, Stays, Steering
<1>10. DrainIsMarked'
  <2>1. CASE a = "drain"
    BY <1>3, <2>1 DEF DrainIsMarked, Pending
  <2>2. CASE a # "drain"
    <3>1. Stays("drain")
      BY <1>3, <2>2, Names DEF OthersStay
    <3> QED
      BY <1>7, <3>1, CarriedMessages DEF Stays, Resolvable, DrainIsMarked, Pending, KeepsMarked
  <2> QED BY <2>1, <2>2
<1>11. UnresolvedIsUnknown'
  BY <1>1, <1>7, <1>8 DEF UnresolvedIsUnknown, Resolvable, KeepsMarked, ShowsNothingNew
<1>12. ASSUME Uncertain' PROVE UncertainIsKept(a)'
  <2>1. UncertainIsKept(a) /\ answer \in {"unknown", "unclear"} /\ active.native = "uncertain"
    BY <1>2, <1>6, <1>12 DEF Resolvable, Uncertain
  <2>2. job[a].msg \in Messages
    BY <1>1, <1>2, CarriedMessages
  <2>3. job[a].msg \notin Unnamed => ~Showing(job[a].msg)'
    BY <1>3, <1>8, <2>1, <2>2 DEF UncertainIsKept, EntryIsKept, ShowsNothingNew, Showing
  <2>4. a = "drain" /\ job[a].msg \notin Unnamed => Has(queue', job[a].msg, "sending")
    BY <1>7, <2>1, <2>2 DEF UncertainIsKept, EntryIsKept, KeepsMarked
  <2>5. a # "drain" => Has(queue', a, "acceptance_unknown")
    <3>1. Classified(a, answer) = "unknown"
      BY <1>2, <2>1 DEF Classified, ShownMeanwhile
    <3> QED
      BY <1>1, <1>2, <3>1, SubmissionAnswered
  <2> QED
    BY <1>2, <1>3, <2>1, <2>3, <2>4, <2>5 DEF UncertainIsKept, EntryIsKept
<1> QED
  BY <1>5, <1>8, <1>9, <1>10, <1>11, <1>12 DEF Resolvable, ShowsNothingNew

\* What joins the lane moves alone.
LEMMA JoinMoves ==
    ASSUME TypeOK, NEW a \in Actors, NEW m, NEW how, Join(a, m, how)
    PROVE  OthersStay(a) /\ job'[a].at = "waiting" /\ job'[a].msg = m /\ job'[a].how = how
<1>1. job \in [Actors -> Jobs]
  BY DEF TypeOK
<1>2. job' = [job EXCEPT ![a] = [Idle EXCEPT !.at = "waiting", !.gen = gen, !.msg = m, !.how = how]]
  BY DEF Join
<1>3. job'[a] = [Idle EXCEPT !.at = "waiting", !.gen = gen, !.msg = m, !.how = how]
      /\ \A b \in Actors \ {a} : job'[b] = job[b]
  BY <1>1, <1>2
<1>4. job'[a].at = "waiting" /\ job'[a].msg = m /\ job'[a].how = how
  BY <1>3 DEF Idle
<1> QED
  BY <1>3, <1>4 DEF OthersStay, Stays

\* Who joins is no uncertain operation.
LEMMA JoinsResolvable ==
    ASSUME Inv, Resolvable, NEW a \in Actors \ {"drain"}, NEW m, NEW how, Join(a, m, how),
           job[a].at \in Resting, a = "manage" => how # "steer",
           UNCHANGED <<active, unresolved, queue, live>> \/
              (UNCHANGED <<active, unresolved, live>> /\ Alike(queue, queue'))
    PROVE  Resolvable'
<1>1. TypeOK /\ active' = active /\ unresolved' = unresolved /\ events' = events /\ seen' = seen
      /\ events \in Seq(Events) /\ OwnerIsAhead
  BY DEF Inv, TypeOK, live, Resolvable
<1>2. OthersStay(a) /\ job'[a].at = "waiting" /\ job'[a].how = how
  BY <1>1, JoinMoves
<1>3. Uncertain => active.op # a
  BY RestingIsCertain DEF Resting
<1>4. KeepsMarked
  BY SameQueueKeeps DEF KeepsMarked, Alike, EntryStates
<1>5. ShowsNothingNew
  BY <1>1, ReportsShowNothing
<1>6. a = "manage" => job'[a].how # "steer" /\ ~Steering'
  BY <1>2 DEF Steering
<1>7. Uncertain' => active' = active /\ active.op # a
  BY <1>1, <1>3 DEF Uncertain
<1> QED
  BY <1>1, <1>2, <1>4, <1>5, <1>6, <1>7, MovesResolvable

\* What the user starts joins the lane or cancels.
LEMMA UserResolvable ==
    ASSUME Inv, Resolvable, "steer" \notin Actions, User
    PROVE  Resolvable'
<1>1. ASSUME NEW m \in Messages, NEW mode \in Modes, Submit(m, mode)
      PROVE  Resolvable'
  <2>1. /\ Join(m, m, mode) /\ status[m] = "unsent"
        /\ UNCHANGED <<active, unresolved, queue, live>>
    BY <1>1 DEF Submit
  <2>2. m \in Actors \ {"drain"} /\ m # "manage" /\ job[m].at \in Resting
    BY <2>1, Names DEF Inv, JobsFit, SubmissionFits, Resting
  <2> QED
    BY <2>1, <2>2, JoinsResolvable
<1>2. ASSUME NEW m \in Messages, NEW how \in Actions, Manage(how, m)
      PROVE  Resolvable'
  <2>1. /\ Join("manage", m, how) /\ job["manage"].at \in Resting /\ how # "steer"
        /\ UNCHANGED <<active, unresolved, queue, live>>
    BY <1>2 DEF Manage, Resting
  <2>2. "manage" \in Actors \ {"drain"}
    BY Names
  <2> QED
    BY <2>1, <2>2, JoinsResolvable
<1>3. CASE Stop
  <2>1. /\ GoTo("stop", "cancelled") /\ job["stop"].at = "idle" /\ TypeOK
        /\ UNCHANGED <<active, unresolved, queue, live>>
    BY <1>3 DEF Stop, Inv
  <2>2. "stop" \in Actors \ {"drain"} /\ "stop" # "manage" /\ "cancelled" \in Stages
    BY Names DEF Stages
  <2>3. OthersStay("stop")
    BY <2>1, <2>2, MovedTypes DEF GoTo, OthersStay, Stays
  <2>4. Uncertain' => active' = active /\ active.op # "stop"
    BY <2>1, <2>2, RestingIsCertain DEF Uncertain
  <2>5. KeepsMarked
    BY <2>1, SameQueueKeeps
  <2>6. ShowsNothingNew
    BY <2>1, ReportsShowNothing DEF TypeOK, live, Resolvable
  <2> QED
    BY <2>1, <2>2, <2>3, <2>4, <2>5, <2>6, MovesResolvable
<1>4. CASE Answered
  BY <1>4, ReportsOnlyComeLater, ReportsResolvable DEF ReportsOnly
<1> QED
  BY <1>1, <1>2, <1>3, <1>4 DEF User

\* A Stop pauses the queue and leaves its entries.
LEMMA StopPausesResolvable ==
    ASSUME Inv, Resolvable, StopPauses
    PROVE  Resolvable'
<1>1. /\ job["stop"].at = "cancelled" /\ queue' = PauseQueue(queue, "stopped")
      /\ Join("stop", None, None) /\ UNCHANGED <<active, unresolved, live>> /\ GoodQueue(queue)
  BY DEF StopPauses, Inv, QueueFits
<1>2. "stopped" \in Pauses \ {None}
  BY DEF Pauses, None
<1>3. Alike(queue, queue')
  BY <1>1, <1>2, PauseQueueFacts
<1>4. "stop" \in Actors \ {"drain"} /\ "stop" # "manage" /\ job["stop"].at \in Resting
  BY <1>1, Names DEF Resting
<1> QED
  BY <1>1, <1>3, <1>4, JoinsResolvable

\* A queue action changes an entry that waits.
LEMMA ActionsResolvable ==
    ASSUME Inv, Resolvable, ResumeCommits \/ BeginEdit \/ EndEdit \/ RemoveMessage
    PROVE  Resolvable'
<1>1. /\ AtHead("manage") /\ job["manage"].at \in {"preparing", "committing"} /\ TypeOK /\ GoodQueue(queue)
      /\ GoTo("manage", "settling") /\ UNCHANGED <<owner, live>>
  BY DEF ResumeCommits, BeginEdit, EndEdit, RemoveMessage, Pressed, Inv, QueueFits
<1>2. PICK m \in Messages : m = job["manage"].msg /\ m = Entry
  BY <1>1 DEF Inv, JobsFit, ManageFits, Entry
<1>3. "manage" \in Actors \ {"drain"} /\ "settling" \in Stages
  BY Names DEF Stages
<1>4. OthersStay("manage") /\ job'["manage"].at = "settling" /\ job'["manage"].how = job["manage"].how
  BY <1>1, <1>3, MovedTypes DEF GoTo, OthersStay, Stays
<1>5. ~Uncertain'
  BY <1>1, <1>3, CertainAtHead DEF Uncertain, owner
<1>6. job'["manage"].how # "steer" /\ ~Steering'
  BY <1>4 DEF Resolvable, NothingSteers, Steering
<1>7. unresolved' = unresolved /\ events' = events /\ seen' = seen /\ ShowsNothingNew
  BY <1>1, ReportsShowNothing DEF owner, live, TypeOK, Resolvable
<1>8. KeepsMarked
  <2>1. CASE ResumeCommits
    <3> DEFINE resumed == [queue EXCEPT !.pause = None]
    <3>1. queue' \in {queue, resumed}
      BY <2>1, ReleaseFacts DEF ResumeCommits
    <3>2. resumed.entries = queue.entries
      BY <1>1 DEF GoodQueue, Queues
    <3>3. queue'.entries = queue.entries
      BY <3>1, <3>2
    <3> QED
      BY <3>3 DEF KeepsMarked, Has
  <2>2. CASE BeginEdit \/ EndEdit \/ RemoveMessage
    <3>1. MayChange /\ job["manage"].at = "preparing"
      BY <2>2 DEF BeginEdit, EndEdit, RemoveMessage, Pressed
    <3>2. Waiting(queue, m)
      BY <1>1, <1>2, <3>1, MayChangeFacts
    <3>3. ~Has(queue, m, "sending") /\ ~Has(queue, m, "acceptance_unknown")
      BY <1>1, <3>2, HasIsState DEF Waiting
    <3>4. Others(queue, queue', m)
      <4>1. CASE BeginEdit
        <5>1. queue' = Mark(queue, m, "editing")
          BY <1>2, <4>1 DEF BeginEdit
        <5> QED
          BY <1>1, <5>1, MarkFacts DEF EntryStates
      <4>2. CASE EndEdit
        <5>1. queue' = Mark(queue, m, "queued")
          BY <1>2, <4>2, ReleaseFacts DEF EndEdit
        <5> QED
          BY <1>1, <5>1, MarkFacts DEF EntryStates
      <4>3. CASE RemoveMessage
        <5>1. queue' = RemoveEntry(queue, m)
          BY <1>2, <4>3, ReleaseFacts DEF RemoveMessage
        <5> QED
          BY <1>1, <5>1, RemoveEntryFacts
      <4> QED BY <2>2, <4>1, <4>2, <4>3
    <3> QED
      BY <3>3, <3>4 DEF KeepsMarked, Others, EntryStates
  <2> QED BY <2>1, <2>2
<1> QED
  BY <1>3, <1>4, <1>5, <1>6, <1>7, <1>8, MovesResolvable

\* A drain takes the head of the queue and marks it.
LEMMA DrainResolvable ==
    ASSUME Inv, Resolvable, Drain
    PROVE  Resolvable'
<1>1. TypeOK /\ GoodQueue(queue) /\ UNCHANGED <<active, unresolved, live>>
  BY DEF Drain, Inv, QueueFits, owner
<1>2. events' = events /\ seen' = seen /\ ShowsNothingNew
  BY <1>1, ReportsShowNothing DEF live, TypeOK, Resolvable
<1>3. CASE Deliverable
  <2>1. /\ queue' = [Mark(queue, Head(queue.entries).msg, "sending") EXCEPT !.sending = TRUE]
        /\ job' = [job EXCEPT !["drain"] = [Idle EXCEPT !.at = "joining",
                                                         !.msg = Head(queue.entries).msg]]
    BY <1>3 DEF Drain
  <2>2. PICK m \in Messages : m = Head(queue.entries).msg /\ Has(queue, m, "queued")
    BY <1>1, <1>3, EmptyHoldsNothing DEF Deliverable
  <2>3. OthersStay("drain") /\ job'["drain"].at = "joining" /\ job'["drain"].msg = m
    BY <1>1, <2>1, <2>2, Names DEF OthersStay, Stays, TypeOK, Idle
  <2> DEFINE p == Mark(queue, m, "sending")
  <2>4. GoodQueue(p) /\ Others(queue, p, m) /\ (InQueue(queue, m) => Has(p, m, "sending"))
    BY <1>1, MarkFacts DEF EntryStates
  <2>5. queue' = [p EXCEPT !.sending = TRUE]
    BY <2>1, <2>2
  <2> HIDE DEF p
  <2>6. Alike(p, queue')
    BY <2>4, <2>5, SendingFacts
  <2>7. Others(queue, queue', m) /\ Has(queue', m, "sending")
    BY <1>1, <2>2, <2>4, <2>6, AlikeOthers, HasIsState DEF Alike, EntryStates
  <2>8. KeepsMarked
    <3>1. ~Has(queue, m, "acceptance_unknown") /\ ~Has(queue, m, "sending")
      BY <1>1, <2>2, HasIsState
    <3> QED
      BY <2>7, <3>1 DEF KeepsMarked, Others, EntryStates
  <2>9. DrainIsMarked'
    BY <2>3, <2>7 DEF DrainIsMarked
  <2>10. NothingSteers'
    BY <2>3, Names DEF NothingSteers, Resolvable, OthersStay, Stays, Steering
  <2>11. Uncertain' => active' = active /\ Stays(active.op)
    <3>1. job["drain"].at = "idle"
      BY <1>3 DEF Inv, QueueFits, Deliverable
    <3>2. Uncertain => active.op \in Actors \ {"drain"}
      BY <3>1, RestingIsCertain, Names
    <3> QED
      BY <1>1, <2>3, <3>2 DEF OthersStay, Uncertain
  <2> QED
    BY <1>1, <1>2, <2>8, <2>9, <2>10, <2>11, ResolvableInCalm
<1>4. CASE ~Deliverable
  <2>1. UNCHANGED <<owner, job, queue, seen>>
    BY <1>2, <1>4 DEF Drain, owner
  <2> QED
    BY <1>2, <2>1, ReportsResolvable DEF ComesLater
<1> QED
  BY <1>3, <1>4

\* A drain that joins the lane leaves the queue.
LEMMA DrainJoinsResolvable ==
    ASSUME Inv, Resolvable, DrainJoins
    PROVE  Resolvable'
<1>1. /\ job["drain"].at = "joining" /\ TypeOK /\ UNCHANGED <<active, unresolved, queue, live>>
      /\ job' = [job EXCEPT !["drain"].at = "waiting", !["drain"].gen = gen]
  BY DEF DrainJoins, Inv
<1>2. "drain" \in Actors /\ job["drain"] \in Jobs
  BY <1>1, Names DEF TypeOK
<1>3. job'["drain"] = [job["drain"] EXCEPT !.at = "waiting", !.gen = gen] /\ OthersStay("drain")
  BY <1>1, <1>2 DEF OthersStay, Stays, TypeOK
<1>4. job'["drain"].msg = job["drain"].msg
  BY <1>2, <1>3 DEF Jobs
<1>5. KeepsMarked /\ ShowsNothingNew
  BY <1>1, SameQueueKeeps, ReportsShowNothing DEF live, TypeOK, Resolvable
<1>6. DrainIsMarked'
  BY <1>1, <1>4 DEF Resolvable, DrainIsMarked, Pending
<1>7. NothingSteers'
  BY <1>3, Names DEF NothingSteers, Resolvable, OthersStay, Stays, Steering
<1>8. Uncertain => active.op \in Actors \ {"drain"}
  BY <1>1, <1>2, RestingIsCertain
<1>9. Uncertain' => active' = active /\ Stays(active.op)
  BY <1>1, <1>3, <1>8 DEF OthersStay, Uncertain
<1> QED
  BY <1>1, <1>5, <1>6, <1>7, <1>9, ResolvableInCalm

\* A drain that cannot join returns its own entry.
LEMMA DrainFailsResolvable ==
    ASSUME Inv, Resolvable, DrainFails
    PROVE  Resolvable'
<1> DEFINE q == [queue EXCEPT !.sending = FALSE]
<1>1. /\ job["drain"].at = "joining" /\ TypeOK /\ GoodQueue(queue)
      /\ UNCHANGED <<active, unresolved, live>>
      /\ queue' = FailEntry(q, job["drain"].msg, "refused")
      /\ job' = [job EXCEPT !["drain"] = Idle]
  BY DEF DrainFails, Inv, QueueFits, owner
<1>2. "drain" \in Actors
  BY Names
<1>3. OthersStay("drain") /\ job'["drain"].at = "idle"
  BY <1>1, <1>2 DEF OthersStay, Stays, TypeOK, Idle
<1>4. PICK m \in Messages : m = job["drain"].msg
  BY <1>1 DEF Inv, JobsFit, DrainFits
<1>5. GoodQueue(q) /\ Alike(queue, q)
  BY <1>1, SendingFacts
<1>6. queue' = FailEntry(q, m, "refused")
  BY <1>1, <1>4
<1> HIDE DEF q
<1>7. Others(queue, queue', m)
  BY <1>5, <1>6, FailEntryFacts, AlikeOthers DEF AllOutcomes
<1>8. Has(queue, m, "sending") /\ ~Has(queue, m, "acceptance_unknown")
  BY <1>1, <1>4, HasIsState DEF Resolvable, DrainIsMarked, Pending
<1>9. unresolved \notin {None} \cup Unnamed => unresolved # m
  BY <1>8 DEF Resolvable, UnresolvedIsUnknown
<1>10. ShowsNothingNew
  BY <1>1, ReportsShowNothing DEF live, TypeOK, Resolvable
<1>11. NothingSteers' /\ DrainIsMarked'
  BY <1>3, Names DEF NothingSteers, Resolvable, OthersStay, Stays, Steering, DrainIsMarked, Pending
<1>12. UnresolvedIsUnknown'
  BY <1>1, <1>7, <1>9, <1>10 DEF UnresolvedIsUnknown, Resolvable, Others, EntryStates, ShowsNothingNew
<1>13. ASSUME Uncertain' PROVE UncertainIsKept(active.op)'
  <2> DEFINE a == active.op
  <2>1. active' = active /\ UncertainIsKept(a) /\ Uncertain
    BY <1>1, <1>13 DEF Uncertain, Resolvable
  <2>2. a \in Messages /\ a \in Actors \ {"drain"}
    BY <1>1, <1>2, <2>1, RestingIsCertain, Names DEF UncertainIsKept
  <2>3. Stays(a) /\ job[a].msg = a
    BY <1>3, <2>1, <2>2, CarriedMessages DEF OthersStay, UncertainIsKept
  <2>4. ASSUME a \notin Unnamed PROVE EntryIsKept(a)'
    <3>1. EntryIsKept(a)
      BY <2>1, <2>3, <2>4 DEF UncertainIsKept
    <3>2. ~Showing(job[a].msg)'
      BY <1>10, <2>1, <2>2, <2>3, <3>1 DEF EntryIsKept, ShowsNothingNew, Stays, Showing
    <3>3. job[a].at = "settling" => Has(queue', a, "acceptance_unknown")
      BY <1>7, <1>8, <2>2, <3>1 DEF EntryIsKept, Others, EntryStates
    <3> QED
      BY <2>1, <2>2, <2>3, <3>2, <3>3 DEF EntryIsKept, Stays
  <2> QED
    BY <2>1, <2>2, <2>3, <2>4 DEF UncertainIsKept, Stays
<1> QED
  BY <1>10, <1>11, <1>12, <1>13 DEF Resolvable, ShowsNothingNew

\* A drain whose result is unknown leaves its entry behind.
LEMMA DrainSettlesResolvable ==
    ASSUME Inv, Resolvable, DrainSettles
    PROVE  Resolvable'
<1> DEFINE outcome == Classified("drain", job["drain"].outcome)
<1> DEFINE q == [queue EXCEPT !.sending = FALSE]
<1>1. /\ AtHead("drain") /\ job["drain"].at = "settling" /\ Leave("drain") /\ TypeOK
      /\ job' = [job EXCEPT !["drain"] = Idle]
      /\ queue' = DrainEntry(q, job["drain"].msg, outcome)
      /\ events' = events /\ seen' = seen
  BY DEF DrainSettles, DrainEntry, Inv, live
<1>2. PICK m \in Messages : m = job["drain"].msg
  BY <1>1 DEF Inv, JobsFit, DrainFits
<1>3. outcome \in Results
  BY <1>1, <1>2, DrainResult
<1>4. OthersStay("drain") /\ job'["drain"].at = "idle"
  BY <1>1, Names DEF OthersStay, Stays, TypeOK, Idle
<1>5. GoodQueue(queue) /\ PausedWhenUnknown(queue)
  BY DEF Inv, QueueFits, Paused
<1>6. GoodQueue(q) /\ Alike(queue, q) /\ q.pause = queue.pause
  BY <1>5, SendingFacts
<1>7. (\A n \in Messages : InQueue(q, n) <=> InQueue(queue, n)) /\ PausedWhenUnknown(q)
  BY <1>5, <1>6, AlikeFacts DEF PausedWhenUnknown
<1>8. queue' = DrainEntry(q, m, outcome)
  BY <1>1, <1>2
<1>9. outcome = "unknown" => queue' = FailEntry(q, m, "unknown")
  BY <1>8 DEF DrainEntry
<1>10. Uncertain /\ active.op = "drain" /\ m \notin Unnamed
         => outcome = "unknown" /\ Has(queue, m, "sending") /\ ~Showing(m)
  <2> SUFFICES ASSUME Uncertain, active.op = "drain", m \notin Unnamed
               PROVE  outcome = "unknown" /\ Has(queue, m, "sending") /\ ~Showing(m)
    OBVIOUS
  <2>1. UncertainIsKept("drain")
    BY DEF Resolvable
  <2>2. job["drain"].outcome \in {"unknown", "unclear"} /\ Has(queue, m, "sending") /\ ~Showing(m)
    BY <1>1, <1>2, <2>1 DEF UncertainIsKept, EntryIsKept
  <2>3. ~ShownMeanwhile("drain")
    BY DEF ShownMeanwhile, Uncertain
  <2>4. outcome = "unknown"
    BY <2>2, <2>3 DEF Classified
  <2> QED BY <2>2, <2>4
<1> HIDE DEF q, outcome
<1>11. Others(queue, queue', m) /\ GoodQueue(queue')
  BY <1>3, <1>6, <1>7, <1>8, DrainEntryFacts, AlikeOthers
<1>12. ShowsNothingNew
  BY <1>1, ReportsShowNothing DEF TypeOK, Resolvable
<1>13. NothingSteers'
  BY <1>4, Names DEF NothingSteers, Resolvable, OthersStay, Stays, Steering
<1>14. DrainIsMarked'
  BY <1>4 DEF DrainIsMarked, Pending
<1>15. ~Uncertain'
  BY <1>1 DEF Leave, NoOperation, Uncertain
<1>16. UnresolvedIsUnknown'
  <2>1. CASE active.op = "drain" /\ Uncertain
    <3>1. unresolved' = m
      BY <1>1, <1>2, <2>1 DEF Leave, NameOf, Uncertain
    <3>2. ASSUME m \notin Unnamed PROVE Has(queue', m, "acceptance_unknown") /\ ~Showing(m)
      <4>1. InQueue(q, m) /\ queue' = FailEntry(q, m, "unknown") /\ ~Showing(m)
        BY <1>5, <1>7, <1>9, <1>10, <2>1, <3>2, HasIsState DEF EntryStates
      <4>2. InQueue(queue', m) /\ \A t \in EntryStates : Has(queue', m, t) => t = "acceptance_unknown"
        BY <1>6, <4>1, FailEntryFacts
      <4> QED
        BY <1>11, <4>1, <4>2, HasIsState
    <3> QED
      BY <1>12, <3>1, <3>2 DEF UnresolvedIsUnknown, ShowsNothingNew
  <2>2. CASE ~(active.op = "drain" /\ Uncertain)
    <3>1. unresolved' = unresolved
      BY <1>1, <2>2 DEF Leave, Uncertain
    <3>2. ~Has(queue, m, "acceptance_unknown")
      BY <1>1, <1>2 DEF Inv, QueueFits, EntryStates
    <3>3. \A n \in Messages : Has(queue, n, "acceptance_unknown") => Has(queue', n, "acceptance_unknown")
      BY <1>11, <3>2 DEF Others, EntryStates
    <3> QED
      BY <1>12, <3>1, <3>3 DEF UnresolvedIsUnknown, ShowsNothingNew, Resolvable
  <2> QED BY <2>1, <2>2
<1> QED
  BY <1>12, <1>13, <1>14, <1>15, <1>16 DEF Resolvable, ShowsNothingNew

\* What the queue makes of an event leaves the other messages as they are.
LEMMA QueueAfterOthers ==
    ASSUME Inv, NEW event \in Events, NEW idKnown \in BOOLEAN,
           NEW n \in Messages, NEW s \in EntryStates, Has(queue, n, s),
           event.kind = "user" => event.msg \in Messages /\ event.msg # n
    PROVE  Has(QueueAfter(event, idKnown), n, s)
<1>1. GoodQueue(queue)
  BY DEF Inv, QueueFits
<1>2. CASE event.kind = "user"
  <2>1. QueueAfter(event, idKnown) = ResolveAccepted(queue, event.msg, idKnown)
    BY <1>2 DEF QueueAfter
  <2>2. Others(queue, ResolveAccepted(queue, event.msg, idKnown), event.msg)
    BY <1>1, <1>2, ResolveAcceptedFacts
  <2> QED
    BY <1>2, <2>1, <2>2 DEF Others
<1>3. CASE QueueAfter(event, idKnown) = queue
  BY <1>3
<1>4. CASE QueueAfter(event, idKnown) # queue /\ event.kind # "user"
  <2>1. PICK c \in Pauses \ {None} : QueueAfter(event, idKnown) = PauseQueue(queue, c)
    <3>1. CASE event.kind \in {"removed", "finished"}
      BY <3>1 DEF QueueAfter, Pauses, None
    <3>2. CASE event.kind = "ended" /\ event.outcome # "completed"
      <4>1. event.outcome \in AllTurnEnds
        BY <3>2 DEF Events, StateEvent
      <4>2. PauseAfter(event.outcome) \in Pauses \ {None}
        BY <3>2, <4>1 DEF PauseAfter, AllTurnEnds, Pauses, None
      <4> QED
        BY <3>2, <4>2 DEF QueueAfter
    <3> QED
      BY <1>4, <3>1, <3>2 DEF QueueAfter
  <2>2. Alike(queue, PauseQueue(queue, c))
    BY <1>1, PauseQueueFacts
  <2> QED
    BY <2>1, <2>2 DEF Alike
<1> QED
  BY <1>2, <1>3, <1>4

\* The queue observes what the owner knows already.
LEMMA QueueObservesResolvable ==
    ASSUME Inv, Resolvable, QueueObserves
    PROVE  Resolvable'
<1> DEFINE event == Head(events)
<1>0. PICK idKnown \in BOOLEAN : queue' = QueueAfter(event, idKnown)
  BY DEF QueueObserves
<1>1. /\ events # <<>> /\ (event.kind = "user" => seen) /\ TypeOK
      /\ job' \in {job, TurnCompleted} /\ seen' = FALSE /\ UNCHANGED owner
  BY DEF QueueObserves, Inv
<1>2. event \in Events /\ (event.kind = "user" => event.msg \in Messages /\ Taken(event.msg))
  BY <1>1, FirstEventFacts
<1>3. event.kind = "user" => Showing(event.msg)
  BY <1>1 DEF Showing
<1> HIDE DEF event
<1>4. \A n \in Messages, s \in {"sending", "acceptance_unknown"} :
         Has(queue, n, s) /\ (event.kind = "user" => event.msg # n) => Has(queue', n, s)
  BY <1>0, <1>1, <1>2, QueueAfterOthers DEF EntryStates
<1>5. \A b \in Actors : Stays(b)
  <2>1. job \in [Actors -> Jobs]
    BY <1>1 DEF TypeOK
  <2>2. CASE job' = job
    BY <2>2 DEF Stays
  <2>3. CASE job' = TurnCompleted
    <3> SUFFICES ASSUME NEW b \in Actors
                 PROVE  Stays(b)
      OBVIOUS
    <3>1. job'[b] = [job[b] EXCEPT !.ended = @ \/ Delivering(b)] /\ job[b] \in Jobs
      BY <2>1, <2>3 DEF TurnCompleted
    <3> QED
      BY <3>1 DEF Jobs, Stays
  <2> QED
    BY <1>1, <2>2, <2>3
<1>6. /\ unresolved' = unresolved /\ active' = active /\ OwnerIsAhead'
      /\ \A n \in Messages : ~Showing(n)'
  BY <1>1 DEF owner, OwnerIsAhead, Showing
<1>7. NothingSteers'
  BY <1>5, Names DEF NothingSteers, Resolvable, Stays, Steering
<1>8. UnresolvedIsUnknown'
  BY <1>3, <1>4, <1>6 DEF UnresolvedIsUnknown, Resolvable
<1>9. ~Blocked
  <2>1. unresolved # "unnamed"
    <3>1. unresolved \in Messages \cup {None}
      BY DEF Resolvable, UnresolvedIsUnknown
    <3> QED
      BY <3>1, Names DEF None
  <2>2. ~(active.op = "manage" /\ active.native = "uncertain")
    BY Names DEF Resolvable, UncertainIsKept, Uncertain
  <2> QED
    BY <2>1, <2>2 DEF Blocked
<1>10. DrainIsMarked'
  <2> SUFFICES ASSUME job["drain"].at \in Pending \cup {"sending"}
               PROVE  Has(queue', job["drain"].msg, "sending")
    BY <1>5, Names DEF DrainIsMarked, Stays
  <2>1. Has(queue, job["drain"].msg, "sending") /\ job["drain"].msg \in Messages
    BY CarriedMessages DEF Resolvable, DrainIsMarked, Pending
  <2>2. ~Taken(job["drain"].msg)
    BY <1>9 DEF Inv, Unsent, Out
  <2> QED
    BY <1>2, <1>4, <2>1, <2>2
<1>11. ASSUME Uncertain' PROVE UncertainIsKept(active.op)'
  <2> DEFINE a == active.op
  <2>1. UncertainIsKept(a)
    BY <1>6, <1>11 DEF Uncertain, Resolvable
  <2>2. a \in Messages \cup {"drain"} /\ a \in Actors /\ job[a].at \in {"issued", "settling"}
        /\ job[a].msg \in Messages
    BY <2>1, CarriedMessages, Names DEF UncertainIsKept
  <2>3. Stays(a) /\ (a \in Messages => a = job[a].msg)
    BY <1>5, <2>2, CarriedMessages
  <2>4. ASSUME job[a].msg \notin Unnamed PROVE EntryIsKept(a)'
    <3>1. EntryIsKept(a)
      BY <2>1, <2>4 DEF UncertainIsKept
    <3>2. ~Showing(job[a].msg)'
      BY <1>6, <2>2, <2>3 DEF Stays
    <3>3. a = "drain" => Has(queue', job[a].msg, "sending")
      BY <1>3, <1>4, <2>2, <3>1 DEF EntryIsKept
    <3>4. a # "drain" /\ job[a].at = "settling" => Has(queue', a, "acceptance_unknown")
      BY <1>3, <1>4, <2>2, <2>3, <3>1 DEF EntryIsKept
    <3> QED
      BY <1>6, <2>3, <3>1, <3>2, <3>3, <3>4 DEF EntryIsKept, Stays
  <2> QED
    BY <1>6, <2>1, <2>2, <2>3, <2>4 DEF UncertainIsKept, Stays
<1> QED
  BY <1>6, <1>7, <1>8, <1>10, <1>11 DEF Resolvable

\* Each step of the host keeps what is unresolved.
LEMMA HostResolvable ==
    ASSUME Inv, Resolvable, Host
    PROVE  Resolvable'
<1>1. ASSUME NEW a \in Actors, Begin(a) \/ Settle(a)
      PROVE  Resolvable'
  BY <1>1, BeginResolvable, SettleResolvable
<1>2. ASSUME NEW m \in Messages, Prepared(m)
      PROVE  Resolvable'
  BY <1>2, PreparedResolvable
<1>3. ASSUME NEW a \in Actors \ {"stop"}, Route(a) \/ SendFails(a) \/ SendBusy(a) \/ Issue(a)
      PROVE  Resolvable'
  BY <1>3, RouteResolvable, SendResolvable, IssueResolvable
<1>4. ASSUME Drain \/ DrainJoins \/ DrainFails \/ DrainSettles
      PROVE  Resolvable'
  BY <1>4, DrainResolvable, DrainJoinsResolvable, DrainFailsResolvable, DrainSettlesResolvable
<1>5. ASSUME ResumeChecks \/ ManageFails \/ ResumeCommits \/ BeginEdit \/ EndEdit \/ RemoveMessage
      PROVE  Resolvable'
  BY <1>5, QuietMovesResolvable, ActionsResolvable
<1>6. ~SteerEntry
  BY DEF SteerEntry, Pressed, Resolvable, NothingSteers
<1>7. ASSUME StopPauses \/ OwnerObserves \/ QueueObserves
      PROVE  Resolvable'
  BY <1>7, StopPausesResolvable, OwnerObservesResolvable, QueueObservesResolvable
<1> QED
  BY <1>1, <1>2, <1>3, <1>4, <1>5, <1>6, <1>7 DEF Host

\* Each step of the runtime keeps what is unresolved.
LEMMA RuntimeResolvable ==
    ASSUME Inv, Resolvable, Runtime
    PROVE  Resolvable'
<1>1. ASSUME NEW a \in Actors, NEW answer \in Outcomes, Reply(a, answer)
      PROVE  Resolvable'
  BY <1>1, ReplyResolvable
<1>2. ASSUME NEW request \in rt.open, Take(request)
      PROVE  Resolvable'
  BY <1>2, TakeResolvable
<1>3. ASSUME ReportsOnly
      PROVE  Resolvable'
  BY <1>3, ReportsOnlyComeLater, ReportsResolvable
<1>4. ASSUME StopTurn \/ StopFails
      PROVE  Resolvable'
  BY <1>4, QuietMovesResolvable
<1> QED
  BY <1>1, <1>2, <1>3, <1>4 DEF Runtime, ReportsOnly

\* Each step keeps what is unresolved, where the user has no Steer button.
LEMMA StepResolvable ==
    ASSUME "steer" \notin Actions
    PROVE  Inv /\ Resolvable /\ [Next]_vars => Resolvable'
<1> SUFFICES ASSUME Inv, Resolvable, [Next]_vars
             PROVE  Resolvable'
  OBVIOUS
<1>1. CASE Next
  BY <1>1, HostResolvable, UserResolvable, RuntimeResolvable DEF Next
<1>2. CASE UNCHANGED vars
  <2>1. ComesLater
    BY <1>2 DEF vars, owner, ComesLater
  <2> QED
    BY <2>1, ReportsResolvable
<1> QED
  BY <1>1, <1>2

\* At first nothing is unresolved.
LEMMA InitResolvable == Init => Resolvable
<1> SUFFICES ASSUME Init
             PROVE  Resolvable
  OBVIOUS
<1>1. job["manage"] = Idle /\ job["drain"] = Idle
  BY Names DEF Init
<1>2. Idle.at = "idle" /\ Idle.how = None
  BY DEF Idle
<1>3. NothingSteers /\ DrainIsMarked
  BY <1>1, <1>2 DEF NothingSteers, Steering, DrainIsMarked, Pending, None
<1>4. OwnerIsAhead /\ UnresolvedIsUnknown /\ ~Uncertain
  BY DEF Init, OwnerIsAhead, UnresolvedIsUnknown, Uncertain, NoOperation
<1> QED
  BY <1>3, <1>4 DEF Resolvable

\* A named operation that is unresolved keeps its entry, whose result is unknown.
LEMMA ResolvableIsForgotten ==
    ASSUME Inv, Resolvable
    PROVE  NamedDeliveryIsForgotten
<1>1. GoodQueue(queue)
  BY DEF Inv, QueueFits
<1>2. unresolved \notin {None} \cup Unnamed => HasUnknown(queue)
  BY <1>1, UnknownIsHeld DEF Resolvable, UnresolvedIsUnknown
<1> QED
  BY <1>2 DEF NamedDeliveryIsForgotten

\* Once the conversation confirmed the last unknown delivery no earlier operation refuses
\* the user's Resume, but one whose message the conversation names by the runtime's id only:
\* whatever submissions, composer steers, drains, Stops, edits and removals came between.
\* The Steer button of a queued message can leave what nothing resolves
\* (session.unresolved, session-operation-owner.ts:415, queue model 130-140).
THEOREM NamedIsForgotten ==
    ASSUME "steer" \notin Actions
    PROVE  Spec => []NamedDeliveryIsForgotten
<1>1. Inv /\ Resolvable /\ [Next]_vars => Inv' /\ Resolvable'
  BY StepKeeps, StepResolvable
<1>2. Init => Inv /\ Resolvable
  BY InitFits, InitResolvable
<1>3. Inv /\ Resolvable => NamedDeliveryIsForgotten
  BY ResolvableIsForgotten
<1> QED
  BY <1>1, <1>2, <1>3, PTL DEF Spec

-----------------------------------------------------------------------------
(* A queue that may send is told so *)

\* The runtime could begin a turn, and what a report says of that.
Ready == rt.attached /\ rt.readable /\ ~rt.turn /\ ~rt.asking
ReadyReport(event) == event.kind = "state" /\ ~event.turn /\ ~event.asking /\ event.readable
Harmless(event) == event.kind \in {"user", "ended"}

\* The queue knows that the runtime is ready, or is about to learn it last.
HostLearns ==
    Ready =>
        \/ CanDeliver(host) /\ \A i \in DOMAIN events : Harmless(events[i])
        \/ \E i \in DOMAIN events :
              ReadyReport(events[i]) /\ \A j \in DOMAIN events : j > i => Harmless(events[j])

\* A turn runs, or its end is still to be observed.
Endings == {"ended", "removed", "finished"}
TurnEnding == rt.turn \/ \E i \in DOMAIN events : events[i].kind \in Endings

\* Nothing of the queue may start.
Held(q) == q.pause # None \/ q.entries = <<>>

\* The end of a turn will release the queue, has been counted, or the queue is held.
Excused(a) == TurnEnding \/ job[a].ended \/ Held(queue)

\* A message that the runtime took, or was too busy to take, comes with a turn that ends.
TakenHasTurn(a) == job[a].at = "issued" /\ Request(a) \notin rt.open => Excused(a)
ResultHasTurn ==
    job["drain"].at = "settling" /\ job["drain"].outcome \in {"accepted", "busy"} => Excused("drain")

\* The queue is held by a send only while there is one, and a new message is sent past
\* no entry.
HeldBySend ==
    queue.sending => job["drain"].at # "idle" \/ \E m \in Messages : DefaultInFlight(m)
SendsAlone == \A m \in Messages : DefaultInFlight(m) => queue.entries = <<>>

\* An entry that is marked as on its way is carried by who marked it.
MarkedIsCarried ==
    /\ \A m \in Messages :
          Has(queue, m, "sending") => job["drain"].at # "idle" /\ job["drain"].msg = m
    /\ \A m \in Messages : Has(queue, m, "steering") => Steering /\ job["manage"].msg = m

Startable(q) ==
    /\ q.entries # <<>> /\ Head(q.entries).state = "queued"
    /\ q.pause = None /\ ~q.sending

\* The user steers an entry, and a turn has ended meanwhile.
SteerCounts == Steering /\ job["manage"].ended

\* What may start has a drain that will start it, or a turn whose end will schedule one.
Signalled == Startable(queue) /\ CanDeliver(host) => due > 0 \/ TurnEnding \/ SteerCounts

Awake ==
    /\ HostLearns /\ TakenHasTurn("drain") /\ TakenHasTurn("manage") /\ ResultHasTurn
    /\ HeldBySend /\ SendsAlone /\ MarkedIsCarried /\ Signalled

\* A held queue does not start.
LEMMA HeldIsNotStartable ==
    ASSUME NEW q, Held(q)
    PROVE  ~Startable(q)
BY DEF Held, Startable

\* A cause pauses the queue, unless it has nothing.
LEMMA PauseHolds ==
    ASSUME NEW q, GoodQueue(q), NEW c \in Pauses \ {None}
    PROVE  Held(PauseQueue(q, c)) \/ (PauseQueue(q, c) = q /\ q.entries = <<>>)
<1> DEFINE p == FirstPause(q, c)
<1>1. p.pause # None
  BY FirstPauseFacts
<1>2. PauseQueue(q, c) = IF q.entries = <<>> /\ ~q.sending THEN q ELSE p
  BY DEF PauseQueue
<1> HIDE DEF p
<1> QED
  BY <1>1, <1>2 DEF Held

\* Removing an entry holds a queue that was held.
LEMMA RemoveHolds ==
    ASSUME NEW q, GoodQueue(q), NEW m \in Messages, Held(q)
    PROVE  Held(RemoveEntry(q, m))
<1> DEFINE w == [q EXCEPT !.entries = Without(q, m)]
<1>1. GoodQueue(w) /\ w.pause = q.pause
  BY WithoutFacts
<1>2. q \in Queues /\ w.entries = Without(q, m)
  BY DEF GoodQueue, Queues
<1>3. RemoveEntry(q, m) = EndPauseIfEmpty(w)
  BY DEF RemoveEntry
<1>4. q.entries = <<>> => w.entries = <<>>
  BY <1>2 DEF Without, InQueue
<1> HIDE DEF w
<1>5. EndPauseIfEmpty(w).entries = w.entries
  BY <1>1, EndPauseFacts
<1>6. w.entries # <<>> => EndPauseIfEmpty(w) = w
  BY DEF EndPauseIfEmpty
<1> QED
  BY <1>1, <1>3, <1>4, <1>5, <1>6 DEF Held

\* A shown message leaves a queue that was held still held, and an empty one empty.
LEMMA ResolveHolds ==
    ASSUME NEW q, GoodQueue(q), NEW m \in Messages, NEW idKnown \in BOOLEAN
    PROVE  /\ Held(q) => Held(ResolveAccepted(q, m, idKnown))
           /\ q.entries = <<>> => ResolveAccepted(q, m, idKnown) = q
<1> DEFINE p == ResolveAccepted(q, m, idKnown)
<1> DEFINE rest == RemoveEntry(q, m)
<1>1. q.entries = <<>> => p = q
  BY DEF ResolveAccepted, Finds, InQueue
<1>2. Held(q) => Held(rest)
  BY RemoveHolds
<1>3. p = q \/ p = rest \/ p = [rest EXCEPT !.pause = "acceptance_confirmed"]
  BY DEF ResolveAccepted
<1>4. rest \in Queues
  BY RemoveEntryFacts DEF GoodQueue
<1> HIDE DEF p, rest
<1>5. Held(q) => Held(p)
  <2>1. CASE p = [rest EXCEPT !.pause = "acceptance_confirmed"]
    <3>1. p.pause # None
      BY <1>4, <2>1 DEF Queues, None
    <3> QED
      BY <3>1 DEF Held
  <2> QED
    BY <1>2, <1>3, <2>1
<1> QED
  BY <1>1, <1>5 DEF p

\* What removes or resolves an entry of an empty queue leaves it empty.
LEMMA RemoveFromEmpty ==
    ASSUME NEW q, GoodQueue(q), NEW m \in Messages, q.entries = <<>>
    PROVE  RemoveEntry(q, m).entries = <<>>
<1> DEFINE w == [q EXCEPT !.entries = Without(q, m)]
<1>1. GoodQueue(w)
  BY WithoutFacts
<1>2. w.entries = <<>>
  BY DEF GoodQueue, Queues, Without, InQueue
<1>3. RemoveEntry(q, m) = EndPauseIfEmpty(w)
  BY DEF RemoveEntry
<1> HIDE DEF w
<1> QED
  BY <1>1, <1>2, <1>3, EndPauseFacts

\* A mark that takes an entry out of waiting lets nothing start.
LEMMA MarkStartsNothing ==
    ASSUME NEW q, GoodQueue(q), NEW m \in Messages, NEW s \in EntryStates \ {"queued"},
           Startable(Mark(q, m, s))
    PROVE  Startable(q)
<1> DEFINE p == Mark(q, m, s)
<1>1. q \in Queues /\ q.entries \in Seq(Entries)
  BY DEF GoodQueue, Queues
<1>2. p.entries = [i \in DOMAIN q.entries |-> IF q.entries[i].msg = m
                                              THEN [q.entries[i] EXCEPT !.state = s]
                                              ELSE q.entries[i]]
  BY <1>1 DEF Mark, Queues
<1>3. p.pause = q.pause /\ p.sending = q.sending /\ p \in Queues
  BY MarkFacts DEF GoodQueue
<1>4. p.entries \in Seq(Entries)
  BY <1>3 DEF Queues
<1>5. p.entries # <<>> /\ Head(p.entries).state = "queued" /\ p.pause = None /\ ~p.sending
  BY DEF Startable
<1>6. 1 \in DOMAIN p.entries /\ Head(p.entries) = p.entries[1]
  BY <1>4, <1>5, TailFacts
<1> HIDE DEF p
<1>7. 1 \in DOMAIN q.entries /\ q.entries # <<>>
  BY <1>1, <1>2, <1>6
<1>8. q.entries[1] \in Entries
  BY <1>1, <1>7
<1>9. q.entries[1].msg # m
  <2> SUFFICES ASSUME q.entries[1].msg = m PROVE FALSE
    OBVIOUS
  <2>1. p.entries[1] = [q.entries[1] EXCEPT !.state = s]
    BY <1>2, <1>7
  <2>2. p.entries[1].state = s
    BY <1>8, <2>1 DEF Entries
  <2> QED
    BY <1>5, <1>6, <2>2
<1>10. p.entries[1] = q.entries[1]
  BY <1>2, <1>7, <1>9
<1>11. Head(q.entries) = q.entries[1]
  BY <1>1, <1>7, TailFacts
<1> QED
  BY <1>3, <1>5, <1>6, <1>7, <1>10, <1>11 DEF Startable

\* After a failed delivery the entry waits again or its result is unknown.
LEMMA FailedEntryWaits ==
    ASSUME NEW q, GoodQueue(q), NEW m \in Messages, NEW outcome, NEW t \in EntryStates,
           Has(FailEntry(q, m, outcome), m, t)
    PROVE  t \in {"queued", "acceptance_unknown"}
<1> DEFINE p == FailEntry(q, m, outcome)
<1>0. {"accepted_then_failed", "acceptance_unknown", "delivery_failed"} \subseteq Pauses \ {None}
  BY DEF Pauses, None
<1>1. InQueue(p, m)
  BY DEF Has, InQueue
<1>2. outcome # "received" /\ InQueue(q, m)
  BY <1>1, FailEntryFacts
<1>3. PICK s \in {"acceptance_unknown", "queued"}, c \in {"acceptance_unknown", "delivery_failed"} :
         p = FirstPause(Mark(q, m, s), c)
  BY <1>2 DEF FailEntry
<1> DEFINE w == Mark(q, m, s)
<1>4. GoodQueue(w) /\ \A u : Has(w, m, u) => u = s
  BY MarkFacts DEF EntryStates
<1> HIDE DEF w
<1>5. Alike(w, p)
  BY <1>0, <1>3, <1>4, FirstPauseFacts DEF w
<1> QED
  BY <1>4, <1>5 DEF Alike

\* The host and the runtime's turn stay as they are.
NoReport ==
    /\ UNCHANGED <<host, events>>
    /\ rt'.turn = rt.turn /\ rt'.asking = rt.asking
    /\ rt'.attached = rt.attached /\ rt'.readable = rt.readable

\* Then the queue knows what it knew, and turns end as they would.
LEMMA NothingReported ==
    ASSUME NoReport
    PROVE  /\ HostLearns => HostLearns'
           /\ TurnEnding' <=> TurnEnding
           /\ CanDeliver(host') <=> CanDeliver(host)
<1>1. Ready' <=> Ready
  BY DEF NoReport, Ready
<1>2. HostLearns => HostLearns'
  BY <1>1 DEF NoReport, HostLearns
<1>3. TurnEnding' <=> TurnEnding
  BY DEF NoReport, TurnEnding
<1> QED
  BY <1>2, <1>3 DEF NoReport

\* What comes after the middle of three sequences in a row comes from the last.
LEMMA AfterMiddle ==
    ASSUME NEW n \in Nat, NEW k \in Nat, NEW i \in 1..(n + 1 + k), i > n + 1
    PROVE  i - n - 1 \in 1..k /\ n + 1 + (i - n - 1) = i
OBVIOUS

\* Sequence v has the elements of s, then e and those of t, before or after e.
InParts(v, s, e, t) ==
    /\ \A i \in DOMAIN s : i \in DOMAIN v /\ v[i] = s[i]
    /\ \A j \in DOMAIN t : \E i \in DOMAIN v : v[i] = t[j]
    /\ \E l \in DOMAIN v : /\ v[l] = e
                           /\ \A i \in DOMAIN v : i > l => \E j \in DOMAIN t : v[i] = t[j]

\* Where the parts of three sequences in a row are, the middle one of one element.
LEMMA PlacesInConcat ==
    ASSUME NEW s \in Seq(Events), NEW e \in Events, NEW t \in Seq(Events), NEW v,
           v = Append(s, e) \o t \/ v = Append(s \o t, e)
    PROVE  InParts(v, s, e, t)
<1> DEFINE u == Append(s, e) \o t
<1> DEFINE w == Append(s \o t, e)
<1> DEFINE n == Len(s)
<1> DEFINE k == Len(t)
<1>1. n \in Nat /\ k \in Nat /\ DOMAIN s = 1..n /\ DOMAIN t = 1..k
  OBVIOUS
<1>2. /\ u \in Seq(Events) /\ DOMAIN u = 1..(n + 1 + k)
      /\ \A i \in 1..n : u[i] = s[i]
      /\ u[n + 1] = e
      /\ \A j \in 1..k : u[n + 1 + j] = t[j]
  <2>1. Append(s, e) \in Seq(Events) /\ Len(Append(s, e)) = n + 1
    OBVIOUS
  <2>2. \A i \in 1..n : (Append(s, e))[i] = s[i]
    OBVIOUS
  <2>3. (Append(s, e))[n + 1] = e
    OBVIOUS
  <2> QED
    BY <1>1, <2>1, <2>2, <2>3
<1>3. /\ w \in Seq(Events) /\ DOMAIN w = 1..(n + k + 1)
      /\ \A i \in 1..n : w[i] = s[i]
      /\ \A j \in 1..k : w[n + j] = t[j]
      /\ w[n + k + 1] = e
  <2>1. s \o t \in Seq(Events) /\ Len(s \o t) = n + k
    OBVIOUS
  <2>2. \A i \in 1..n : (s \o t)[i] = s[i]
    OBVIOUS
  <2>3. \A j \in 1..k : (s \o t)[n + j] = t[j]
    OBVIOUS
  <2> QED
    BY <1>1, <2>1, <2>2, <2>3
<1> HIDE DEF u, w, n, k
<1>4. \A i \in DOMAIN s : i \in DOMAIN u /\ u[i] = s[i] /\ i \in DOMAIN w /\ w[i] = s[i]
  BY <1>1, <1>2, <1>3
<1>5. ASSUME NEW j \in DOMAIN t
      PROVE  (\E i \in DOMAIN u : u[i] = t[j]) /\ (\E i \in DOMAIN w : w[i] = t[j])
  <2>1. n + 1 + j \in DOMAIN u /\ u[n + 1 + j] = t[j] /\ n + j \in DOMAIN w /\ w[n + j] = t[j]
    BY <1>1, <1>2, <1>3, <1>5
  <2> QED BY <2>1
<1>6. n + 1 \in DOMAIN u /\ n + k + 1 \in DOMAIN w /\ \A i \in DOMAIN w : ~(i > n + k + 1)
  BY <1>1, <1>2, <1>3
<1>7. ASSUME NEW i \in DOMAIN u, i > n + 1
      PROVE  \E j \in DOMAIN t : u[i] = t[j]
  <2>0. i \in 1..(n + 1 + k)
    BY <1>2, <1>7
  <2>1. i - n - 1 \in 1..k /\ n + 1 + (i - n - 1) = i
    BY <1>1, <1>7, <2>0, AfterMiddle
  <2> QED
    BY <1>1, <1>2, <2>1
<1>8. \E l \in DOMAIN u : u[l] = e /\ \A i \in DOMAIN u : i > l => \E j \in DOMAIN t : u[i] = t[j]
  BY <1>2, <1>6, <1>7
<1>9. \E l \in DOMAIN w : w[l] = e /\ \A i \in DOMAIN w : ~(i > l)
  BY <1>3, <1>6
<1>10. CASE v = u
  BY <1>4, <1>5, <1>8, <1>10 DEF InParts
<1>11. CASE v = w
  BY <1>4, <1>5, <1>9, <1>11 DEF InParts
<1> QED
  BY <1>10, <1>11 DEF u, w

\* A report adds the runtime's state, with the other events before or after it.
LEMMA ReportPlaces ==
    ASSUME TypeOK, NEW r \in RuntimeStates, NEW others \in Seq(Events), Reports(r, others)
    PROVE  /\ \A i \in DOMAIN events : i \in DOMAIN events' /\ events'[i] = events[i]
           /\ \A j \in DOMAIN others : \E i \in DOMAIN events' : events'[i] = others[j]
           /\ \E l \in DOMAIN events' :
                 /\ events'[l] = RuntimeState(r)
                 /\ \A i \in DOMAIN events' : i > l => \E j \in DOMAIN others : events'[i] = others[j]
<1>1. RuntimeState(r) \in Events
  BY DEF RuntimeState, RuntimeStates, Events, StateEvent
<1>2. PICK e \in Events : e = RuntimeState(r)
  BY <1>1
<1>3. PICK s \in Seq(Events) : s = events
  BY DEF TypeOK
<1>4. PICK v : v = events'
  OBVIOUS
<1>5. v = Append(s, e) \o others \/ v = Append(s \o others, e)
  <2>1. v = s \o <<e>> \o others \/ v = s \o others \o <<e>>
    BY <1>2, <1>3, <1>4 DEF Reports
  <2>2. s \o <<e>> = Append(s, e) /\ s \o others \o <<e>> = Append(s \o others, e)
    OBVIOUS
  <2> QED
    BY <2>1, <2>2
<1>6. InParts(v, s, e, others)
  BY <1>5, PlacesInConcat
<1> QED
  BY <1>2, <1>3, <1>4, <1>6 DEF InParts

\* A report of messages and ended turns is the last that the queue learns of the state.
LEMMA ReportIsLearned ==
    ASSUME TypeOK, NEW r \in RuntimeStates, NEW others \in Seq(Events), Reports(r, others),
           \A j \in DOMAIN others : Harmless(others[j]),
           rt.turn /\ ~r.turn => \E j \in DOMAIN others : others[j].kind = "ended"
    PROVE  HostLearns' /\ (TurnEnding => TurnEnding')
<1> USE DEF Endings
<1> DEFINE e == RuntimeState(r)
<1>1. rt' = r
  BY DEF Reports
<1>2. PICK k \in DOMAIN events' :
         /\ events'[k] = e
         /\ \A i \in DOMAIN events' : i > k => \E j \in DOMAIN others : events'[i] = others[j]
  BY ReportPlaces
<1>3. e.kind = "state" /\ e.turn = r.turn /\ e.asking = r.asking /\ e.readable = r.readable
  BY DEF RuntimeState
<1> HIDE DEF e
<1>4. Ready' => ReadyReport(events'[k])
  BY <1>1, <1>2, <1>3 DEF Ready, ReadyReport
<1>5. \A i \in DOMAIN events' : i > k => Harmless(events'[i])
  BY <1>2
<1>6. HostLearns'
  BY <1>4, <1>5 DEF HostLearns
<1>7. TurnEnding => TurnEnding'
  BY <1>1, ReportPlaces DEF TurnEnding
<1> QED
  BY <1>6, <1>7

\* A session that leaves, or whose status cannot be read, is not ready.
LEMMA LeavingIsLearned ==
    ASSUME Inv, SessionLeaves \/ StatusFault
    PROVE  HostLearns' /\ (TurnEnding => TurnEnding')
<1>1. rt \in RuntimeStates /\ events \in Seq(Events)
  BY DEF Inv, TypeOK, RuntimeStates
<1>2. CASE SessionLeaves
  <2>0. PICK kind \in {"removed", "finished"} : events' = Append(events, [kind |-> kind])
    BY <1>2 DEF SessionLeaves
  <2> DEFINE e == [kind |-> kind]
  <2>1. events' = Append(events, e) /\ e.kind \in Endings /\ e \in Events
    BY <2>0 DEF Endings, Events
  <2>2. ~Ready'
    BY <1>1, <1>2 DEF SessionLeaves, Ready, RuntimeStates
  <2> HIDE DEF e
  <2>3. Len(events) + 1 \in DOMAIN events' /\ events'[Len(events) + 1] = e
    BY <1>1, <2>1
  <2> QED
    BY <2>1, <2>2, <2>3 DEF HostLearns, TurnEnding
<1>3. CASE StatusFault
  <2> DEFINE e == [kind |-> "fault"]
  <2>1. events' = Append(events, e) /\ e \in Events
    BY <1>3 DEF StatusFault, Events
  <2>2. ~Ready' /\ rt'.turn = rt.turn
    BY <1>1, <1>3 DEF StatusFault, Ready, RuntimeStates
  <2> HIDE DEF e
  <2>3. \A i \in DOMAIN events : i \in DOMAIN events' /\ events'[i] = events[i]
    BY <1>1, <2>1
  <2> QED
    BY <2>2, <2>3 DEF HostLearns, TurnEnding
<1> QED
  BY <1>2, <1>3

\* Each step that the runtime takes alone is learned of.
LEMMA ReportsOnlyLearned ==
    ASSUME Inv, ReportsOnly
    PROVE  HostLearns' /\ (TurnEnding => TurnEnding')
<1>1. TypeOK /\ rt \in RuntimeStates /\ <<>> \in Seq(Events)
  BY DEF Inv, TypeOK, RuntimeStates
<1>2. ASSUME NEW r \in RuntimeStates, rt.turn => r.turn, Reports(r, <<>>)
      PROVE  HostLearns' /\ (TurnEnding => TurnEnding')
  <2>1. \A j \in DOMAIN <<>> : FALSE
    OBVIOUS
  <2> QED
    BY <1>1, <1>2, <2>1, ReportIsLearned
<1> DEFINE working == [rt EXCEPT !.turn = TRUE]
<1> DEFINE asks == [rt EXCEPT !.asking = TRUE]
<1> DEFINE answered == [rt EXCEPT !.asking = FALSE]
<1> DEFINE attached == [rt EXCEPT !.attached = TRUE]
<1> DEFINE readable == [rt EXCEPT !.readable = TRUE]
<1> DEFINE over == [rt EXCEPT !.turn = FALSE, !.asking = FALSE]
<1>3. /\ working \in RuntimeStates /\ asks \in RuntimeStates /\ answered \in RuntimeStates
      /\ attached \in RuntimeStates /\ readable \in RuntimeStates /\ over \in RuntimeStates
  BY <1>1 DEF RuntimeStates
<1>4. /\ working.turn /\ asks.turn = rt.turn /\ answered.turn = rt.turn
      /\ attached.turn = rt.turn /\ readable.turn = rt.turn
  BY <1>1 DEF RuntimeStates
<1>5. CASE OwnTurn
  <2>1. Reports(working, <<>>)
    BY <1>5 DEF OwnTurn
  <2> HIDE DEF working
  <2> QED BY <1>2, <1>3, <1>4, <2>1
<1>6. CASE Ask
  <2>1. Reports(asks, <<>>)
    BY <1>6 DEF Ask
  <2> HIDE DEF asks
  <2> QED BY <1>2, <1>3, <1>4, <2>1
<1>7. CASE Answered
  <2>1. Reports(answered, <<>>)
    BY <1>7 DEF Answered
  <2> HIDE DEF answered
  <2> QED BY <1>2, <1>3, <1>4, <2>1
<1>8. CASE Reattaches
  <2>1. Reports(attached, <<>>)
    BY <1>8 DEF Reattaches
  <2> HIDE DEF attached
  <2> QED BY <1>2, <1>3, <1>4, <2>1
<1>9. CASE StatusReport
  <2>1. Reports(readable, <<>>)
    BY <1>9 DEF StatusReport
  <2> HIDE DEF readable
  <2> QED BY <1>2, <1>3, <1>4, <2>1
<1>10. ASSUME NEW outcome \in TurnEnds, EndTurn(outcome)
       PROVE  HostLearns' /\ (TurnEnding => TurnEnding')
  <2> DEFINE e == [kind |-> "ended", outcome |-> outcome]
  <2>1. Reports(over, <<e>>)
    BY <1>10 DEF EndTurn, TurnOver
  <2>2. e \in Events /\ Harmless(e) /\ e.kind = "ended"
    BY TurnsAssumption DEF Events, Harmless
  <2> HIDE DEF over, e
  <2>3. <<e>> \in Seq(Events) /\ DOMAIN <<e>> = {1} /\ <<e>>[1] = e
    BY <2>2
  <2> QED
    BY <1>1, <1>3, <2>1, <2>2, <2>3, ReportIsLearned
<1> QED
  BY <1>5, <1>6, <1>7, <1>8, <1>9, <1>10, LeavingIsLearned DEF ReportsOnly

\* A Stop that ends a turn, and a message that begins one.
LEMMA TurnIsLearned ==
    ASSUME Inv, HostLearns,
           StopTurn \/ \E request \in rt.open : Take(request)
    PROVE  HostLearns' /\ (TurnEnding => TurnEnding')
<1>1. TypeOK /\ rt \in RuntimeStates /\ host' = host
  BY DEF Inv, TypeOK, RuntimeStates, StopTurn, Take
<1>2. CASE StopTurn /\ ~rt.turn
  BY <1>1, <1>2, NothingReported DEF StopTurn, NoReport
<1>3. CASE StopTurn /\ rt.turn
  <2> DEFINE over == [rt EXCEPT !.turn = FALSE, !.asking = FALSE]
  <2> DEFINE e == [kind |-> "ended", outcome |-> "interrupted"]
  <2>1. Reports(over, <<e>>) /\ over \in RuntimeStates
    BY <1>1, <1>3 DEF StopTurn, TurnOver, RuntimeStates
  <2>2. e \in Events /\ Harmless(e) /\ e.kind = "ended"
    BY DEF Events, AllTurnEnds, Harmless
  <2> HIDE DEF over, e
  <2>3. <<e>> \in Seq(Events) /\ DOMAIN <<e>> = {1} /\ <<e>>[1] = e
    BY <2>2
  <2> QED
    BY <1>1, <2>1, <2>2, <2>3, ReportIsLearned
<1>4. ASSUME NEW request \in rt.open, Take(request)
      PROVE  HostLearns' /\ (TurnEnding => TurnEnding')
  <2> DEFINE r == [rt EXCEPT !.turn = TRUE, !.open = @ \ {request}]
  <2> DEFINE e == [kind |-> "user", msg |-> request.msg]
  <2>1. Reports(r, <<e>>) /\ r \in RuntimeStates /\ r.turn
    BY <1>1, <1>4 DEF Take, RuntimeStates
  <2>2. e \in Events /\ Harmless(e)
    BY <1>1 DEF Events, Harmless, RuntimeStates, Requests
  <2> HIDE DEF r, e
  <2>3. <<e>> \in Seq(Events) /\ DOMAIN <<e>> = {1} /\ <<e>>[1] = e
    BY <2>2
  <2> QED
    BY <1>1, <2>1, <2>2, <2>3, ReportIsLearned
<1> QED
  BY <1>2, <1>3, <1>4

-----------------------------------------------------------------------------
(* Steps that wake nothing up *)

\* Who sends goes on sending.
SendersStay ==
    /\ job["drain"].at # "idle" =>
          job'["drain"].at # "idle" /\ job'["drain"].msg = job["drain"].msg
    /\ \A m \in Messages : DefaultInFlight(m)' <=> DefaultInFlight(m)
    /\ Steering =>
          /\ Steering' /\ job'["manage"].msg = job["manage"].msg
          /\ job["manage"].ended => job'["manage"].ended

\* No request is taken, and no result comes, without a turn that ends.
AnswerStays(a) ==
    job'[a].at = "issued" /\ Request(a)' \notin rt'.open =>
        \/ job[a].at = "issued" /\ Request(a) \notin rt.open /\ (job[a].ended => job'[a].ended)
        \/ Excused(a)'
ResultStays ==
    job'["drain"].at = "settling" /\ job'["drain"].outcome \in {"accepted", "busy"} =>
        \/ /\ job["drain"].at = "settling" /\ job["drain"].outcome \in {"accepted", "busy"}
           /\ job["drain"].ended => job'["drain"].ended
        \/ Excused("drain")'
AnswersStay == AnswerStays("drain") /\ AnswerStays("manage") /\ ResultStays

\* The queue is at most paused.
QueueStays ==
    /\ queue'.entries = queue.entries /\ queue'.sending = queue.sending
    /\ queue.pause # None => queue'.pause # None

\* The host learns what it has to, and no drain is lost.
SignalsStay ==
    /\ HostLearns' /\ (TurnEnding => TurnEnding')
    /\ CanDeliver(host') => CanDeliver(host)
    /\ due > 0 => due' > 0

\* What is excused stays excused while turns end as they did.
LEMMA TurnsStay ==
    ASSUME Awake, TurnEnding => TurnEnding', Held(queue) => Held(queue'), AnswersStay
    PROVE  TakenHasTurn("drain")' /\ TakenHasTurn("manage")' /\ ResultHasTurn'
<1>1. ASSUME NEW a \in {"drain", "manage"}
      PROVE  TakenHasTurn(a)'
  <2> SUFFICES ASSUME job'[a].at = "issued", Request(a)' \notin rt'.open
               PROVE  Excused(a)'
    BY DEF TakenHasTurn
  <2>1. CASE job[a].at = "issued" /\ Request(a) \notin rt.open /\ (job[a].ended => job'[a].ended)
    <3>1. Excused(a)
      BY <2>1 DEF Awake, TakenHasTurn
    <3> QED
      BY <2>1, <3>1 DEF Excused
  <2> QED
    BY <2>1 DEF AnswersStay, AnswerStays
<1>2. ResultHasTurn'
  BY DEF Awake, ResultHasTurn, AnswersStay, ResultStays, Excused
<1> QED
  BY <1>1, <1>2

\* What may start after a step could start before it.
LEMMA SignalStays ==
    ASSUME Awake, SignalsStay, Startable(queue') => Startable(queue),
           SteerCounts => SteerCounts' \/ due' > 0
    PROVE  Signalled'
BY DEF Awake, SignalsStay, Signalled

\* A step that leaves the entries and who sends keeps the queue awake.
LEMMA AwakeInCalm ==
    ASSUME Awake, SignalsStay, QueueStays, SendersStay, AnswersStay
    PROVE  Awake'
<1>1. HostLearns'
  BY DEF SignalsStay
<1>2. Held(queue) => Held(queue')
  BY DEF QueueStays, Held
<1>3. TakenHasTurn("drain")' /\ TakenHasTurn("manage")' /\ ResultHasTurn'
  BY <1>2, TurnsStay DEF SignalsStay
<1>4. HeldBySend'
  BY DEF HeldBySend, Awake, QueueStays, SendersStay
<1>5. SendsAlone'
  BY DEF SendsAlone, Awake, QueueStays, SendersStay
<1>6. MarkedIsCarried'
  <2>1. \A m, s : Has(queue', m, s) => Has(queue, m, s)
    BY DEF Has, QueueStays
  <2> QED
    BY <2>1 DEF MarkedIsCarried, Awake, SendersStay
<1>7. Signalled'
  <2>1. Startable(queue') => Startable(queue)
    BY DEF Startable, QueueStays
  <2>2. SteerCounts => SteerCounts'
    BY DEF SteerCounts, SendersStay
  <2> QED
    BY <2>1, <2>2, SignalStays
<1> QED
  BY <1>1, <1>3, <1>4, <1>5, <1>6, <1>7 DEF Awake

OthersSame(a) == \A b \in Actors \ {a} : job'[b] = job[b]

\* One actor moves, and neither begins nor ends a send of an entry.
MovesQuietly(a) ==
    /\ OthersSame(a) /\ rt'.open = rt.open
    /\ a \in Messages => (DefaultInFlight(a)' <=> DefaultInFlight(a))
    /\ a = "drain" =>
          /\ job'[a].at \notin {"idle", "issued"} /\ job'[a].msg = job[a].msg
          /\ job'[a].at = "settling" => job'[a].outcome \notin {"accepted", "busy"}
    /\ a = "manage" =>
          /\ job'[a].at # "issued"
          /\ Steering => Steering' /\ job'[a].msg = job[a].msg /\ job'[a].ended = job[a].ended

\* Then who sends goes on, and nothing is answered.
LEMMA QuietMoves ==
    ASSUME NEW a \in Actors, MovesQuietly(a)
    PROVE  SendersStay /\ AnswersStay
<1>0. "drain" \in Actors /\ "manage" \in Actors /\ Messages \subseteq Actors
  BY Names
<1>1. a # "drain" => job'["drain"] = job["drain"]
  BY <1>0 DEF MovesQuietly, OthersSame
<1>2. a # "manage" => job'["manage"] = job["manage"]
  BY <1>0 DEF MovesQuietly, OthersSame
<1>3. \A m \in Messages : m # a => job'[m] = job[m]
  BY <1>0 DEF MovesQuietly, OthersSame
<1>4. SendersStay
  <2>1. job["drain"].at # "idle" =>
           job'["drain"].at # "idle" /\ job'["drain"].msg = job["drain"].msg
    BY <1>1 DEF MovesQuietly
  <2>2. \A m \in Messages : DefaultInFlight(m)' <=> DefaultInFlight(m)
    BY <1>3 DEF MovesQuietly, DefaultInFlight
  <2>3. Steering => /\ Steering' /\ job'["manage"].msg = job["manage"].msg
                    /\ job["manage"].ended => job'["manage"].ended
    BY <1>2 DEF MovesQuietly, Steering
  <2> QED
    BY <2>1, <2>2, <2>3 DEF SendersStay
<1>5. AnswerStays("drain")
  BY <1>1 DEF MovesQuietly, AnswerStays, Request
<1>6. AnswerStays("manage")
  BY <1>2 DEF MovesQuietly, AnswerStays, Request
<1>7. ResultStays
  BY <1>1 DEF MovesQuietly, ResultStays
<1> QED
  BY <1>4, <1>5, <1>6, <1>7 DEF AnswersStay

\* A quiet move that leaves the entries keeps the queue awake.
LEMMA QuietMoveAwake ==
    ASSUME Awake, NEW a \in Actors, MovesQuietly(a), SignalsStay, QueueStays
    PROVE  Awake'
BY QuietMoves, AwakeInCalm

\* A step of the host that reports nothing.
LEMMA SignalsStayInHost ==
    ASSUME Awake, host' = host, rt' = rt, events' = events, due' = due
    PROVE  SignalsStay
<1>1. NoReport
  BY DEF NoReport
<1> QED
  BY <1>1, NothingReported DEF SignalsStay, Awake

-----------------------------------------------------------------------------
(* The lane moves, and the queue stays awake *)

\* An operation is admitted or refused: it has sent nothing.
LEMMA BeginAwake ==
    ASSUME Inv, Awake, NEW a \in Actors, Begin(a)
    PROVE  Awake'
<1>1. /\ job[a].at = "waiting" /\ TypeOK
      /\ GoTo(a, FirstStage(a)) \/ Failed(a)
      /\ UNCHANGED <<queue, due, host, live>>
  BY DEF Begin, Inv
<1>2. MovesQuietly(a)
  <2>1. CASE Failed(a)
    <3>1. /\ job'[a].at = "settling" /\ job'[a].msg = job[a].msg /\ OthersSame(a)
          /\ a = "drain" => job'[a].outcome = "refused"
      BY <1>1, <2>1, FailedTypes DEF OthersSame
    <3> QED
      BY <1>1, <3>1 DEF MovesQuietly, DefaultInFlight, Steering, live
  <2>2. CASE GoTo(a, FirstStage(a))
    <3>1. FirstStage(a) \in Stages /\ FirstStage(a) \in {"sending", "issued", "preparing"}
          /\ (a = "drain" => FirstStage(a) = "sending")
          /\ (a \in Messages \cup {"manage"} => FirstStage(a) = "preparing")
      BY Names DEF FirstStage, Stages
    <3>2. job'[a].at = FirstStage(a) /\ job'[a].msg = job[a].msg /\ OthersSame(a)
      BY <1>1, <2>2, <3>1, MovedTypes DEF GoTo, OthersSame
    <3> QED
      BY <1>1, <3>1, <3>2 DEF MovesQuietly, DefaultInFlight, Steering, live
  <2> QED
    BY <1>1, <2>1, <2>2
<1>3. QueueStays /\ SignalsStay
  BY <1>1, SignalsStayInHost DEF QueueStays, live
<1> QED
  BY <1>2, <1>3, QuietMoveAwake

\* An operation that is over leaves the lane.
LEMMA SettleAwake ==
    ASSUME Inv, Awake, NEW a \in Actors, Settle(a)
    PROVE  Awake'
<1>1. /\ job[a].at = "settling" /\ a # "drain" /\ job \in [Actors -> Jobs]
      /\ job' = [job EXCEPT ![a] = [Idle EXCEPT !.at = IF a \in Messages THEN "done" ELSE "idle"]]
      /\ UNCHANGED <<queue, due, host, live>>
  BY DEF Settle, Inv, TypeOK
<1>2. job'[a].at \in {"idle", "done"} /\ OthersSame(a)
  BY <1>1 DEF Idle, OthersSame
<1>3. MovesQuietly(a)
  BY <1>1, <1>2 DEF MovesQuietly, DefaultInFlight, Steering, live
<1>4. QueueStays /\ SignalsStay
  BY <1>1, SignalsStayInHost DEF QueueStays, live
<1> QED
  BY <1>3, <1>4, QuietMoveAwake

\* What joins the lane sends nothing yet.
LEMMA JoinsQuietly ==
    ASSUME Inv, NEW a \in Actors \ {"drain"}, NEW m \in Messages \cup {None},
           NEW how \in AllActions \cup {"default", None}, job[a].at \in Resting,
           Join(a, m, how), UNCHANGED <<active, unresolved>>, rt' = rt
    PROVE  MovesQuietly(a)
<1>1. job'[a].at = "waiting" /\ OthersSame(a)
  BY JoinFacts DEF OthersSame
<1>2. a \in Actors /\ a # "drain"
  OBVIOUS
<1> QED
  BY <1>1, <1>2 DEF MovesQuietly, DefaultInFlight, Steering, Resting

\* What the user starts joins the lane or cancels.
LEMMA UserAwake ==
    ASSUME Inv, Awake, User
    PROVE  Awake'
<1>1. ASSUME NEW m \in Messages, NEW mode \in Modes, Submit(m, mode)
      PROVE  Awake'
  <2>1. /\ Join(m, m, mode) /\ UNCHANGED <<active, unresolved, queue, due, host, live>>
        /\ status[m] = "unsent" /\ rt' = rt
    BY <1>1 DEF Submit, live
  <2>2. m \in Actors \ {"drain"} /\ job[m].at \in Resting /\ mode \in AllActions \cup {"default", None}
    BY <2>1, Names, ModesAssumption DEF Inv, JobsFit, SubmissionFits, Resting, AllActions
  <2>3. MovesQuietly(m)
    BY <2>1, <2>2, JoinsQuietly
  <2>4. QueueStays /\ SignalsStay
    BY <2>1, SignalsStayInHost DEF QueueStays, live
  <2> QED
    BY <2>2, <2>3, <2>4, QuietMoveAwake
<1>2. ASSUME NEW m \in Messages, NEW how \in Actions, Manage(how, m)
      PROVE  Awake'
  <2>1. /\ Join("manage", m, how) /\ UNCHANGED <<active, unresolved, queue, due, host, live>>
        /\ job["manage"].at = "idle" /\ rt' = rt
    BY <1>2 DEF Manage, live
  <2>2. "manage" \in Actors \ {"drain"} /\ job["manage"].at \in Resting
        /\ how \in AllActions \cup {"default", None}
    BY <2>1, Names, AnswersAssumption DEF Resting
  <2>3. MovesQuietly("manage")
    BY <2>1, <2>2, JoinsQuietly
  <2>4. QueueStays /\ SignalsStay
    BY <2>1, SignalsStayInHost DEF QueueStays, live
  <2> QED
    BY <2>2, <2>3, <2>4, QuietMoveAwake
<1>3. CASE Stop
  <2>1. GoTo("stop", "cancelled") /\ UNCHANGED <<queue, due, host, live>> /\ TypeOK
    BY <1>3 DEF Stop, Inv
  <2>2. "stop" \in Actors /\ "cancelled" \in Stages
    BY Names DEF Stages
  <2>3. OthersSame("stop")
    BY <2>1, <2>2, MovedTypes DEF GoTo, OthersSame
  <2>4. MovesQuietly("stop")
    BY <2>1, <2>3, Names DEF MovesQuietly, live
  <2>5. QueueStays /\ SignalsStay
    BY <2>1, SignalsStayInHost DEF QueueStays, live
  <2> QED
    BY <2>2, <2>4, <2>5, QuietMoveAwake
<1>4. CASE Answered
  <2>1. UNCHANGED <<job, queue, due, host>> /\ rt'.open = rt.open
    BY <1>4 DEF Answered, Reports, Inv, TypeOK
  <2>2. SignalsStay
    BY <1>4, <2>1, ReportsOnlyLearned DEF ReportsOnly, SignalsStay
  <2>3. "stop" \in Actors /\ MovesQuietly("stop") /\ QueueStays
    BY <2>1, Names DEF MovesQuietly, OthersSame, QueueStays
  <2> QED
    BY <2>2, <2>3, QuietMoveAwake
<1> QED
  BY <1>1, <1>2, <1>3, <1>4 DEF User

\* A Stop pauses the queue.
LEMMA StopPausesAwake ==
    ASSUME Inv, Awake, StopPauses
    PROVE  Awake'
<1>1. /\ job["stop"].at = "cancelled" /\ Join("stop", None, None) /\ rt' = rt
      /\ queue' = PauseQueue(queue, "stopped") /\ GoodQueue(queue)
      /\ UNCHANGED <<active, unresolved, due, host, live>>
  BY DEF StopPauses, Inv, QueueFits, live
<1>2. "stop" \in Actors \ {"drain"} /\ job["stop"].at \in Resting /\ "stopped" \in Pauses \ {None}
  BY <1>1, Names DEF Resting, Pauses, None
<1>3. MovesQuietly("stop")
  BY <1>1, <1>2, JoinsQuietly
<1>4. queue'.entries = queue.entries /\ queue'.sending = queue.sending
  BY <1>1, <1>2, PauseQueueFacts
<1>5. queue.pause # None => queue'.pause # None
  <2>1. FirstPause(queue, "stopped").pause # None
    BY <1>1, <1>2, FirstPauseFacts
  <2> QED
    BY <1>1, <2>1 DEF PauseQueue
<1>6. QueueStays /\ SignalsStay
  BY <1>1, <1>4, <1>5, SignalsStayInHost DEF QueueStays, live
<1> QED
  BY <1>2, <1>3, <1>6, QuietMoveAwake

\* A queue action is checked or fails, and a Stop fails or ends a turn.
LEMMA MovesAwake ==
    ASSUME Inv, Awake, ResumeChecks \/ ManageFails \/ StopTurn \/ StopFails
    PROVE  Awake'
<1>1. TypeOK /\ rt \in RuntimeStates
  BY DEF Inv, TypeOK, RuntimeStates
<1>2. PICK a \in {"manage", "stop"}, s \in {"settling", "committing"} :
         GoTo(a, s) /\ job[a].at \in {"preparing", "committing", "issued"}
         /\ (a = "manage" => job[a].at # "issued")
  BY DEF ResumeChecks, ManageFails, StopTurn, StopFails, Pressed
<1>3. UNCHANGED <<queue, due, host>> /\ rt'.open = rt.open
  BY <1>1 DEF ResumeChecks, ManageFails, StopTurn, StopFails, TurnOver, Reports, live, RuntimeStates
<1>4. a \in Actors /\ s \in Stages /\ a \notin Messages /\ a # "drain"
  BY Names DEF Stages
<1>5. job'[a].at = s /\ OthersSame(a)
  BY <1>1, <1>2, <1>4, MovedTypes DEF GoTo, OthersSame
<1>6. MovesQuietly(a)
  BY <1>2, <1>3, <1>4, <1>5 DEF MovesQuietly, Steering
<1>7. SignalsStay
  <2>1. CASE StopTurn
    BY <1>3, <2>1, TurnIsLearned DEF SignalsStay, Awake
  <2>2. CASE ~StopTurn
    BY <2>2, SignalsStayInHost DEF ResumeChecks, ManageFails, StopFails, live
  <2> QED
    BY <2>1, <2>2
<1> QED
  BY <1>3, <1>4, <1>6, <1>7, QuietMoveAwake DEF QueueStays

\* What the runtime reports on its own.
LEMMA ReportsAwake ==
    ASSUME Inv, Awake, ReportsOnly
    PROVE  Awake'
<1>1. UNCHANGED <<job, queue, due, host>> /\ rt'.open = rt.open
  <2>1. rt \in RuntimeStates
    BY DEF Inv, TypeOK, RuntimeStates
  <2> QED
    BY <2>1 DEF ReportsOnly, OwnTurn, Ask, Answered, SessionLeaves, Reattaches, StatusFault,
       StatusReport, EndTurn, TurnOver, Reports, RuntimeStates
<1>2. SignalsStay
  BY <1>1, ReportsOnlyLearned DEF SignalsStay
<1>3. "stop" \in Actors /\ MovesQuietly("stop") /\ QueueStays
  BY <1>1, Names DEF MovesQuietly, OthersSame, QueueStays
<1> QED
  BY <1>2, <1>3, QuietMoveAwake

\* A message that the runtime takes begins a turn, or joins one.
LEMMA TakeAwake ==
    ASSUME Inv, Awake, NEW request \in rt.open, Take(request)
    PROVE  Awake'
<1>1. /\ UNCHANGED <<job, queue, due, host>> /\ rt \in RuntimeStates
      /\ rt'.turn = TRUE
  BY DEF Take, Reports, Inv, TypeOK, RuntimeStates
<1>2. SignalsStay
  BY <1>1, TurnIsLearned DEF SignalsStay, Awake
<1>3. TurnEnding'
  BY <1>1 DEF TurnEnding
<1>4. AnswersStay
  BY <1>3 DEF AnswersStay, AnswerStays, ResultStays, Excused
<1>5. QueueStays /\ SendersStay
  BY <1>1 DEF QueueStays, SendersStay, DefaultInFlight, Steering
<1> QED
  BY <1>2, <1>4, <1>5, AwakeInCalm

\* The owner learns of a message before the queue does.
LEMMA OwnerObservesAwake ==
    ASSUME Inv, Awake, OwnerObserves
    PROVE  Awake'
<1>1. UNCHANGED <<job, queue, due, host, rt, events>>
  BY DEF OwnerObserves
<1>2. "stop" \in Actors /\ MovesQuietly("stop") /\ QueueStays
  BY <1>1, Names DEF MovesQuietly, OthersSame, QueueStays
<1>3. SignalsStay
  BY <1>1, SignalsStayInHost
<1> QED
  BY <1>2, <1>3, QuietMoveAwake

\* A request that is issued is open.
LEMMA IssueAwake ==
    ASSUME Inv, Awake, NEW a \in Actors \ {"stop"}, Issue(a)
    PROVE  Awake'
<1>1. /\ AtHead(a) /\ job[a].at = "sending" /\ GoTo(a, "issued") /\ TypeOK /\ Lanes
      /\ rt' = [rt EXCEPT !.open = @ \cup {Request(a)}] /\ rt \in RuntimeStates
      /\ UNCHANGED <<queue, due, host, events>>
  BY DEF Issue, Inv, TypeOK, RuntimeStates
<1>2. a \in Actors /\ "issued" \in Stages
  BY DEF Stages
<1>3. /\ job'[a].at = "issued" /\ job'[a].msg = job[a].msg /\ job'[a].how = job[a].how
      /\ job'[a].via = job[a].via /\ OthersSame(a)
      /\ job'[a].ended = job[a].ended
  <2>1. job'[a].ended = job[a].ended
    BY <1>1 DEF GoTo, Moved, TypeOK, Jobs
  <2> QED
    BY <1>1, <1>2, <2>1, MovedTypes DEF GoTo, OthersSame
<1>4. rt'.open = rt.open \cup {Request(a)} /\ NoReport
  BY <1>1 DEF NoReport, RuntimeStates
<1>5. Request(a)' \in rt'.open
  BY <1>3, <1>4 DEF Request
<1>6. "drain" \in Actors /\ "manage" \in Actors /\ Messages \subseteq Actors
  BY Names
<1>7. \A b \in Actors \ {a} : job'[b] = job[b] /\ job[b].at # "issued"
  BY <1>1, <1>2, <1>3, HeadIsAlone DEF OthersSame, AtWork, Running
<1>8. AnswersStay
  <2>1. ASSUME NEW b \in {"drain", "manage"}
        PROVE  AnswerStays(b)
    <3>1. CASE b = a
      BY <1>5, <3>1 DEF AnswerStays
    <3>2. CASE b # a
      BY <1>6, <1>7, <3>2 DEF AnswerStays
    <3> QED BY <3>1, <3>2
  <2>2. ResultStays
    BY <1>3, <1>6, <1>7 DEF ResultStays
  <2> QED
    BY <2>1, <2>2 DEF AnswersStay
<1>9. SendersStay
  <2>1. \A m \in Messages : DefaultInFlight(m)' <=> DefaultInFlight(m)
    BY <1>1, <1>3, <1>6, <1>7 DEF DefaultInFlight
  <2>2. job["drain"].at # "idle" =>
          job'["drain"].at # "idle" /\ job'["drain"].msg = job["drain"].msg
    BY <1>1, <1>3, <1>6, <1>7
  <2>3. Steering =>
          /\ Steering' /\ job'["manage"].msg = job["manage"].msg
          /\ job["manage"].ended => job'["manage"].ended
    BY <1>1, <1>3, <1>6, <1>7 DEF Steering
  <2> QED
    BY <2>1, <2>2, <2>3 DEF SendersStay
<1>10. SignalsStay /\ QueueStays
  BY <1>1, <1>4, NothingReported DEF SignalsStay, Awake, QueueStays
<1> QED
  BY <1>8, <1>9, <1>10, AwakeInCalm

-----------------------------------------------------------------------------
(* The head changes the queue, and it stays awake *)

\* While another is at the head no drain and no queue action waits for an answer.
LEMMA NothingAnswered ==
    ASSUME Inv, NEW a \in Actors, AtHead(a), OthersSame(a), job'[a].at # "issued",
           a = "drain" => job'[a].at # "settling" \/ job'[a].outcome \notin {"accepted", "busy"}
    PROVE  TakenHasTurn("drain")' /\ TakenHasTurn("manage")' /\ ResultHasTurn'
<1>1. \A b \in Actors \ {a} : job'[b].at \notin {"issued", "settling"}
  BY HeadIsAlone DEF Inv, OthersSame, AtWork, Running
<1>2. "drain" \in Actors /\ "manage" \in Actors
  BY Names
<1> QED
  BY <1>1, <1>2 DEF TakenHasTurn, ResultHasTurn

\* While another is at the head no submission is in flight.
LEMMA NoneInFlight ==
    ASSUME Inv, NEW a \in Actors, AtHead(a), OthersSame(a),
           a \in Messages => ~DefaultInFlight(a)'
    PROVE  \A n \in Messages : ~DefaultInFlight(n)' /\ (n # a => ~DefaultInFlight(n))
<1>1. \A b \in Actors \ {a} : job'[b].at \notin AtWork /\ job[b].at \notin AtWork
  BY HeadIsAlone DEF Inv, OthersSame
<1> QED
  BY <1>1, Names DEF DefaultInFlight, AtWork, Running

\* Entries other than that of m are carried as before.
LEMMA MarkedStays ==
    ASSUME Awake, NEW m \in Messages, Others(queue, queue', m),
           job["drain"].at # "idle" /\ job["drain"].msg # m =>
               job'["drain"].at # "idle" /\ job'["drain"].msg = job["drain"].msg,
           Steering /\ job["manage"].msg # m => Steering' /\ job'["manage"].msg = job["manage"].msg,
           Has(queue', m, "sending") => job'["drain"].at # "idle" /\ job'["drain"].msg = m,
           Has(queue', m, "steering") => Steering' /\ job'["manage"].msg = m
    PROVE  MarkedIsCarried'
<1>1. \A n \in Messages \ {m}, s \in {"sending", "steering"} : Has(queue', n, s) => Has(queue, n, s)
  BY DEF Others, EntryStates
<1>2. MarkedIsCarried
  BY DEF Awake
<1>3. \A n \in Messages : Has(queue', n, "sending") => job'["drain"].at # "idle" /\ job'["drain"].msg = n
  BY <1>1, <1>2 DEF MarkedIsCarried
<1>4. \A n \in Messages : Has(queue', n, "steering") => Steering' /\ job'["manage"].msg = n
  BY <1>1, <1>2 DEF MarkedIsCarried
<1> QED
  BY <1>3, <1>4 DEF MarkedIsCarried

\* A queue without entries carries nothing.
LEMMA EmptyIsCarried ==
    ASSUME queue'.entries = <<>>
    PROVE  MarkedIsCarried' /\ SendsAlone'
<1>1. \A m, s : ~Has(queue', m, s)
  BY DEF Has
<1> QED
  BY <1>1 DEF MarkedIsCarried, SendsAlone

\* A step of the host's head that reports nothing and releases nothing wrongly.
LEMMA HeadAwake ==
    ASSUME Inv, Awake, NEW a \in Actors, AtHead(a), OthersSame(a), NoReport,
           job'[a].at # "issued",
           a = "drain" => job'[a].at # "settling" \/ job'[a].outcome \notin {"accepted", "busy"},
           HeldBySend', SendsAlone', MarkedIsCarried', Signalled'
    PROVE  Awake'
<1>1. HostLearns'
  BY NothingReported DEF Awake
<1>2. TakenHasTurn("drain")' /\ TakenHasTurn("manage")' /\ ResultHasTurn'
  BY NothingAnswered
<1> QED
  BY <1>1, <1>2 DEF Awake

\* A queued message comes after the others.
LEMMA LastStartsNothing ==
    ASSUME NEW q, GoodQueue(q), NEW m \in Messages, q.entries # <<>>, Startable(EnqueueLast(q, m))
    PROVE  Startable(q)
<1> DEFINE e == [msg |-> m, state |-> "queued"]
<1> DEFINE p == EnqueueLast(q, m)
<1>1. q \in Queues /\ q.entries \in Seq(Entries) /\ e \in Entries
  BY DEF GoodQueue, Queues, Entries, EntryStates
<1>2. p.entries = Append(q.entries, e) /\ p.pause = q.pause /\ p.sending = q.sending
  BY <1>1 DEF EnqueueLast, Queues
<1> HIDE DEF e
<1>3. Head(p.entries) = Head(q.entries)
  BY <1>1, <1>2
<1> QED
  BY <1>2, <1>3 DEF Startable

\* A submission is prepared: it fails, is steered, waits in the queue, or is sent.
LEMMA PreparedAwake ==
    ASSUME Inv, Awake, NEW m \in Messages, Prepared(m)
    PROVE  Awake'
<1>1. /\ AtHead(m) /\ job[m].at = "preparing" /\ m \in Actors /\ TypeOK
      /\ UNCHANGED <<due, host, live>> /\ GoodQueue(queue) /\ job[m].how \in {"default", "steer"}
  BY Names DEF Prepared, Inv, QueueFits, JobsFit, SubmissionFits
<1>2. SignalsStay /\ NoReport /\ rt' = rt
  BY <1>1, SignalsStayInHost DEF live, NoReport
<1>3. "settling" \in Stages /\ "routing" \in Stages /\ ~InQueue(queue, m) /\ \A s : ~Has(queue, m, s)
  BY <1>1, NotYetQueued DEF Stages, Returned
<1>4. m # "drain" /\ m # "manage" /\ ~DefaultInFlight(m)
  BY <1>1, Names DEF DefaultInFlight
<1>5. CASE Failed(m) /\ queue' = queue
  <2>1. job'[m].at = "settling" /\ OthersSame(m)
    BY <1>1, <1>5, FailedTypes DEF OthersSame
  <2>2. MovesQuietly(m) /\ QueueStays
    BY <1>2, <1>4, <1>5, <2>1 DEF MovesQuietly, QueueStays, DefaultInFlight
  <2> QED
    BY <1>1, <1>2, <2>2, QuietMoveAwake
<1>6. CASE job[m].how = "steer" /\ GoTo(m, "routing") /\ queue' = queue
  <2>1. job'[m].at = "routing" /\ OthersSame(m)
    BY <1>1, <1>3, <1>6, MovedTypes DEF GoTo, OthersSame
  <2>2. MovesQuietly(m) /\ QueueStays
    BY <1>2, <1>4, <1>6, <2>1 DEF MovesQuietly, QueueStays, DefaultInFlight
  <2> QED
    BY <1>1, <1>2, <2>2, QuietMoveAwake
<1>7. CASE MustWait /\ queue' = EnqueueLast(queue, m) /\ GoTo(m, "settling")
  <2>1. job'[m].at = "settling" /\ OthersSame(m)
    BY <1>1, <1>3, <1>7, MovedTypes DEF GoTo, OthersSame
  <2>2. MovesQuietly(m)
    BY <1>2, <1>4, <2>1 DEF MovesQuietly, DefaultInFlight
  <2>3. SendersStay
    BY <1>1, <2>2, QuietMoves
  <2>4. /\ GoodQueue(queue') /\ Others(queue, queue', m) /\ queue'.sending = queue.sending
        /\ Has(queue', m, "queued")
    BY <1>1, <1>3, <1>7, EnqueueLastFacts
  <2>5. ~Has(queue', m, "sending") /\ ~Has(queue', m, "steering")
    BY <2>4, HasIsState
  <2>6. HeldBySend'
    BY <2>3, <2>4 DEF Awake, HeldBySend, SendersStay
  <2>7. SendsAlone'
    BY <1>1, <2>1, NoneInFlight DEF SendsAlone, DefaultInFlight
  <2>8. MarkedIsCarried'
    BY <2>3, <2>4, <2>5, MarkedStays DEF SendersStay
  <2>9. Signalled'
    <3>1. Startable(queue') => Startable(queue)
      BY <1>1, <1>7, <2>4, LastStartsNothing DEF MustWait, Startable
    <3>2. SteerCounts => SteerCounts'
      BY <2>3 DEF SteerCounts, SendersStay
    <3> QED
      BY <1>2, <3>1, <3>2, SignalStays
  <2> QED
    BY <1>1, <1>2, <1>4, <2>1, <2>6, <2>7, <2>8, <2>9, HeadAwake
<1>8. CASE /\ job[m].how # "steer" /\ ~MustWait
           /\ queue' = [queue EXCEPT !.sending = TRUE]
           /\ job' = [job EXCEPT ![m].at = "sending", ![m].ended = FALSE]
  <2>1. job \in [Actors -> Jobs]
    BY <1>1 DEF TypeOK
  <2>2. job'[m].at = "sending" /\ job'[m].how = "default" /\ OthersSame(m)
    BY <1>1, <1>8, <2>1 DEF OthersSame, Jobs
  <2>3. queue'.sending = TRUE /\ queue'.entries = <<>>
    BY <1>1, <1>8 DEF GoodQueue, Queues, MustWait
  <2>4. HeldBySend'
    BY <2>2 DEF HeldBySend, DefaultInFlight
  <2>5. SendsAlone' /\ MarkedIsCarried'
    BY <2>3, EmptyIsCarried
  <2>6. Signalled'
    BY <2>3 DEF Signalled, Startable
  <2> QED
    BY <1>1, <1>2, <1>4, <2>2, <2>4, <2>5, <2>6, HeadAwake
<1> QED
  BY <1>5, <1>6, <1>7, <1>8 DEF Prepared

\* A steer is on its way, or is not possible while the agent works.
LEMMA RouteAwake ==
    ASSUME Inv, Awake, NEW a \in Actors \ {"stop"}, Route(a)
    PROVE  Awake'
<1>1. /\ AtHead(a) /\ job[a].at = "routing" /\ a \in Actors /\ TypeOK
      /\ UNCHANGED <<host, live>> /\ GoodQueue(queue) /\ a # "drain"
      /\ a \in Messages => job[a].how = "steer"
  BY Names DEF Route, Inv, QueueFits, JobsFit, SubmissionFits, DrainFits
<1>2. NoReport /\ rt' = rt /\ host' = host /\ events' = events
  BY <1>1 DEF live, NoReport
<1>3. job \in [Actors -> Jobs]
  BY <1>1 DEF TypeOK
<1>4. CASE /\ job' = [job EXCEPT ![a].at = "sending",
                                ![a].via = IF host.working THEN "steer" ELSE "new_turn"]
           /\ UNCHANGED <<queue, due>>
  <2>1. /\ job'[a].at = "sending" /\ job'[a].msg = job[a].msg /\ job'[a].how = job[a].how
        /\ job'[a].ended = job[a].ended /\ OthersSame(a)
    BY <1>1, <1>3, <1>4 DEF OthersSame, Jobs
  <2>2. MovesQuietly(a)
    BY <1>1, <1>2, <2>1 DEF MovesQuietly, DefaultInFlight, Steering
  <2>3. SignalsStay /\ QueueStays
    BY <1>2, <1>4, SignalsStayInHost DEF QueueStays
  <2> QED
    BY <1>1, <2>2, <2>3, QuietMoveAwake
<1>5. CASE Failed(a) /\ a # "manage" /\ UNCHANGED <<queue, due>>
  <2>1. job'[a].at = "settling" /\ OthersSame(a)
    BY <1>1, <1>5, FailedTypes DEF OthersSame
  <2>2. MovesQuietly(a)
    BY <1>1, <1>2, <1>5, <2>1 DEF MovesQuietly, DefaultInFlight
  <2>3. SignalsStay /\ QueueStays
    BY <1>2, <1>5, SignalsStayInHost DEF QueueStays
  <2> QED
    BY <1>1, <2>2, <2>3, QuietMoveAwake
<1>6. CASE /\ host.working /\ Failed(a) /\ a = "manage"
           /\ \/ queue' = Mark(queue, job[a].msg, "queued")
              \/ queue' = queue /\ Unused(queue)
  <2> DEFINE m == job[a].msg
  <2>1. job'[a].at = "settling" /\ OthersSame(a) /\ "drain" \in Actors /\ a \notin Messages
    BY <1>1, <1>6, FailedTypes, Names DEF OthersSame
  <2>2. m \in Messages
    BY <1>1, <1>6 DEF Inv, JobsFit, ManageFits
  <2>3. \A n \in Messages : ~DefaultInFlight(n)' /\ ~DefaultInFlight(n)
    BY <1>1, <2>1, NoneInFlight
  <2>4. job'["drain"] = job["drain"]
    BY <1>1, <2>1 DEF OthersSame
  <2>5. /\ queue'.sending = queue.sending /\ Others(queue, queue', m)
        /\ ~Has(queue', m, "sending") /\ ~Has(queue', m, "steering")
    <3>1. CASE queue' = Mark(queue, m, "queued")
      BY <1>1, <2>2, <3>1, MarkFacts DEF EntryStates
    <3>2. CASE queue' = queue /\ Unused(queue)
      BY <3>2 DEF Unused, Has, Others
    <3> QED
      BY <1>6, <3>1, <3>2
  <2>6. HeldBySend'
    BY <2>3, <2>4, <2>5 DEF Awake, HeldBySend
  <2>7. SendsAlone'
    BY <2>3 DEF SendsAlone
  <2>8. MarkedIsCarried'
    BY <1>6, <2>2, <2>4, <2>5, MarkedStays
  <2>9. Signalled'
    BY <1>2, <1>6 DEF Signalled, CanDeliver
  <2> QED
    BY <1>1, <1>2, <2>1, <2>6, <2>7, <2>8, <2>9, HeadAwake
<1> QED
  BY <1>1, <1>4, <1>5, <1>6 DEF Route

-----------------------------------------------------------------------------
(* A send ends, and the queue stays awake *)

\* A drain that waits goes on waiting, and what is scheduled waits.
LEMMA ScheduleWakes ==
    ASSUME due \in 0..2, NEW n \in 0..2, Schedule(n)
    PROVE  (due > 0 => due' > 0) /\ (n > 0 => due' > 0)
BY DEF Schedule

\* A result is the runtime's answer, or was made known or unclear.
LEMMA ClassifiedResults ==
    ASSUME NEW a \in Actors, NEW answer \in AllOutcomes \cup {"busy"}
    PROVE  /\ Classified(a, answer) \in Results
           /\ Classified(a, answer) = "accepted" => answer = "accepted"
           /\ Classified(a, answer) = "busy" => answer = "busy"
<1>1. answer \in {"accepted", "received", "refused", "unknown", "unclear", "busy"}
  BY DEF AllOutcomes
<1> QED
  BY <1>1 DEF Classified, Results

\* What enters first in its queue waits behind nothing.
LEMMA UnknownIsNotStartable ==
    ASSUME NEW q, GoodQueue(q), NEW m \in Messages, ~InQueue(q, m)
    PROVE  ~Startable(FirstPause(EnqueueFirst(q, m, "acceptance_unknown"), "acceptance_unknown"))
<1>1. FirstPause(EnqueueFirst(q, m, "acceptance_unknown"), "acceptance_unknown").pause # None
  BY UnknownEnters
<1> QED
  BY <1>1 DEF Startable

\* An answer that a drain, a queue action or a new turn has to have a turn for.
AnswerHasTurn(a, answer) ==
    /\ answer = "accepted" /\ a \in {"drain", "manage"} => Excused(a)
    /\ answer = "busy" => TurnEnding

\* A drain is answered, and its result waits for its operation to leave.
LEMMA DrainAnsweredAwake ==
    ASSUME Inv, Awake, NEW answer, AtHead("drain"), Answer("drain", answer), NoReport,
           AnswerHasTurn("drain", answer)
    PROVE  Awake'
<1>1. "drain" \in Actors /\ "manage" \in Actors /\ Messages \subseteq Actors /\ "drain" \notin Messages
  BY Names
<1>2. TypeOK /\ Lanes /\ job \in [Actors -> Jobs]
  BY DEF Inv, TypeOK
<1>3. /\ job'["drain"].at = "settling" /\ job'["drain"].msg = job["drain"].msg
      /\ job'["drain"].outcome = answer
  BY <1>1, <1>2, AnswerMoves
<1>4. OthersSame("drain") /\ job'["drain"].ended = job["drain"].ended
  BY <1>1, <1>2 DEF Answer, OthersSame, Jobs
<1>5. queue' = queue /\ due' = due
  BY DEF Answer
<1>6. \A b \in Actors \ {"drain"} : job'[b] = job[b] /\ job[b].at \notin AtWork
  BY <1>1, <1>2, <1>4, HeadIsAlone DEF OthersSame
<1>7. SendersStay
  BY <1>1, <1>3, <1>6 DEF SendersStay, DefaultInFlight, Steering
<1>8. AnswersStay
  <2>1. AnswerStays("drain") /\ AnswerStays("manage")
    BY <1>1, <1>3, <1>6 DEF AnswerStays, AtWork, Running
  <2>2. answer \in {"accepted", "busy"} => Excused("drain")
    BY DEF AnswerHasTurn, Excused
  <2>3. Excused("drain") => Excused("drain")'
    BY <1>4, <1>5, NothingReported DEF Excused
  <2>4. ResultStays
    BY <1>3, <2>2, <2>3 DEF ResultStays
  <2> QED
    BY <2>1, <2>4 DEF AnswersStay
<1>9. SignalsStay /\ QueueStays
  BY <1>5, NothingReported DEF SignalsStay, QueueStays, Awake
<1> QED
  BY <1>7, <1>8, <1>9, AwakeInCalm

\* A steered entry leaves the queue, waits again paused, or is kept as unknown.
LEMMA SteerAnsweredAwake ==
    ASSUME Inv, Awake, NEW answer \in AllOutcomes \cup {"busy"}, AtHead("manage"),
           job["manage"].at \in {"sending", "issued"}, Answer("manage", answer), NoReport,
           AnswerHasTurn("manage", answer)
    PROVE  Awake'
<1> DEFINE c == Classified("manage", answer)
<1> DEFINE m == job["manage"].msg
<1>1. "drain" \in Actors /\ "manage" \in Actors /\ Messages \subseteq Actors /\ "manage" \notin Messages
  BY Names
<1>2. TypeOK /\ job \in [Actors -> Jobs] /\ GoodQueue(queue) /\ due \in 0..2
  BY DEF Inv, TypeOK, QueueFits
<1>3. m \in Messages
  BY DEF Inv, JobsFit, ManageFits
<1>4. c \in Results /\ (c = "accepted" => answer = "accepted")
  BY <1>1, ClassifiedResults
<1>5. job'["manage"].at = "settling"
  BY <1>1, <1>2, AnswerMoves
<1>6. OthersSame("manage")
  BY <1>1, <1>2 DEF Answer, OthersSame
<1>7. AfterSteerEntry(m, c)
  BY DEF Answer
<1> HIDE DEF c, m
<1>8. \A n \in Messages : ~DefaultInFlight(n)' /\ ~DefaultInFlight(n)
  BY <1>1, <1>6, NoneInFlight
<1>9. job'["drain"] = job["drain"]
  BY <1>1, <1>6 DEF OthersSame
<1>10. CASE Unused(queue)
  <2>1. queue' = queue /\ queue.entries = <<>>
    BY <1>7, <1>10 DEF AfterSteerEntry, Unused
  <2>2. HeldBySend'
    BY <1>10, <2>1 DEF HeldBySend, Unused
  <2>3. SendsAlone' /\ MarkedIsCarried'
    BY <2>1, EmptyIsCarried
  <2>4. Signalled'
    BY <2>1 DEF Signalled, Startable
  <2> QED
    BY <1>1, <1>5, <1>6, <2>2, <2>3, <2>4, HeadAwake
<1>11. CASE ~Unused(queue)
  <2>1. /\ queue' = IF c = "accepted" THEN RemoveEntry(queue, m) ELSE FailEntry(queue, m, c)
        /\ Schedule(Once(job["manage"].ended))
    BY <1>7, <1>11 DEF AfterSteerEntry
  <2>2. /\ Others(queue, queue', m) /\ queue'.sending = queue.sending
        /\ ~Has(queue', m, "sending") /\ ~Has(queue', m, "steering")
    <3>1. CASE c = "accepted"
      <4>1. Others(queue, queue', m) /\ queue'.sending = queue.sending /\ ~InQueue(queue', m)
        BY <1>2, <1>3, <2>1, <3>1, RemoveEntryFacts
      <4> QED
        BY <4>1 DEF Has, InQueue
    <3>2. CASE c # "accepted"
      <4>1. Others(queue, queue', m) /\ queue'.sending = queue.sending
        BY <1>2, <1>3, <2>1, <3>2, FailEntryFacts
      <4>2. \A t \in EntryStates : Has(queue', m, t) => t \in {"queued", "acceptance_unknown"}
        BY <1>2, <1>3, <2>1, <3>2, FailedEntryWaits
      <4> QED
        BY <4>1, <4>2 DEF EntryStates
    <3> QED
      BY <3>1, <3>2
  <2>3. HeldBySend'
    BY <1>8, <1>9, <2>2 DEF Awake, HeldBySend
  <2>4. SendsAlone'
    BY <1>8 DEF SendsAlone
  <2>5. MarkedIsCarried'
    BY <1>3, <1>9, <2>2, MarkedStays DEF m
  <2>6. Signalled'
    <3>1. CASE c # "accepted"
      <4>1. queue'.pause # None
        BY <1>2, <1>3, <2>1, <3>1, FailEntryFacts
      <4> QED
        BY <4>1 DEF Signalled, Startable
    <3>2. CASE c = "accepted" /\ Held(queue)
      <4>1. Held(queue')
        BY <1>2, <1>3, <2>1, <3>2, RemoveHolds
      <4> QED
        BY <4>1 DEF Signalled, Startable, Held
    <3>3. CASE c = "accepted" /\ TurnEnding
      BY <3>3, NothingReported DEF Signalled
    <3>4. CASE c = "accepted" /\ job["manage"].ended
      <4>1. due' > 0
        BY <1>2, <2>1, <3>4, ScheduleWakes DEF Once
      <4> QED
        BY <4>1 DEF Signalled
    <3> QED
      BY <1>4, <3>1, <3>2, <3>3, <3>4 DEF AnswerHasTurn, Excused
  <2> QED
    BY <1>1, <1>5, <1>6, <2>3, <2>4, <2>5, <2>6, HeadAwake
<1> QED
  BY <1>10, <1>11

\* A new turn for a message: what is still queued waits behind it, or the queue is empty.
LEMMA NewTurnAnsweredAwake ==
    ASSUME Inv, Awake, NEW m \in Messages, NEW c \in Results, AtHead(m), DefaultInFlight(m),
           OthersSame(m), job'[m].at = "settling", NoReport, AfterNewTurn(m, c),
           c = "busy" => TurnEnding
    PROVE  Awake'
<1>1. /\ TypeOK /\ GoodQueue(queue) /\ m \in Actors /\ ~InQueue(queue, m) /\ m # "drain"
      /\ queue.entries = <<>>
  BY Names, NotYetQueued DEF Inv, QueueFits, DefaultInFlight, Returned, Awake, SendsAlone
<1>2. queue'.sending = FALSE
  BY <1>1, AfterNewTurnFacts
<1>3. \A n \in Messages : ~DefaultInFlight(n)'
  BY <1>1, NoneInFlight DEF DefaultInFlight
<1>4. HeldBySend'
  BY <1>2 DEF HeldBySend
<1>5. SendsAlone'
  BY <1>3 DEF SendsAlone
<1> DEFINE q == [queue EXCEPT !.sending = FALSE]
<1>6. GoodQueue(q) /\ q.entries = <<>> /\ ~InQueue(q, m) /\ \A n, s : ~Has(q, n, s)
  BY <1>1, SendingFacts, EmptyHoldsNothing DEF InQueue
<1>7. /\ c = "accepted" => queue' = EndPauseIfEmpty(q)
      /\ c = "busy" => queue' = EnqueueFirst(q, m, "queued")
      /\ c = "unknown" => queue' = FirstPause(EnqueueFirst(q, m, "acceptance_unknown"), "acceptance_unknown")
      /\ c = "received" => queue' = EndPauseIfEmpty(PauseQueue(q, "accepted_then_failed"))
      /\ c = "refused" => queue' = EndPauseIfEmpty(q)
  BY DEF AfterNewTurn
<1> HIDE DEF q
<1>8. CASE c \in {"accepted", "received", "refused"}
  <2>1. queue'.entries = <<>>
    <3>1. PauseQueue(q, "accepted_then_failed").entries = <<>>
          /\ GoodQueue(PauseQueue(q, "accepted_then_failed"))
      BY <1>6, PauseQueueFacts DEF Pauses, None
    <3> QED
      BY <1>6, <1>7, <1>8, <3>1, EndPauseFacts
  <2>2. MarkedIsCarried'
    BY <2>1, EmptyIsCarried
  <2>3. Signalled'
    BY <2>1 DEF Signalled, Startable
  <2> QED
    BY <1>1, <1>4, <1>5, <2>2, <2>3, HeadAwake
<1>9. CASE c \in {"busy", "unknown"}
  <2>1. /\ GoodQueue(queue') /\ Others(q, queue', m) /\ InQueue(queue', m)
        /\ ~Has(queue', m, "sending") /\ ~Has(queue', m, "steering")
    <3>1. CASE c = "busy"
      <4>1. /\ GoodQueue(queue') /\ Others(q, queue', m) /\ InQueue(queue', m)
            /\ Has(queue', m, "queued")
        BY <1>6, <1>7, <3>1, EnqueueFirstFacts DEF EntryStates
      <4> QED
        BY <4>1, HasIsState
    <3>2. CASE c = "unknown"
      BY <1>6, <1>7, <3>2, UnknownEnters DEF EntryStates
    <3> QED
      BY <1>9, <3>1, <3>2
  <2>2. \A n \in Messages : ~Has(queue', n, "sending") /\ ~Has(queue', n, "steering")
    BY <1>6, <2>1 DEF Others, EntryStates
  <2>3. MarkedIsCarried'
    BY <2>2 DEF MarkedIsCarried
  <2>4. Signalled'
    <3>1. c = "unknown" => ~Startable(queue')
      BY <1>6, <1>7, UnknownIsNotStartable
    <3>2. c = "busy" => TurnEnding'
      BY NothingReported
    <3> QED
      BY <1>9, <3>1, <3>2 DEF Signalled
  <2> QED
    BY <1>1, <1>4, <1>5, <2>3, <2>4, HeadAwake
<1> QED
  BY <1>8, <1>9 DEF Results

\* A composer steer: the queue is paused, or the result is unknown.
LEMMA ComposerSteerAwake ==
    ASSUME Inv, Awake, NEW m \in Messages, NEW c \in Results, AtHead(m),
           job[m].at \in {"sending", "issued"}, ~DefaultInFlight(m), ~DefaultInFlight(m)',
           OthersSame(m), job'[m].at = "settling", NoReport, AfterSteer(m, c)
    PROVE  Awake'
<1>1. /\ TypeOK /\ GoodQueue(queue) /\ m \in Actors /\ m # "drain" /\ m # "manage"
      /\ ~InQueue(queue, m) /\ \A s : ~Has(queue, m, s)
      /\ "drain" \in Actors /\ "manage" \in Actors
  BY Names, NotYetQueued DEF Inv, QueueFits, Returned
<1>2. \A n \in Messages : ~DefaultInFlight(n)' /\ ~DefaultInFlight(n)
  BY <1>1, NoneInFlight
<1>3. job'["drain"] = job["drain"] /\ job'["manage"] = job["manage"]
  BY <1>1 DEF OthersSame
<1>4. due' = due
  BY DEF AfterSteer
<1>5. /\ queue'.sending = queue.sending /\ Others(queue, queue', m)
      /\ ~Has(queue', m, "sending") /\ ~Has(queue', m, "steering")
      /\ Startable(queue') => Startable(queue)
  <2>1. CASE c = "accepted"
    BY <1>1, <2>1 DEF AfterSteer, Others
  <2>2. CASE c = "unknown"
    <3>1. queue' = FirstPause(EnqueueFirst(queue, m, "acceptance_unknown"), "acceptance_unknown")
      BY <2>2 DEF AfterSteer
    <3> QED
      BY <1>1, <3>1, UnknownEnters, UnknownIsNotStartable DEF EntryStates
  <2>3. CASE c \in {"received", "busy", "refused"}
    <3>1. PICK p \in {"accepted_then_failed", "steer_failed"} : queue' = PauseQueue(queue, p)
      BY <2>3 DEF AfterSteer
    <3>2. p \in Pauses \ {None}
      BY DEF Pauses, None
    <3>3. Alike(queue, queue') /\ queue'.entries = queue.entries /\ queue'.sending = queue.sending
      BY <1>1, <3>1, <3>2, PauseQueueFacts
    <3>4. Held(queue') \/ queue' = queue
      BY <1>1, <3>1, <3>2, PauseHolds
    <3> QED
      BY <1>1, <3>3, <3>4 DEF Alike, Others, Has, Held, Startable
  <2> QED
    BY <2>1, <2>2, <2>3 DEF Results
<1>6. HeldBySend'
  BY <1>2, <1>3, <1>5 DEF HeldBySend, Awake
<1>7. SendsAlone'
  BY <1>2 DEF SendsAlone
<1>8. MarkedIsCarried'
  BY <1>3, <1>5, MarkedStays DEF Steering
<1>9. Signalled'
  <2>1. SteerCounts => SteerCounts'
    BY <1>3 DEF SteerCounts, Steering
  <2> QED
    BY <1>4, <1>5, <2>1, NothingReported DEF Signalled, Awake
<1> QED
  BY <1>1, <1>6, <1>7, <1>8, <1>9, HeadAwake

\* A send ends, whoever sent.
LEMMA AnswerAwake ==
    ASSUME Inv, Awake, NEW a \in Actors \ {"stop"}, NEW answer \in AllOutcomes \cup {"busy"},
           AtHead(a), job[a].at \in {"sending", "issued"}, Answer(a, answer), NoReport,
           AnswerHasTurn(a, answer)
    PROVE  Awake'
<1>1. a \in Actors /\ (a \in Messages \/ a = "drain" \/ a = "manage")
  BY Names
<1>2. CASE a = "drain"
  BY <1>2, DrainAnsweredAwake
<1>3. CASE a = "manage"
  BY <1>3, SteerAnsweredAwake
<1>4. CASE a \in Messages
  <2> DEFINE c == Classified(a, answer)
  <2>1. TypeOK /\ job \in [Actors -> Jobs] /\ a # "drain" /\ a # "manage"
    BY <1>4, Names DEF Inv, TypeOK
  <2>2. job'[a].at = "settling" /\ job'[a].how = job[a].how
    BY <1>1, <2>1, AnswerMoves
  <2>3. OthersSame(a)
    BY <1>1, <2>1 DEF Answer, OthersSame
  <2>4. IF job[a].how = "default" THEN AfterNewTurn(a, c) ELSE AfterSteer(a, c)
    BY <2>1 DEF Answer
  <2>5. c \in Results /\ (c = "busy" => TurnEnding)
    BY <1>1, ClassifiedResults DEF AnswerHasTurn
  <2> HIDE DEF c
  <2>6. CASE job[a].how = "default"
    BY <1>4, <2>2, <2>3, <2>4, <2>5, <2>6, NewTurnAnsweredAwake DEF DefaultInFlight
  <2>7. CASE job[a].how # "default"
    BY <1>4, <2>2, <2>3, <2>4, <2>5, <2>7, ComposerSteerAwake DEF DefaultInFlight
  <2> QED
    BY <2>6, <2>7
<1> QED
  BY <1>1, <1>2, <1>3, <1>4

\* A send that fails before its request, or finds the runtime in a turn.
LEMMA SendAwake ==
    ASSUME Inv, Awake, NEW a \in Actors \ {"stop"}, SendFails(a) \/ SendBusy(a)
    PROVE  Awake'
<1>1. AtHead(a) /\ job[a].at = "sending" /\ UNCHANGED <<host, live>>
  BY DEF SendFails, SendBusy
<1>2. PICK answer \in {"refused", "busy"} : Answer(a, answer) /\ (answer = "busy" => rt.turn)
  BY DEF SendFails, SendBusy
<1>3. NoReport
  BY <1>1 DEF NoReport, live
<1>4. AnswerHasTurn(a, answer)
  BY <1>2 DEF AnswerHasTurn, TurnEnding
<1>5. answer \in AllOutcomes \cup {"busy"}
  BY DEF AllOutcomes
<1> QED
  BY <1>1, <1>2, <1>3, <1>4, <1>5, AnswerAwake

\* The runtime accepts what it has taken, and then a turn runs or has ended.
LEMMA ReplyAwake ==
    ASSUME Inv, Awake, NEW a \in Actors, NEW answer \in Outcomes, Reply(a, answer)
    PROVE  Awake'
<1>1. /\ AtHead(a) /\ job[a].at = "issued" /\ a # "stop" /\ Answer(a, answer)
      /\ answer \in {"accepted", "received"} => Request(a) \notin rt.open
      /\ rt' = IF answer = "refused" THEN [rt EXCEPT !.open = @ \ {Request(a)}] ELSE rt
      /\ UNCHANGED <<host, events>> /\ rt \in RuntimeStates
  BY DEF Reply, Inv, TypeOK, RuntimeStates
<1>2. NoReport
  BY <1>1 DEF NoReport, RuntimeStates
<1>3. answer \in AllOutcomes /\ answer # "busy"
  BY AnswersAssumption DEF AllOutcomes
<1>4. AnswerHasTurn(a, answer)
  BY <1>1, <1>3 DEF AnswerHasTurn, Awake, TakenHasTurn
<1> QED
  BY <1>1, <1>2, <1>3, <1>4, AnswerAwake

-----------------------------------------------------------------------------
(* The queue's buttons and the drain, and the queue stays awake *)

\* A button changes an entry that no send carries, and what may start then is scheduled.
LEMMA ButtonAwake ==
    ASSUME Inv, Awake, NEW m \in Messages, AtHead("manage"), job["manage"].at = "preparing",
           GoTo("manage", "settling"), UNCHANGED <<host, live>>,
           Others(queue, queue', m), queue'.sending = queue.sending,
           ~Has(queue', m, "sending"), ~Has(queue', m, "steering"), Signalled'
    PROVE  Awake'
<1>1. "drain" \in Actors /\ "manage" \in Actors /\ "manage" \notin Messages /\ "settling" \in Stages
      /\ TypeOK
  BY Names DEF Inv, Stages
<1>2. job'["manage"].at = "settling" /\ OthersSame("manage")
  BY <1>1, MovedTypes DEF GoTo, OthersSame
<1>3. job'["drain"] = job["drain"] /\ NoReport
  BY <1>1, <1>2 DEF OthersSame, NoReport, live
<1>4. \A n \in Messages : ~DefaultInFlight(n)' /\ ~DefaultInFlight(n)
  BY <1>1, <1>2, NoneInFlight
<1>5. HeldBySend'
  BY <1>3, <1>4 DEF HeldBySend, Awake
<1>6. SendsAlone'
  BY <1>4 DEF SendsAlone
<1>7. MarkedIsCarried'
  BY <1>3, MarkedStays DEF Steering
<1> QED
  BY <1>1, <1>2, <1>3, <1>5, <1>6, <1>7, HeadAwake

\* What is released has a drain.
LEMMA ReleaseSignals ==
    ASSUME Inv, NEW q, ReleaseWith(q), host' = host
    PROVE  Signalled'
<1>1. CASE CanDeliver(host)
  <2>1. due \in 0..2 /\ Schedule(1)
    BY <1>1 DEF Inv, TypeOK, ReleaseWith, Once
  <2>2. due' > 0
    BY <2>1, ScheduleWakes
  <2> QED
    BY <2>2 DEF Signalled
<1>2. CASE ~CanDeliver(host)
  BY <1>2 DEF Signalled
<1> QED
  BY <1>1, <1>2

\* An edit of an entry that waits, or its removal.
LEMMA ButtonsAwake ==
    ASSUME Inv, Awake, BeginEdit \/ EndEdit \/ RemoveMessage
    PROVE  Awake'
<1> DEFINE m == job["manage"].msg
<1>1. /\ AtHead("manage") /\ job["manage"].at = "preparing" /\ MayChange
      /\ GoTo("manage", "settling") /\ UNCHANGED <<host, live>>
      /\ GoodQueue(queue)
  BY DEF BeginEdit, EndEdit, RemoveMessage, Pressed, Inv, QueueFits
<1>2. m \in Messages
  BY <1>1, MayChangeFacts
<1>3. ASSUME NEW s \in {"queued", "editing"}, queue' = Mark(queue, m, s)
      PROVE  /\ Others(queue, queue', m) /\ queue'.sending = queue.sending
             /\ ~Has(queue', m, "sending") /\ ~Has(queue', m, "steering")
  <2>1. s \in EntryStates /\ s \notin {"sending", "steering"}
    BY DEF EntryStates
  <2>2. /\ Others(queue, queue', m) /\ queue'.sending = queue.sending
        /\ \A t : Has(queue', m, t) => t = s
    BY <1>1, <1>2, <1>3, <2>1, MarkFacts
  <2> QED
    BY <2>1, <2>2
<1>4. CASE BeginEdit
  <2>1. queue' = Mark(queue, m, "editing") /\ due' = due
    BY <1>4 DEF BeginEdit, Entry
  <2>2. Startable(queue') => Startable(queue)
    BY <1>1, <1>2, <2>1, MarkStartsNothing DEF EntryStates
  <2>3. ~SteerCounts /\ NoReport
    BY <1>1 DEF SteerCounts, Steering, NoReport, live
  <2>4. Signalled'
    BY <2>1, <2>2, <2>3, NothingReported DEF Signalled, Awake
  <2> QED
    BY <1>1, <1>2, <1>3, <2>1, <2>4, ButtonAwake
<1>5. CASE EndEdit
  <2>1. queue' = Mark(queue, m, "queued") /\ Signalled'
    BY <1>1, <1>5, ReleaseSignals DEF EndEdit, Entry, ReleaseWith
  <2> QED
    BY <1>1, <1>2, <1>3, <2>1, ButtonAwake
<1>6. CASE RemoveMessage
  <2>1. queue' = RemoveEntry(queue, m) /\ Signalled'
    BY <1>1, <1>6, ReleaseSignals DEF RemoveMessage, Entry, ReleaseWith
  <2>2. Others(queue, queue', m) /\ queue'.sending = queue.sending /\ ~InQueue(queue', m)
    BY <1>1, <1>2, <2>1, RemoveEntryFacts
  <2>3. ~Has(queue', m, "sending") /\ ~Has(queue', m, "steering")
    BY <2>2 DEF Has, InQueue
  <2> QED
    BY <1>1, <1>2, <2>1, <2>2, <2>3, ButtonAwake
<1> QED
  BY <1>4, <1>5, <1>6

\* Resume ends the pause and releases the queue, unless a Stop came.
LEMMA ResumeCommitsAwake ==
    ASSUME Inv, Awake, ResumeCommits
    PROVE  Awake'
<1>1. /\ AtHead("manage") /\ job["manage"].at = "committing" /\ TypeOK /\ queue \in Queues
      /\ GoTo("manage", "settling") /\ UNCHANGED <<host, live>>
  BY DEF ResumeCommits, Inv, TypeOK
<1>2. "drain" \in Actors /\ "manage" \in Actors /\ "manage" \notin Messages /\ "settling" \in Stages
  BY Names DEF Stages
<1>3. job'["manage"].at = "settling" /\ OthersSame("manage")
  BY <1>1, <1>2, MovedTypes DEF GoTo, OthersSame
<1>4. job'["drain"] = job["drain"] /\ NoReport
  BY <1>1, <1>2, <1>3 DEF OthersSame, NoReport, live
<1>5. queue'.entries = queue.entries /\ queue'.sending = queue.sending
  BY <1>1 DEF ResumeCommits, ReleaseWith, Queues
<1>6. \A n \in Messages : ~DefaultInFlight(n)' /\ ~DefaultInFlight(n)
  BY <1>1, <1>2, <1>3, NoneInFlight
<1>7. HeldBySend'
  BY <1>4, <1>5, <1>6 DEF HeldBySend, Awake
<1>8. SendsAlone'
  BY <1>6 DEF SendsAlone
<1>9. MarkedIsCarried'
  BY <1>1, <1>4, <1>5 DEF MarkedIsCarried, Awake, Has, Steering
<1>10. Signalled'
  <2>1. CASE Current("manage")
    <3>1. ReleaseWith([queue EXCEPT !.pause = None])
      BY <2>1 DEF ResumeCommits
    <3> QED
      BY <1>1, <3>1, ReleaseSignals
  <2>2. CASE ~Current("manage")
    <3>1. UNCHANGED <<queue, due>> /\ ~SteerCounts
      BY <1>1, <2>2 DEF ResumeCommits, SteerCounts, Steering
    <3> QED
      BY <1>4, <3>1, NothingReported DEF Signalled, Awake
  <2> QED
    BY <2>1, <2>2
<1> QED
  BY <1>1, <1>2, <1>3, <1>4, <1>7, <1>8, <1>9, <1>10, HeadAwake

\* A steered entry is on its way.
LEMMA SteerEntryAwake ==
    ASSUME Inv, Awake, SteerEntry
    PROVE  Awake'
<1> DEFINE m == job["manage"].msg
<1>1. /\ AtHead("manage") /\ job["manage"].at = "preparing" /\ MayChange /\ TypeOK
      /\ queue' = Mark(queue, m, "steering") /\ due' = due /\ UNCHANGED <<host, live>>
      /\ job' = [job EXCEPT !["manage"].at = "routing", !["manage"].ended = FALSE]
      /\ GoodQueue(queue)
  BY DEF SteerEntry, Pressed, Entry, Inv, QueueFits
<1>2. "drain" \in Actors /\ "manage" \in Actors /\ "manage" \notin Messages
      /\ job \in [Actors -> Jobs]
  BY <1>1, Names DEF TypeOK
<1>3. job'["manage"].at = "routing" /\ job'["manage"].msg = m /\ OthersSame("manage")
  BY <1>1, <1>2 DEF OthersSame, Jobs
<1>4. job'["drain"] = job["drain"] /\ NoReport /\ m \in Messages
  BY <1>1, <1>2, <1>3, MayChangeFacts DEF OthersSame, NoReport, live
<1>5. \A n \in Messages : ~DefaultInFlight(n)' /\ ~DefaultInFlight(n)
  BY <1>1, <1>2, <1>3, NoneInFlight
<1>6. /\ Others(queue, queue', m) /\ queue'.sending = queue.sending
      /\ \A t : Has(queue', m, t) => t = "steering"
  BY <1>1, <1>4, MarkFacts DEF EntryStates
<1>7. HeldBySend'
  BY <1>4, <1>5, <1>6 DEF HeldBySend, Awake
<1>8. SendsAlone'
  BY <1>5 DEF SendsAlone
<1>9. MarkedIsCarried'
  <2>1. ~Has(queue', m, "sending")
    BY <1>6
  <2>2. Steering' /\ job'["manage"].msg = m /\ ~Steering
    BY <1>1, <1>3 DEF Steering
  <2> HIDE DEF m
  <2> QED
    BY <1>4, <1>6, <2>1, <2>2, MarkedStays
<1>10. Signalled'
  <2>1. Startable(queue') => Startable(queue)
    BY <1>1, <1>4, MarkStartsNothing DEF EntryStates
  <2>2. ~SteerCounts
    BY <1>1 DEF SteerCounts, Steering
  <2> QED
    BY <1>1, <1>4, <2>1, <2>2, NothingReported DEF Signalled, Awake
<1> QED
  BY <1>1, <1>2, <1>3, <1>4, <1>7, <1>8, <1>9, <1>10, HeadAwake

\* A scheduled drain runs: it sends the head, or there was nothing to start.
LEMMA DrainAwake ==
    ASSUME Inv, Awake, Drain
    PROVE  Awake'
<1>1. /\ due > 0 /\ due' = due - 1 /\ UNCHANGED <<active, unresolved, host, live>>
      /\ TypeOK /\ GoodQueue(queue)
  BY DEF Drain, Inv, QueueFits, owner
<1>2. NoReport /\ rt' = rt
  BY <1>1 DEF NoReport, live
<1>3. CASE ~Deliverable
  <2>1. UNCHANGED <<queue, job>>
    BY <1>3 DEF Drain
  <2>2. ~(Startable(queue) /\ CanDeliver(host))
    BY <1>3 DEF Deliverable, Startable
  <2>3. Signalled'
    BY <1>1, <2>1, <2>2 DEF Signalled
  <2>4. HostLearns' /\ (TurnEnding <=> TurnEnding')
    BY <1>2, NothingReported DEF Awake
  <2>5. TakenHasTurn("drain")' /\ TakenHasTurn("manage")' /\ ResultHasTurn'
    BY <1>2, <2>1, <2>4 DEF Awake, TakenHasTurn, ResultHasTurn, Excused, Request
  <2>6. HeldBySend' /\ SendsAlone' /\ MarkedIsCarried'
    BY <2>1 DEF Awake, HeldBySend, SendsAlone, MarkedIsCarried, DefaultInFlight, Steering
  <2> QED
    BY <2>3, <2>4, <2>5, <2>6 DEF Awake
<1>4. CASE Deliverable
  <2> DEFINE m == Head(queue.entries).msg
  <2> DEFINE q == Mark(queue, m, "sending")
  <2>1. /\ queue' = [q EXCEPT !.sending = TRUE]
        /\ job' = [job EXCEPT !["drain"] = [Idle EXCEPT !.at = "joining", !.msg = m]]
        /\ queue.pause = None /\ ~queue.sending /\ queue.entries # <<>>
    BY <1>4 DEF Drain, Deliverable
  <2>2. m \in Messages /\ "drain" \in Actors /\ "manage" \in Actors /\ Messages \subseteq Actors
        /\ "drain" \notin Messages
    BY <1>1, <2>1, EmptyHoldsNothing, Names
  <2>3. job["drain"].at = "idle"
    BY <2>1 DEF Inv, QueueFits
  <2>4. job'["drain"].at = "joining" /\ job'["drain"].msg = m /\ OthersSame("drain")
    <3> HIDE DEF m, q
    <3> QED
      BY <1>1, <2>1, <2>2 DEF TypeOK, Idle, OthersSame
  <2>5. /\ GoodQueue(q) /\ Others(queue, q, m) /\ \A t : Has(q, m, t) => t = "sending"
    BY <1>1, <2>2, MarkFacts DEF EntryStates
  <2> HIDE DEF m, q
  <2>6. GoodQueue(queue') /\ Alike(q, queue') /\ queue'.sending = TRUE /\ queue'.entries = q.entries
    BY <2>1, <2>5, SendingFacts
  <2>7. job'["manage"] = job["manage"] /\ \A n \in Messages : job'[n] = job[n]
    BY <2>2, <2>4 DEF OthersSame
  <2>8. HeldBySend'
    BY <2>4 DEF HeldBySend
  <2>9. SendsAlone'
    <3>1. \A n \in Messages : ~DefaultInFlight(n)
      BY <2>1 DEF Inv, QueueFits, DefaultInFlight
    <3> QED
      BY <2>7, <3>1 DEF SendsAlone, DefaultInFlight
  <2>10. MarkedIsCarried'
    <3>1. Others(queue, queue', m)
      BY <2>2, <2>5, <2>6, AlikeOthers
    <3>2. ~Has(queue', m, "steering")
      BY <2>2, <2>5, <2>6 DEF Alike, EntryStates
    <3> QED
      BY <2>2, <2>3, <2>4, <2>7, <3>1, <3>2, MarkedStays DEF Steering
  <2>11. Signalled'
    BY <2>6 DEF Signalled, Startable
  <2>12. HostLearns' /\ (TurnEnding <=> TurnEnding')
    BY <1>2, NothingReported DEF Awake
  <2>13. TakenHasTurn("drain")' /\ ResultHasTurn'
    BY <2>4 DEF TakenHasTurn, ResultHasTurn
  <2>14. TakenHasTurn("manage")'
    <3>1. ~Held(queue)
      BY <2>1 DEF Held
    <3> QED
      BY <1>2, <2>7, <2>12, <3>1 DEF TakenHasTurn, Awake, Excused, Request
  <2> QED
    BY <2>8, <2>9, <2>10, <2>11, <2>12, <2>13, <2>14 DEF Awake
<1> QED
  BY <1>3, <1>4

\* A drain that joins the lane has sent nothing yet.
LEMMA DrainJoinsAwake ==
    ASSUME Inv, Awake, DrainJoins
    PROVE  Awake'
<1>1. /\ job' = [job EXCEPT !["drain"].at = "waiting", !["drain"].gen = gen]
      /\ UNCHANGED <<queue, due, host, live>> /\ TypeOK
  BY DEF DrainJoins, Inv
<1>2. "drain" \in Actors /\ "drain" \notin Messages /\ job["drain"] \in Jobs
  BY <1>1, Names DEF TypeOK
<1>3. job'["drain"] = [job["drain"] EXCEPT !.at = "waiting", !.gen = gen] /\ OthersSame("drain")
  BY <1>1, <1>2 DEF OthersSame, TypeOK
<1>4. job'["drain"].at = "waiting" /\ job'["drain"].msg = job["drain"].msg
  BY <1>2, <1>3 DEF Jobs
<1>5. MovesQuietly("drain")
  BY <1>1, <1>2, <1>3, <1>4 DEF MovesQuietly, live
<1>6. QueueStays /\ SignalsStay
  BY <1>1, SignalsStayInHost DEF QueueStays, live
<1> QED
  BY <1>2, <1>5, <1>6, QuietMoveAwake

\* A drain that cannot join pauses the queue.
LEMMA DrainFailsAwake ==
    ASSUME Inv, Awake, DrainFails
    PROVE  Awake'
<1> DEFINE q == [queue EXCEPT !.sending = FALSE]
<1>1. /\ job["drain"].at = "joining" /\ TypeOK /\ GoodQueue(queue)
      /\ queue' = FailEntry(q, job["drain"].msg, "refused")
      /\ job' = [job EXCEPT !["drain"] = Idle] /\ UNCHANGED <<host, live>>
  BY DEF DrainFails, Inv, QueueFits
<1>2. "drain" \in Actors /\ "manage" \in Actors /\ Messages \subseteq Actors \ {"drain"}
  BY Names
<1>3. job'["drain"].at = "idle" /\ OthersSame("drain")
  BY <1>1, <1>2 DEF OthersSame, TypeOK, Idle
<1>4. PICK m \in Messages : m = job["drain"].msg
  BY <1>1 DEF Inv, JobsFit, DrainFits
<1>5. GoodQueue(q) /\ Alike(queue, q) /\ q.sending = FALSE
  BY <1>1, SendingFacts
<1>6. queue' = FailEntry(q, m, "refused")
  BY <1>1, <1>4
<1> HIDE DEF q
<1>7. Others(queue, queue', m) /\ queue'.sending = FALSE /\ queue'.pause # None
  BY <1>5, <1>6, FailEntryFacts, AlikeOthers
<1>8. ~Has(queue', m, "sending") /\ ~Has(queue', m, "steering")
  <2>1. \A t \in EntryStates : Has(queue', m, t) => t \in {"queued", "acceptance_unknown"}
    BY <1>5, <1>6, FailedEntryWaits
  <2> QED
    BY <2>1 DEF EntryStates
<1>9. job'["manage"] = job["manage"] /\ \A n \in Messages : job'[n] = job[n]
  BY <1>2, <1>3, Names DEF OthersSame
<1>10. NoReport /\ rt' = rt
  BY <1>1 DEF NoReport, live
<1>11. HostLearns' /\ (TurnEnding => TurnEnding')
  BY <1>10, NothingReported DEF Awake
<1>12. HeldBySend' /\ Signalled'
  BY <1>7 DEF HeldBySend, Signalled, Startable
<1>13. SendsAlone'
  BY <1>1, <1>9 DEF Inv, QueueFits, SendsAlone, DefaultInFlight
<1>14. MarkedIsCarried'
  BY <1>4, <1>7, <1>8, <1>9, MarkedStays DEF Steering
<1>15. AnswersStay
  BY <1>3, <1>9, <1>10 DEF AnswersStay, AnswerStays, ResultStays, Request
<1>16. Held(queue')
  BY <1>7 DEF Held
<1> QED
  BY <1>11, <1>12, <1>13, <1>14, <1>15, <1>16, TurnsStay DEF Awake

\* A drain leaves the lane, and its entry leaves the queue or waits again.
LEMMA DrainSettlesAwake ==
    ASSUME Inv, Awake, DrainSettles
    PROVE  Awake'
<1> DEFINE c == Classified("drain", job["drain"].outcome)
<1> DEFINE m == job["drain"].msg
<1> DEFINE q == [queue EXCEPT !.sending = FALSE]
<1>1. /\ AtHead("drain") /\ job["drain"].at = "settling" /\ TypeOK
      /\ job' = [job EXCEPT !["drain"] = Idle] /\ UNCHANGED <<host, live>>
      /\ queue' = DrainEntry(q, m, c) /\ GoodQueue(queue) /\ due \in 0..2
      /\ Schedule(Once(job["drain"].ended))
  BY DEF DrainSettles, DrainEntry, Inv, QueueFits, TypeOK
<1>2. "drain" \in Actors /\ "manage" \in Actors /\ "drain" \notin Messages
      /\ job \in [Actors -> Jobs] /\ m \in Messages
  BY <1>1, Names DEF TypeOK, Inv, JobsFit, DrainFits
<1>3. job'["drain"].at = "idle" /\ OthersSame("drain")
  BY <1>1, <1>2 DEF OthersSame, Idle
<1>4. job'["manage"] = job["manage"] /\ NoReport
  BY <1>1, <1>2, <1>3 DEF OthersSame, NoReport, live
<1>5. c \in Results
  BY <1>1, DrainResult
<1>6. c \in {"accepted", "busy"} => job["drain"].outcome = c
  BY DEF Classified
<1>7. GoodQueue(q) /\ Alike(queue, q) /\ q.entries = queue.entries /\ q.pause = queue.pause
      /\ q.sending = FALSE
  BY <1>1, SendingFacts
<1>8. PausedWhenUnknown(q)
  <2>1. HasUnknown(q) <=> HasUnknown(queue)
    BY <1>1, <1>7, AlikeFacts
  <2> QED
    BY <1>7, <2>1 DEF Inv, Paused, PausedWhenUnknown
<1> HIDE DEF c, m, q
<1>9. GoodQueue(queue') /\ Others(q, queue', m) /\ queue'.sending = FALSE
  BY <1>1, <1>2, <1>5, <1>7, <1>8, DrainEntryFacts
<1>10. Others(queue, queue', m)
  BY <1>2, <1>7, <1>9, AlikeOthers
<1>11. \A n \in Messages : ~DefaultInFlight(n)'
  BY <1>1, <1>2, <1>3, NoneInFlight
<1>12. HeldBySend' /\ SendsAlone'
  BY <1>9, <1>11 DEF HeldBySend, SendsAlone
<1>13. ~Has(queue', m, "sending") /\ ~Has(queue', m, "steering")
  <2>1. CASE c = "accepted"
    <3>1. ~InQueue(queue', m)
      BY <1>1, <1>2, <1>7, <2>1, RemoveEntryFacts DEF DrainEntry
    <3> QED
      BY <3>1 DEF Has, InQueue
  <2>2. CASE c = "busy"
    BY <1>1, <1>2, <1>7, <2>2, MarkFacts DEF DrainEntry, EntryStates
  <2>3. CASE c \notin {"accepted", "busy"}
    <3>1. queue' = FailEntry(q, m, c)
      BY <1>1, <2>3 DEF DrainEntry
    <3>2. \A t \in EntryStates : Has(queue', m, t) => t \in {"queued", "acceptance_unknown"}
      BY <1>2, <1>7, <3>1, FailedEntryWaits
    <3> QED
      BY <3>2 DEF EntryStates
  <2> QED
    BY <2>1, <2>2, <2>3
<1>14. MarkedIsCarried'
  BY <1>2, <1>4, <1>10, <1>13, MarkedStays DEF Steering, m
<1>15. Signalled'
  <2>1. CASE c \notin {"accepted", "busy"}
    <3>1. queue' = FailEntry(q, m, c)
      BY <1>1, <2>1 DEF DrainEntry
    <3>2. queue'.pause # None
      BY <1>2, <1>7, <3>1, FailEntryFacts
    <3> QED
      BY <3>2 DEF Signalled, Startable
  <2>2. CASE c \in {"accepted", "busy"}
    <3>1. Excused("drain")
      BY <1>1, <1>6, <2>2 DEF Awake, ResultHasTurn
    <3>2. CASE TurnEnding
      BY <1>4, <3>2, NothingReported DEF Signalled
    <3>3. CASE job["drain"].ended
      <4>1. due' > 0
        BY <1>1, <3>3, ScheduleWakes DEF Once
      <4> QED
        BY <4>1 DEF Signalled
    <3>4. CASE Held(queue)
      <4>1. Held(q)
        BY <1>7, <3>4 DEF Held
      <4>2. CASE c = "accepted"
        <5>1. Held(queue')
          BY <1>1, <1>2, <1>7, <4>1, <4>2, RemoveHolds DEF DrainEntry
        <5> QED
          BY <5>1, HeldIsNotStartable DEF Signalled
      <4>3. CASE c = "busy"
        <5>1. queue' = Mark(q, m, "queued")
          BY <1>1, <4>3 DEF DrainEntry
        <5>2. queue'.pause = q.pause
          BY <1>2, <1>7, <5>1, MarkFacts DEF EntryStates
        <5>3. q.entries = <<>> => queue'.entries = <<>>
          BY <1>7, <5>1 DEF Mark, GoodQueue, Queues
        <5> QED
          BY <4>1, <5>2, <5>3 DEF Signalled, Startable, Held
      <4> QED
        BY <2>2, <4>2, <4>3
    <3> QED
      BY <3>1, <3>2, <3>3, <3>4 DEF Excused
  <2> QED
    BY <2>1, <2>2
<1> QED
  BY <1>1, <1>2, <1>3, <1>4, <1>12, <1>14, <1>15, HeadAwake

-----------------------------------------------------------------------------
(* The queue observes an event, and stays awake *)

\* What comes after the head of a sequence comes in its tail, one place earlier.
LEMMA AfterHead ==
    ASSUME NEW S, NEW s \in Seq(S), s # <<>>, NEW i \in DOMAIN s, i # 1
    PROVE  i - 1 \in DOMAIN Tail(s) /\ Tail(s)[i - 1] = s[i]
OBVIOUS

\* What an event makes of a queue that was empty, held, or none of both.
LEMMA EventHolds ==
    ASSUME Inv, NEW event \in Events, NEW idKnown \in BOOLEAN
    PROVE  LET q == QueueAfter(event, idKnown)
           IN /\ queue.entries = <<>> => q.entries = <<>>
              /\ Held(queue) => Held(q)
              /\ event.kind \in {"removed", "finished"} => Held(q)
              /\ event.kind = "ended" /\ event.outcome # "completed" => Held(q)
<1> DEFINE q == QueueAfter(event, idKnown)
<1>1. GoodQueue(queue)
  BY DEF Inv, QueueFits
<1>2. CASE event.kind = "user"
  <2>1. event.msg \in Messages
    BY <1>2 DEF Events, StateEvent
  <2>2. q = ResolveAccepted(queue, event.msg, idKnown)
    BY <1>2 DEF QueueAfter
  <2> HIDE DEF q
  <2>3. (queue.entries = <<>> => q.entries = <<>>) /\ (Held(queue) => Held(q))
    BY <1>1, <2>1, <2>2, ResolveHolds
  <2> QED
    BY <1>2, <2>3 DEF q
<1>3. ASSUME NEW c \in Pauses \ {None}, q = PauseQueue(queue, c)
      PROVE  (queue.entries = <<>> => q.entries = <<>>) /\ Held(q)
  <2>1. q.entries = queue.entries /\ (Held(q) \/ (q = queue /\ queue.entries = <<>>))
    BY <1>1, <1>3, PauseQueueFacts, PauseHolds
  <2> HIDE DEF q
  <2> QED
    BY <2>1 DEF Held
<1>4. CASE event.kind \in {"removed", "finished"} \/ (event.kind = "ended" /\ event.outcome # "completed")
  <2>1. event.kind = "ended" => event.outcome \in AllTurnEnds
    BY DEF Events, StateEvent
  <2>2. event.kind = "ended" /\ event.outcome # "completed" => PauseAfter(event.outcome) \in Pauses \ {None}
    BY <2>1 DEF PauseAfter, Pauses, None, AllTurnEnds
  <2>3. "left_runtime" \in Pauses \ {None}
    BY DEF Pauses, None
  <2>4. \E c \in Pauses \ {None} : q = PauseQueue(queue, c)
    BY <1>4, <2>2, <2>3 DEF QueueAfter
  <2> HIDE DEF q
  <2> QED
    BY <1>3, <2>4 DEF q
<1>5. CASE event.kind # "user" /\ event.kind \notin {"removed", "finished"}
           /\ ~(event.kind = "ended" /\ event.outcome # "completed")
  <2>1. q = queue
    BY <1>5 DEF QueueAfter
  <2> HIDE DEF q
  <2> QED
    BY <1>5, <2>1 DEF q
<1> QED
  BY <1>2, <1>4, <1>5

\* What the queue still has to learn, it learns from the events that are left.
LEMMA ObservingIsLearned ==
    ASSUME Inv, HostLearns, QueueObserves
    PROVE  /\ HostLearns'
           /\ Head(events).kind \notin Endings /\ TurnEnding => TurnEnding'
<1> DEFINE event == Head(events)
<1>1. /\ events # <<>> /\ events' = Tail(events) /\ rt' = rt /\ events \in Seq(Events)
      /\ host' = HostAfter(event)
  BY DEF QueueObserves, Inv, TypeOK
<1>2. /\ \A i \in DOMAIN events' : i + 1 \in DOMAIN events /\ events'[i] = events[i + 1]
      /\ 1 \in DOMAIN events /\ event = events[1]
  BY <1>1, TailFacts
<1>3. \A i \in DOMAIN events : i # 1 => i - 1 \in DOMAIN events' /\ events'[i - 1] = events[i]
  BY <1>1, AfterHead
<1>4. \A i \in DOMAIN events : i \in Int
  BY <1>1
<1>5. \A i \in DOMAIN events' : i \in Int /\ i >= 1
  BY <1>1
<1> HIDE DEF event
<1>6. ASSUME event.kind \notin Endings, TurnEnding
      PROVE  TurnEnding'
  BY <1>1, <1>2, <1>3, <1>6 DEF TurnEnding
<1>7. ASSUME Ready' PROVE HostLearns'
  <2>1. Ready
    BY <1>1, <1>7 DEF Ready
  <2>2. CASE CanDeliver(host) /\ \A i \in DOMAIN events : Harmless(events[i])
    <3>1. Harmless(event)
      BY <1>2, <2>2
    <3>2. host' = host
      BY <1>1, <3>1 DEF HostAfter, Harmless
    <3>3. \A i \in DOMAIN events' : Harmless(events'[i])
      BY <1>2, <2>2
    <3> QED
      BY <2>2, <3>2, <3>3 DEF HostLearns
  <2>3. ASSUME NEW i \in DOMAIN events, ReadyReport(events[i]),
               \A j \in DOMAIN events : j > i => Harmless(events[j])
        PROVE  HostLearns'
    <3>1. CASE i = 1
      <4>1. CanDeliver(host')
        BY <1>1, <1>2, <2>3, <3>1 DEF ReadyReport, HostAfter, CanDeliver
      <4>2. \A j \in DOMAIN events' : Harmless(events'[j])
        BY <1>2, <1>5, <2>3, <3>1
      <4> QED
        BY <4>1, <4>2 DEF HostLearns
    <3>2. CASE i # 1
      <4>1. i - 1 \in DOMAIN events' /\ ReadyReport(events'[i - 1])
        BY <1>3, <2>3, <3>2
      <4>2. \A j \in DOMAIN events' : j > i - 1 => Harmless(events'[j])
        <5> SUFFICES ASSUME NEW j \in DOMAIN events', j > i - 1
                     PROVE  Harmless(events'[j])
          OBVIOUS
        <5>1. j + 1 \in DOMAIN events /\ events'[j] = events[j + 1]
          BY <1>2
        <5>2. j + 1 > i
          BY <1>4, <1>5
        <5> QED
          BY <2>3, <5>1, <5>2
      <4> QED
        BY <4>1, <4>2 DEF HostLearns
    <3> QED
      BY <3>1, <3>2
  <2> QED
    BY <2>1, <2>2, <2>3 DEF HostLearns
<1>8. HostLearns'
  BY <1>7 DEF HostLearns
<1> QED
  BY <1>6, <1>8 DEF event

\* A delivery that was excused stays so: a turn that completes is counted, and one that
\* is broken off pauses the queue.
LEMMA ObservingExcuses ==
    ASSUME Inv, Awake, QueueObserves, NEW a \in Actors, Delivering(a), Excused(a)
    PROVE  Excused(a)'
<1> DEFINE event == Head(events)
<1>0. PICK idKnown \in BOOLEAN : queue' = QueueAfter(event, idKnown)
  BY DEF QueueObserves
<1>1. /\ events # <<>> /\ job \in [Actors -> Jobs]
      /\ job' = IF event.kind = "ended" /\ event.outcome = "completed" THEN TurnCompleted ELSE job
  BY DEF QueueObserves, Inv, TypeOK
<1>2. event \in Events
  BY <1>1, FirstEventFacts
<1>3. HostLearns' /\ (event.kind \notin Endings /\ TurnEnding => TurnEnding')
  BY ObservingIsLearned DEF Awake
<1>4. /\ Held(queue) => Held(queue')
      /\ event.kind \in {"removed", "finished"} => Held(queue')
      /\ event.kind = "ended" /\ event.outcome # "completed" => Held(queue')
  BY <1>0, <1>1, <1>2, EventHolds
<1> HIDE DEF event
<1>5. CASE event.kind = "ended" /\ event.outcome = "completed"
  <2>1. job'[a] = [job[a] EXCEPT !.ended = TRUE]
    BY <1>1, <1>5 DEF TurnCompleted
  <2>2. job'[a].ended
    BY <1>1, <2>1 DEF Jobs
  <2> QED
    BY <2>2 DEF Excused
<1>6. CASE ~(event.kind = "ended" /\ event.outcome = "completed")
  BY <1>1, <1>3, <1>4, <1>6 DEF Excused, Endings
<1> QED
  BY <1>5, <1>6

\* A message that is steered from the queue and shown has a turn.
LEMMA ShownSteerHasTurn ==
    ASSUME Inv, Awake, NEW m \in Messages, Taken(m), Has(queue, m, "steering")
    PROVE  Steering /\ Excused("manage")
<1>1. Steering /\ job["manage"].msg = m
  BY DEF Awake, MarkedIsCarried
<1>2. Out(m)
  BY DEF Out
<1>3. job["manage"].at = "issued"
  BY <1>1, <1>2 DEF Inv, Unsent, Steering
<1>4. ~OpenFor(m)
  BY DEF Inv, Requested
<1>5. Request("manage") \notin rt.open
  BY <1>1, <1>4 DEF OpenFor, Request
<1> QED
  BY <1>1, <1>3, <1>5 DEF Awake, TakenHasTurn

\* An entry that leaves with its message shown lets the next one start only when a turn
\* is still to end.
LEMMA ShownStartsRightly ==
    ASSUME Inv, Awake, NEW m \in Messages, Taken(m), NEW idKnown \in BOOLEAN,
           Startable(ResolveAccepted(queue, m, idKnown))
    PROVE  Startable(queue) \/ TurnEnding \/ SteerCounts
<1> DEFINE q == ResolveAccepted(queue, m, idKnown)
<1>1. GoodQueue(queue) /\ PausedWhenUnknown(queue)
  BY DEF Inv, QueueFits, Paused
<1>2. q.sending = queue.sending /\ (Held(queue) => Held(q))
  BY <1>1, ResolveAcceptedFacts, ResolveHolds
<1>3. ~Held(queue) /\ ~queue.sending
  BY <1>2, HeldIsNotStartable DEF Startable
<1>4. CASE q = queue
  BY <1>4
<1>5. CASE q # queue
  <2>1. InQueue(queue, m) /\ StateOf(queue, m) \notin {"queued", "editing"}
    BY <1>5 DEF ResolveAccepted, Finds
  <2>2. StateOf(queue, m) \in EntryStates /\ Has(queue, m, StateOf(queue, m))
    BY <1>1, <2>1, HasIsState
  <2>3. ~Has(queue, m, "sending")
    BY <1>3 DEF Awake, MarkedIsCarried, Inv, QueueFits
  <2>4. ~Has(queue, m, "acceptance_unknown")
    BY <1>1, <1>3, UnknownIsHeld DEF PausedWhenUnknown, Held
  <2>5. Has(queue, m, "steering")
    BY <2>1, <2>2, <2>3, <2>4 DEF EntryStates
  <2> QED
    BY <1>3, <2>5, ShownSteerHasTurn DEF Excused, SteerCounts
<1> QED
  BY <1>4, <1>5

\* The queue observes an event.
LEMMA QueueObservesAwake ==
    ASSUME Inv, Awake, QueueObserves
    PROVE  Awake'
<1> DEFINE event == Head(events)
<1> DEFINE completed == event.kind = "ended" /\ event.outcome = "completed"
<1> DEFINE released == /\ (event.kind = "state" /\ ~CanDeliver(host)) \/ completed
                       /\ ~Unused(queue) /\ CanDeliver(host')
<1>0. PICK idKnown \in BOOLEAN : queue' = QueueAfter(event, idKnown)
  BY DEF QueueObserves
<1>1. /\ events # <<>> /\ job \in [Actors -> Jobs]
      /\ host' = HostAfter(event) /\ rt' = rt /\ due \in 0..2
      /\ job' = IF completed THEN TurnCompleted ELSE job
      /\ Schedule(Once(released))
      /\ host \in [working : BOOLEAN, blocked : BOOLEAN, left : BOOLEAN, unavailable : BOOLEAN]
  BY DEF QueueObserves, Inv, TypeOK
<1>2. /\ event \in Events
      /\ event.kind = "user" => event.msg \in Messages /\ Taken(event.msg)
  BY <1>1, FirstEventFacts
<1>3. HostLearns' /\ (event.kind \notin Endings /\ TurnEnding => TurnEnding')
  BY ObservingIsLearned DEF Awake
<1>4. /\ queue.entries = <<>> => queue'.entries = <<>>
      /\ Held(queue) => Held(queue')
      /\ event.kind \in {"removed", "finished"} => Held(queue')
      /\ event.kind = "ended" /\ event.outcome # "completed" => Held(queue')
  BY <1>0, <1>1, <1>2, EventHolds
<1>5. /\ queue'.sending = queue.sending
      /\ \A m \in Messages, s \in EntryStates : Has(queue', m, s) => Has(queue, m, s)
  BY <1>0, <1>1, <1>2, QueueAfterFacts
<1>6. \A a \in Actors : /\ job'[a].at = job[a].at /\ job'[a].msg = job[a].msg
                        /\ job'[a].how = job[a].how /\ job'[a].via = job[a].via
                        /\ job'[a].outcome = job[a].outcome
                        /\ job[a].ended => job'[a].ended
  <2> SUFFICES ASSUME NEW a \in Actors
               PROVE  /\ job'[a].at = job[a].at /\ job'[a].msg = job[a].msg
                      /\ job'[a].how = job[a].how /\ job'[a].via = job[a].via
                      /\ job'[a].outcome = job[a].outcome
                      /\ job[a].ended => job'[a].ended
    OBVIOUS
  <2>1. CASE job' = job
    BY <2>1
  <2>2. CASE job' = TurnCompleted
    <3>1. PICK e \in BOOLEAN : e = (job[a].ended \/ Delivering(a))
      OBVIOUS
    <3>2. job'[a] = [job[a] EXCEPT !.ended = e]
      BY <2>2, <3>1 DEF TurnCompleted
    <3> QED
      BY <1>1, <3>1, <3>2 DEF Jobs
  <2> QED
    BY <1>1, <2>1, <2>2
<1>7. "drain" \in Actors /\ "manage" \in Actors /\ Messages \subseteq Actors
  BY Names
<1> HIDE DEF event
<1>8. ASSUME NEW a \in {"drain", "manage"} PROVE TakenHasTurn(a)'
  <2> SUFFICES ASSUME job'[a].at = "issued", Request(a)' \notin rt'.open
               PROVE  Excused(a)'
    BY DEF TakenHasTurn
  <2>1. job[a].at = "issued" /\ Request(a) \notin rt.open
    BY <1>1, <1>6, <1>7 DEF Request
  <2>2. Excused(a) /\ Delivering(a)
    BY <2>1 DEF Awake, TakenHasTurn, Delivering
  <2> QED
    BY <1>7, <2>2, ObservingExcuses
<1>9. ResultHasTurn'
  <2> SUFFICES ASSUME job'["drain"].at = "settling", job'["drain"].outcome \in {"accepted", "busy"}
               PROVE  Excused("drain")'
    BY DEF ResultHasTurn
  <2>1. Excused("drain") /\ Delivering("drain")
    BY <1>6, <1>7 DEF Awake, ResultHasTurn, Delivering
  <2> QED
    BY <1>7, <2>1, ObservingExcuses
<1>10. (\A m \in Messages : DefaultInFlight(m)' <=> DefaultInFlight(m)) /\ (Steering' <=> Steering)
  BY <1>6, <1>7 DEF DefaultInFlight, Steering
<1>11. HeldBySend' /\ SendsAlone'
  BY <1>4, <1>5, <1>6, <1>7, <1>10 DEF Awake, HeldBySend, SendsAlone
<1>12. MarkedIsCarried'
  BY <1>5, <1>6, <1>7, <1>10 DEF Awake, MarkedIsCarried, EntryStates
<1>13. SteerCounts => SteerCounts'
  BY <1>6, <1>7, <1>10 DEF SteerCounts
<1>14. (due > 0 => due' > 0) /\ (released => due' > 0)
  <2>1. Once(released) \in 0..2
    BY DEF Once
  <2> QED
    BY <1>1, <2>1, ScheduleWakes DEF Once
<1>15. ASSUME Startable(queue'), CanDeliver(host')
       PROVE  due' > 0 \/ TurnEnding' \/ SteerCounts'
  <2>1. ~Held(queue') /\ queue'.entries # <<>>
    BY <1>15, HeldIsNotStartable DEF Startable
  <2>2. event.kind \notin {"removed", "finished"} /\ (event.kind = "ended" => completed)
    BY <1>4, <2>1
  <2>3. event.kind \in {"state", "user", "ended", "fault", "removed", "finished"}
    BY <1>2 DEF Events, StateEvent
  <2>4. ASSUME Startable(queue), CanDeliver(host), event.kind # "ended"
        PROVE  due' > 0 \/ TurnEnding' \/ SteerCounts'
    BY <1>3, <1>13, <1>14, <2>2, <2>4 DEF Awake, Signalled, Endings
  <2>5. CASE completed
    <3>1. queue' = queue
      BY <1>0, <2>5 DEF QueueAfter
    <3>2. released
      BY <1>15, <2>1, <2>5, <3>1 DEF Unused
    <3> QED
      BY <1>14, <3>2
  <2>6. CASE event.kind = "state"
    <3>1. queue' = queue
      BY <1>0, <2>6 DEF QueueAfter
    <3>2. CASE CanDeliver(host)
      BY <1>15, <2>4, <2>6, <3>1, <3>2
    <3>3. CASE ~CanDeliver(host)
      <4>1. released
        BY <1>15, <2>1, <2>6, <3>1, <3>3 DEF Unused
      <4> QED
        BY <1>14, <4>1
    <3> QED
      BY <3>2, <3>3
  <2>7. CASE event.kind = "fault"
    <3>1. host'.unavailable
      BY <1>1, <2>7 DEF HostAfter
    <3> QED
      BY <1>15, <3>1 DEF CanDeliver
  <2>8. CASE event.kind = "user"
    <3>1. queue' = ResolveAccepted(queue, event.msg, idKnown) /\ host' = host
      BY <1>0, <1>1, <2>8 DEF QueueAfter, HostAfter
    <3>2. Startable(queue) \/ TurnEnding \/ SteerCounts
      BY <1>2, <1>15, <2>8, <3>1, ShownStartsRightly
    <3> QED
      BY <1>3, <1>13, <1>15, <2>4, <2>8, <3>1, <3>2 DEF Endings
  <2> QED
    BY <2>2, <2>3, <2>5, <2>6, <2>7, <2>8
<1>16. Signalled'
  BY <1>15 DEF Signalled
<1> QED
  BY <1>3, <1>8, <1>9, <1>11, <1>12, <1>16 DEF Awake

-----------------------------------------------------------------------------
(* No message is stranded *)

\* Each step of the host keeps the queue awake.
LEMMA HostAwake ==
    ASSUME Inv, Awake, Host
    PROVE  Awake'
<1>1. ASSUME NEW a \in Actors, Begin(a) \/ Settle(a)
      PROVE  Awake'
  BY <1>1, BeginAwake, SettleAwake
<1>2. ASSUME NEW m \in Messages, Prepared(m)
      PROVE  Awake'
  BY <1>2, PreparedAwake
<1>3. ASSUME NEW a \in Actors \ {"stop"}, Route(a) \/ SendFails(a) \/ SendBusy(a) \/ Issue(a)
      PROVE  Awake'
  BY <1>3, RouteAwake, SendAwake, IssueAwake
<1>4. ASSUME Drain \/ DrainJoins \/ DrainFails \/ DrainSettles
      PROVE  Awake'
  BY <1>4, DrainAwake, DrainJoinsAwake, DrainFailsAwake, DrainSettlesAwake
<1>5. ASSUME \/ ResumeChecks \/ ResumeCommits \/ SteerEntry \/ ManageFails
             \/ BeginEdit \/ EndEdit \/ RemoveMessage
      PROVE  Awake'
  BY <1>5, MovesAwake, ResumeCommitsAwake, SteerEntryAwake, ButtonsAwake
<1>6. ASSUME StopPauses \/ OwnerObserves \/ QueueObserves
      PROVE  Awake'
  BY <1>6, StopPausesAwake, OwnerObservesAwake, QueueObservesAwake
<1> QED
  BY <1>1, <1>2, <1>3, <1>4, <1>5, <1>6 DEF Host

\* Each step of the runtime keeps the queue awake.
LEMMA RuntimeAwake ==
    ASSUME Inv, Awake, Runtime
    PROVE  Awake'
<1>1. ASSUME NEW a \in Actors, NEW answer \in Outcomes, Reply(a, answer)
      PROVE  Awake'
  BY <1>1, ReplyAwake
<1>2. ASSUME NEW request \in rt.open, Take(request)
      PROVE  Awake'
  BY <1>2, TakeAwake
<1>3. ASSUME ReportsOnly
      PROVE  Awake'
  BY <1>3, ReportsAwake
<1>4. ASSUME StopTurn \/ StopFails
      PROVE  Awake'
  BY <1>4, MovesAwake
<1> QED
  BY <1>1, <1>2, <1>3, <1>4 DEF Runtime, ReportsOnly

\* Each step keeps the queue awake.
LEMMA StepAwake == Inv /\ Awake /\ [Next]_vars => Awake'
<1> SUFFICES ASSUME Inv, Awake, [Next]_vars
             PROVE  Awake'
  OBVIOUS
<1>1. CASE Next
  BY <1>1, HostAwake, UserAwake, RuntimeAwake DEF Next
<1>2. CASE UNCHANGED vars
  <2>1. UNCHANGED <<job, queue, due, host, rt, events>>
    BY <1>2 DEF vars
  <2>2. "stop" \in Actors /\ MovesQuietly("stop") /\ QueueStays
    BY <2>1, Names DEF MovesQuietly, OthersSame, QueueStays
  <2>3. SignalsStay
    BY <2>1, SignalsStayInHost
  <2> QED
    BY <2>2, <2>3, QuietMoveAwake
<1> QED
  BY <1>1, <1>2

\* The queue begins awake.
LEMMA InitAwake == Init => Awake
<1> SUFFICES ASSUME Init PROVE Awake
  OBVIOUS
<1>1. /\ \A a \in Actors : job[a].at = "idle"
      /\ queue.entries = <<>> /\ queue.sending = FALSE /\ events = <<>> /\ CanDeliver(host)
  BY DEF Init, Idle, CanDeliver
<1>2. "drain" \in Actors /\ "manage" \in Actors /\ Messages \subseteq Actors
  BY Names
<1>3. HostLearns
  <2>1. DOMAIN events = {}
    BY <1>1
  <2> QED
    BY <1>1, <2>1 DEF HostLearns
<1>4. TakenHasTurn("drain") /\ TakenHasTurn("manage") /\ ResultHasTurn /\ HeldBySend /\ SendsAlone
  BY <1>1, <1>2 DEF TakenHasTurn, ResultHasTurn, HeldBySend, SendsAlone
<1>5. MarkedIsCarried
  BY <1>1 DEF MarkedIsCarried, Has
<1>6. Signalled
  BY <1>1 DEF Signalled, Startable
<1> QED
  BY <1>3, <1>4, <1>5, <1>6 DEF Awake

\* Of a queue that is awake nothing is stranded when all is quiet.
LEMMA AwakeIsNotStranded ==
    ASSUME Inv, Awake
    PROVE  NoStranded
<1> SUFFICES ASSUME Quiet, Ready, queue.entries # <<>>, Head(queue.entries).state = "queued",
                    queue.pause = None
             PROVE  FALSE
  BY DEF NoStranded, Ready
<1>1. /\ \A a \in Actors : job[a].at \in {"idle", "done"}
      /\ events = <<>> /\ due = 0
  BY DEF Quiet
<1>2. "drain" \in Actors /\ "manage" \in Actors /\ Messages \subseteq Actors
  BY Names
<1>3. job["drain"].at = "idle"
  BY <1>1, <1>2 DEF Inv, JobsFit, DrainFits
<1>4. ~queue.sending
  BY <1>1, <1>2, <1>3 DEF Awake, HeldBySend, DefaultInFlight
<1>5. DOMAIN events = {}
  BY <1>1
<1>6. CanDeliver(host) /\ ~TurnEnding
  BY <1>5 DEF Awake, HostLearns, Ready, TurnEnding
<1>7. ~SteerCounts
  BY <1>1, <1>2 DEF SteerCounts, Steering
<1>8. Startable(queue)
  BY <1>4 DEF Startable
<1> QED
  BY <1>1, <1>6, <1>7, <1>8 DEF Awake, Signalled

\* NoStranded holds for any messages, modes, queue buttons, runtime answers, turn ends and
\* budgets: whatever is reported, answered, paused or edited while a send is in flight,
\* the signal that releases the queue is counted, scheduled, or still to come (settle,
\* completedTurns, delivery_ready).
THEOREM NothingStranded == Spec => []NoStranded
<1>1. Inv /\ Awake /\ [Next]_vars => Inv' /\ Awake'
  BY StepKeeps, StepAwake
<1>2. Init => Inv /\ Awake
  BY InitFits, InitAwake
<1>3. Inv /\ Awake => NoStranded
  BY AwakeIsNotStranded
<1> QED
  BY <1>1, <1>2, <1>3, PTL DEF Spec

-----------------------------------------------------------------------------
(* Default messages stay in order, where nothing is steered *)

\* Message m joined the lane before any submission of n.
Before(m, n) ==
    \E k \in DOMAIN joined : joined[k] = m /\ \A l \in DOMAIN joined : joined[l] = n => k < l

PlaceBefore(s, m, n) == \E i, j \in DOMAIN s : i < j /\ s[i] = m /\ s[j] = n
EntryBefore(q, m, n) ==
    \E i, j \in DOMAIN q.entries : i < j /\ q.entries[i].msg = m /\ q.entries[j].msg = n

\* The runtime may still take n.
Future(n) == ~Taken(n) /\ (OpenFor(n) \/ InQueue(queue, n) \/ job[n].at \in Early)

\* The runtime took m before n, or will if it takes both.
Ahead(m, n) ==
    \/ Taken(m) /\ Future(n)
    \/ OpenFor(m) /\ Future(n) /\ m # n
    \/ InQueue(queue, m) /\ job[n].at \in Early
    \/ EntryBefore(queue, m, n)
    \/ PlaceBefore(lane, m, n)
    \/ PlaceBefore(took, m, n)

Sorted == \A m, n \in Messages : Ahead(m, n) => Before(m, n)

\* Each submission that was made joined the lane once.
Joined ==
    /\ \A k, l \in DOMAIN joined : joined[k] = joined[l] => k = l
    /\ \A m \in Messages : (\E k \in DOMAIN joined : joined[k] = m) <=> job[m].at # "idle"

\* Where a drain has its entry and has not sent it.
ToSend == Pending \cup {"sending"}

\* No entry waits before the one that a drain is about to send.
DrainsHead ==
    job["drain"].at \in ToSend =>
        \A n \in Messages : ~EntryBefore(queue, n, job["drain"].msg)

\* A request that may still be taken holds every later operation back.
OpenIsNamed ==
    \A m \in Messages : OpenFor(m) => unresolved = m \/ (Uncertain /\ job[active.op].msg = m)

Plain == \A m \in Messages : job[m].how # "steer"

InTurn == Sorted /\ Joined /\ DrainsHead /\ OpenIsNamed /\ Plain

\* Queue p comes from q when entries leave or change where they are.
Thins(q, p) ==
    /\ \A m \in Messages : InQueue(p, m) => InQueue(q, m)
    /\ \A m, n \in Messages : EntryBefore(p, m, n) => EntryBefore(q, m, n)

\* Equal entries are in the same order.
LEMMA SameEntriesThin ==
    ASSUME NEW q, NEW p, p.entries = q.entries
    PROVE  Thins(q, p)
BY DEF Thins, InQueue, EntryBefore

\* What comes from what came from q comes from q.
LEMMA ThinsAgain ==
    ASSUME NEW q, NEW p, NEW r, Thins(q, p), Thins(p, r)
    PROVE  Thins(q, r)
BY DEF Thins

\* Marking an entry leaves all where they are.
LEMMA MarkThins ==
    ASSUME NEW q, GoodQueue(q), NEW m \in Messages, NEW s \in EntryStates
    PROVE  Thins(q, Mark(q, m, s))
<1> DEFINE p == Mark(q, m, s)
<1>1. q \in Queues /\ q.entries \in Seq(Entries)
  BY DEF GoodQueue, Queues
<1>2. /\ DOMAIN p.entries = DOMAIN q.entries
      /\ \A i \in DOMAIN q.entries : p.entries[i].msg = q.entries[i].msg
  BY <1>1 DEF Mark, Queues, Entries
<1> HIDE DEF p
<1>3. Thins(q, p)
  BY <1>2 DEF Thins, InQueue, EntryBefore
<1> QED
  BY <1>3 DEF p

\* Taking an entry out leaves the order of the others.
LEMMA WithoutThins ==
    ASSUME NEW q, GoodQueue(q), NEW m \in Messages
    PROVE  Thins(q, [q EXCEPT !.entries = Without(q, m)])
<1> DEFINE p == [q EXCEPT !.entries = Without(q, m)]
<1> DEFINE k == Place(q, m)
<1> DEFINE es == Without(q, m)
<1>1. q \in Queues /\ q.entries \in Seq(Entries)
  BY DEF GoodQueue, Queues
<1>2. p.entries = es
  BY <1>1 DEF Queues
<1>3. CASE ~InQueue(q, m)
  <2>1. p.entries = q.entries
    BY <1>2, <1>3 DEF Without
  <2> QED
    BY <2>1, SameEntriesThin
<1>4. CASE InQueue(q, m)
  <2>1. k \in DOMAIN q.entries
    BY <1>4 DEF InQueue, Place
  <2>2. es = SubSeq(q.entries, 1, k - 1) \o SubSeq(q.entries, k + 1, Len(q.entries))
    BY <1>4 DEF Without, RemoveAt
  <2> HIDE DEF k, es, p
  <2>3. Len(q.entries) \in Nat /\ DOMAIN q.entries = 1..Len(q.entries) /\ k \in 1..Len(q.entries)
    BY <1>1, <2>1
  <2>4. /\ DOMAIN es = 1..(Len(q.entries) - 1)
        /\ \A i \in DOMAIN es : es[i] = IF i < k THEN q.entries[i] ELSE q.entries[i + 1]
    <3> DEFINE left == SubSeq(q.entries, 1, k - 1)
    <3> DEFINE right == SubSeq(q.entries, k + 1, Len(q.entries))
    <3>1. /\ left \in Seq(Entries) /\ Len(left) = k - 1
          /\ \A i \in 1..(k - 1) : left[i] = q.entries[i]
      BY <1>1, <2>3
    <3>2. /\ right \in Seq(Entries) /\ Len(right) = Len(q.entries) - k
          /\ \A i \in 1..(Len(q.entries) - k) : right[i] = q.entries[i + k]
      BY <1>1, <2>3
    <3> HIDE DEF left, right
    <3>3. es = left \o right
      BY <2>2 DEF left, right
    <3>4. DOMAIN es = 1..(Len(q.entries) - 1)
      <4>0. left \in Seq(Entries) /\ right \in Seq(Entries)
        BY <3>1, <3>2
      <4>1. left \o right \in Seq(Entries) /\ Len(left \o right) = Len(left) + Len(right)
        BY <4>0
      <4>2. (k - 1) + (Len(q.entries) - k) = Len(q.entries) - 1
        BY <2>3
      <4> QED
        BY <3>1, <3>2, <3>3, <4>1, <4>2
    <3>5. ASSUME NEW i \in 1..(Len(q.entries) - 1)
          PROVE  es[i] = IF i < k THEN q.entries[i] ELSE q.entries[i + 1]
      <4>1. CASE i < k
        BY <3>1, <3>2, <3>3, <2>3, <4>1
      <4>2. CASE ~(i < k)
        <5>1. es[i] = right[i - (k - 1)]
          BY <3>1, <3>2, <3>3, <2>3, <4>2
        <5>2. i - (k - 1) \in 1..(Len(q.entries) - k) /\ (i - (k - 1)) + k = i + 1
          BY <2>3, <4>2
        <5>3. right[i - (k - 1)] = q.entries[i + 1]
          BY <3>2, <5>2
        <5> QED
          BY <5>1, <5>3, <4>2
      <4> QED
        BY <4>1, <4>2
    <3> QED
      BY <3>4, <3>5
  <2> DEFINE from(i) == IF i < k THEN i ELSE i + 1
  <2>5. \A i \in DOMAIN es : from(i) \in DOMAIN q.entries /\ es[i] = q.entries[from(i)]
    BY <2>3, <2>4
  <2>6. \A i, j \in DOMAIN es : i < j => from(i) < from(j)
    BY <2>3, <2>4
  <2> HIDE DEF from
  <2>7. Thins(q, p)
    BY <1>2, <2>5, <2>6 DEF Thins, InQueue, EntryBefore
  <2> QED
    BY <2>7 DEF p
<1> QED
  BY <1>3, <1>4

\* A pause changes no entry.
LEMMA PausesThin ==
    ASSUME NEW q, GoodQueue(q), NEW c \in Pauses \ {None}
    PROVE  /\ Thins(q, FirstPause(q, c)) /\ Thins(q, PauseQueue(q, c))
           /\ Thins(q, EndPauseIfEmpty(q))
BY FirstPauseFacts, PauseQueueFacts, EndPauseFacts, SameEntriesThin

\* An entry that is removed leaves the order of the others.
LEMMA RemoveThins ==
    ASSUME NEW q, GoodQueue(q), NEW m \in Messages
    PROVE  Thins(q, RemoveEntry(q, m))
<1> DEFINE w == [q EXCEPT !.entries = Without(q, m)]
<1>1. GoodQueue(w) /\ Thins(q, w)
  BY WithoutFacts, WithoutThins
<1>2. RemoveEntry(q, m) = EndPauseIfEmpty(w)
  BY DEF RemoveEntry
<1> HIDE DEF w
<1>3. EndPauseIfEmpty(w).entries = w.entries
  BY <1>1, EndPauseFacts
<1> QED
  BY <1>1, <1>2, <1>3, SameEntriesThin, ThinsAgain

\* An entry whose delivery fails leaves or stays where it is.
LEMMA FailThins ==
    ASSUME NEW q, GoodQueue(q), NEW m \in Messages, NEW outcome
    PROVE  Thins(q, FailEntry(q, m, outcome))
<1>0. /\ {"accepted_then_failed", "acceptance_unknown", "delivery_failed"} \subseteq Pauses \ {None}
      /\ {"queued", "acceptance_unknown"} \subseteq EntryStates
  BY DEF Pauses, None, EntryStates
<1>1. ASSUME NEW w, GoodQueue(w), Thins(q, w), NEW c \in Pauses \ {None}
      PROVE  Thins(q, FirstPause(w, c))
  <2>1. Thins(w, FirstPause(w, c))
    BY <1>1, PausesThin
  <2> QED
    BY <1>1, <2>1, ThinsAgain
<1>2. CASE outcome = "received" \/ ~InQueue(q, m)
  <2> DEFINE w == [q EXCEPT !.entries = Without(q, m)]
  <2>1. GoodQueue(w) /\ Thins(q, w)
    BY WithoutFacts, WithoutThins
  <2>2. FailEntry(q, m, outcome) = FirstPause(w, "accepted_then_failed")
    BY <1>2 DEF FailEntry
  <2> HIDE DEF w
  <2> QED
    BY <1>0, <1>1, <2>1, <2>2
<1>3. ASSUME NEW s \in EntryStates
      PROVE  GoodQueue(Mark(q, m, s)) /\ Thins(q, Mark(q, m, s))
  BY MarkFacts, MarkThins
<1>4. CASE ~(outcome = "received" \/ ~InQueue(q, m)) /\ outcome = "unknown"
  <2>1. FailEntry(q, m, outcome) = FirstPause(Mark(q, m, "acceptance_unknown"), "acceptance_unknown")
    BY <1>4 DEF FailEntry
  <2> QED
    BY <1>0, <1>1, <1>3, <2>1
<1>5. CASE ~(outcome = "received" \/ ~InQueue(q, m)) /\ outcome # "unknown"
  <2>1. FailEntry(q, m, outcome) = FirstPause(Mark(q, m, "queued"), "delivery_failed")
    BY <1>5 DEF FailEntry
  <2> QED
    BY <1>0, <1>1, <1>3, <2>1
<1> QED
  BY <1>2, <1>4, <1>5

\* So does the entry that a drain sent.
LEMMA DrainEntryThins ==
    ASSUME NEW q, GoodQueue(q), NEW m \in Messages, NEW outcome
    PROVE  Thins(q, DrainEntry(q, m, outcome))
<1>1. "queued" \in EntryStates
  BY DEF EntryStates
<1>2. /\ Thins(q, RemoveEntry(q, m)) /\ Thins(q, Mark(q, m, "queued"))
      /\ Thins(q, FailEntry(q, m, outcome))
  BY <1>1, RemoveThins, MarkThins, FailThins
<1> QED
  BY <1>2 DEF DrainEntry

\* What the queue makes of an event adds no entry.
LEMMA QueueAfterThins ==
    ASSUME Inv, NEW event \in Events, NEW idKnown \in BOOLEAN,
           event.kind = "user" => event.msg \in Messages
    PROVE  Thins(queue, QueueAfter(event, idKnown))
<1> DEFINE p == QueueAfter(event, idKnown)
<1>1. GoodQueue(queue) /\ Thins(queue, queue)
  BY SameEntriesThin DEF Inv, QueueFits
<1>2. CASE event.kind = "user"
  <2>1. PICK m \in Messages : m = event.msg
    BY <1>2
  <2>2. p = ResolveAccepted(queue, m, idKnown)
    BY <1>2, <2>1 DEF QueueAfter
  <2> DEFINE rest == RemoveEntry(queue, m)
  <2>3. GoodQueue(rest) /\ Thins(queue, rest)
    BY <1>1, RemoveEntryFacts, RemoveThins
  <2>4. p = queue \/ p = rest \/ p = [rest EXCEPT !.pause = "acceptance_confirmed"]
    BY <2>2 DEF ResolveAccepted
  <2> HIDE DEF p, rest
  <2>5. p = queue \/ p.entries = rest.entries
    BY <2>3, <2>4 DEF GoodQueue, Queues
  <2>6. Thins(queue, p)
    BY <1>1, <2>3, <2>5, SameEntriesThin, ThinsAgain
  <2> QED
    BY <2>6 DEF p
<1>3. CASE event.kind # "user"
  <2>1. CASE event.kind = "ended" /\ event.outcome # "completed"
    <3>1. event.outcome \in AllTurnEnds
      BY <2>1 DEF Events, StateEvent
    <3>2. PauseAfter(event.outcome) \in Pauses \ {None}
      BY <2>1, <3>1 DEF PauseAfter, AllTurnEnds, Pauses, None
    <3>3. p = PauseQueue(queue, PauseAfter(event.outcome))
      BY <2>1 DEF QueueAfter
    <3> QED
      BY <1>1, <3>2, <3>3, PausesThin
  <2>2. CASE event.kind \in {"removed", "finished"}
    <3>1. "left_runtime" \in Pauses \ {None}
      BY DEF Pauses, None
    <3>2. p = PauseQueue(queue, "left_runtime")
      BY <2>2 DEF QueueAfter
    <3> QED
      BY <1>1, <3>1, <3>2, PausesThin
  <2>3. CASE ~(event.kind = "ended" /\ event.outcome # "completed") /\ event.kind \notin {"removed", "finished"}
    <3>1. p = queue
      BY <1>3, <2>3 DEF QueueAfter
    <3> QED
      BY <1>1, <3>1
  <2> QED
    BY <2>1, <2>2, <2>3
<1> QED
  BY <1>2, <1>3

\* What is added last comes after the rest.
LEMMA PlaceInAppend ==
    ASSUME NEW S, NEW s \in Seq(S), NEW e \in S, NEW m, NEW n, PlaceBefore(Append(s, e), m, n)
    PROVE  PlaceBefore(s, m, n) \/ (n = e /\ \E i \in DOMAIN s : s[i] = m)
<1> DEFINE t == Append(s, e)
<1>1. /\ Len(s) \in Nat /\ DOMAIN s = 1..Len(s) /\ DOMAIN t = 1..(Len(s) + 1)
      /\ t[Len(s) + 1] = e /\ \A i \in 1..Len(s) : t[i] = s[i]
  OBVIOUS
<1>2. PICK i \in DOMAIN t, j \in DOMAIN t : i < j /\ t[i] = m /\ t[j] = n
  BY DEF PlaceBefore
<1> HIDE DEF t
<1>3. i \in DOMAIN s /\ s[i] = m
  BY <1>1, <1>2
<1>4. CASE j \in DOMAIN s
  BY <1>1, <1>2, <1>3, <1>4 DEF PlaceBefore
<1>5. CASE j \notin DOMAIN s
  <2>1. j = Len(s) + 1
    BY <1>1, <1>5
  <2> QED
    BY <1>1, <1>2, <1>3, <2>1
<1> QED
  BY <1>4, <1>5

\* When the first leaves, the others stay in order.
LEMMA PlaceInTail ==
    ASSUME NEW S, NEW s \in Seq(S), s # <<>>, NEW m, NEW n, PlaceBefore(Tail(s), m, n)
    PROVE  PlaceBefore(s, m, n)
<1> DEFINE t == Tail(s)
<1>1. \A i \in DOMAIN t : i + 1 \in DOMAIN s /\ t[i] = s[i + 1]
  BY TailFacts
<1>2. PICK i \in DOMAIN t, j \in DOMAIN t : i < j /\ t[i] = m /\ t[j] = n
  BY DEF PlaceBefore
<1>3. t \in Seq(S) /\ Len(t) \in Nat /\ DOMAIN t = 1..Len(t)
  BY TailFacts
<1> HIDE DEF t
<1>4. i + 1 < j + 1
  BY <1>2, <1>3
<1>5. i + 1 \in DOMAIN s /\ j + 1 \in DOMAIN s /\ s[i + 1] = m /\ s[j + 1] = n
  BY <1>1, <1>2
<1> QED
  BY <1>4, <1>5 DEF PlaceBefore

\* The order of the submissions in the lane.
LaneThins == \A m, n \in Messages : PlaceBefore(lane, m, n)' => PlaceBefore(lane, m, n)

\* It stays when the head leaves, or who is no submission joins.
LEMMA LaneMoves ==
    ASSUME TypeOK,
           \/ lane' = lane
           \/ lane # <<>> /\ lane' = Tail(lane)
           \/ \E a \in Actors \ Messages : lane' = Append(lane, a)
    PROVE  LaneThins
<1>1. lane \in Seq(Actors)
  BY DEF TypeOK
<1>2. CASE lane' = lane
  BY <1>2 DEF LaneThins, PlaceBefore
<1>3. CASE lane # <<>> /\ lane' = Tail(lane)
  <2> SUFFICES ASSUME NEW m \in Messages, NEW n \in Messages, PlaceBefore(Tail(lane), m, n)
               PROVE  PlaceBefore(lane, m, n)
    BY <1>3 DEF LaneThins, PlaceBefore
  <2> QED
    BY <1>1, <1>3, PlaceInTail
<1>4. ASSUME NEW a \in Actors \ Messages, lane' = Append(lane, a) PROVE LaneThins
  <2> SUFFICES ASSUME NEW m \in Messages, NEW n \in Messages, PlaceBefore(Append(lane, a), m, n)
               PROVE  PlaceBefore(lane, m, n)
    BY <1>4 DEF LaneThins, PlaceBefore
  <2>1. n # a
    OBVIOUS
  <2> QED
    BY <1>1, <2>1, PlaceInAppend
<1> QED
  BY <1>2, <1>3, <1>4

\* Submissions start once, come no earlier and keep their mode.
SubmissionsGoOn ==
    \A m \in Messages :
        /\ job'[m].at = "idle" <=> job[m].at = "idle"
        /\ job'[m].at \in Early => job[m].at \in Early
        /\ job'[m].how # "steer"

\* The runtime takes and is sent nothing, and every place holds no more than before.
NothingNew ==
    /\ took' = took /\ joined' = joined
    /\ \A m \in Messages : OpenFor(m)' => OpenFor(m)
    /\ Thins(queue, queue') /\ LaneThins

\* Who was before another stays so until something joins.
LEMMA BeforeStays ==
    ASSUME joined' = joined, NEW m, NEW n
    PROVE  Before(m, n)' <=> Before(m, n)
BY DEF Before

\* What was sorted stays so when each pair that comes about is in order.
LEMMA SortedStays ==
    ASSUME Sorted, joined' = joined,
           \A m, n \in Messages : Ahead(m, n)' => Ahead(m, n) \/ Before(m, n)
    PROVE  Sorted'
BY BeforeStays DEF Sorted

\* Nothing comes before another then.
LEMMA NothingNewAhead ==
    ASSUME NothingNew, SubmissionsGoOn, NEW m \in Messages, NEW n \in Messages, Ahead(m, n)'
    PROVE  Ahead(m, n)
<1>1. Taken(m)' <=> Taken(m)
  BY DEF NothingNew, Taken
<1>2. Taken(n)' <=> Taken(n)
  BY DEF NothingNew, Taken
<1>3. /\ InQueue(queue', m) => InQueue(queue, m)
      /\ InQueue(queue', n) => InQueue(queue, n)
      /\ EntryBefore(queue', m, n) => EntryBefore(queue, m, n)
  BY DEF NothingNew, Thins
<1>4. Future(n)' => Future(n)
  BY <1>2, <1>3 DEF Future, NothingNew, SubmissionsGoOn
<1>5. PlaceBefore(took', m, n) <=> PlaceBefore(took, m, n)
  BY DEF NothingNew
<1>6. PlaceBefore(lane', m, n) => PlaceBefore(lane, m, n)
  BY DEF NothingNew, LaneThins
<1>7. job'[n].at \in Early => job[n].at \in Early
  BY DEF SubmissionsGoOn
<1>8. OpenFor(m)' => OpenFor(m)
  BY DEF NothingNew
<1> QED
  BY <1>1, <1>3, <1>4, <1>5, <1>6, <1>7, <1>8 DEF Ahead

\* The submissions stay joined and plain when none starts.
LEMMA JoinedStays ==
    ASSUME Joined, SubmissionsGoOn, joined' = joined
    PROVE  Joined' /\ Plain'
BY DEF Joined, Plain, SubmissionsGoOn

\* A step that brings nothing new keeps the order.
LEMMA InTurnInCalm ==
    ASSUME InTurn, NothingNew, SubmissionsGoOn, DrainsHead', OpenIsNamed'
    PROVE  InTurn'
<1>1. Sorted'
  BY NothingNewAhead, SortedStays DEF InTurn, NothingNew
<1>2. Joined' /\ Plain'
  BY JoinedStays DEF InTurn, NothingNew
<1> QED
  BY <1>1, <1>2 DEF InTurn

\* A drain that is still about to send has the head of what is left.
LEMMA DrainsHeadStays ==
    ASSUME Inv, DrainsHead, Thins(queue, queue'),
           job'["drain"].at \in ToSend =>
               job["drain"].at \in ToSend /\ job'["drain"].msg = job["drain"].msg
    PROVE  DrainsHead'
<1> SUFFICES ASSUME job'["drain"].at \in ToSend, NEW n \in Messages,
                    EntryBefore(queue', n, job'["drain"].msg)
             PROVE  FALSE
  BY DEF DrainsHead
<1>1. job["drain"].at \in ToSend /\ job'["drain"].msg = job["drain"].msg
  OBVIOUS
<1>2. job["drain"].msg \in Messages
  BY <1>1, CarriedMessages DEF ToSend, Pending
<1>3. EntryBefore(queue, n, job["drain"].msg)
  BY <1>1, <1>2 DEF Thins
<1> QED
  BY <1>1, <1>3 DEF DrainsHead

\* An open request stays named while what names it stays.
LEMMA NamedStays ==
    ASSUME OpenIsNamed, \A m \in Messages : OpenFor(m)' => OpenFor(m), unresolved' = unresolved,
           Uncertain => Uncertain' /\ job'[active'.op].msg = job[active.op].msg
    PROVE  OpenIsNamed'
BY DEF OpenIsNamed

\* The head of the lane joined before every submission that may still be sent.
LEMMA HeadIsBefore ==
    ASSUME Inv, InTurn, NEW m \in Messages, AtHead(m), NEW n \in Messages, n # m,
           job[n].at \in Early
    PROVE  Before(m, n)
<1>1. TypeOK /\ Lanes /\ lane \in Seq(Actors) /\ m \in Actors /\ n \in Actors
  BY Names DEF Inv, TypeOK
<1>2. job[m].at # "idle"
  BY <1>1, HeadIsAlone DEF Running
<1>3. PICK k \in DOMAIN joined : joined[k] = m
  BY <1>2 DEF InTurn, Joined
<1>4. CASE job[n].at = "idle"
  <2>1. \A l \in DOMAIN joined : joined[l] # n
    BY <1>4 DEF InTurn, Joined
  <2> QED
    BY <1>3, <2>1 DEF Before
<1>5. CASE job[n].at # "idle"
  <2>1. PICK j \in DOMAIN lane : lane[j] = n
    BY <1>1, <1>5 DEF Lanes, Resting, Early
  <2>2. lane # <<>> /\ lane[1] = m /\ 1 \in DOMAIN lane /\ DOMAIN lane = 1..Len(lane) /\ Len(lane) \in Nat
    BY <1>1, TailFacts DEF AtHead
  <2>3. 1 < j
    BY <2>1, <2>2
  <2>4. PlaceBefore(lane, m, n)
    BY <2>1, <2>2, <2>3 DEF PlaceBefore
  <2> QED
    BY <2>4 DEF InTurn, Sorted, Ahead
<1> QED
  BY <1>4, <1>5

\* One actor goes on and brings nothing new.
LEMMA OneGoesOn ==
    ASSUME Inv, InTurn, NEW a \in Actors, OthersStay(a), NothingNew, OpenIsNamed',
           a \in Messages => /\ job[a].at # "idle" /\ job'[a].at # "idle" /\ job'[a].how # "steer"
                             /\ job'[a].at \in Early => job[a].at \in Early,
           a = "drain" => DrainsHead'
    PROVE  InTurn'
<1>1. SubmissionsGoOn
  <2> SUFFICES ASSUME NEW m \in Messages
               PROVE  /\ job'[m].at = "idle" <=> job[m].at = "idle"
                      /\ job'[m].at \in Early => job[m].at \in Early
                      /\ job'[m].how # "steer"
    BY DEF SubmissionsGoOn
  <2>1. CASE m = a
    BY <2>1
  <2>2. CASE m # a
    <3>1. Stays(m)
      BY <2>2, Names DEF OthersStay
    <3> QED
      BY <3>1 DEF Stays, InTurn, Plain
  <2> QED
    BY <2>1, <2>2
<1>2. DrainsHead'
  <2>1. CASE a = "drain"
    BY <2>1
  <2>2. CASE a # "drain"
    <3>1. Stays("drain")
      BY <2>2, Names DEF OthersStay
    <3> QED
      BY <3>1, DrainsHeadStays DEF Stays, InTurn, NothingNew
  <2> QED
    BY <2>1, <2>2
<1> QED
  BY <1>1, <1>2, InTurnInCalm

\* A queue action and a Stop are never uncertain, and send nothing.
LEMMA ButtonsInTurn ==
    ASSUME Inv, Resolvable, InTurn, NEW a \in {"manage", "stop"}, OthersStay(a),
           UNCHANGED <<active, unresolved, took, joined>>, rt'.open = rt.open,
           Thins(queue, queue'), lane' \in {lane, Append(lane, a)}
    PROVE  InTurn'
<1>1. a \in Actors \ Messages /\ a # "drain" /\ TypeOK
  BY Names DEF Inv
<1>2. LaneThins
  BY <1>1, LaneMoves
<1>3. NothingNew
  BY <1>2 DEF NothingNew, OpenFor
<1>4. Uncertain => Uncertain' /\ job'[active'.op].msg = job[active.op].msg
  <2> SUFFICES ASSUME Uncertain
               PROVE  job'[active.op].msg = job[active.op].msg
    BY DEF Uncertain
  <2>1. active.op \in Actors \ {a}
    BY <1>1, Names DEF Resolvable, UncertainIsKept
  <2> QED
    BY <2>1 DEF OthersStay, Stays
<1>5. OpenIsNamed'
  BY <1>3, <1>4, NamedStays DEF InTurn, NothingNew
<1> QED
  BY <1>1, <1>3, <1>5, OneGoesOn

\* What a queue action or a Stop does.
LEMMA ButtonStepsInTurn ==
    ASSUME Inv, Resolvable, InTurn,
           \/ ResumeChecks \/ ResumeCommits \/ BeginEdit \/ EndEdit \/ RemoveMessage \/ ManageFails
           \/ Stop \/ StopPauses \/ StopTurn \/ StopFails
           \/ \E m \in Messages, how \in Actions : Manage(how, m)
    PROVE  InTurn'
<1>1. TypeOK /\ GoodQueue(queue) /\ Thins(queue, queue)
  BY SameEntriesThin DEF Inv, QueueFits
<1>2. ASSUME NEW a \in {"manage", "stop"}, NEW s \in Stages, job' = Moved(a, s)
      PROVE  OthersStay(a)
  BY <1>1, <1>2, MovedTypes, Names DEF OthersStay, Stays
<1>3. {"committing", "settling", "cancelled"} \subseteq Stages
  BY DEF Stages
<1>4. CASE ResumeChecks \/ ManageFails
  <2>1. OthersStay("manage")
    BY <1>2, <1>3, <1>4 DEF ResumeChecks, ManageFails, GoTo
  <2> QED
    BY <1>1, <1>4, <2>1, ButtonsInTurn DEF ResumeChecks, ManageFails, owner, live, told
<1>5. CASE StopTurn \/ StopFails
  <2>1. OthersStay("stop")
    BY <1>2, <1>3, <1>5 DEF StopTurn, StopFails, GoTo
  <2>2. rt'.open = rt.open
    BY <1>1, <1>5 DEF StopTurn, StopFails, TurnOver, Reports, live, TypeOK
  <2> QED
    BY <1>1, <1>5, <2>1, <2>2, ButtonsInTurn DEF StopTurn, StopFails, owner, live, told
<1>6. CASE Stop
  <2>1. OthersStay("stop")
    BY <1>2, <1>3, <1>6 DEF Stop, GoTo
  <2> QED
    BY <1>1, <1>6, <2>1, ButtonsInTurn DEF Stop, live, told
<1>7. CASE StopPauses
  <2>1. OthersStay("stop")
    BY <1>1, <1>7, JoinMoves, Names DEF StopPauses
  <2>2. "stopped" \in Pauses \ {None}
    BY DEF Pauses, None
  <2>3. Thins(queue, queue')
    BY <1>1, <1>7, <2>2, PausesThin DEF StopPauses
  <2> QED
    BY <1>7, <2>1, <2>3, ButtonsInTurn DEF StopPauses, Join, live, told
<1>8. ASSUME NEW m \in Messages, NEW how \in Actions, Manage(how, m) PROVE InTurn'
  <2>1. OthersStay("manage")
    BY <1>1, <1>8, JoinMoves, Names DEF Manage
  <2> QED
    BY <1>1, <1>8, <2>1, ButtonsInTurn DEF Manage, Join, live, told
<1>9. CASE ResumeCommits
  <2>1. OthersStay("manage")
    BY <1>2, <1>3, <1>9 DEF ResumeCommits, GoTo
  <2>2. queue'.entries = queue.entries
    BY <1>1, <1>9 DEF ResumeCommits, ReleaseWith, GoodQueue, Queues
  <2> QED
    BY <1>9, <2>1, <2>2, SameEntriesThin, ButtonsInTurn DEF ResumeCommits, owner, live, told
<1>10. CASE BeginEdit \/ EndEdit \/ RemoveMessage
  <2>1. OthersStay("manage")
    BY <1>2, <1>3, <1>10 DEF BeginEdit, EndEdit, RemoveMessage, GoTo
  <2>2. /\ AtHead("manage") /\ job["manage"].at = "preparing" /\ MayChange
        /\ UNCHANGED <<owner, live, joined>>
    BY <1>10 DEF BeginEdit, EndEdit, RemoveMessage, Pressed, told
  <2>3. PICK m \in Messages : m = Entry
    BY <2>2, MayChangeFacts DEF Entry
  <2>4. queue' \in {Mark(queue, m, "editing"), Mark(queue, m, "queued"), RemoveEntry(queue, m)}
    BY <1>10, <2>3 DEF BeginEdit, EndEdit, RemoveMessage, ReleaseWith
  <2>5. {"editing", "queued"} \subseteq EntryStates
    BY DEF EntryStates
  <2>6. Thins(queue, queue')
    BY <1>1, <2>4, <2>5, MarkThins, RemoveThins
  <2> QED
    BY <2>1, <2>2, <2>6, ButtonsInTurn DEF owner, live
<1> QED
  BY <1>4, <1>5, <1>6, <1>7, <1>8, <1>9, <1>10

\* What the runtime reports on its own.
LEMMA ReportsInTurn ==
    ASSUME Inv, InTurn, ReportsOnly
    PROVE  InTurn'
<1>1. UNCHANGED <<owner, job, queue, took, told>>
  BY DEF ReportsOnly, OwnTurn, Ask, Answered, SessionLeaves, Reattaches, StatusFault,
         StatusReport, EndTurn
<1>2. rt'.open = rt.open
  BY DEF ReportsOnly, OwnTurn, Ask, Answered, SessionLeaves, Reattaches, StatusFault,
         StatusReport, EndTurn, TurnOver, Reports, Inv, TypeOK
<1>3. NothingNew /\ SubmissionsGoOn
  <2>1. LaneThins
    BY <1>1, LaneMoves DEF owner, Inv
  <2> QED
    BY <1>1, <1>2, <2>1, SameEntriesThin DEF NothingNew, SubmissionsGoOn, OpenFor, told, InTurn, Plain
<1>4. DrainsHead'
  BY <1>1 DEF DrainsHead, InTurn
<1>5. OpenIsNamed'
  BY <1>1, <1>2, NamedStays DEF InTurn, owner, Uncertain, OpenFor
<1> QED
  BY <1>3, <1>4, <1>5, InTurnInCalm

\* The head of the lane is admitted or refused.
LEMMA BeginInTurn ==
    ASSUME Inv, Resolvable, InTurn, NEW a \in Actors, Begin(a)
    PROVE  InTurn'
<1>1. /\ TypeOK /\ AtHead(a) /\ job[a].at = "waiting"
      /\ job' = Moved(a, FirstStage(a)) \/ Failed(a)
      /\ UNCHANGED <<lane, unresolved, queue, rt, took, joined>>
  BY DEF Begin, GoTo, live, Inv
<1>2. FirstStage(a) \in {"sending", "issued", "preparing"} /\ {"sending", "issued", "preparing"} \subseteq Stages
  BY DEF FirstStage, Stages
<1>3. /\ OthersStay(a) /\ job'[a].at \in {"sending", "issued", "preparing", "settling"}
      /\ job'[a].how = job[a].how /\ job'[a].msg = job[a].msg
  <2>1. CASE job' = Moved(a, FirstStage(a))
    BY <1>1, <1>2, <2>1, MovedTypes DEF OthersStay, Stays
  <2>2. CASE Failed(a)
    BY <1>1, <2>2, FailedTypes DEF OthersStay, Stays
  <2> QED
    BY <1>1, <2>1, <2>2
<1>4. NothingNew
  <2>1. LaneThins
    BY <1>1, LaneMoves
  <2> QED
    BY <1>1, <2>1, SameEntriesThin DEF NothingNew, OpenFor
<1>5. OpenIsNamed'
  <2>1. ~Uncertain
    BY <1>1, CertainAtHead
  <2> QED
    BY <1>1, <2>1, NamedStays DEF InTurn, OpenFor
<1>6. a = "drain" => DrainsHead'
  BY <1>1, <1>3, <1>4, DrainsHeadStays DEF InTurn, NothingNew, ToSend, Pending
<1> QED
  BY <1>1, <1>3, <1>4, <1>5, <1>6, OneGoesOn DEF InTurn, Plain, Early

\* The submission at the head enters the queue: last, or first when nothing else waits.
LEMMA EntersInTurn ==
    ASSUME Inv, InTurn, NEW m \in Messages, AtHead(m), OthersStay(m), Taken(m) \/ Future(m),
           UNCHANGED <<lane, took, joined>>, \A x \in Messages : OpenFor(x)' => OpenFor(x),
           job'[m].at = "settling", job'[m].how = job[m].how, OpenIsNamed', DrainsHead',
           \A x \in Messages : InQueue(queue', x) => InQueue(queue, x) \/ x = m,
           \A x, y \in Messages : EntryBefore(queue', x, y) =>
               EntryBefore(queue, x, y) \/ (y = m /\ InQueue(queue, x) /\ job[m].at \in Early)
    PROVE  InTurn'
<1>1. \A x \in Messages \ {m} : Stays(x)
  BY Names DEF OthersStay
<1>2. job[m].at # "idle"
  BY HeadIsAlone, Names DEF Inv, Running
<1>3. SubmissionsGoOn
  BY <1>1, <1>2 DEF SubmissionsGoOn, Stays, InTurn, Plain, Early
<1>4. Joined' /\ Plain'
  BY <1>3, JoinedStays DEF InTurn
<1>5. ASSUME NEW x \in Messages, NEW y \in Messages, Ahead(x, y)'
      PROVE  Ahead(x, y) \/ Before(x, y)
  <2>1. (Taken(x)' <=> Taken(x)) /\ (Taken(y)' <=> Taken(y))
    BY DEF Taken
  <2>2. Future(y)' => Future(y)
    BY <1>3, <2>1 DEF Future, SubmissionsGoOn
  <2>3. CASE (Taken(x) /\ Future(y))' \/ (OpenFor(x) /\ Future(y) /\ x # y)'
    BY <2>1, <2>2, <2>3 DEF Ahead
  <2>4. CASE PlaceBefore(lane, x, y)' \/ PlaceBefore(took, x, y)'
    BY <2>4 DEF Ahead, PlaceBefore
  <2>5. CASE EntryBefore(queue', x, y)
    BY <2>5 DEF Ahead
  <2>6. CASE InQueue(queue', x) /\ job'[y].at \in Early
    <3>1. y # m /\ job[y].at \in Early
      BY <1>3, <2>6 DEF Early, SubmissionsGoOn
    <3>2. CASE x = m
      BY <3>1, <3>2, HeadIsBefore
    <3>3. CASE x # m
      BY <2>6, <3>1, <3>3 DEF Ahead
    <3> QED
      BY <3>2, <3>3
  <2> QED
    BY <1>5, <2>3, <2>4, <2>5, <2>6 DEF Ahead
<1>6. Sorted'
  BY <1>5, SortedStays DEF InTurn
<1> QED
  BY <1>4, <1>6 DEF InTurn

\* An entry that comes last comes after those that wait.
LEMMA LastEntry ==
    ASSUME NEW q, GoodQueue(q), NEW m \in Messages
    PROVE  LET p == EnqueueLast(q, m)
           IN /\ \A x \in Messages : InQueue(p, x) => InQueue(q, x) \/ x = m
              /\ \A x, y \in Messages : EntryBefore(p, x, y) =>
                    EntryBefore(q, x, y) \/ (y = m /\ InQueue(q, x))
<1> DEFINE p == EnqueueLast(q, m)
<1> DEFINE e == [msg |-> m, state |-> "queued"]
<1> DEFINE k == Len(q.entries) + 1
<1>1. q \in Queues /\ q.entries \in Seq(Entries)
  BY DEF GoodQueue, Queues
<1>2. e \in Entries /\ e.msg = m
  BY DEF Entries, EntryStates
<1>3. p.entries = Append(q.entries, e)
  BY <1>1 DEF EnqueueLast, Queues
<1> HIDE DEF p, e
<1>4. /\ Len(q.entries) \in Nat /\ DOMAIN q.entries = 1..Len(q.entries)
      /\ DOMAIN p.entries = 1..k /\ p.entries[k] = e
      /\ \A i \in 1..Len(q.entries) : p.entries[i] = q.entries[i]
  BY <1>1, <1>2, <1>3
<1>5. /\ \A i \in DOMAIN p.entries : i = k \/ (i \in DOMAIN q.entries /\ p.entries[i] = q.entries[i])
      /\ \A i \in DOMAIN p.entries : ~(k < i)
  BY <1>4
<1> HIDE DEF k
<1>6. \A x \in Messages : InQueue(p, x) => InQueue(q, x) \/ x = m
  BY <1>2, <1>4, <1>5 DEF InQueue
<1>7. ASSUME NEW x \in Messages, NEW y \in Messages, EntryBefore(p, x, y)
      PROVE  EntryBefore(q, x, y) \/ (y = m /\ InQueue(q, x))
  <2>1. PICK i \in DOMAIN p.entries, j \in DOMAIN p.entries :
           i < j /\ p.entries[i].msg = x /\ p.entries[j].msg = y
    BY <1>7 DEF EntryBefore
  <2>2. i \in DOMAIN q.entries /\ q.entries[i].msg = x
    BY <1>5, <2>1
  <2>3. CASE j = k
    BY <1>2, <1>4, <2>1, <2>2, <2>3 DEF InQueue
  <2>4. CASE j # k
    BY <1>5, <2>1, <2>2, <2>4 DEF EntryBefore
  <2> QED
    BY <2>3, <2>4
<1> QED
  BY <1>6, <1>7 DEF p

\* An entry that comes into an empty queue is alone.
LEMMA OnlyEntry ==
    ASSUME NEW q, GoodQueue(q), q.entries = <<>>, NEW m \in Messages, NEW s \in EntryStates
    PROVE  LET p == EnqueueFirst(q, m, s)
           IN /\ \A x \in Messages : InQueue(p, x) => x = m
              /\ \A x, y \in Messages : ~EntryBefore(p, x, y)
<1> DEFINE p == EnqueueFirst(q, m, s)
<1> DEFINE e == [msg |-> m, state |-> s]
<1>1. q \in Queues
  BY DEF GoodQueue
<1>2. e \in Entries /\ e.msg = m
  BY DEF Entries
<1>3. p.entries = <<e>> \o <<>>
  BY <1>1 DEF EnqueueFirst, Queues
<1> HIDE DEF p, e
<1>4. <<e>> \o <<>> = <<e>>
  BY <1>2
<1>5. DOMAIN p.entries = {1} /\ p.entries[1] = e
  BY <1>3, <1>4
<1>6. /\ \A x \in Messages : InQueue(p, x) => x = m
      /\ \A x, y \in Messages : ~EntryBefore(p, x, y)
  BY <1>2, <1>5 DEF InQueue, EntryBefore
<1> QED
  BY <1>6 DEF p

\* A submission is prepared: it fails, enters the queue last, or is sent.
LEMMA PreparedInTurn ==
    ASSUME Inv, Resolvable, InTurn, NEW m \in Messages, Prepared(m)
    PROVE  InTurn'
<1>1. /\ TypeOK /\ AtHead(m) /\ job[m].at = "preparing" /\ m \in Actors
      /\ UNCHANGED <<lane, active, unresolved, rt, took, joined>>
  BY Names DEF Prepared, owner, live, Inv
<1>2. GoodQueue(queue) /\ m # "drain" /\ m \notin {None, "drain", "manage", "stop"}
  BY Names DEF Inv, QueueFits
<1>3. (\A x \in Messages : OpenFor(x)' => OpenFor(x)) /\ LaneThins
  BY <1>1, LaneMoves DEF OpenFor
<1>4. OpenIsNamed'
  <2>1. ~Uncertain
    BY <1>1, CertainAtHead
  <2> QED
    BY <1>1, <1>3, <2>1, NamedStays DEF InTurn
<1>5. job[m].how # "steer"
  BY DEF InTurn, Plain
<1>6. ASSUME OthersStay(m), job'[m].at \in {"settling", "sending"}, job'[m].how = job[m].how,
             queue'.entries = queue.entries
      PROVE  InTurn'
  <2>1. NothingNew
    BY <1>1, <1>3, <1>6, SameEntriesThin DEF NothingNew
  <2> QED
    BY <1>1, <1>2, <1>4, <1>5, <1>6, <2>1, OneGoesOn DEF Early
<1>7. CASE Failed(m) /\ UNCHANGED queue
  <2>1. OthersStay(m) /\ job'[m].at = "settling" /\ job'[m].how = job[m].how
    BY <1>1, <1>7, FailedTypes DEF OthersStay, Stays
  <2> QED
    BY <1>6, <1>7, <2>1
<1>8. CASE queue' = [queue EXCEPT !.sending = TRUE] /\ job' = [job EXCEPT ![m].at = "sending", ![m].ended = FALSE]
  <2>1. OthersStay(m) /\ job'[m].at = "sending" /\ job'[m].how = job[m].how
    BY <1>1, <1>8 DEF OthersStay, Stays, TypeOK, Jobs
  <2>2. queue'.entries = queue.entries
    BY <1>2, <1>8, SendingFacts
  <2> QED
    BY <1>6, <2>1, <2>2
<1>9. CASE queue' = EnqueueLast(queue, m) /\ GoTo(m, "settling")
  <2>1. OthersStay(m) /\ job'[m].at = "settling" /\ job'[m].how = job[m].how
    BY <1>1, <1>9, MovedTypes DEF OthersStay, Stays, GoTo, Stages
  <2>2. /\ \A x \in Messages : InQueue(queue', x) => InQueue(queue, x) \/ x = m
        /\ \A x, y \in Messages : EntryBefore(queue', x, y) =>
              EntryBefore(queue, x, y) \/ (y = m /\ InQueue(queue, x))
    BY <1>2, <1>9, LastEntry
  <2>3. DrainsHead'
    <3> SUFFICES ASSUME job'["drain"].at \in ToSend, NEW n \in Messages,
                        EntryBefore(queue', n, job'["drain"].msg)
                 PROVE  FALSE
      BY DEF DrainsHead
    <3>1. Stays("drain")
      BY <1>2, <2>1, Names DEF OthersStay
    <3>2. job["drain"].at \in ToSend /\ job'["drain"].msg = job["drain"].msg
      BY <3>1 DEF Stays
    <3>3. Has(queue, job["drain"].msg, "sending") /\ job["drain"].msg \in Messages
      BY <3>2, CarriedMessages DEF Resolvable, DrainIsMarked, ToSend, Pending
    <3>4. job["drain"].msg # m
      BY <1>1, <3>3, NotYetQueued DEF Returned
    <3>5. EntryBefore(queue, n, job["drain"].msg)
      BY <2>2, <3>2, <3>3, <3>4
    <3> QED
      BY <3>2, <3>5 DEF InTurn, DrainsHead
  <2>4. Future(m) /\ job[m].at \in Early
    BY <1>1 DEF Inv, Unsent, Out, Future, Early
  <2> QED
    BY <1>1, <1>3, <1>4, <2>1, <2>2, <2>3, <2>4, EntersInTurn
<1> QED
  BY <1>5, <1>7, <1>8, <1>9 DEF Prepared

\* A send that ends leaves the entries, or its submission enters an empty queue.
LEMMA AnswerInTurn ==
    ASSUME Inv, Resolvable, Awake, InTurn, NEW a \in Actors \ {"stop"},
           NEW answer \in AllOutcomes \cup {"busy"}, AtHead(a), job[a].at \in {"sending", "issued"},
           Answer(a, answer), UNCHANGED <<lane, took, joined>>,
           \A x \in Messages : OpenFor(x)' => OpenFor(x), OpenIsNamed',
           a \in Messages /\ answer \notin {"accepted", "received", "refused"} /\ ~ShownMeanwhile(a)
               => Taken(a) \/ Future(a)
    PROVE  InTurn'
<1>1. TypeOK /\ GoodQueue(queue) /\ LaneThins
  BY LaneMoves DEF Inv, QueueFits
<1>2. OthersStay(a) /\ job'[a].at = "settling" /\ job'[a].how = job[a].how
  BY <1>1, AnswerMoves
<1>3. a \in Messages \cup {"drain"}
  BY Names DEF Resolvable, NothingSteers, Steering
<1>4. ASSUME queue'.entries = queue.entries PROVE InTurn'
  <2>1. NothingNew
    BY <1>1, <1>4, SameEntriesThin DEF NothingNew
  <2>2. a = "drain" => DrainsHead'
    BY <1>2 DEF DrainsHead, ToSend, Pending
  <2> QED
    BY <1>2, <2>1, <2>2, OneGoesOn DEF InTurn, Plain, Early
<1>5. CASE a = "drain"
  BY <1>4, <1>5 DEF Answer
<1>6. CASE a \in Messages
  <2> DEFINE outcome == Classified(a, answer)
  <2> DEFINE q == [queue EXCEPT !.sending = FALSE]
  <2>1. a \notin {None, "drain", "manage", "stop"}
    BY <1>6, Names
  <2>2. job[a].how = "default"
    BY <1>6 DEF Inv, JobsFit, SubmissionFits, InTurn, Plain
  <2>3. DefaultInFlight(a)
    BY <2>2 DEF DefaultInFlight
  <2>4. AfterNewTurn(a, outcome)
    BY <2>1, <2>2 DEF Answer
  <2>5. outcome \in Results
    BY ClassifiedResults
  <2>6. outcome \in {"busy", "unknown"} => Taken(a) \/ Future(a)
    <3>1. CASE ShownMeanwhile(a) \/ answer \in {"accepted", "received", "refused"}
      <4>1. answer = "accepted" => outcome = "accepted"
        BY DEF Classified, outcome
      <4>2. answer # "accepted" /\ ShownMeanwhile(a) => outcome = "received"
        BY <2>1 DEF Classified, outcome
      <4>3. answer \in {"received", "refused"} /\ ~ShownMeanwhile(a) => outcome = answer
        BY DEF Classified, outcome
      <4> QED
        BY <3>1, <4>1, <4>2, <4>3
    <3>2. CASE ~(ShownMeanwhile(a) \/ answer \in {"accepted", "received", "refused"})
      BY <1>6, <3>2
    <3> QED
      BY <3>1, <3>2
  <2>7. GoodQueue(q) /\ q.entries = queue.entries
    BY <1>1, SendingFacts
  <2>8. queue.entries = <<>> /\ job["drain"].at = "idle"
    BY <1>6, <2>2, <2>3 DEF Awake, SendsAlone, Inv, QueueFits
  <2> HIDE DEF q, outcome
  <2>9. CASE outcome \in {"accepted", "refused"}
    <3>1. queue' = EndPauseIfEmpty(q)
      BY <2>4, <2>9 DEF AfterNewTurn, q
    <3> QED
      BY <1>4, <2>7, <3>1, EndPauseFacts
  <2>10. CASE outcome = "received"
    <3> DEFINE w == PauseQueue(q, "accepted_then_failed")
    <3>1. queue' = EndPauseIfEmpty(w)
      BY <2>4, <2>10 DEF AfterNewTurn, q
    <3>2. GoodQueue(w) /\ w.entries = q.entries
      BY <2>7, PauseQueueFacts DEF Pauses, None
    <3> HIDE DEF w
    <3> QED
      BY <1>4, <2>7, <3>1, <3>2, EndPauseFacts
  <2>11. CASE outcome \in {"busy", "unknown"}
    <3>1. PICK s \in {"queued", "acceptance_unknown"} : queue'.entries = EnqueueFirst(q, a, s).entries
      <4>1. CASE outcome = "busy"
        BY <2>4, <4>1 DEF AfterNewTurn, q
      <4>2. CASE outcome = "unknown"
        <5> DEFINE w == EnqueueFirst(q, a, "acceptance_unknown")
        <5>1. queue' = FirstPause(w, "acceptance_unknown")
          BY <2>4, <4>2 DEF AfterNewTurn, q
        <5>2. w \in Queues
          <6>1. ~InQueue(q, a)
            BY <2>7, <2>8 DEF InQueue
          <6> QED
            BY <1>6, <2>7, <6>1, EnqueueFirstFacts DEF EntryStates, GoodQueue
        <5> HIDE DEF w
        <5>3. queue'.entries = w.entries
          BY <5>1, <5>2 DEF FirstPause, Queues
        <5> QED
          BY <5>3 DEF w
      <4> QED
        BY <2>11, <4>1, <4>2
    <3>2. /\ \A x \in Messages : InQueue(EnqueueFirst(q, a, s), x) => x = a
          /\ \A x, y \in Messages : ~EntryBefore(EnqueueFirst(q, a, s), x, y)
      BY <1>6, <2>7, <2>8, OnlyEntry DEF EntryStates
    <3>3. /\ \A x \in Messages : InQueue(queue', x) => x = a
          /\ \A x, y \in Messages : ~EntryBefore(queue', x, y)
      BY <3>1, <3>2 DEF InQueue, EntryBefore
    <3>4. DrainsHead'
      <4>1. job'["drain"].at = "idle"
        BY <1>2, <2>1, <2>8, Names DEF OthersStay, Stays
      <4> QED
        BY <4>1 DEF DrainsHead, ToSend, Pending
    <3> QED
      BY <1>2, <1>6, <2>6, <2>11, <3>3, <3>4, EntersInTurn
  <2> QED
    BY <2>5, <2>9, <2>10, <2>11 DEF Results
<1> QED
  BY <1>3, <1>5, <1>6

\* A send fails before its request, or finds the runtime busy.
LEMMA SendInTurn ==
    ASSUME Inv, Resolvable, Awake, InTurn, NEW a \in Actors \ {"stop"}, SendFails(a) \/ SendBusy(a)
    PROVE  InTurn'
<1>1. PICK answer \in {"refused", "busy"} : Answer(a, answer)
  BY DEF SendFails, SendBusy
<1>2. AtHead(a) /\ job[a].at = "sending" /\ UNCHANGED <<lane, active, unresolved, rt, took, joined>>
  BY DEF SendFails, SendBusy, owner, live
<1>3. \A x \in Messages : OpenFor(x)' => OpenFor(x)
  BY <1>2 DEF OpenFor
<1>4. OpenIsNamed'
  <2>1. ~Uncertain
    BY <1>2, CertainAtHead
  <2> QED
    BY <1>2, <1>3, <2>1, NamedStays DEF InTurn
<1>5. a \in Messages => Future(a)
  BY <1>2 DEF Inv, Unsent, Out, Future, Early
<1> QED
  BY <1>1, <1>2, <1>3, <1>4, <1>5, AnswerInTurn DEF AllOutcomes

\* An answer says what the runtime did with the request.
LEMMA ReplyInTurn ==
    ASSUME Inv, Resolvable, Awake, InTurn, NEW a \in Actors, NEW answer \in Outcomes, Reply(a, answer)
    PROVE  InTurn'
<1>1. /\ AtHead(a) /\ job[a].at = "issued" /\ a # "stop" /\ Answer(a, answer)
      /\ answer \in {"accepted", "received"} => Request(a) \notin rt.open
      /\ rt' = IF answer = "refused" THEN [rt EXCEPT !.open = @ \ {Request(a)}] ELSE rt
      /\ active' = [active EXCEPT !.native = NativeAfter(answer)]
      /\ UNCHANGED <<lane, unresolved, took, joined>>
  BY DEF Reply
<1>2. answer \in AllOutcomes /\ TypeOK /\ Lanes /\ Requested /\ a \in Actors \ {"stop"}
  BY <1>1, AnswersAssumption DEF Inv
<1>3. rt'.open = IF answer = "refused" THEN rt.open \ {Request(a)} ELSE rt.open
  BY <1>1, <1>2 DEF TypeOK
<1>4. \A x \in Messages : OpenFor(x)' => OpenFor(x)
  BY <1>3 DEF OpenFor
<1>5. active.op = a /\ unresolved = None
  BY <1>1, <1>2, Names DEF Lanes, Running
<1>6. Request(a) \in rt.open \/ Taken(job[a].msg)
  BY <1>1, <1>2 DEF Inv, Known
<1>7. Request(a).msg = job[a].msg
  BY DEF Request
<1>8. OpenIsNamed'
  <2>1. ASSUME NEW x \in Messages, OpenFor(x)'
        PROVE  Uncertain /\ x = job[a].msg
    BY <1>4, <1>5, <2>1, Names DEF InTurn, OpenIsNamed
  <2>2. CASE answer \in {"unknown", "unclear"}
    <3>1. active' = active
      BY <1>1, <1>2, <2>2 DEF NativeAfter, TypeOK
    <3>2. job'[a].msg = job[a].msg
      BY <1>1, <1>2, AnswerMoves
    <3> QED
      BY <1>1, <1>4, <1>5, <3>1, <3>2, NamedStays DEF InTurn, Uncertain
  <2>3. CASE answer \in {"accepted", "received", "refused"}
    <3> SUFFICES ASSUME NEW x \in Messages, OpenFor(x)'
                 PROVE  FALSE
      BY DEF OpenIsNamed
    <3>1. x = job[a].msg
      BY <2>1
    <3>2. ~Taken(x)
      BY <1>2, <1>4 DEF Requested
    <3>3. Request(a) \in rt.open
      BY <1>6, <3>1, <3>2
    <3>4. answer = "refused"
      BY <1>1, <2>3, <3>3
    <3>5. PICK r \in rt.open : r # Request(a) /\ r.msg = x
      BY <1>3, <3>4 DEF OpenFor
    <3> QED
      BY <1>2, <1>7, <3>1, <3>3, <3>5 DEF Requested
  <2> QED
    BY <1>2, <2>2, <2>3 DEF AllOutcomes
<1>9. a \in Messages /\ answer \notin {"accepted", "received", "refused"} /\ ~ShownMeanwhile(a)
         => Taken(a) \/ Future(a)
  <2> SUFFICES ASSUME a \in Messages, answer \in {"unknown", "unclear"}, ~ShownMeanwhile(a)
               PROVE  Taken(a) \/ Future(a)
    BY <1>2 DEF AllOutcomes
  <2>1. job[a].msg = a
    BY <1>1, CarriedMessages
  <2> QED
    BY <1>2, <1>6, <1>7, <2>1 DEF Future, OpenFor, Requested
<1> QED
  BY <1>1, <1>2, <1>4, <1>8, <1>9, AnswerInTurn

\* While an operation runs nothing earlier may still be taken, unless it is its own request.
LEMMA NothingOpenBeforeIssue ==
    ASSUME Inv, Resolvable, InTurn, NEW a \in Actors \ {"stop"}, AtHead(a), job[a].at = "sending"
    PROVE  ~Uncertain /\ active.op = a /\ \A m \in Messages : ~OpenFor(m)
<1>1. ~Uncertain
  BY CertainAtHead
<1>2. active.op = a /\ unresolved = None
  BY Names DEF Inv, Lanes, Running
<1> QED
  BY <1>1, <1>2, Names DEF InTurn, OpenIsNamed

\* The one that sends is before every other message that may still be sent.
LEMMA SenderIsBefore ==
    ASSUME Inv, Resolvable, Awake, InTurn, NEW a \in Messages \cup {"drain"}, AtHead(a),
           job[a].at = "sending", NEW n \in Messages, n # job[a].msg,
           InQueue(queue, n) \/ job[n].at \in Early
    PROVE  Before(job[a].msg, n)
<1>1. CASE a \in Messages
  <2>1. job[a].msg = a /\ job[a].how = "default"
    BY <1>1 DEF Inv, JobsFit, SubmissionFits, InTurn, Plain
  <2>2. queue.entries = <<>>
    BY <1>1, <2>1 DEF Awake, SendsAlone, DefaultInFlight
  <2>3. ~InQueue(queue, n)
    <3>1. DOMAIN queue.entries = {}
      BY <2>2
    <3> QED
      BY <3>1 DEF InQueue
  <2> QED
    BY <1>1, <2>1, <2>3, HeadIsBefore
<1>2. CASE a = "drain"
  <2>1. PICK m \in Messages : m = job["drain"].msg
    BY <1>2, CarriedMessages
  <2>2. Has(queue, m, "sending")
    BY <1>2, <2>1 DEF Resolvable, DrainIsMarked
  <2>3. InQueue(queue, m)
    BY <2>2 DEF Has, InQueue
  <2>4. CASE job[n].at \in Early
    BY <1>2, <2>1, <2>3, <2>4 DEF InTurn, Sorted, Ahead
  <2>5. CASE InQueue(queue, n)
    <3>1. PICK i \in DOMAIN queue.entries : queue.entries[i].msg = m
      BY <2>3 DEF InQueue
    <3>2. PICK j \in DOMAIN queue.entries : queue.entries[j].msg = n
      BY <2>5 DEF InQueue
    <3>3. i # j
      BY <1>2, <2>1, <3>1, <3>2
    <3>4. ~(j < i)
      BY <1>2, <2>1, <3>1, <3>2 DEF InTurn, DrainsHead, EntryBefore, ToSend
    <3>5. queue.entries \in Seq(Entries)
      BY DEF Inv, TypeOK, Queues
    <3>6. i < j
      BY <3>1, <3>2, <3>3, <3>4, <3>5
    <3>7. EntryBefore(queue, m, n)
      BY <3>1, <3>2, <3>6 DEF EntryBefore
    <3> QED
      BY <1>2, <2>1, <3>7 DEF InTurn, Sorted, Ahead
  <2> QED
    BY <2>4, <2>5
<1> QED
  BY <1>1, <1>2

\* A request is issued for the first of the messages that the runtime may still take.
LEMMA IssueInTurn ==
    ASSUME Inv, Resolvable, Awake, InTurn, NEW a \in Actors \ {"stop"}, Issue(a)
    PROVE  InTurn'
<1>1. /\ TypeOK /\ AtHead(a) /\ job[a].at = "sending" /\ job' = Moved(a, "issued")
      /\ active' = [active EXCEPT !.native = "uncertain"]
      /\ rt' = [rt EXCEPT !.open = @ \cup {Request(a)}]
      /\ UNCHANGED <<lane, unresolved, queue, took, joined>>
  BY DEF Issue, GoTo, Inv, told
<1>2. a \in Messages \cup {"drain"}
  BY <1>1, Names DEF Resolvable, NothingSteers, Steering
<1>3. PICK m \in Messages : m = job[a].msg
  <2>1. CASE a \in Messages
    BY <1>1, <2>1, CarriedMessages
  <2>2. CASE a = "drain"
    BY <1>1, <2>2, CarriedMessages
  <2> QED
    BY <1>2, <2>1, <2>2
<1>4. ~Uncertain /\ active.op = a /\ \A x \in Messages : ~OpenFor(x)
  BY <1>1, NothingOpenBeforeIssue
<1>5. \A x \in Messages : OpenFor(x)' <=> x = m
  <2>1. rt'.open = rt.open \cup {Request(a)}
    BY <1>1 DEF TypeOK
  <2>2. Request(a).msg = m
    BY <1>3 DEF Request
  <2> QED
    BY <1>4, <2>1, <2>2 DEF OpenFor
<1>6. /\ job'[a].at = "issued" /\ job'[a].msg = m /\ job'[a].how = job[a].how
      /\ \A b \in Actors \ {a} : job'[b] = job[b]
  BY <1>1, <1>3, MovedTypes DEF Stages
<1>7. SubmissionsGoOn
  BY <1>1, <1>6, Names DEF SubmissionsGoOn, InTurn, Plain, Early
<1>8. OpenIsNamed'
  <2>1. Uncertain' /\ active'.op = a
    BY <1>1, <1>4 DEF Uncertain, TypeOK
  <2> QED
    BY <1>5, <1>6, <2>1 DEF OpenIsNamed
<1>9. DrainsHead'
  <2>1. job'["drain"].at \in ToSend =>
           job["drain"].at \in ToSend /\ job'["drain"].msg = job["drain"].msg
    BY <1>6, Names DEF ToSend, Pending
  <2> QED
    BY <1>1, <2>1, SameEntriesThin, DrainsHeadStays DEF InTurn
<1>10. ASSUME NEW x \in Messages, NEW y \in Messages, Ahead(x, y)'
       PROVE  Ahead(x, y) \/ Before(x, y)
  <2>1. (Taken(x)' <=> Taken(x)) /\ (Taken(y)' <=> Taken(y))
    BY <1>1 DEF Taken
  <2>2. job'[y].at \in Early => job[y].at \in Early
    BY <1>7 DEF SubmissionsGoOn
  <2>3. ~Taken(m) /\ (InQueue(queue, m) \/ job[m].at \in Early)
    <3>1. ~Taken(m)
      BY <1>1, <1>3, NotOutWhenSending
    <3>2. CASE a \in Messages
      BY <1>1, <1>3, <3>1, <3>2, CarriedMessages DEF Early
    <3>3. CASE a = "drain"
      BY <1>1, <1>3, <3>1, <3>3 DEF Resolvable, DrainIsMarked, Has, InQueue
    <3> QED
      BY <1>2, <3>1, <3>2, <3>3
  <2>4. Future(y)' => Future(y)
    BY <1>1, <1>5, <2>1, <2>2, <2>3 DEF Future
  <2>5. CASE (Taken(x) /\ Future(y))'
    BY <2>1, <2>4, <2>5 DEF Ahead
  <2>6. CASE (OpenFor(x) /\ Future(y) /\ x # y)'
    <3>1. x = m /\ y # m
      BY <1>5, <2>6
    <3>2. InQueue(queue, y) \/ job[y].at \in Early
      BY <1>1, <1>5, <2>2, <2>6, <3>1 DEF Future
    <3> QED
      BY <1>1, <1>2, <1>3, <3>1, <3>2, SenderIsBefore
  <2>7. CASE (PlaceBefore(lane, x, y) \/ PlaceBefore(took, x, y) \/ EntryBefore(queue, x, y))'
    BY <1>1, <2>7 DEF Ahead, PlaceBefore, EntryBefore
  <2>8. CASE InQueue(queue', x) /\ job'[y].at \in Early
    BY <1>1, <2>2, <2>8 DEF Ahead
  <2> QED
    BY <1>10, <2>5, <2>6, <2>7, <2>8 DEF Ahead
<1>11. Sorted'
  BY <1>1, <1>10, SortedStays DEF InTurn
<1>12. Joined' /\ Plain'
  BY <1>1, <1>7, JoinedStays DEF InTurn
<1> QED
  BY <1>8, <1>9, <1>11, <1>12 DEF InTurn

\* The runtime takes the one open request, which is before all that it may still take.
LEMMA TakeInTurn ==
    ASSUME Inv, InTurn, NEW request \in rt.open, Take(request)
    PROVE  InTurn'
<1>1. /\ TypeOK /\ Requested /\ took' = Append(took, request.msg)
      /\ UNCHANGED <<lane, active, unresolved, job, queue, joined>>
  BY DEF Take, Inv, owner, told
<1>2. rt'.open = rt.open \ {request}
  BY <1>1 DEF Take, Reports, TypeOK
<1>3. PICK m \in Messages : m = request.msg
  BY <1>1 DEF TypeOK, Requests
<1>4. OpenFor(m) /\ ~Taken(m) /\ took \in Seq(Messages)
  BY <1>1, <1>3 DEF OpenFor, Requested, TypeOK
<1>5. \A x \in Messages : OpenFor(x)' => OpenFor(x)
  BY <1>2 DEF OpenFor
<1>6. \A x \in Messages : Taken(x)' <=> Taken(x) \/ x = m
  BY <1>1, <1>3, <1>4 DEF Taken
<1>7. SubmissionsGoOn
  BY <1>1 DEF SubmissionsGoOn, InTurn, Plain
<1>8. DrainsHead'
  BY <1>1 DEF DrainsHead, InTurn
<1>9. OpenIsNamed'
  BY <1>1, <1>5, NamedStays DEF InTurn, Uncertain
<1>10. ASSUME NEW x \in Messages, NEW y \in Messages, Ahead(x, y)'
       PROVE  Ahead(x, y)
  <2>1. Future(y)' => Future(y) /\ y # m
    BY <1>1, <1>5, <1>6 DEF Future
  <2>2. CASE (Taken(x) /\ Future(y))'
    <3>1. CASE x = m
      BY <1>4, <2>1, <2>2, <3>1 DEF Ahead
    <3>2. CASE x # m
      BY <1>6, <2>1, <2>2, <3>2 DEF Ahead
    <3> QED
      BY <3>1, <3>2
  <2>3. CASE (OpenFor(x) /\ Future(y) /\ x # y)'
    BY <1>5, <2>1, <2>3 DEF Ahead
  <2>4. CASE (PlaceBefore(lane, x, y) \/ EntryBefore(queue, x, y))'
    BY <1>1, <2>4 DEF Ahead, PlaceBefore, EntryBefore
  <2>5. CASE InQueue(queue', x) /\ job'[y].at \in Early
    BY <1>1, <2>5 DEF Ahead
  <2>6. CASE PlaceBefore(took', x, y)
    <3>1. PlaceBefore(took, x, y) \/ (y = m /\ \E i \in DOMAIN took : took[i] = x)
      BY <1>1, <1>3, <1>4, <2>6, PlaceInAppend
    <3>2. CASE PlaceBefore(took, x, y)
      BY <3>2 DEF Ahead
    <3>3. CASE y = m /\ \E i \in DOMAIN took : took[i] = x
      <4>1. Taken(x) /\ Future(y)
        BY <1>4, <3>3 DEF Taken, Future
      <4> QED
        BY <4>1 DEF Ahead
    <3> QED
      BY <3>1, <3>2, <3>3
  <2> QED
    BY <1>10, <2>2, <2>3, <2>4, <2>5, <2>6 DEF Ahead, PlaceBefore
<1>11. Sorted'
  BY <1>1, <1>10, SortedStays DEF InTurn
<1>12. Joined' /\ Plain'
  BY <1>1, <1>7, JoinedStays DEF InTurn
<1> QED
  BY <1>8, <1>9, <1>11, <1>12 DEF InTurn

\* A submission joins last, and stays behind all that joined before.
LEMMA JoinsLast ==
    ASSUME Inv, NEW m \in Messages, joined' = Append(joined, m), NEW x \in Messages
    PROVE  /\ \A y \in Messages : Before(x, y) => Before(x, y)'
           /\ Joined /\ job[m].at = "idle" /\ job[x].at # "idle" => Before(x, m)'
<1> DEFINE t == Append(joined, m)
<1>1. joined \in Seq(Messages)
  BY DEF Inv, TypeOK
<1>2. /\ Len(joined) \in Nat /\ DOMAIN joined = 1..Len(joined) /\ DOMAIN t = 1..(Len(joined) + 1)
      /\ t[Len(joined) + 1] = m /\ \A i \in 1..Len(joined) : t[i] = joined[i]
  BY <1>1
<1>3. joined' = t
  OBVIOUS
<1> HIDE DEF t
<1>4. ASSUME NEW y \in Messages, NEW k \in DOMAIN joined, joined[k] = x,
             \A l \in DOMAIN joined : joined[l] = y => k < l
      PROVE  Before(x, y)'
  <2>1. k \in DOMAIN t /\ t[k] = x
    BY <1>2, <1>4
  <2>2. \A l \in DOMAIN t : t[l] = y => k < l
    BY <1>2, <1>4
  <2> QED
    BY <1>3, <2>1, <2>2 DEF Before
<1>5. \A y \in Messages : Before(x, y) => Before(x, y)'
  BY <1>4 DEF Before
<1>6. Joined /\ job[m].at = "idle" /\ job[x].at # "idle" => Before(x, m)'
  <2> SUFFICES ASSUME Joined, job[m].at = "idle", job[x].at # "idle"
               PROVE  Before(x, m)'
    OBVIOUS
  <2>1. PICK k \in DOMAIN joined : joined[k] = x
    BY DEF Joined
  <2>2. \A l \in DOMAIN joined : joined[l] # m
    BY DEF Joined
  <2> QED
    BY <1>4, <2>1, <2>2
<1> QED
  BY <1>5, <1>6

\* A submission joins the lane and is the last of all.
LEMMA SubmitInTurn ==
    ASSUME Inv, Resolvable, InTurn, NEW m \in Messages, NEW mode \in Modes \ {"steer"}, Submit(m, mode)
    PROVE  InTurn'
<1>1. /\ TypeOK /\ status[m] = "unsent" /\ Join(m, m, mode) /\ joined' = Append(joined, m)
      /\ UNCHANGED <<active, unresolved, queue, rt, took>>
  BY DEF Submit, Inv, live
<1>2. job[m].at = "idle" /\ m \in Actors /\ m \notin {"drain", "manage", "stop"}
  BY <1>1, Names DEF Inv, JobsFit, SubmissionFits
<1>3. OthersStay(m) /\ job'[m].at = "waiting" /\ job'[m].how = mode
  BY <1>1, <1>2, JoinMoves
<1>4. \A x \in Messages \ {m} : Stays(x)
  BY <1>3, Names DEF OthersStay
<1>5. Stays("drain")
  BY <1>2, <1>3, Names DEF OthersStay
<1>6. Plain'
  BY <1>3, <1>4 DEF Plain, InTurn, Stays
<1>7. Thins(queue, queue')
  BY <1>1, SameEntriesThin
<1>8. DrainsHead'
  BY <1>5, <1>7, DrainsHeadStays DEF InTurn, Stays
<1>9. OpenIsNamed'
  <2>1. Uncertain => active.op \in Actors \ {m}
    BY <1>2, RestingIsCertain
  <2>2. Uncertain => Uncertain' /\ job'[active'.op].msg = job[active.op].msg
    BY <1>1, <1>3, <2>1 DEF OthersStay, Stays, Uncertain
  <2>3. \A x \in Messages : OpenFor(x)' => OpenFor(x)
    BY <1>1 DEF OpenFor
  <2> QED
    BY <1>1, <2>2, <2>3, NamedStays DEF InTurn
<1>10. Joined'
  <2> DEFINE t == Append(joined, m)
  <2>1. joined \in Seq(Messages)
    BY <1>1 DEF TypeOK
  <2>2. /\ Len(joined) \in Nat /\ DOMAIN joined = 1..Len(joined) /\ DOMAIN t = 1..(Len(joined) + 1)
        /\ t[Len(joined) + 1] = m /\ \A i \in 1..Len(joined) : t[i] = joined[i]
    BY <2>1
  <2>3. joined' = t
    BY <1>1
  <2> HIDE DEF t
  <2>4. \A l \in DOMAIN joined : joined[l] # m
    BY <1>2 DEF InTurn, Joined
  <2>5. \A k, l \in DOMAIN t : t[k] = t[l] => k = l
    BY <2>2, <2>4 DEF InTurn, Joined
  <2>6. ASSUME NEW x \in Messages
        PROVE  (\E k \in DOMAIN t : t[k] = x) <=> job'[x].at # "idle"
    <3>1. CASE x = m
      BY <1>3, <2>2, <3>1
    <3>2. CASE x # m
      <4>1. (\E k \in DOMAIN t : t[k] = x) <=> (\E k \in DOMAIN joined : joined[k] = x)
        BY <2>2, <3>2
      <4> QED
        BY <1>4, <3>2, <4>1 DEF InTurn, Joined, Stays
    <3> QED
      BY <3>1, <3>2
  <2> QED
    BY <2>3, <2>5, <2>6 DEF Joined
<1>11. ASSUME NEW x \in Messages, NEW y \in Messages, Ahead(x, y)'
       PROVE  Ahead(x, y) \/ (y = m /\ job[x].at # "idle")
  <2>1. /\ Taken(x)' <=> Taken(x)
        /\ Taken(y)' <=> Taken(y)
        /\ OpenFor(x)' <=> OpenFor(x)
        /\ OpenFor(y)' <=> OpenFor(y)
    BY <1>1 DEF Taken, OpenFor
  <2>2. job'[y].at \in Early => job[y].at \in Early
    BY <1>2, <1>3, <1>4 DEF Early, Stays
  <2>3. Future(y)' => Future(y)
    BY <1>1, <2>1, <2>2 DEF Future
  <2>4. CASE (Taken(x) /\ Future(y))' \/ (OpenFor(x) /\ Future(y) /\ x # y)'
    BY <2>1, <2>3, <2>4 DEF Ahead
  <2>5. CASE (PlaceBefore(took, x, y) \/ EntryBefore(queue, x, y))'
    BY <1>1, <2>5 DEF Ahead, PlaceBefore, EntryBefore
  <2>6. CASE InQueue(queue', x) /\ job'[y].at \in Early
    BY <1>1, <2>2, <2>6 DEF Ahead
  <2>7. CASE PlaceBefore(lane', x, y)
    <3>1. PlaceBefore(lane, x, y) \/ (y = m /\ \E i \in DOMAIN lane : lane[i] = x)
      BY <1>1, <1>2, <2>7, PlaceInAppend DEF Join, TypeOK
    <3>2. CASE PlaceBefore(lane, x, y)
      BY <3>2 DEF Ahead
    <3>3. CASE y = m /\ \E i \in DOMAIN lane : lane[i] = x
      BY <3>3, Names DEF Inv, Lanes, Resting
    <3> QED
      BY <3>1, <3>2, <3>3
  <2> QED
    BY <1>11, <2>4, <2>5, <2>6, <2>7 DEF Ahead, PlaceBefore
<1>12. Sorted'
  <2> SUFFICES ASSUME NEW x \in Messages, NEW y \in Messages, Ahead(x, y)'
               PROVE  Before(x, y)'
    BY DEF Sorted
  <2>1. CASE Ahead(x, y)
    BY <1>1, <2>1, JoinsLast DEF InTurn, Sorted
  <2>2. CASE y = m /\ job[x].at # "idle"
    BY <1>1, <1>2, <2>2, JoinsLast DEF InTurn
  <2> QED
    BY <1>11, <2>1, <2>2
<1> QED
  BY <1>6, <1>8, <1>9, <1>10, <1>12 DEF InTurn

\* What leaves the lane is named when its request may still be taken.
LEMMA LeaverIsNamed ==
    ASSUME Inv, Resolvable, InTurn, NEW a \in Actors, AtHead(a), Leave(a), rt' = rt
    PROVE  OpenIsNamed'
<1> SUFFICES ASSUME NEW x \in Messages, OpenFor(x)
             PROVE  unresolved' = x
  BY DEF OpenIsNamed, OpenFor
<1>1. active.op \in {None, a} /\ TypeOK /\ Lanes
  BY HeadIsAlone DEF Inv
<1>2. CASE Uncertain /\ job[active.op].msg = x
  <2>1. active.op = a /\ a # "manage"
    BY <1>1, <1>2, Names DEF Resolvable, UncertainIsKept
  <2> QED
    BY <1>2, <2>1 DEF Leave, Uncertain, NameOf
<1>3. CASE ~(Uncertain /\ job[active.op].msg = x)
  <2>1. unresolved = x /\ x # None
    BY <1>3, Names DEF InTurn, OpenIsNamed
  <2>2. ~(active.op = a /\ Uncertain)
    BY <1>1, <2>1, Names DEF Lanes, Uncertain
  <2> QED
    BY <2>1, <2>2 DEF Leave, Uncertain
<1> QED
  BY <1>2, <1>3

\* An operation that is over leaves the lane.
LEMMA SettleInTurn ==
    ASSUME Inv, Resolvable, InTurn, NEW a \in Actors, Settle(a)
    PROVE  InTurn'
<1>1. /\ TypeOK /\ AtHead(a) /\ job[a].at = "settling" /\ a # "drain" /\ Leave(a)
      /\ job' = [job EXCEPT ![a] = [Idle EXCEPT !.at = IF a \in Messages THEN "done" ELSE "idle"]]
      /\ UNCHANGED <<queue, rt, took, joined>>
  BY DEF Settle, live, told, Inv
<1>2. OthersStay(a) /\ job'[a] = [Idle EXCEPT !.at = IF a \in Messages THEN "done" ELSE "idle"]
  BY <1>1 DEF OthersStay, Stays, TypeOK
<1>3. job'[a].how = None /\ (a \in Messages => job'[a].at = "done")
  BY <1>2 DEF Idle
<1>4. LaneThins
  BY <1>1, LaneMoves DEF Leave, AtHead
<1>5. NothingNew
  BY <1>1, <1>4, SameEntriesThin DEF NothingNew, OpenFor
<1>6. OpenIsNamed'
  BY <1>1, LeaverIsNamed
<1> QED
  BY <1>1, <1>2, <1>3, <1>5, <1>6, OneGoesOn DEF Early, None

\* A drain takes the head of the queue.
LEMMA DrainInTurn ==
    ASSUME Inv, Resolvable, InTurn, Drain
    PROVE  InTurn'
<1>1. TypeOK /\ GoodQueue(queue) /\ UNCHANGED <<lane, active, unresolved, rt, took, joined>>
  BY DEF Drain, Inv, QueueFits, owner, live, told
<1>2. \A x \in Messages : OpenFor(x)' => OpenFor(x)
  BY <1>1 DEF OpenFor
<1>3. CASE Deliverable
  <2>1. /\ queue' = [Mark(queue, Head(queue.entries).msg, "sending") EXCEPT !.sending = TRUE]
        /\ job' = [job EXCEPT !["drain"] = [Idle EXCEPT !.at = "joining",
                                                        !.msg = Head(queue.entries).msg]]
    BY <1>3 DEF Drain
  <2>2. PICK m \in Messages : m = Head(queue.entries).msg
    BY <1>1, <1>3, EmptyHoldsNothing DEF Deliverable
  <2>3. OthersStay("drain") /\ job'["drain"].msg = m
    BY <1>1, <2>1, <2>2, Names DEF OthersStay, Stays, TypeOK, Idle
  <2>4. Thins(queue, queue')
    <3> DEFINE p == Mark(queue, m, "sending")
    <3>1. GoodQueue(p) /\ Thins(queue, p)
      BY <1>1, MarkFacts, MarkThins DEF EntryStates
    <3>2. queue' = [p EXCEPT !.sending = TRUE]
      BY <2>1, <2>2
    <3> HIDE DEF p
    <3>3. queue'.entries = p.entries
      BY <3>1, <3>2, SendingFacts
    <3> QED
      BY <3>1, <3>3, SameEntriesThin, ThinsAgain
  <2>5. DrainsHead'
    <3> SUFFICES ASSUME NEW n \in Messages, EntryBefore(queue', n, m)
                 PROVE  FALSE
      BY <2>3 DEF DrainsHead
    <3>1. EntryBefore(queue, n, m)
      BY <2>4 DEF Thins
    <3>2. PICK i \in DOMAIN queue.entries, j \in DOMAIN queue.entries :
             i < j /\ queue.entries[j].msg = m
      BY <3>1 DEF EntryBefore
    <3>3. queue.entries \in Seq(Entries) /\ queue.entries # <<>>
      BY <1>3 DEF Inv, TypeOK, Queues, Deliverable
    <3>4. 1 \in DOMAIN queue.entries /\ queue.entries[1].msg = m /\ 1 <= i
      BY <2>2, <3>2, <3>3
    <3>5. j = 1
      BY <1>1, <3>2, <3>4 DEF GoodQueue, Single
    <3> QED
      BY <3>2, <3>3, <3>4, <3>5
  <2>6. LaneThins
    BY <1>1, LaneMoves
  <2>7. NothingNew
    BY <1>1, <1>2, <2>4, <2>6 DEF NothingNew
  <2>8. OpenIsNamed'
    <3>1. job["drain"].at = "idle"
      BY <1>3 DEF Inv, QueueFits, Deliverable
    <3>2. Uncertain => active.op \in Actors \ {"drain"}
      BY <3>1, RestingIsCertain, Names
    <3>3. Uncertain => Uncertain' /\ job'[active'.op].msg = job[active.op].msg
      BY <1>1, <2>3, <3>2 DEF OthersStay, Stays, Uncertain
    <3> QED
      BY <1>1, <1>2, <3>3, NamedStays DEF InTurn
  <2> QED
    BY <2>3, <2>5, <2>7, <2>8, OneGoesOn, Names
<1>4. CASE ~Deliverable
  <2>1. UNCHANGED <<queue, job>>
    BY <1>4 DEF Drain
  <2>2. NothingNew /\ SubmissionsGoOn
    BY <1>1, <1>2, <2>1, SameEntriesThin, LaneMoves DEF NothingNew, SubmissionsGoOn, InTurn, Plain
  <2>3. DrainsHead'
    BY <2>1 DEF DrainsHead, InTurn
  <2>4. OpenIsNamed'
    BY <1>1, <1>2, <2>1, NamedStays DEF InTurn, Uncertain
  <2> QED
    BY <2>2, <2>3, <2>4, InTurnInCalm
<1> QED
  BY <1>3, <1>4

\* A drain joins the lane: no submission, and its entry stays the first.
LEMMA DrainJoinsInTurn ==
    ASSUME Inv, Resolvable, InTurn, DrainJoins
    PROVE  InTurn'
<1>1. /\ job["drain"].at = "joining" /\ TypeOK /\ lane' = Append(lane, "drain")
      /\ job' = [job EXCEPT !["drain"].at = "waiting", !["drain"].gen = gen]
      /\ UNCHANGED <<active, unresolved, queue, rt, took, joined>>
  BY DEF DrainJoins, Inv, live, told
<1>2. "drain" \in Actors \ Messages /\ job["drain"] \in Jobs
  BY <1>1, Names DEF TypeOK
<1>3. job'["drain"] = [job["drain"] EXCEPT !.at = "waiting", !.gen = gen] /\ OthersStay("drain")
  BY <1>1, <1>2 DEF OthersStay, Stays, TypeOK
<1>4. job'["drain"].msg = job["drain"].msg
  BY <1>2, <1>3 DEF Jobs
<1>5. LaneThins
  BY <1>1, <1>2, LaneMoves
<1>6. Thins(queue, queue')
  BY <1>1, SameEntriesThin
<1>7. NothingNew
  BY <1>1, <1>5, <1>6 DEF NothingNew, OpenFor
<1>8. DrainsHead'
  BY <1>1, <1>4, <1>6, DrainsHeadStays DEF InTurn, ToSend, Pending
<1>9. OpenIsNamed'
  <2>1. Uncertain => active.op \in Actors \ {"drain"}
    BY <1>1, <1>2, RestingIsCertain
  <2>2. Uncertain => Uncertain' /\ job'[active'.op].msg = job[active.op].msg
    BY <1>1, <1>3, <2>1 DEF OthersStay, Stays, Uncertain
  <2> QED
    BY <1>1, <1>7, <2>2, NamedStays DEF InTurn, NothingNew
<1> QED
  BY <1>2, <1>3, <1>7, <1>8, <1>9, OneGoesOn

\* The entry of a drain that fails before it joined stays where it is, or left before.
LEMMA DrainFailsInTurn ==
    ASSUME Inv, Resolvable, InTurn, DrainFails
    PROVE  InTurn'
<1> DEFINE q == [queue EXCEPT !.sending = FALSE]
<1>1. /\ job["drain"].at = "joining" /\ TypeOK
      /\ queue' = FailEntry(q, job["drain"].msg, "refused")
      /\ job' = [job EXCEPT !["drain"] = Idle]
      /\ UNCHANGED <<lane, active, unresolved, rt, took, joined>>
  BY DEF DrainFails, Inv, owner, live, told
<1>2. "drain" \in Actors \ Messages
  BY Names
<1>3. OthersStay("drain") /\ job'["drain"].at = "idle"
  BY <1>1, <1>2 DEF OthersStay, Stays, TypeOK, Idle
<1>4. PICK m \in Messages : m = job["drain"].msg
  BY <1>1, CarriedMessages
<1>5. GoodQueue(queue) /\ GoodQueue(q) /\ q.entries = queue.entries
  BY SendingFacts DEF Inv, QueueFits
<1> HIDE DEF q
<1>6. Thins(queue, queue')
  <2>1. Thins(queue, q)
    BY <1>5, SameEntriesThin
  <2>2. Thins(q, queue')
    BY <1>1, <1>4, <1>5, FailThins
  <2> QED
    BY <2>1, <2>2, ThinsAgain
<1>7. LaneThins
  BY <1>1, LaneMoves
<1>8. NothingNew
  BY <1>1, <1>6, <1>7 DEF NothingNew, OpenFor
<1>9. DrainsHead'
  BY <1>3 DEF DrainsHead, ToSend, Pending
<1>10. OpenIsNamed'
  <2>1. Uncertain => active.op \in Actors \ {"drain"}
    BY <1>1, <1>2, RestingIsCertain
  <2>2. Uncertain => Uncertain' /\ job'[active'.op].msg = job[active.op].msg
    BY <1>1, <1>3, <2>1 DEF OthersStay, Stays, Uncertain
  <2> QED
    BY <1>1, <1>8, <2>2, NamedStays DEF InTurn, NothingNew
<1> QED
  BY <1>2, <1>3, <1>8, <1>9, <1>10, OneGoesOn

\* A drain leaves the lane, and its entry leaves or stays where it is.
LEMMA DrainSettlesInTurn ==
    ASSUME Inv, Resolvable, InTurn, DrainSettles
    PROVE  InTurn'
<1> DEFINE outcome == Classified("drain", job["drain"].outcome)
<1> DEFINE q == [queue EXCEPT !.sending = FALSE]
<1>1. /\ AtHead("drain") /\ job["drain"].at = "settling" /\ Leave("drain") /\ TypeOK
      /\ job' = [job EXCEPT !["drain"] = Idle]
      /\ queue' = DrainEntry(q, job["drain"].msg, outcome)
      /\ UNCHANGED <<rt, took, joined>>
  BY DEF DrainSettles, DrainEntry, Inv, live, told
<1>2. PICK m \in Messages : m = job["drain"].msg
  BY <1>1, CarriedMessages
<1>3. GoodQueue(queue) /\ GoodQueue(q) /\ q.entries = queue.entries
  BY SendingFacts DEF Inv, QueueFits
<1> HIDE DEF q, outcome
<1>4. Thins(queue, queue')
  <2>1. Thins(queue, q)
    BY <1>3, SameEntriesThin
  <2>2. Thins(q, queue')
    BY <1>1, <1>2, <1>3, DrainEntryThins
  <2> QED
    BY <2>1, <2>2, ThinsAgain
<1>5. OthersStay("drain") /\ job'["drain"].at = "idle"
  BY <1>1, Names DEF OthersStay, Stays, TypeOK, Idle
<1>6. LaneThins
  BY <1>1, LaneMoves DEF Leave, AtHead
<1>7. NothingNew
  BY <1>1, <1>4, <1>6 DEF NothingNew, OpenFor
<1>8. OpenIsNamed' /\ DrainsHead'
  BY <1>1, <1>5, LeaverIsNamed, Names DEF DrainsHead, ToSend, Pending
<1> QED
  BY <1>5, <1>7, <1>8, OneGoesOn, Names

\* The owner learns that a message was taken: its request is open no more.
LEMMA OwnerObservesInTurn ==
    ASSUME Inv, InTurn, OwnerObserves
    PROVE  InTurn'
<1> DEFINE m == Head(events).msg
<1>1. /\ events # <<>> /\ Head(events).kind = "user" /\ TypeOK /\ Lanes /\ Requested
      /\ IF m \in Unnamed
         THEN UNCHANGED <<active, unresolved>>
         ELSE IF active.op \notin {None, "manage", "stop"} /\ job[active.op].msg = m
         THEN active' = [active EXCEPT !.native = "accepted"] /\ UNCHANGED unresolved
         ELSE unresolved' = StillUnresolved(m) /\ UNCHANGED active
      /\ UNCHANGED <<lane, job, queue, rt, took, joined>>
  BY DEF OwnerObserves, Inv, told
<1>2. m \in Messages /\ Taken(m)
  BY <1>1, FirstEventFacts
<1> HIDE DEF m
<1>3. ~OpenFor(m)
  BY <1>1, <1>2 DEF Requested
<1>4. NothingNew /\ SubmissionsGoOn
  BY <1>1, SameEntriesThin, LaneMoves DEF NothingNew, SubmissionsGoOn, OpenFor, InTurn, Plain
<1>5. DrainsHead'
  BY <1>1 DEF DrainsHead, InTurn
<1>6. OpenIsNamed'
  <2> SUFFICES ASSUME NEW x \in Messages, OpenFor(x)
               PROVE  unresolved' = x \/ (Uncertain' /\ job'[active'.op].msg = x)
    BY <1>1 DEF OpenIsNamed, OpenFor
  <2>1. x # m
    BY <1>3
  <2>2. unresolved = x \/ (Uncertain /\ job[active.op].msg = x)
    BY DEF InTurn, OpenIsNamed
  <2>3. CASE unresolved = x
    BY <1>1, <2>1, <2>3 DEF StillUnresolved
  <2>4. CASE Uncertain /\ job[active.op].msg = x
    BY <1>1, <2>1, <2>4 DEF Uncertain
  <2> QED
    BY <2>2, <2>3, <2>4
<1> QED
  BY <1>4, <1>5, <1>6, InTurnInCalm

\* The queue observes an event: entries may leave.
LEMMA QueueObservesInTurn ==
    ASSUME Inv, Resolvable, InTurn, QueueObserves
    PROVE  InTurn'
<1> DEFINE event == Head(events)
<1>0. PICK idKnown \in BOOLEAN : queue' = QueueAfter(event, idKnown)
  BY DEF QueueObserves
<1>1. /\ events # <<>> /\ TypeOK /\ job' \in {job, TurnCompleted}
      /\ UNCHANGED <<lane, active, unresolved, rt, took, joined>>
  BY DEF QueueObserves, Inv, owner, told
<1>2. event \in Events /\ (event.kind = "user" => event.msg \in Messages)
  BY <1>1, FirstEventFacts
<1> HIDE DEF event
<1>3. Thins(queue, queue')
  BY <1>0, <1>2, QueueAfterThins
<1>4. \A b \in Actors : Stays(b)
  <2>1. job \in [Actors -> Jobs]
    BY <1>1 DEF TypeOK
  <2>2. CASE job' = job
    BY <2>2 DEF Stays
  <2>3. CASE job' = TurnCompleted
    <3> SUFFICES ASSUME NEW b \in Actors
                 PROVE  Stays(b)
      OBVIOUS
    <3>1. job'[b] = [job[b] EXCEPT !.ended = @ \/ Delivering(b)] /\ job[b] \in Jobs
      BY <2>1, <2>3 DEF TurnCompleted
    <3> QED
      BY <3>1 DEF Jobs, Stays
  <2> QED
    BY <1>1, <2>2, <2>3
<1>5. NothingNew
  BY <1>1, <1>3, LaneMoves DEF NothingNew, OpenFor
<1>6. SubmissionsGoOn
  BY <1>4, Names DEF SubmissionsGoOn, Stays, InTurn, Plain
<1>7. DrainsHead'
  BY <1>3, <1>4, DrainsHeadStays, Names DEF InTurn, Stays
<1>8. OpenIsNamed'
  <2>1. Uncertain => active.op \in Actors
    BY Names DEF Resolvable, UncertainIsKept
  <2>2. Uncertain => Uncertain' /\ job'[active'.op].msg = job[active.op].msg
    BY <1>1, <1>4, <2>1 DEF Uncertain, Stays
  <2> QED
    BY <1>1, <1>5, <2>2, NamedStays DEF InTurn, NothingNew
<1> QED
  BY <1>5, <1>6, <1>7, <1>8, InTurnInCalm

\* Each step of the host keeps the order.
LEMMA HostInTurn ==
    ASSUME Inv, Resolvable, Awake, InTurn, Host
    PROVE  InTurn'
<1>1. ASSUME NEW a \in Actors, Begin(a) \/ Settle(a) PROVE InTurn'
  BY <1>1, BeginInTurn, SettleInTurn
<1>2. ASSUME NEW m \in Messages, Prepared(m) PROVE InTurn'
  BY <1>2, PreparedInTurn
<1>3. ASSUME NEW a \in Actors \ {"stop"}, Route(a) PROVE FALSE
  <2>1. AtHead(a) /\ job[a].at = "routing"
    BY <1>3 DEF Route
  <2> QED
    BY <2>1, Names DEF Inv, JobsFit, SubmissionFits, DrainFits, InTurn, Plain, Resolvable,
       NothingSteers, Steering
<1>4. ASSUME NEW a \in Actors \ {"stop"}, SendFails(a) \/ SendBusy(a) \/ Issue(a) PROVE InTurn'
  BY <1>4, SendInTurn, IssueInTurn
<1>5. CASE Drain \/ DrainJoins \/ DrainFails \/ DrainSettles
  BY <1>5, DrainInTurn, DrainJoinsInTurn, DrainFailsInTurn, DrainSettlesInTurn
<1>6. CASE ResumeChecks \/ ResumeCommits \/ BeginEdit \/ EndEdit \/ RemoveMessage \/ ManageFails \/ StopPauses
  BY <1>6, ButtonStepsInTurn
<1>7. CASE SteerEntry
  BY <1>7 DEF SteerEntry, Pressed, Resolvable, NothingSteers
<1>8. CASE OwnerObserves \/ QueueObserves
  BY <1>8, OwnerObservesInTurn, QueueObservesInTurn
<1> QED
  BY <1>1, <1>2, <1>3, <1>4, <1>5, <1>6, <1>7, <1>8 DEF Host

\* Each step of the user keeps the order, where no message is submitted as a steer.
LEMMA UserInTurn ==
    ASSUME Inv, Resolvable, InTurn, "steer" \notin Modes, User
    PROVE  InTurn'
<1>1. ASSUME NEW m \in Messages, NEW mode \in Modes, Submit(m, mode) PROVE InTurn'
  BY <1>1, SubmitInTurn
<1>2. CASE (\E m \in Messages, how \in Actions : Manage(how, m)) \/ Stop
  BY <1>2, ButtonStepsInTurn
<1>3. CASE Answered
  BY <1>3, ReportsInTurn DEF ReportsOnly
<1> QED
  BY <1>1, <1>2, <1>3 DEF User

\* Each step of the runtime keeps the order.
LEMMA RuntimeInTurn ==
    ASSUME Inv, Resolvable, Awake, InTurn, Runtime
    PROVE  InTurn'
<1>1. ASSUME NEW a \in Actors, NEW answer \in Outcomes, Reply(a, answer) PROVE InTurn'
  BY <1>1, ReplyInTurn
<1>2. ASSUME NEW request \in rt.open, Take(request) PROVE InTurn'
  BY <1>2, TakeInTurn
<1>3. CASE ReportsOnly
  BY <1>3, ReportsInTurn
<1>4. CASE StopTurn \/ StopFails
  BY <1>4, ButtonStepsInTurn
<1> QED
  BY <1>1, <1>2, <1>3, <1>4 DEF Runtime, ReportsOnly

\* Each step keeps the order, where nothing is steered.
LEMMA StepInTurn ==
    ASSUME "steer" \notin Modes
    PROVE  Inv /\ Resolvable /\ Awake /\ InTurn /\ [Next]_vars => InTurn'
<1> SUFFICES ASSUME Inv, Resolvable, Awake, InTurn, [Next]_vars
             PROVE  InTurn'
  OBVIOUS
<1>1. CASE Next
  BY <1>1, HostInTurn, UserInTurn, RuntimeInTurn DEF Next
<1>2. CASE UNCHANGED vars
  <2>1. UNCHANGED <<lane, job, active, unresolved, queue, rt, took, joined>> /\ TypeOK
    BY <1>2 DEF vars, Inv
  <2>2. NothingNew /\ SubmissionsGoOn
    BY <2>1, SameEntriesThin, LaneMoves DEF NothingNew, SubmissionsGoOn, OpenFor, InTurn, Plain
  <2>3. DrainsHead'
    BY <2>1 DEF DrainsHead, InTurn
  <2>4. OpenIsNamed'
    BY <2>1, <2>2, NamedStays DEF InTurn, Uncertain, NothingNew
  <2> QED
    BY <2>2, <2>3, <2>4, InTurnInCalm
<1> QED
  BY <1>1, <1>2

\* At first nothing is sent.
LEMMA InitInTurn == Init => InTurn
<1> SUFFICES ASSUME Init
             PROVE  InTurn
  OBVIOUS
<1>1. /\ lane = <<>> /\ took = <<>> /\ joined = <<>> /\ queue.entries = <<>> /\ rt.open = {}
      /\ job = [a \in Actors |-> Idle]
  BY DEF Init
<1>2. DOMAIN lane = {} /\ DOMAIN took = {} /\ DOMAIN joined = {} /\ DOMAIN queue.entries = {}
  BY <1>1
<1>3. \A a \in Actors : job[a].at = "idle" /\ job[a].how = None
  BY <1>1 DEF Idle
<1>4. \A m, n \in Messages : ~Ahead(m, n)
  BY <1>1, <1>2 DEF Ahead, Taken, OpenFor, InQueue, EntryBefore, PlaceBefore
<1>5. Sorted
  BY <1>4 DEF Sorted
<1>6. Joined
  BY <1>2, <1>3, Names DEF Joined
<1>7. DrainsHead
  BY <1>3, Names DEF DrainsHead, ToSend, Pending
<1>8. OpenIsNamed
  BY <1>1 DEF OpenIsNamed, OpenFor
<1>9. Plain
  BY <1>3, Names DEF Plain, None
<1> QED
  BY <1>5, <1>6, <1>7, <1>8, <1>9 DEF InTurn

\* What is sorted was taken in order.
LEMMA SortedIsInOrder ==
    ASSUME Inv, InTurn
    PROVE  InOrder
<1> SUFFICES ASSUME NEW i \in DOMAIN took, NEW j \in DOMAIN took,
                    NEW k \in DOMAIN joined, NEW l \in DOMAIN joined,
                    i < j, took[i] = joined[k], took[j] = joined[l]
             PROVE  k < l
  BY DEF InOrder
<1> DEFINE m == joined[k]
<1> DEFINE n == joined[l]
<1>1. m \in Messages /\ n \in Messages
  BY DEF Inv, TypeOK
<1>2. PlaceBefore(took, m, n)
  BY DEF PlaceBefore
<1>3. Before(m, n)
  BY <1>1, <1>2 DEF InTurn, Sorted, Ahead
<1>4. PICK h \in DOMAIN joined : joined[h] = m /\ \A g \in DOMAIN joined : joined[g] = n => h < g
  BY <1>3 DEF Before
<1>5. h = k
  BY <1>4 DEF InTurn, Joined
<1> QED
  BY <1>4, <1>5

\* Default messages reach the runtime in the order in which they were submitted, where
\* neither the composer nor a button steers: no failed, busy or unknown send, Stop, pause,
\* edit or removal lets a message overtake one that may still be sent (settle, enqueue,
\* failEntry, session.unresolved).
THEOREM DefaultInOrder ==
    ASSUME "steer" \notin Modes \cup Actions
    PROVE  Spec => []InOrder
<1> DEFINE IInv == Inv /\ Resolvable /\ Awake /\ InTurn
<1>1. IInv /\ [Next]_vars => IInv'
  BY StepKeeps, StepResolvable, StepAwake, StepInTurn
<1>2. Init => IInv
  BY InitFits, InitResolvable, InitAwake, InitInTurn
<1>3. IInv => InOrder
  BY SortedIsInOrder
<1> HIDE DEF IInv
<1> QED
  BY <1>1, <1>2, <1>3, PTL DEF Spec

=============================================================================
