------------------------ MODULE MessageDeliveryProofs ------------------------
(***************************************************************************)
(* The safety of MessageDelivery for any messages, runtime answers, queue  *)
(* actions and budgets: the state keeps its shape, the runtime takes no    *)
(* message twice, no queued message is lost, and the queue stays paused    *)
(* while a result is unknown.                                              *)
(***************************************************************************)
EXTENDS MessageDelivery, FiniteSetTheorems, TLAPS

Taken(m)   == \E i \in DOMAIN took : took[i] = m
OpenFor(m) == \E request \in rt.open : request.msg = m

\* The runtime has the message or may still take it.
Out(m) == Taken(m) \/ OpenFor(m)

\* A queue action left an uncertain result, or is about to: nothing is admitted any more.
Blocked ==
    \/ unresolved = "unnamed"
    \/ /\ active.op = "manage" /\ active.native = "uncertain"
       /\ job["manage"].at = "settling"

Running == {"preparing", "routing", "sending", "issued", "committing"}
AtWork  == Running \cup {"settling"}
Resting == {"idle", "joining", "done", "cancelled"}

\* The lane holds exactly the actors at work or waiting; only its head is at work,
\* and what runs was admitted with nothing unresolved.
Lanes ==
    /\ \A i, j \in DOMAIN lane : lane[i] = lane[j] => i = j
    /\ \A a \in Actors : (\E i \in DOMAIN lane : lane[i] = a) <=> job[a].at \notin Resting
    /\ \A a \in Actors : job[a].at \in AtWork => AtHead(a)
    /\ \A a \in Actors : job[a].at \in Running => active.op = a
    /\ active.op # None => AtHead(active.op) /\ job[active.op].at \in AtWork
    /\ active.op \notin {None, "stop"} => unresolved = None
    /\ active.op \in {None, "stop"} => active.native = "not_issued"

\* Each kind of actor goes through its own stages, with the message it carries.
SubmissionFits(m) ==
    /\ job[m].at \notin {"idle", "done"} => job[m].msg = m /\ job[m].how \in {"default", "steer"}
    /\ job[m].at \notin {"joining", "cancelled", "committing"}
    /\ job[m].at = "routing" => job[m].how = "steer"
    /\ status[m] = "unsent" <=> job[m].at = "idle"

DrainFits ==
    /\ job["drain"].at \in {"idle", "joining", "waiting", "sending", "issued", "settling"}
    /\ job["drain"].at # "idle" => job["drain"].msg \in Messages
    /\ job["drain"].at = "settling" => job["drain"].outcome # None

ManageFits ==
    /\ job["manage"].at \notin {"joining", "cancelled", "done"}
    /\ job["manage"].at # "idle" => job["manage"].msg \in Messages

StopFits == job["stop"].at \in {"idle", "cancelled", "waiting", "issued", "settling"}

JobsFit == (\A m \in Messages : SubmissionFits(m)) /\ DrainFits /\ ManageFits /\ StopFits

\* The queue holds an entry of m in state s.
Has(q, m, s) == \E i \in DOMAIN q.entries : q.entries[i].msg = m /\ q.entries[i].state = s

Single(q) == \A i, j \in DOMAIN q.entries : q.entries[i].msg = q.entries[j].msg => i = j
GoodQueue(q) == q \in Queues /\ Single(q)

Returned == {"settling", "done"}
Steering == job["manage"].at \in {"routing", "sending", "issued"}

\* A queued message has left its submission; an entry that is being sent is marked
\* so, and no entry is sent by two.
QueueFits ==
    /\ GoodQueue(queue)
    /\ \A m \in Messages : InQueue(queue, m) => job[m].at \in Returned
    /\ job["drain"].at # "idle" => queue.sending
    /\ \A m \in Messages :
          job[m].how = "default" /\ job[m].at \in {"sending", "issued"} =>
              queue.sending /\ job["drain"].at = "idle"
    /\ job["drain"].at # "idle" =>
          /\ \A s \in EntryStates : Has(queue, job["drain"].msg, s) => s = "sending"
          /\ job[job["drain"].msg].at \in Returned
    /\ Steering =>
          /\ \A s \in EntryStates : Has(queue, job["manage"].msg, s) => s = "steering"
          /\ job[job["manage"].msg].at \in Returned
    /\ Steering /\ job["drain"].at # "idle" => job["drain"].msg # job["manage"].msg

Early == {"idle", "waiting", "preparing", "routing", "sending"}

\* A drain has marked its entry and was not admitted yet.
Pending == {"joining", "waiting"}

\* What may still be sent is not with the runtime, unless nothing is admitted any more.
Unsent ==
    /\ \A m \in Messages : job[m].at \in Early => ~Out(m)
    /\ job["manage"].at \in {"routing", "sending"} => ~Out(job["manage"].msg)
    /\ job["drain"].at = "sending" => ~Out(job["drain"].msg)
    /\ job["drain"].at \in Pending => ~Out(job["drain"].msg) \/ Blocked
    /\ job["drain"].at = "settling" /\ job["drain"].outcome \in {"refused", "busy"} =>
          ~Out(job["drain"].msg) \/ Blocked
    /\ \A m \in Messages :
          Has(queue, m, "queued") \/ Has(queue, m, "editing") => ~Out(m) \/ Blocked

\* One request per message, open or taken, and taken once.
Requested ==
    /\ \A r, t \in rt.open : r.msg = t.msg => r = t
    /\ \A m \in Messages : OpenFor(m) => ~Taken(m)
    /\ \A i, j \in DOMAIN took : took[i] = took[j] => i = j

\* What the host was told or has shown of a message, the runtime did.
Known ==
    /\ \A a \in Actors \ {"stop"} :
          job[a].at = "issued" => Request(a) \in rt.open \/ Taken(job[a].msg)
    /\ job["manage"].at = "issued" => active.native = "uncertain"
    /\ active.native = "accepted" /\ active.op # "manage" => Taken(job[active.op].msg)
    /\ job["drain"].at = "settling" /\ job["drain"].outcome \in {"accepted", "received"} =>
          Taken(job["drain"].msg)
    /\ \A i \in DOMAIN events : events[i].kind = "user" => Taken(events[i].msg)

Kept == \A m \in Messages : status[m] = "queued" => InQueue(queue, m) \/ Taken(m)

\* An unknown result pauses the queue, and there is none when Resume commits.
PausedWhenUnknown(q) == HasUnknown(q) => q.pause # None
Paused ==
    /\ PausedWhenUnknown(queue)
    /\ job["manage"].at = "committing" => ~HasUnknown(queue)

Inv ==
    /\ TypeOK /\ Lanes /\ JobsFit
    /\ QueueFits /\ Unsent /\ Requested /\ Known
    /\ Kept /\ Paused

-----------------------------------------------------------------------------
(* The operations of the queue *)

\* What holds an entry of m in some state holds m, and m in no other state.
LEMMA HasIsState ==
    ASSUME NEW q, GoodQueue(q), NEW m \in Messages
    PROVE  /\ InQueue(q, m) <=> \E s \in EntryStates : Has(q, m, s)
           /\ InQueue(q, m) => StateOf(q, m) \in EntryStates /\ Has(q, m, StateOf(q, m))
           /\ \A s, t : Has(q, m, s) /\ Has(q, m, t) => s = t
           /\ \A s : Has(q, m, s) => s \in EntryStates
<1>1. q.entries \in Seq(Entries)
  BY DEF GoodQueue, Queues
<1>0. \A i \in DOMAIN q.entries : q.entries[i] \in Entries
  BY <1>1
<1>2. \A i \in DOMAIN q.entries : q.entries[i].msg \in Messages /\ q.entries[i].state \in EntryStates
  BY <1>0 DEF Entries
<1>3. InQueue(q, m) => Place(q, m) \in DOMAIN q.entries /\ q.entries[Place(q, m)].msg = m
  BY DEF InQueue, Place
<1>4. InQueue(q, m) <=> \E s \in EntryStates : Has(q, m, s)
  BY <1>2 DEF InQueue, Has
<1>5. InQueue(q, m) => StateOf(q, m) \in EntryStates /\ Has(q, m, StateOf(q, m))
  BY <1>2, <1>3 DEF StateOf, Has
<1>6. \A s, t : Has(q, m, s) /\ Has(q, m, t) => s = t
  BY DEF Has, GoodQueue, Single
<1>7. \A s : Has(q, m, s) => s \in EntryStates
  BY <1>2 DEF Has
<1> QED
  BY <1>4, <1>5, <1>6, <1>7

\* A queue has an unknown result when a message of it does.
LEMMA UnknownIsHeld ==
    ASSUME NEW q, GoodQueue(q)
    PROVE  HasUnknown(q) <=> \E m \in Messages : Has(q, m, "acceptance_unknown")
<1>0. \A i \in DOMAIN q.entries : q.entries[i] \in Entries
  BY DEF GoodQueue, Queues
<1>1. \A i \in DOMAIN q.entries : q.entries[i].msg \in Messages
  BY <1>0 DEF Entries
<1> QED
  BY <1>1 DEF HasUnknown, Has

\* A queue without entries holds nothing, and only such a queue.
LEMMA EmptyHoldsNothing ==
    ASSUME NEW q, GoodQueue(q)
    PROVE  /\ q.entries = <<>> => \A m, s : ~Has(q, m, s)
           /\ q.entries = <<>> => ~HasUnknown(q)
           /\ q.entries # <<>> => /\ Head(q.entries).msg \in Messages
                                  /\ Has(q, Head(q.entries).msg, Head(q.entries).state)
<1>1. q.entries \in Seq(Entries)
  BY DEF GoodQueue, Queues
<1>2. q.entries = <<>> => DOMAIN q.entries = {}
  OBVIOUS
<1>3. q.entries # <<>> => 1 \in DOMAIN q.entries /\ Head(q.entries) = q.entries[1]
  BY <1>1
<1>4. q.entries # <<>> => q.entries[1] \in Entries
  BY <1>1, <1>3
<1>5. q.entries # <<>> => q.entries[1].msg \in Messages
  BY <1>4 DEF Entries
<1> QED
  BY <1>2, <1>3, <1>5 DEF Has, HasUnknown

\* An operation leaves every message but m as it was.
Others(p, q, m) == \A n \in Messages \ {m}, t \in EntryStates : Has(q, n, t) <=> Has(p, n, t)

\* Marking m changes the state of its entry, if it has one.
LEMMA MarkFacts ==
    ASSUME NEW q, GoodQueue(q), NEW m \in Messages, NEW s \in EntryStates
    PROVE  /\ GoodQueue(Mark(q, m, s))
           /\ Mark(q, m, s).pause = q.pause /\ Mark(q, m, s).sending = q.sending
           /\ Others(q, Mark(q, m, s), m)
           /\ \A t : Has(Mark(q, m, s), m, t) => t = s /\ InQueue(q, m)
           /\ InQueue(q, m) => Has(Mark(q, m, s), m, s)
           /\ InQueue(q, m) <=> InQueue(Mark(q, m, s), m)
<1> DEFINE p == Mark(q, m, s)
<1> DEFINE es == [i \in DOMAIN q.entries |-> IF q.entries[i].msg = m
                                             THEN [q.entries[i] EXCEPT !.state = s]
                                             ELSE q.entries[i]]
<1>1. q \in Queues /\ q.entries \in Seq(Entries)
  BY DEF GoodQueue, Queues
<1>2. p = [q EXCEPT !.entries = es]
  BY DEF Mark
<1>3. \A i \in DOMAIN q.entries : q.entries[i] \in Entries
  BY <1>1
<1>4. \A i \in DOMAIN q.entries :
         /\ es[i] \in Entries /\ es[i].msg = q.entries[i].msg
         /\ es[i].state = IF q.entries[i].msg = m THEN s ELSE q.entries[i].state
  BY <1>3 DEF Entries
<1>5. es \in Seq(Entries) /\ DOMAIN es = DOMAIN q.entries
  <2>1. Len(q.entries) \in Nat /\ DOMAIN q.entries = 1..Len(q.entries)
    BY <1>1
  <2>2. es \in [1..Len(q.entries) -> Entries]
    BY <1>4, <2>1
  <2> QED
    BY <2>1, <2>2
<1> HIDE DEF es
<1>6. p \in Queues /\ p.entries = es /\ p.pause = q.pause /\ p.sending = q.sending
  BY <1>1, <1>2, <1>5 DEF Queues
<1> HIDE DEF p
<1>7. GoodQueue(p)
  BY <1>4, <1>5, <1>6 DEF GoodQueue, Single
<1>8. Others(q, p, m)
  BY <1>4, <1>5, <1>6 DEF Others, Has
<1>9. \A t : Has(p, m, t) => t = s /\ InQueue(q, m)
  BY <1>4, <1>5, <1>6 DEF Has, InQueue
<1>10. InQueue(q, m) => Has(p, m, s)
  BY <1>4, <1>5, <1>6 DEF Has, InQueue
<1>11. InQueue(q, m) <=> InQueue(p, m)
  BY <1>4, <1>5, <1>6 DEF InQueue
<1> QED
  BY <1>6, <1>7, <1>8, <1>9, <1>10, <1>11 DEF p

\* Taking m out leaves the others.
LEMMA WithoutFacts ==
    ASSUME NEW q, GoodQueue(q), NEW m \in Messages
    PROVE  LET p == [q EXCEPT !.entries = Without(q, m)]
           IN /\ GoodQueue(p) /\ p.pause = q.pause /\ p.sending = q.sending
              /\ Others(q, p, m) /\ ~InQueue(p, m)
<1> DEFINE p == [q EXCEPT !.entries = Without(q, m)]
<1> DEFINE k == Place(q, m)
<1> DEFINE es == Without(q, m)
<1>1. q \in Queues /\ q.entries \in Seq(Entries) /\ Single(q)
  BY DEF GoodQueue, Queues
<1>2. CASE ~InQueue(q, m)
  <2>1. p = [q EXCEPT !.entries = q.entries]
    BY <1>2 DEF Without
  <2>2. p \in Queues /\ p.entries = q.entries /\ p.pause = q.pause /\ p.sending = q.sending
    BY <1>1, <2>1 DEF Queues
  <2> HIDE DEF p
  <2>3. GoodQueue(p) /\ ~InQueue(p, m) /\ Others(q, p, m)
    BY <1>1, <1>2, <2>2 DEF GoodQueue, Single, InQueue, Others, Has
  <2> QED
    BY <2>2, <2>3 DEF p
<1>3. CASE InQueue(q, m)
  <2>1. k \in DOMAIN q.entries /\ q.entries[k].msg = m
    BY <1>3 DEF InQueue, Place
  <2>2. es = SubSeq(q.entries, 1, k - 1) \o SubSeq(q.entries, k + 1, Len(q.entries))
    BY <1>3 DEF Without, RemoveAt
  <2> HIDE DEF k
  <2>3. Len(q.entries) \in Nat /\ DOMAIN q.entries = 1..Len(q.entries) /\ k \in 1..Len(q.entries)
    BY <1>1, <2>1
  <2>4. /\ es \in Seq(Entries) /\ DOMAIN es = 1..(Len(q.entries) - 1)
        /\ \A i \in DOMAIN es : es[i] = IF i < k THEN q.entries[i] ELSE q.entries[i + 1]
    <3> DEFINE left == SubSeq(q.entries, 1, k - 1)
    <3> DEFINE right == SubSeq(q.entries, k + 1, Len(q.entries))
    <3>1. /\ left \in Seq(Entries) /\ Len(left) = k - 1
          /\ \A i \in 1..(k - 1) : left[i] = q.entries[i]
      BY <1>1, <2>3
    <3>2. /\ right \in Seq(Entries) /\ Len(right) = Len(q.entries) - k
          /\ \A i \in 1..(Len(q.entries) - k) : right[i] = q.entries[i + k]
      BY <1>1, <2>3
    <3> HIDE DEF left, right
    <3>3. es = left \o right
      BY <2>2 DEF left, right
    <3> HIDE DEF es
    <3>4. es \in Seq(Entries) /\ Len(es) = Len(q.entries) - 1
      <4>0. left \in Seq(Entries) /\ right \in Seq(Entries)
        BY <3>1, <3>2
      <4>1. left \o right \in Seq(Entries) /\ Len(left \o right) = Len(left) + Len(right)
        BY <4>0
      <4>2. (k - 1) + (Len(q.entries) - k) = Len(q.entries) - 1
        BY <2>3
      <4> QED
        BY <3>1, <3>2, <3>3, <4>1, <4>2
    <3>5. \A i \in 1..(Len(q.entries) - 1) :
             es[i] = IF i < k THEN q.entries[i] ELSE q.entries[i + 1]
      <4> SUFFICES ASSUME NEW i \in 1..(Len(q.entries) - 1)
                   PROVE  es[i] = IF i < k THEN q.entries[i] ELSE q.entries[i + 1]
        OBVIOUS
      <4>1. CASE i < k
        BY <3>1, <3>2, <3>3, <2>3, <4>1
      <4>2. CASE ~(i < k)
        <5>1. es[i] = right[i - (k - 1)]
          BY <3>1, <3>2, <3>3, <2>3, <4>2
        <5>2. i - (k - 1) \in 1..(Len(q.entries) - k) /\ (i - (k - 1)) + k = i + 1
          BY <2>3, <4>2
        <5>3. right[i - (k - 1)] = q.entries[i + 1]
          BY <3>2, <5>2
        <5> QED
          BY <5>1, <5>3, <4>2
      <4> QED
        BY <4>1, <4>2
    <3> QED
      BY <3>4, <3>5
  <2> HIDE DEF es
  <2>5. p = [q EXCEPT !.entries = es]
    BY DEF es
  <2>6. p \in Queues /\ p.entries = es /\ p.pause = q.pause /\ p.sending = q.sending
    BY <1>1, <2>4, <2>5 DEF Queues
  <2> HIDE DEF p
  <2>7. \A i \in DOMAIN es : \E j \in DOMAIN q.entries : j # k /\ es[i] = q.entries[j]
                                                       /\ j = IF i < k THEN i ELSE i + 1
    BY <2>3, <2>4
  <2>8. \A j \in DOMAIN q.entries : j # k => \E i \in DOMAIN es : es[i] = q.entries[j]
    <3> SUFFICES ASSUME NEW j \in DOMAIN q.entries, j # k
                 PROVE  \E i \in DOMAIN es : es[i] = q.entries[j]
      OBVIOUS
    <3>1. CASE j < k
      <4>1. j \in DOMAIN es /\ es[j] = q.entries[j]
        BY <2>3, <2>4, <3>1
      <4> QED
        BY <4>1
    <3>2. CASE ~(j < k)
      <4>1. j - 1 \in DOMAIN es /\ ~(j - 1 < k) /\ (j - 1) + 1 = j
        BY <2>3, <2>4, <3>2
      <4>2. es[j - 1] = q.entries[j]
        BY <2>4, <4>1
      <4> QED
        BY <4>1, <4>2
    <3> QED
      BY <3>1, <3>2
  <2>9. \A j \in DOMAIN q.entries : q.entries[j].msg = m <=> j = k
    BY <1>1, <2>1 DEF Single
  <2>10. ~InQueue(p, m)
    BY <2>6, <2>7, <2>9 DEF InQueue
  <2>11. Others(q, p, m)
    BY <2>6, <2>7, <2>8, <2>9 DEF Others, Has
  <2>12. Single(p)
    <3> SUFFICES ASSUME NEW i \in DOMAIN es, NEW j \in DOMAIN es, es[i].msg = es[j].msg
                 PROVE  i = j
      BY <2>6 DEF Single
    <3>1. PICK ii \in DOMAIN q.entries : es[i] = q.entries[ii] /\ ii = IF i < k THEN i ELSE i + 1
      BY <2>7
    <3>2. PICK jj \in DOMAIN q.entries : es[j] = q.entries[jj] /\ jj = IF j < k THEN j ELSE j + 1
      BY <2>7
    <3>3. ii = jj
      BY <1>1, <3>1, <3>2 DEF Single
    <3> QED
      BY <2>3, <2>4, <3>1, <3>2, <3>3
  <2> QED
    BY <2>6, <2>10, <2>11, <2>12 DEF GoodQueue, p
<1> QED
  BY <1>2, <1>3

\* What holds the same messages in the same states.
Alike(p, q) == \A m \in Messages, s \in EntryStates : Has(q, m, s) <=> Has(p, m, s)

\* Queues that are alike hold the same messages, known or unknown.
LEMMA AlikeFacts ==
    ASSUME NEW p, NEW q, GoodQueue(p), GoodQueue(q), Alike(p, q)
    PROVE  /\ \A m \in Messages : InQueue(q, m) <=> InQueue(p, m)
           /\ HasUnknown(q) <=> HasUnknown(p)
           /\ \A m \in Messages : Others(p, q, m)
<1>1. \A m \in Messages : InQueue(q, m) <=> InQueue(p, m)
  BY HasIsState DEF Alike
<1>2. HasUnknown(q) <=> HasUnknown(p)
  BY UnknownIsHeld DEF Alike, EntryStates
<1> QED
  BY <1>1, <1>2 DEF Alike, Others

\* What leaves the others alone keeps which of them are queued.
LEMMA OthersFacts ==
    ASSUME NEW p, NEW q, GoodQueue(p), GoodQueue(q), NEW m \in Messages, Others(p, q, m)
    PROVE  /\ \A n \in Messages \ {m} : InQueue(q, n) <=> InQueue(p, n)
           /\ HasUnknown(q) => HasUnknown(p) \/ Has(q, m, "acceptance_unknown")
<1>1. \A n \in Messages \ {m} : InQueue(q, n) <=> InQueue(p, n)
  BY HasIsState DEF Others
<1>2. HasUnknown(q) => HasUnknown(p) \/ Has(q, m, "acceptance_unknown")
  BY UnknownIsHeld DEF Others, EntryStates
<1> QED
  BY <1>1, <1>2

\* Equal entries make queues alike.
LEMMA SameEntries ==
    ASSUME NEW p, NEW q \in Queues, GoodQueue(p), q.entries = p.entries
    PROVE  GoodQueue(q) /\ Alike(p, q)
  BY DEF GoodQueue, Single, Alike, Has

\* Pausing and ending a pause change nothing but the pause.
LEMMA FirstPauseFacts ==
    ASSUME NEW q, GoodQueue(q), NEW c \in Pauses \ {None}
    PROVE  LET p == FirstPause(q, c)
           IN /\ GoodQueue(p) /\ Alike(q, p) /\ p.entries = q.entries
              /\ p.sending = q.sending /\ p.pause # None
<1> DEFINE p == FirstPause(q, c)
<1>1. q \in Queues
  BY DEF GoodQueue
<1>2. p \in Queues /\ p.entries = q.entries /\ p.sending = q.sending /\ p.pause # None
  BY <1>1 DEF FirstPause, Queues
<1> HIDE DEF p
<1>3. GoodQueue(p) /\ Alike(q, p)
  BY <1>2, SameEntries
<1> QED
  BY <1>2, <1>3 DEF p

\* A cause pauses a queue that holds something, unless it is paused.
LEMMA PauseQueueFacts ==
    ASSUME NEW q, GoodQueue(q), NEW c \in Pauses \ {None}
    PROVE  LET p == PauseQueue(q, c)
           IN /\ GoodQueue(p) /\ Alike(q, p) /\ p.entries = q.entries
              /\ p.sending = q.sending
              /\ PausedWhenUnknown(q) => PausedWhenUnknown(p)
<1> DEFINE p == PauseQueue(q, c)
<1> DEFINE f == FirstPause(q, c)
<1>1. /\ GoodQueue(f) /\ Alike(q, f) /\ f.entries = q.entries
      /\ f.sending = q.sending /\ f.pause # None
  BY FirstPauseFacts
<1>2. GoodQueue(q) /\ Alike(q, q)
  BY DEF Alike
<1>3. p = f \/ p = q
  BY DEF PauseQueue
<1> HIDE DEF f, p
<1>4. PausedWhenUnknown(f)
  BY <1>1 DEF PausedWhenUnknown
<1>5. /\ GoodQueue(p) /\ Alike(q, p) /\ p.entries = q.entries /\ p.sending = q.sending
      /\ PausedWhenUnknown(q) => PausedWhenUnknown(p)
  BY <1>1, <1>2, <1>3, <1>4
<1> QED
  BY <1>5 DEF p

\* An empty queue loses its pause.
LEMMA EndPauseFacts ==
    ASSUME NEW q, GoodQueue(q)
    PROVE  LET p == EndPauseIfEmpty(q)
           IN /\ GoodQueue(p) /\ Alike(q, p) /\ p.entries = q.entries
              /\ p.sending = q.sending
              /\ HasUnknown(p) => p.pause = q.pause
<1> DEFINE p == EndPauseIfEmpty(q)
<1>1. q \in Queues
  BY DEF GoodQueue
<1>2. /\ p \in Queues /\ p.entries = q.entries /\ p.sending = q.sending
      /\ p.entries # <<>> => p.pause = q.pause
  BY <1>1 DEF EndPauseIfEmpty, Queues, Pauses
<1> HIDE DEF p
<1>3. GoodQueue(p) /\ Alike(q, p)
  BY <1>2, SameEntries
<1>4. HasUnknown(p) => p.pause = q.pause
  BY <1>2, <1>3, EmptyHoldsNothing
<1> QED
  BY <1>2, <1>3, <1>4 DEF p

\* A new entry holds its message in its state and leaves the others.
LEMMA EnqueueFirstFacts ==
    ASSUME NEW q, GoodQueue(q), NEW m \in Messages, ~InQueue(q, m), NEW s \in EntryStates
    PROVE  LET p == EnqueueFirst(q, m, s)
           IN /\ GoodQueue(p) /\ Others(q, p, m) /\ p.pause = q.pause /\ p.sending = q.sending
              /\ Has(p, m, s) /\ InQueue(p, m)
<1> DEFINE p == EnqueueFirst(q, m, s)
<1> DEFINE e == [msg |-> m, state |-> s]
<1> DEFINE es == <<e>> \o q.entries
<1>1. q \in Queues /\ q.entries \in Seq(Entries) /\ Single(q)
  BY DEF GoodQueue, Queues
<1>2. e \in Entries /\ e.msg = m /\ e.state = s
  BY DEF Entries
<1>3. p = [q EXCEPT !.entries = es]
  BY DEF EnqueueFirst
<1> HIDE DEF e, p
<1>4. /\ es \in Seq(Entries) /\ Len(es) = Len(q.entries) + 1 /\ Len(q.entries) \in Nat
      /\ es[1] = e /\ \A i \in 1..Len(q.entries) : es[i + 1] = q.entries[i]
  BY <1>1, <1>2
<1> HIDE DEF es
<1>5. /\ DOMAIN es = 1..(Len(q.entries) + 1) /\ DOMAIN q.entries = 1..Len(q.entries)
  BY <1>1, <1>4
<1>6. \A i \in DOMAIN es : i = 1 \/ (i - 1 \in DOMAIN q.entries /\ es[i] = q.entries[i - 1])
  <2> SUFFICES ASSUME NEW i \in DOMAIN es, i # 1
               PROVE  i - 1 \in DOMAIN q.entries /\ es[i] = q.entries[i - 1]
    OBVIOUS
  <2>1. i - 1 \in 1..Len(q.entries) /\ (i - 1) + 1 = i
    BY <1>4, <1>5
  <2> QED
    BY <1>4, <1>5, <2>1
<1>7. \A i \in DOMAIN q.entries : i + 1 \in DOMAIN es /\ es[i + 1] = q.entries[i]
  BY <1>4, <1>5
<1>8. 1 \in DOMAIN es
  BY <1>4, <1>5
<1>9. p \in Queues /\ p.entries = es /\ p.pause = q.pause /\ p.sending = q.sending
  BY <1>1, <1>3, <1>4 DEF Queues
<1>10. \A i \in DOMAIN q.entries : q.entries[i].msg # m
  BY DEF InQueue
<1>11. Single(p)
  <2> SUFFICES ASSUME NEW i \in DOMAIN es, NEW j \in DOMAIN es, es[i].msg = es[j].msg
               PROVE  i = j
    BY <1>9 DEF Single
  <2>1. CASE i = 1 \/ j = 1
    BY <1>2, <1>4, <1>6, <1>10, <2>1
  <2>2. CASE i # 1 /\ j # 1
    <3>1. i - 1 = j - 1
      BY <1>1, <1>6, <2>2 DEF Single
    <3> QED
      BY <1>4, <1>5, <3>1
  <2> QED
    BY <2>1, <2>2
<1>12. Others(q, p, m)
  <2> SUFFICES ASSUME NEW n \in Messages \ {m}, NEW t \in EntryStates
               PROVE  Has(p, n, t) <=> Has(q, n, t)
    BY DEF Others
  <2>1. Has(p, n, t) => Has(q, n, t)
    BY <1>2, <1>4, <1>6, <1>9 DEF Has
  <2>2. Has(q, n, t) => Has(p, n, t)
    BY <1>7, <1>9 DEF Has
  <2> QED
    BY <2>1, <2>2
<1>13. Has(p, m, s) /\ InQueue(p, m)
  BY <1>2, <1>4, <1>8, <1>9 DEF Has, InQueue
<1> QED
  BY <1>9, <1>11, <1>12, <1>13 DEF GoodQueue, p

\* A queued message comes last, and the others stay.
LEMMA EnqueueLastFacts ==
    ASSUME NEW q, GoodQueue(q), NEW m \in Messages, ~InQueue(q, m)
    PROVE  LET p == EnqueueLast(q, m)
           IN /\ GoodQueue(p) /\ Others(q, p, m) /\ p.pause = q.pause /\ p.sending = q.sending
              /\ Has(p, m, "queued") /\ InQueue(p, m)
<1> DEFINE p == EnqueueLast(q, m)
<1> DEFINE e == [msg |-> m, state |-> "queued"]
<1> DEFINE es == Append(q.entries, e)
<1> DEFINE k == Len(q.entries) + 1
<1>1. q \in Queues /\ q.entries \in Seq(Entries) /\ Single(q)
  BY DEF GoodQueue, Queues
<1>2. e \in Entries /\ e.msg = m /\ e.state = "queued"
  BY DEF Entries, EntryStates
<1>3. p = [q EXCEPT !.entries = es]
  BY DEF EnqueueLast
<1> HIDE DEF e, p
<1>4. /\ es \in Seq(Entries) /\ Len(es) = k /\ Len(q.entries) \in Nat
      /\ es[k] = e /\ \A i \in 1..Len(q.entries) : es[i] = q.entries[i]
  BY <1>1, <1>2
<1> HIDE DEF es
<1>5. DOMAIN es = 1..k /\ DOMAIN q.entries = 1..Len(q.entries)
  BY <1>1, <1>4
<1>6. \A i \in DOMAIN es : i = k \/ (i \in DOMAIN q.entries /\ es[i] = q.entries[i])
  BY <1>4, <1>5
<1>7. \A i \in DOMAIN q.entries : i \in DOMAIN es /\ es[i] = q.entries[i]
  BY <1>4, <1>5
<1>8. k \in DOMAIN es
  BY <1>4, <1>5
<1> HIDE DEF k
<1>9. p \in Queues /\ p.entries = es /\ p.pause = q.pause /\ p.sending = q.sending
  BY <1>1, <1>3, <1>4 DEF Queues
<1>10. \A i \in DOMAIN q.entries : q.entries[i].msg # m
  BY DEF InQueue
<1>11. Single(p)
  <2> SUFFICES ASSUME NEW i \in DOMAIN es, NEW j \in DOMAIN es, es[i].msg = es[j].msg
               PROVE  i = j
    BY <1>9 DEF Single
  <2> QED
    BY <1>1, <1>2, <1>4, <1>6, <1>10 DEF Single
<1>12. Others(q, p, m)
  BY <1>2, <1>4, <1>6, <1>7, <1>9 DEF Others, Has
<1>13. Has(p, m, "queued") /\ InQueue(p, m)
  BY <1>2, <1>4, <1>8, <1>9 DEF Has, InQueue
<1> QED
  BY <1>9, <1>11, <1>12, <1>13 DEF GoodQueue, p

\* Removing m ends the pause of an empty queue and leaves the others.
LEMMA RemoveEntryFacts ==
    ASSUME NEW q, GoodQueue(q), NEW m \in Messages
    PROVE  LET p == RemoveEntry(q, m)
           IN /\ GoodQueue(p) /\ p.sending = q.sending
              /\ Others(q, p, m) /\ ~InQueue(p, m)
              /\ HasUnknown(p) => HasUnknown(q) /\ p.pause = q.pause
<1> DEFINE w == [q EXCEPT !.entries = Without(q, m)]
<1> DEFINE p == EndPauseIfEmpty(w)
<1>1. /\ GoodQueue(w) /\ w.pause = q.pause /\ w.sending = q.sending
      /\ Others(q, w, m) /\ ~InQueue(w, m)
  BY WithoutFacts
<1>2. RemoveEntry(q, m) = p
  BY DEF RemoveEntry
<1> HIDE DEF w
<1>3. /\ GoodQueue(p) /\ Alike(w, p) /\ p.sending = w.sending
      /\ HasUnknown(p) => p.pause = w.pause
  BY <1>1, EndPauseFacts
<1> HIDE DEF p
<1>4. Others(q, p, m) /\ ~InQueue(p, m) /\ (HasUnknown(p) => HasUnknown(w))
  <2>1. (\A n \in Messages : InQueue(p, n) <=> InQueue(w, n)) /\ (HasUnknown(p) <=> HasUnknown(w))
    BY <1>1, <1>3, AlikeFacts
  <2>2. Others(q, p, m)
    BY <1>1, <1>3 DEF Alike, Others
  <2> QED
    BY <1>1, <2>1, <2>2
<1>5. HasUnknown(w) => HasUnknown(q)
  <2>1. ~Has(w, m, "acceptance_unknown")
    BY <1>1 DEF InQueue, Has
  <2> QED
    BY <1>1, <2>1, OthersFacts
<1> QED
  BY <1>1, <1>2, <1>3, <1>4, <1>5

\* A failed delivery pauses the queue; its entry waits again, is kept as unknown, or
\* leaves when the message was received.
LEMMA FailEntryFacts ==
    ASSUME NEW q, GoodQueue(q), NEW m \in Messages, NEW outcome
    PROVE  LET p == FailEntry(q, m, outcome)
           IN /\ GoodQueue(p) /\ p.sending = q.sending /\ p.pause # None
              /\ Others(q, p, m)
              /\ InQueue(p, m) => InQueue(q, m) /\ outcome # "received"
              /\ outcome # "received" /\ InQueue(q, m) => InQueue(p, m)
              /\ outcome = "unknown" => \A t \in EntryStates : Has(p, m, t) => t = "acceptance_unknown"
<1> DEFINE p == FailEntry(q, m, outcome)
<1>0. {"accepted_then_failed", "acceptance_unknown", "delivery_failed"} \subseteq Pauses \ {None}
  BY DEF Pauses, None
<1>1. CASE outcome = "received" \/ ~InQueue(q, m)
  <2> DEFINE w == [q EXCEPT !.entries = Without(q, m)]
  <2>1. /\ GoodQueue(w) /\ w.pause = q.pause /\ w.sending = q.sending
        /\ Others(q, w, m) /\ ~InQueue(w, m)
    BY WithoutFacts
  <2>2. p = FirstPause(w, "accepted_then_failed")
    BY <1>1 DEF FailEntry
  <2> HIDE DEF w, p
  <2>3. GoodQueue(p) /\ Alike(w, p) /\ p.sending = w.sending /\ p.pause # None
    BY <1>0, <2>1, <2>2, FirstPauseFacts
  <2>4. Others(q, p, m) /\ ~InQueue(p, m)
    <3>1. \A n \in Messages : InQueue(p, n) <=> InQueue(w, n)
      BY <2>1, <2>3, AlikeFacts
    <3> QED
      BY <2>1, <2>3, <3>1 DEF Alike, Others
  <2>5. \A t \in EntryStates : ~Has(p, m, t)
    BY <2>3, <2>4, HasIsState
  <2> QED
    BY <1>1, <2>1, <2>3, <2>4, <2>5 DEF p
<1>2. ASSUME outcome # "received", InQueue(q, m),
             NEW s \in {"acceptance_unknown", "queued"},
             NEW c \in {"acceptance_unknown", "delivery_failed"},
             outcome = "unknown" => s = "acceptance_unknown",
             p = FirstPause(Mark(q, m, s), c)
      PROVE  /\ GoodQueue(p) /\ p.sending = q.sending /\ p.pause # None
             /\ Others(q, p, m)
             /\ InQueue(p, m) => InQueue(q, m) /\ outcome # "received"
             /\ outcome # "received" /\ InQueue(q, m) => InQueue(p, m)
             /\ outcome = "unknown" => \A t \in EntryStates : Has(p, m, t) => t = "acceptance_unknown"
  <2> DEFINE w == Mark(q, m, s)
  <2>0. s \in EntryStates /\ c \in Pauses \ {None}
    BY <1>0 DEF EntryStates
  <2>1. /\ GoodQueue(w) /\ w.pause = q.pause /\ w.sending = q.sending /\ Others(q, w, m)
        /\ \A t : Has(w, m, t) => t = s /\ InQueue(q, m)
        /\ InQueue(q, m) <=> InQueue(w, m)
    BY <2>0, MarkFacts
  <2>2. p = FirstPause(w, c)
    BY <1>2
  <2> HIDE DEF w, p
  <2>3. GoodQueue(p) /\ Alike(w, p) /\ p.sending = w.sending /\ p.pause # None
    BY <2>0, <2>1, <2>2, FirstPauseFacts
  <2>4. \A n \in Messages : InQueue(p, n) <=> InQueue(w, n)
    BY <2>1, <2>3, AlikeFacts
  <2>5. Others(q, p, m)
    BY <2>1, <2>3 DEF Alike, Others
  <2>6. \A t \in EntryStates : Has(p, m, t) => t = s
    BY <2>1, <2>3 DEF Alike
  <2> QED
    BY <1>2, <2>1, <2>3, <2>4, <2>5, <2>6
<1>3. CASE ~(outcome = "received" \/ ~InQueue(q, m)) /\ outcome = "unknown"
  <2>1. p = FirstPause(Mark(q, m, "acceptance_unknown"), "acceptance_unknown")
    BY <1>3 DEF FailEntry
  <2> HIDE DEF p
  <2> QED
    BY <1>2, <1>3, <2>1 DEF p
<1>4. CASE ~(outcome = "received" \/ ~InQueue(q, m)) /\ outcome # "unknown"
  <2>1. p = FirstPause(Mark(q, m, "queued"), "delivery_failed")
    BY <1>4 DEF FailEntry
  <2> HIDE DEF p
  <2> QED
    BY <1>2, <1>4, <2>1 DEF p
<1> QED
  BY <1>1, <1>3, <1>4

\* A message that the conversation shows leaves the queue unless it still waits.
LEMMA ResolveAcceptedFacts ==
    ASSUME NEW q, GoodQueue(q), NEW m \in Messages, NEW idKnown \in BOOLEAN
    PROVE  LET p == ResolveAccepted(q, m, idKnown)
           IN /\ GoodQueue(p) /\ p.sending = q.sending /\ Others(q, p, m)
              /\ \A t \in EntryStates : Has(p, m, t) => Has(q, m, t)
              /\ PausedWhenUnknown(q) => PausedWhenUnknown(p)
              /\ HasUnknown(p) => HasUnknown(q)
<1> DEFINE p == ResolveAccepted(q, m, idKnown)
<1> DEFINE rest == RemoveEntry(q, m)
<1>1. /\ GoodQueue(rest) /\ rest.sending = q.sending
      /\ Others(q, rest, m) /\ ~InQueue(rest, m)
      /\ HasUnknown(rest) => HasUnknown(q) /\ rest.pause = q.pause
  BY RemoveEntryFacts
<1>2. \/ p = q
      \/ p = rest
      \/ p = [rest EXCEPT !.pause = "acceptance_confirmed"]
  BY DEF ResolveAccepted
<1> HIDE DEF rest, p
<1> SUFFICES /\ GoodQueue(p) /\ p.sending = q.sending /\ Others(q, p, m)
             /\ \A t \in EntryStates : Has(p, m, t) => Has(q, m, t)
             /\ PausedWhenUnknown(q) => PausedWhenUnknown(p)
             /\ HasUnknown(p) => HasUnknown(q)
  BY DEF p
<1>3. \A t \in EntryStates : ~Has(rest, m, t)
  BY <1>1, HasIsState
<1>4. CASE p = q
  BY <1>4 DEF Others
<1>5. CASE p = rest
  BY <1>1, <1>3, <1>5 DEF PausedWhenUnknown
<1>6. CASE p = [rest EXCEPT !.pause = "acceptance_confirmed"]
  <2>1. rest \in Queues
    BY <1>1 DEF GoodQueue
  <2>2. /\ p \in Queues /\ p.entries = rest.entries /\ p.sending = rest.sending
        /\ p.pause # None
    BY <1>6, <2>1 DEF Queues, Pauses, None
  <2>3. GoodQueue(p) /\ Alike(rest, p)
    BY <1>1, <2>2, SameEntries
  <2>4. (HasUnknown(p) <=> HasUnknown(rest)) /\ Others(q, p, m)
        /\ \A t \in EntryStates : ~Has(p, m, t)
    BY <1>1, <1>3, <2>3, AlikeFacts DEF Alike, Others
  <2> QED
    BY <1>1, <2>2, <2>3, <2>4 DEF PausedWhenUnknown
<1> QED
  BY <1>2, <1>4, <1>5, <1>6

-----------------------------------------------------------------------------
(* The lane *)

\* The kinds of actors are apart from each other and from no actor.
LEMMA Names ==
    /\ Messages \subseteq Actors /\ {"drain", "manage", "stop"} \subseteq Actors
    /\ None \notin Actors /\ "unnamed" \notin Messages /\ None \notin Messages
    /\ "drain" \notin Messages /\ "manage" \notin Messages /\ "stop" \notin Messages
    /\ \A a \in Actors : a \in Messages \/ a = "drain" \/ a = "manage" \/ a = "stop"
  BY NamesAssumption DEF Actors, None

\* Only the head of the lane is at work, and only it can be the active operation.
LEMMA HeadIsAlone ==
    ASSUME NEW a \in Actors, TypeOK, Lanes, AtHead(a)
    PROVE  /\ \A b \in Actors \ {a} : job[b].at \notin AtWork
           /\ active.op \in {None, a}
           /\ job[a].at = "waiting" => active.op = None
           /\ job[a].at \in Running => active.op = a
           /\ job[a].at \in Running \cup {"settling", "waiting"}
<1>1. \A b \in Actors \ {a} : job[b].at \notin AtWork
  BY DEF Lanes, AtHead
<1>2. active.op \in Actors \cup {None}
  BY DEF TypeOK
<1>3. active.op \in {None, a}
  BY <1>2 DEF Lanes, AtHead
<1>4. job[a].at = "waiting" => active.op = None
  BY <1>3 DEF Lanes, AtWork, Running
<1>5. job[a].at \in Running => active.op = a
  BY DEF Lanes
<1>6. job[a].at \in Running \cup {"settling", "waiting"}
  <2>1. lane \in Seq(Actors) /\ lane # <<>> /\ Head(lane) = a
    BY DEF TypeOK, AtHead
  <2>2. 1 \in DOMAIN lane /\ lane[1] = a
    BY <2>1
  <2>3. job[a].at \notin Resting
    BY <2>2 DEF Lanes
  <2>4. job[a].at \in Stages
    BY DEF TypeOK, Jobs
  <2> QED
    BY <2>3, <2>4 DEF Resting, Stages, Running
<1> QED
  BY <1>1, <1>3, <1>4, <1>5, <1>6

\* Actor b stays where it is, with what it carries.
Stays(b) ==
    /\ job'[b].at = job[b].at /\ job'[b].msg = job[b].msg
    /\ job'[b].how = job[b].how /\ job'[b].via = job[b].via
    /\ job'[b].outcome = job[b].outcome

OthersStay(a) == \A b \in Actors \ {a} : Stays(b)

\* The actor at the head goes on.
Goes(a) ==
    /\ AtHead(a) /\ lane' = lane /\ OthersStay(a)
    /\ job[a].at \in Running \cup {"waiting"} /\ job'[a].at \in AtWork
    /\ job'[a].msg = job[a].msg /\ job'[a].how = job[a].how
    /\ unresolved' = unresolved

\* It is admitted, refused before it is admitted, or already runs.
GoesRightly(a) ==
    \/ /\ job[a].at = "waiting" /\ job'[a].at \in Running
       /\ active' = [op |-> a, native |-> "not_issued"]
       /\ a = "stop" \/ unresolved = None
    \/ job[a].at = "waiting" /\ job'[a].at = "settling" /\ active' = active
    \/ /\ job[a].at \in Running /\ active'.op = active.op
       /\ a = "stop" => active' = active

\* The lane stays right when its head goes on.
LEMMA LanesWhenOneGoes ==
    ASSUME NEW a \in Actors, TypeOK, Lanes, Goes(a), GoesRightly(a)
    PROVE  Lanes'
<1>1. /\ \A b \in Actors \ {a} : job[b].at \notin AtWork
      /\ active.op \in {None, a}
      /\ job[a].at = "waiting" => active.op = None
      /\ job[a].at \in Running => active.op = a
  BY HeadIsAlone DEF Goes
<1>2. \A b \in Actors : AtHead(b)' <=> AtHead(b)
  BY DEF AtHead, Goes
<1>3. a \in Actors /\ None \notin Actors
  BY Names
<1>4. \A i, j \in DOMAIN lane' : lane'[i] = lane'[j] => i = j
  BY DEF Lanes, Goes
<1>5. \A b \in Actors : (\E i \in DOMAIN lane' : lane'[i] = b) <=> job'[b].at \notin Resting
  <2>1. \A b \in Actors \ {a} : job'[b].at = job[b].at
    BY DEF Goes, OthersStay, Stays
  <2>2. job'[a].at \notin Resting /\ job[a].at \notin Resting
    BY DEF Goes, AtWork, Running, Resting
  <2> QED
    BY <2>1, <2>2 DEF Lanes, Goes
<1>6. \A b \in Actors : job'[b].at \in AtWork => AtHead(b)'
  BY <1>1, <1>2 DEF Goes, OthersStay, Stays
<1>7. \A b \in Actors \ {a} : job'[b].at \notin AtWork
  BY <1>1 DEF Goes, OthersStay, Stays
<1>8. \A b \in Actors : job'[b].at \in Running => active'.op = b
  BY <1>1, <1>7 DEF GoesRightly, AtWork, Running
<1>9. active'.op \in {None, a}
  BY <1>1 DEF GoesRightly
<1>10. (active.op # None => AtHead(active.op) /\ job[active.op].at \in AtWork)'
  BY <1>1, <1>2, <1>9 DEF Goes, AtHead
<1>11. active'.op \notin {None, "stop"} => unresolved' = None
  BY <1>1 DEF GoesRightly, Goes, Lanes
<1>12. active'.op \in {None, "stop"} => active'.native = "not_issued"
  BY <1>1, <1>3 DEF GoesRightly, Lanes
<1> QED
  BY <1>4, <1>5, <1>6, <1>8, <1>10, <1>11, <1>12 DEF Lanes, AtHead

\* The actor at the head leaves, and nothing is active until the next is admitted.
LeavesLane(a) ==
    /\ AtHead(a) /\ lane' = Tail(lane) /\ OthersStay(a)
    /\ job[a].at = "settling" /\ job'[a].at \in {"idle", "done"}
    /\ active' = NoOperation

\* The lane stays right when its head leaves it.
LEMMA LanesWhenOneLeaves ==
    ASSUME NEW a \in Actors, TypeOK, Lanes, LeavesLane(a)
    PROVE  Lanes'
<1>1. \A b \in Actors \ {a} : job[b].at \notin AtWork
  BY HeadIsAlone DEF LeavesLane
<1>2. \A b \in Actors : job'[b].at \notin AtWork
  BY <1>1 DEF LeavesLane, OthersStay, Stays, AtWork, Running
<1>3. active'.op = None /\ active'.native = "not_issued"
  BY DEF LeavesLane, NoOperation
<1>4. lane \in Seq(Actors) /\ lane # <<>> /\ lane[1] = a
  BY DEF TypeOK, LeavesLane, AtHead
<1>5. /\ DOMAIN lane = 1..Len(lane) /\ Len(lane) \in Nat /\ Len(lane) >= 1
      /\ DOMAIN lane' = 1..(Len(lane) - 1)
      /\ \A i \in 1..(Len(lane) - 1) : lane'[i] = lane[i + 1]
  BY <1>4 DEF LeavesLane
<1>6. \A i, j \in DOMAIN lane : lane[i] = lane[j] => i = j
  BY DEF Lanes
<1>7. \A i, j \in DOMAIN lane' : lane'[i] = lane'[j] => i = j
  <2> SUFFICES ASSUME NEW i \in 1..(Len(lane) - 1), NEW j \in 1..(Len(lane) - 1),
                      lane[i + 1] = lane[j + 1]
               PROVE  i = j
    BY <1>5
  <2>1. i + 1 \in DOMAIN lane /\ j + 1 \in DOMAIN lane
    BY <1>5
  <2>2. i + 1 = j + 1
    BY <1>6, <2>1
  <2> QED
    BY <1>5, <2>2
<1>8. ~\E i \in DOMAIN lane' : lane'[i] = a
  <2> SUFFICES ASSUME NEW i \in 1..(Len(lane) - 1), lane[i + 1] = a
               PROVE  FALSE
    BY <1>5
  <2>1. i + 1 \in DOMAIN lane /\ 1 \in DOMAIN lane /\ i + 1 # 1
    BY <1>5
  <2> QED
    BY <1>4, <1>6, <2>1
<1>9. \A b \in Actors \ {a} : (\E i \in DOMAIN lane' : lane'[i] = b) <=> \E i \in DOMAIN lane : lane[i] = b
  <2> SUFFICES ASSUME NEW b \in Actors \ {a}
               PROVE  (\E i \in DOMAIN lane' : lane'[i] = b) <=> \E i \in DOMAIN lane : lane[i] = b
    OBVIOUS
  <2>1. ASSUME NEW i \in DOMAIN lane', lane'[i] = b
        PROVE  \E j \in DOMAIN lane : lane[j] = b
    <3>1. i + 1 \in DOMAIN lane /\ lane[i + 1] = b
      BY <1>5, <2>1
    <3> QED
      BY <3>1
  <2>2. ASSUME NEW i \in DOMAIN lane, lane[i] = b
        PROVE  \E j \in DOMAIN lane' : lane'[j] = b
    <3>1. i # 1
      BY <1>4, <2>2
    <3>2. i - 1 \in DOMAIN lane' /\ (i - 1) + 1 = i
      BY <1>5, <3>1
    <3>3. lane'[i - 1] = b
      BY <1>5, <2>2, <3>2
    <3> QED
      BY <3>2, <3>3
  <2> QED
    BY <2>1, <2>2
<1>10. \A b \in Actors : (\E i \in DOMAIN lane' : lane'[i] = b) <=> job'[b].at \notin Resting
  <2>1. \A b \in Actors \ {a} : job'[b].at = job[b].at
    BY DEF LeavesLane, OthersStay, Stays
  <2>2. job'[a].at \in Resting
    BY DEF LeavesLane, Resting
  <2> QED
    BY <1>8, <1>9, <2>1, <2>2 DEF Lanes
<1> QED
  BY <1>2, <1>3, <1>7, <1>10 DEF Lanes, AtWork

\* An actor that rests joins the end of the lane.
JoinsLane(a) ==
    /\ lane' = Append(lane, a) /\ OthersStay(a)
    /\ job[a].at \in Resting /\ job'[a].at = "waiting"
    /\ active' = active /\ unresolved' = unresolved

\* The lane stays right when an actor joins it.
LEMMA LanesWhenOneJoins ==
    ASSUME NEW a \in Actors, TypeOK, Lanes, JoinsLane(a)
    PROVE  Lanes'
<1>1. lane \in Seq(Actors)
  BY DEF TypeOK
<1>2. /\ DOMAIN lane = 1..Len(lane) /\ Len(lane) \in Nat
      /\ DOMAIN lane' = 1..(Len(lane) + 1)
      /\ \A i \in 1..Len(lane) : lane'[i] = lane[i]
      /\ lane'[Len(lane) + 1] = a
  BY <1>1 DEF JoinsLane
<1>3. \A b \in Actors \ {a} : job'[b].at = job[b].at
  BY DEF JoinsLane, OthersStay, Stays
<1>4. ~\E i \in DOMAIN lane : lane[i] = a
  BY DEF Lanes, JoinsLane
<1>5. \A b \in Actors : AtHead(b) => AtHead(b)'
  <2>1. lane # <<>> => lane' # <<>> /\ Head(lane') = Head(lane)
    BY <1>1 DEF JoinsLane
  <2> QED
    BY <2>1 DEF AtHead
<1>6. \A i, j \in DOMAIN lane' : lane'[i] = lane'[j] => i = j
  <2> SUFFICES ASSUME NEW i \in DOMAIN lane', NEW j \in DOMAIN lane', lane'[i] = lane'[j]
               PROVE  i = j
    OBVIOUS
  <2>1. \A k \in DOMAIN lane' : k \in DOMAIN lane \/ k = Len(lane) + 1
    BY <1>2
  <2>2. \A k \in DOMAIN lane : lane'[k] = lane[k] /\ lane[k] # a
    BY <1>2, <1>4
  <2>3. \A k, l \in DOMAIN lane : lane[k] = lane[l] => k = l
    BY DEF Lanes
  <2> QED
    BY <1>2, <2>1, <2>2, <2>3
<1>7. \A b \in Actors : (\E i \in DOMAIN lane' : lane'[i] = b) <=> job'[b].at \notin Resting
  <2>1. \A b \in Actors \ {a} : (\E i \in DOMAIN lane' : lane'[i] = b) <=> \E i \in DOMAIN lane : lane[i] = b
    BY <1>2
  <2>2. \E i \in DOMAIN lane' : lane'[i] = a
    BY <1>2
  <2>3. job'[a].at \notin Resting
    BY DEF JoinsLane, Resting
  <2> QED
    BY <1>3, <2>1, <2>2, <2>3 DEF Lanes
<1>8. job[a].at \notin AtWork /\ job'[a].at \notin AtWork
  BY DEF JoinsLane, AtWork, Running, Resting
<1>9. \A b \in Actors : job'[b].at \in AtWork => AtHead(b)'
  BY <1>3, <1>5, <1>8 DEF Lanes
<1>10. \A b \in Actors : job'[b].at \in Running => active'.op = b
  BY <1>3, <1>8 DEF Lanes, JoinsLane, AtWork
<1>11. (active.op # None => AtHead(active.op) /\ job[active.op].at \in AtWork)'
  <2>1. active.op \in Actors \cup {None}
    BY DEF TypeOK
  <2> QED
    BY <1>3, <1>5, <1>8, <2>1 DEF Lanes, JoinsLane, AtHead
<1>12. /\ active'.op \notin {None, "stop"} => unresolved' = None
       /\ active'.op \in {None, "stop"} => active'.native = "not_issued"
  BY DEF Lanes, JoinsLane
<1> QED
  BY <1>6, <1>7, <1>9, <1>10, <1>11, <1>12 DEF Lanes, AtHead

\* Nothing moves in the lane; the owner may learn of a message, and a Stop may begin.
StandsStill ==
    /\ lane' = lane
    /\ \A b \in Actors : \/ job'[b].at = job[b].at
                         \/ job[b].at \in Resting /\ job'[b].at \in Resting
    /\ active'.op = active.op
    /\ active.op \in {None, "stop"} => active' = active
    /\ unresolved' \in {unresolved, None}

\* The lane stays right when nothing moves in it.
LEMMA LanesWhenNoneMoves ==
    ASSUME TypeOK, Lanes, StandsStill
    PROVE  Lanes'
<1>1. \A b \in Actors : AtHead(b)' <=> AtHead(b)
  BY DEF AtHead, StandsStill
<1>2. \A b \in Actors : /\ job'[b].at \in Resting <=> job[b].at \in Resting
                        /\ job'[b].at \in AtWork <=> job[b].at \in AtWork
                        /\ job'[b].at \in Running <=> job[b].at \in Running
  BY DEF StandsStill, Resting, AtWork, Running
<1>3. active.op \in Actors \cup {None}
  BY DEF TypeOK
<1>4. \A i, j \in DOMAIN lane' : lane'[i] = lane'[j] => i = j
  BY DEF Lanes, StandsStill
<1>5. \A b \in Actors : (\E i \in DOMAIN lane' : lane'[i] = b) <=> job'[b].at \notin Resting
  BY <1>2 DEF Lanes, StandsStill
<1>6. /\ \A b \in Actors : job'[b].at \in AtWork => AtHead(b)'
      /\ \A b \in Actors : job'[b].at \in Running => active'.op = b
  BY <1>1, <1>2 DEF Lanes, StandsStill
<1>7. (active.op # None => AtHead(active.op) /\ job[active.op].at \in AtWork)'
  BY <1>1, <1>2, <1>3 DEF Lanes, StandsStill, AtHead
<1>8. /\ active'.op \notin {None, "stop"} => unresolved' = None
      /\ active'.op \in {None, "stop"} => active'.native = "not_issued"
  BY DEF Lanes, StandsStill
<1> QED
  BY <1>4, <1>5, <1>6, <1>7, <1>8 DEF Lanes, AtHead

-----------------------------------------------------------------------------
(* The queue and the requests across a step *)

DefaultInFlight(m) == job[m].how = "default" /\ job[m].at \in {"sending", "issued"}

\* No actor comes to a place that the queue has to agree with.
QueueCalm ==
    /\ \A m \in Messages : job[m].at \in Returned => job'[m].at \in Returned
    /\ \A m \in Messages : DefaultInFlight(m)' => DefaultInFlight(m)
    /\ job'["drain"].at # "idle" => job["drain"].at # "idle" /\ job'["drain"].msg = job["drain"].msg
    /\ Steering' => Steering /\ job'["manage"].msg = job["manage"].msg

\* An entry that the step may add or change to.
AllowedEntry(m, s) ==
    /\ job'[m].at \in Returned
    /\ job'["drain"].at # "idle" => m # job["drain"].msg
    /\ Steering' => m # job["manage"].msg

SendingFits ==
    \/ queue'.sending = queue.sending
    \/ job'["drain"].at = "idle" /\ \A m \in Messages : ~DefaultInFlight(m)'

\* In such a step the queue goes on agreeing with the actors.
LEMMA QueueFitsInCalm ==
    ASSUME QueueFits, JobsFit, QueueCalm, GoodQueue(queue'), SendingFits,
           \A m \in Messages, s \in EntryStates :
               Has(queue', m, s) => Has(queue, m, s) \/ AllowedEntry(m, s)
    PROVE  QueueFits'
<1>1. GoodQueue(queue)
  BY DEF QueueFits
<1>2. \A m \in Messages : InQueue(queue', m) => job'[m].at \in Returned
  <2> SUFFICES ASSUME NEW m \in Messages, InQueue(queue', m)
               PROVE  job'[m].at \in Returned
    OBVIOUS
  <2>1. PICK s \in EntryStates : Has(queue', m, s)
    BY HasIsState
  <2>2. CASE Has(queue, m, s)
    <3>1. InQueue(queue, m)
      BY <1>1, <2>2, HasIsState
    <3> QED
      BY <3>1 DEF QueueFits, QueueCalm
  <2>3. CASE AllowedEntry(m, s)
    BY <2>3 DEF AllowedEntry
  <2> QED
    BY <2>1, <2>2, <2>3
<1>3. job'["drain"].at # "idle" => queue'.sending
  BY DEF QueueFits, QueueCalm, SendingFits
<1>4. \A m \in Messages : DefaultInFlight(m)' => queue'.sending /\ job'["drain"].at = "idle"
  BY DEF QueueFits, QueueCalm, SendingFits, DefaultInFlight
<1>5. ASSUME job'["drain"].at # "idle"
      PROVE  /\ \A s \in EntryStates : Has(queue', job'["drain"].msg, s) => s = "sending"
             /\ job'[job'["drain"].msg].at \in Returned
  <2>1. /\ job["drain"].at # "idle" /\ job'["drain"].msg = job["drain"].msg
        /\ job["drain"].msg \in Messages
    BY <1>5 DEF QueueCalm, JobsFit, DrainFits
  <2>2. /\ \A s \in EntryStates : Has(queue, job["drain"].msg, s) => s = "sending"
        /\ job[job["drain"].msg].at \in Returned
    BY <2>1 DEF QueueFits
  <2>3. \A s \in EntryStates : ~AllowedEntry(job["drain"].msg, s)
    BY <1>5 DEF AllowedEntry
  <2> QED
    BY <2>1, <2>2, <2>3 DEF QueueCalm
<1>6. ASSUME Steering'
      PROVE  /\ \A s \in EntryStates : Has(queue', job'["manage"].msg, s) => s = "steering"
             /\ job'[job'["manage"].msg].at \in Returned
  <2>1. /\ Steering /\ job'["manage"].msg = job["manage"].msg /\ job["manage"].msg \in Messages
    BY <1>6 DEF QueueCalm, JobsFit, ManageFits, Steering
  <2>2. /\ \A s \in EntryStates : Has(queue, job["manage"].msg, s) => s = "steering"
        /\ job[job["manage"].msg].at \in Returned
    BY <2>1 DEF QueueFits
  <2>3. \A s \in EntryStates : ~AllowedEntry(job["manage"].msg, s)
    BY <1>6 DEF AllowedEntry
  <2> QED
    BY <2>1, <2>2, <2>3 DEF QueueCalm
<1>7. Steering' /\ job'["drain"].at # "idle" => job'["drain"].msg # job'["manage"].msg
  BY DEF QueueFits, QueueCalm
<1> QED
  BY <1>2, <1>3, <1>4, <1>5, <1>6, <1>7 DEF QueueFits, DefaultInFlight

Waiting(q, m) == Has(q, m, "queued") \/ Has(q, m, "editing")

\* A step after which nothing more is with the runtime than before, and what may be
\* sent then might be sent before or is not with the runtime.
UnsentCalm ==
    /\ \A m \in Messages : Out(m)' => Out(m)
    /\ Blocked => Blocked'
    /\ \A m \in Messages : job'[m].at \in Early => job[m].at \in Early
    /\ job'["manage"].at \in {"routing", "sending"} =>
          \/ job["manage"].at \in {"routing", "sending"} /\ job'["manage"].msg = job["manage"].msg
          \/ ~Out(job["manage"].msg)'
    /\ job'["drain"].at = "sending" =>
          \/ job["drain"].at = "sending" /\ job'["drain"].msg = job["drain"].msg
          \/ ~Out(job["drain"].msg)'
    /\ job'["drain"].at \in Pending =>
          \/ job["drain"].at \in Pending /\ job'["drain"].msg = job["drain"].msg
          \/ ~Out(job["drain"].msg)' \/ Blocked'
    /\ job'["drain"].at = "settling" /\ job'["drain"].outcome \in {"refused", "busy"} =>
          \/ /\ job'["drain"].msg = job["drain"].msg
             /\ \/ job["drain"].at \in {"sending", "waiting"}
                \/ job["drain"].at = "settling" /\ job["drain"].outcome \in {"refused", "busy"}
          \/ ~Out(job["drain"].msg)' \/ Blocked'
    /\ \A m \in Messages : Waiting(queue', m) => Waiting(queue, m) \/ ~Out(m)' \/ Blocked'

\* In such a step what may still be sent stays away from the runtime.
LEMMA UnsentInCalm ==
    ASSUME Unsent, JobsFit, JobsFit', UnsentCalm
    PROVE  Unsent'
<1>1. \A m \in Messages : job'[m].at \in Early => ~Out(m)'
  BY DEF Unsent, UnsentCalm
<1>2. job'["manage"].at \in {"routing", "sending"} => ~Out(job["manage"].msg)'
  <2>1. job'["manage"].at \in {"routing", "sending"} => job'["manage"].msg \in Messages
    BY DEF JobsFit, ManageFits
  <2>2. job["manage"].at \in {"routing", "sending"} => ~Out(job["manage"].msg)
    BY DEF Unsent
  <2>3. \A m \in Messages : ~Out(m) /\ m = job'["manage"].msg => ~Out(job["manage"].msg)'
    BY DEF UnsentCalm, Out, Taken, OpenFor
  <2> QED
    BY <2>1, <2>2, <2>3 DEF UnsentCalm
<1>3. job'["drain"].at # "idle" => job'["drain"].msg \in Messages
  BY DEF JobsFit, DrainFits
<1>4. \A m \in Messages : ~Out(m) /\ m = job'["drain"].msg => ~Out(job["drain"].msg)'
  BY DEF UnsentCalm, Out, Taken, OpenFor
<1>5. job'["drain"].at = "sending" => ~Out(job["drain"].msg)'
  BY <1>3, <1>4 DEF Unsent, UnsentCalm
<1>6. job'["drain"].at \in Pending => ~Out(job["drain"].msg)' \/ Blocked'
  BY <1>3, <1>4 DEF Unsent, UnsentCalm, Pending
<1>7. job'["drain"].at = "settling" /\ job'["drain"].outcome \in {"refused", "busy"} =>
          ~Out(job["drain"].msg)' \/ Blocked'
  BY <1>3, <1>4 DEF Unsent, UnsentCalm, Pending
<1>8. \A m \in Messages : Waiting(queue', m) => ~Out(m)' \/ Blocked'
  BY DEF Unsent, UnsentCalm, Waiting
<1> QED
  BY <1>1, <1>2, <1>5, <1>6, <1>7, <1>8 DEF Unsent, Waiting

\* The runtime's requests and what it took stay.
SameRequests == rt'.open = rt.open /\ took' = took

\* Then the runtime has what it had.
LEMMA RequestsStay ==
    ASSUME SameRequests
    PROVE  /\ \A m \in Messages : (Taken(m)' <=> Taken(m)) /\ (OpenFor(m)' <=> OpenFor(m))
           /\ \A m \in Messages : Out(m)' <=> Out(m)
           /\ Requested => Requested'
  BY DEF SameRequests, Taken, OpenFor, Out, Requested

\* Types with a single change.
LEMMA TailFacts ==
    ASSUME NEW S, NEW s \in Seq(S), s # <<>>
    PROVE  /\ Tail(s) \in Seq(S) /\ Head(s) \in S
           /\ \A i \in DOMAIN Tail(s) : i + 1 \in DOMAIN s /\ Tail(s)[i] = s[i + 1]
           /\ 1 \in DOMAIN s /\ Head(s) = s[1]
  OBVIOUS

\* An element of two sequences in a row is an element of one of them.
LEMMA ElementOfConcat ==
    ASSUME NEW S, NEW s \in Seq(S), NEW t \in Seq(S)
    PROVE  /\ s \o t \in Seq(S)
           /\ \A i \in DOMAIN (s \o t) : \/ i \in DOMAIN s /\ (s \o t)[i] = s[i]
                                         \/ \E j \in DOMAIN t : (s \o t)[i] = t[j]
<1>1. s \o t \in Seq(S) /\ Len(s \o t) = Len(s) + Len(t) /\ Len(s) \in Nat /\ Len(t) \in Nat
  OBVIOUS
<1>2. /\ DOMAIN (s \o t) = 1..(Len(s) + Len(t))
      /\ DOMAIN s = 1..Len(s) /\ DOMAIN t = 1..Len(t)
  BY <1>1
<1>3. ASSUME NEW i \in DOMAIN (s \o t)
      PROVE  \/ i \in DOMAIN s /\ (s \o t)[i] = s[i]
             \/ \E j \in DOMAIN t : (s \o t)[i] = t[j]
  <2>1. CASE i <= Len(s)
    BY <1>1, <1>2, <1>3, <2>1
  <2>2. CASE ~(i <= Len(s))
    <3>1. i - Len(s) \in DOMAIN t
      BY <1>1, <1>2, <1>3, <2>2
    <3>2. (s \o t)[i] = t[i - Len(s)]
      BY <1>1, <1>2, <1>3, <2>2
    <3> QED
      BY <3>1, <3>2
  <2> QED
    BY <2>1, <2>2
<1> QED
  BY <1>1, <1>3

-----------------------------------------------------------------------------
(* The runtime reports *)

RuntimeStates == [turn : BOOLEAN, asking : BOOLEAN, attached : BOOLEAN, readable : BOOLEAN,
                  open : SUBSET Requests]

ShownEventsTaken == \A i \in DOMAIN events : events[i].kind = "user" => Taken(events[i].msg)

\* A report adds its own events to the ones that wait.
LEMMA ReportFacts ==
    ASSUME TypeOK, NEW r \in RuntimeStates, NEW others \in Seq(Events), Reports(r, others)
    PROVE  /\ rt' = r /\ events' \in Seq(Events) /\ seen' = seen
           /\ \A i \in DOMAIN events' :
                 \/ i \in DOMAIN events /\ events'[i] = events[i]
                 \/ events'[i].kind = "state"
                 \/ \E j \in DOMAIN others : events'[i] = others[j]
<1> DEFINE e == RuntimeState(r)
<1>1. e \in Events /\ e.kind = "state"
  BY DEF RuntimeState, RuntimeStates, Events, StateEvent
<1>2. rt' = r /\ seen' = seen /\ events \in Seq(Events)
  BY DEF Reports, TypeOK
<1>3. events' = events \o <<e>> \o others \/ events' = events \o others \o <<e>>
  BY DEF Reports
<1> HIDE DEF e
<1>4. <<e>> \in Seq(Events) /\ \A j \in DOMAIN <<e>> : <<e>>[j] = e
  BY <1>1
<1>5. CASE events' = events \o <<e>> \o others
  <2>1. /\ events \o <<e>> \in Seq(Events)
        /\ \A i \in DOMAIN (events \o <<e>>) :
              \/ i \in DOMAIN events /\ (events \o <<e>>)[i] = events[i]
              \/ \E j \in DOMAIN <<e>> : (events \o <<e>>)[i] = <<e>>[j]
    BY <1>2, <1>4, ElementOfConcat
  <2> DEFINE first == events \o <<e>>
  <2>2. first \in Seq(Events) /\ events' = first \o others
    BY <1>5, <2>1
  <2>3. \A i \in DOMAIN first : (i \in DOMAIN events /\ first[i] = events[i]) \/ first[i] = e
    BY <1>4, <2>1
  <2> HIDE DEF first
  <2>4. /\ first \o others \in Seq(Events)
        /\ \A i \in DOMAIN (first \o others) :
              \/ i \in DOMAIN first /\ (first \o others)[i] = first[i]
              \/ \E j \in DOMAIN others : (first \o others)[i] = others[j]
    BY <2>2, ElementOfConcat
  <2> QED
    BY <1>1, <1>2, <2>2, <2>3, <2>4
<1>6. CASE events' = events \o others \o <<e>>
  <2>1. /\ events \o others \in Seq(Events)
        /\ \A i \in DOMAIN (events \o others) :
              \/ i \in DOMAIN events /\ (events \o others)[i] = events[i]
              \/ \E j \in DOMAIN others : (events \o others)[i] = others[j]
    BY <1>2, ElementOfConcat
  <2> DEFINE first == events \o others
  <2>2. first \in Seq(Events) /\ events' = first \o <<e>>
    BY <1>6, <2>1
  <2>3. \A i \in DOMAIN first : \/ i \in DOMAIN events /\ first[i] = events[i]
                                \/ \E j \in DOMAIN others : first[i] = others[j]
    BY <2>1
  <2> HIDE DEF first
  <2>4. /\ first \o <<e>> \in Seq(Events)
        /\ \A i \in DOMAIN (first \o <<e>>) :
              \/ i \in DOMAIN first /\ (first \o <<e>>)[i] = first[i]
              \/ \E j \in DOMAIN <<e>> : (first \o <<e>>)[i] = <<e>>[j]
    BY <1>4, <2>2, ElementOfConcat
  <2>5. \A i \in DOMAIN (first \o <<e>>) :
           \/ i \in DOMAIN events /\ (first \o <<e>>)[i] = events[i]
           \/ (first \o <<e>>)[i] = e
           \/ \E j \in DOMAIN others : (first \o <<e>>)[i] = others[j]
    BY <1>4, <2>3, <2>4
  <2> QED
    BY <1>1, <1>2, <2>2, <2>4, <2>5
<1> QED
  BY <1>3, <1>5, <1>6

\* A step that changes only the runtime's state and what it reports keeps the rest.
NothingButReports ==
    /\ UNCHANGED <<owner, job, queue, due, host, told>>
    /\ rt' \in RuntimeStates /\ SameRequests
    /\ events' \in Seq(Events) /\ seen' \in BOOLEAN
    /\ budget' \in [Bounded -> Nat]
    /\ \A i \in DOMAIN events' : events'[i].kind = "user" =>
          i \in DOMAIN events /\ events'[i] = events[i]

\* Such a step keeps the invariant.
LEMMA ReportsKeepInv ==
    ASSUME Inv, NothingButReports
    PROVE  Inv'
<1> USE DEF NothingButReports, owner, told
<1>1. TypeOK'
  BY DEF Inv, TypeOK, RuntimeStates, SameRequests
<1>2. /\ \A m \in Messages : (Taken(m)' <=> Taken(m)) /\ (OpenFor(m)' <=> OpenFor(m))
      /\ \A m \in Messages : Out(m)' <=> Out(m)
      /\ Requested'
  BY RequestsStay DEF Inv
<1>3. Lanes' /\ JobsFit' /\ QueueFits' /\ Kept' /\ Paused'
  <2>1. Lanes'
    BY DEF Inv, Lanes, AtHead
  <2>2. JobsFit'
    BY DEF Inv, JobsFit, SubmissionFits, DrainFits, ManageFits, StopFits
  <2>3. QueueFits'
    BY DEF Inv, QueueFits, Steering
  <2>4. Kept' /\ Paused'
    BY <1>2 DEF Inv, Kept, Paused
  <2> QED
    BY <2>1, <2>2, <2>3, <2>4
<1>4. Unsent'
  <2>1. UnsentCalm
    BY <1>2 DEF UnsentCalm, Blocked, Waiting
  <2> QED
    BY <1>3, <2>1, UnsentInCalm DEF Inv
<1>5. Known'
  <2>1. ShownEventsTaken'
    <3>1. \A i \in DOMAIN events : events[i].kind = "user" => Taken(events[i].msg)
      BY DEF Inv, Known
    <3> QED
      BY <3>1 DEF ShownEventsTaken, Taken, SameRequests
  <2>2. \A a \in Actors \ {"stop"} :
           job'[a].at = "issued" => Request(a)' \in rt'.open \/ Taken(job[a].msg)'
    BY DEF Inv, Known, Taken, SameRequests, Request
  <2>3. /\ active'.native = "accepted" /\ active'.op # "manage" => Taken(job[active.op].msg)'
        /\ job'["drain"].at = "settling" /\ job'["drain"].outcome \in {"accepted", "received"} =>
              Taken(job["drain"].msg)'
    BY DEF Inv, Known, Taken, SameRequests
  <2> QED
    BY <2>1, <2>2, <2>3 DEF Inv, Known, ShownEventsTaken
<1> QED
  BY <1>1, <1>2, <1>3, <1>4, <1>5 DEF Inv

\* A report that is no taken message keeps the invariant.
ReportsOnly ==
    \/ OwnTurn \/ Ask \/ Answered \/ SessionLeaves \/ Reattaches \/ StatusFault \/ StatusReport
    \/ \E outcome \in TurnEnds : EndTurn(outcome)

\* What is spent leaves a budget.
LEMMA SpendFacts ==
    ASSUME TypeOK, NEW e \in Bounded, Spend(e)
    PROVE  budget' \in [Bounded -> Nat]
  BY DEF TypeOK, Spend

\* What may be spent leaves a budget.
LEMMA BudgetIsKept ==
    ASSUME TypeOK, budget' = budget \/ \E e \in Bounded : Spend(e)
    PROVE  budget' \in [Bounded -> Nat]
  BY SpendFacts DEF TypeOK

\* A report without a taken message keeps the invariant.
LEMMA ReportOfStateKeeps ==
    ASSUME Inv, NEW r \in RuntimeStates, r.open = rt.open,
           NEW others \in Seq(Events), \A j \in DOMAIN others : others[j].kind # "user",
           Reports(r, others), UNCHANGED <<owner, job, queue, due, host, took, told>>,
           budget' \in [Bounded -> Nat]
    PROVE  Inv'
<1>1. /\ rt' = r /\ events' \in Seq(Events) /\ seen' = seen
      /\ \A i \in DOMAIN events' :
            \/ i \in DOMAIN events /\ events'[i] = events[i]
            \/ events'[i].kind = "state"
            \/ \E j \in DOMAIN others : events'[i] = others[j]
  BY ReportFacts DEF Inv
<1>2. \A i \in DOMAIN events' : events'[i].kind = "user" =>
          i \in DOMAIN events /\ events'[i] = events[i]
  BY <1>1
<1>3. seen' \in BOOLEAN /\ rt' \in RuntimeStates /\ SameRequests
  BY <1>1 DEF Inv, TypeOK, SameRequests
<1>4. NothingButReports
  BY <1>1, <1>2, <1>3 DEF NothingButReports
<1> QED
  BY <1>4, ReportsKeepInv

\* Each step of the runtime that takes and answers nothing keeps the invariant.
LEMMA ReportsOnlyKeep ==
    ASSUME Inv, ReportsOnly
    PROVE  Inv'
<1>1. TypeOK /\ rt \in RuntimeStates
  BY DEF Inv, TypeOK, RuntimeStates
<1>2. <<>> \in Seq(Events) /\ \A j \in DOMAIN <<>> : <<>>[j].kind # "user"
  OBVIOUS
<1>3. "turns" \in Bounded /\ "asks" \in Bounded /\ "leaves" \in Bounded /\ "faults" \in Bounded
  BY DEF Bounded
<1> DEFINE working == [rt EXCEPT !.turn = TRUE]
<1> DEFINE asks == [rt EXCEPT !.asking = TRUE]
<1> DEFINE answered == [rt EXCEPT !.asking = FALSE]
<1> DEFINE attached == [rt EXCEPT !.attached = TRUE]
<1> DEFINE readable == [rt EXCEPT !.readable = TRUE]
<1> DEFINE over == [rt EXCEPT !.turn = FALSE, !.asking = FALSE]
<1>4. /\ working \in RuntimeStates /\ working.open = rt.open
      /\ asks \in RuntimeStates /\ asks.open = rt.open
      /\ answered \in RuntimeStates /\ answered.open = rt.open
      /\ attached \in RuntimeStates /\ attached.open = rt.open
      /\ readable \in RuntimeStates /\ readable.open = rt.open
      /\ over \in RuntimeStates /\ over.open = rt.open
  BY <1>1 DEF RuntimeStates
<1>5. CASE OwnTurn
  <2>1. budget' \in [Bounded -> Nat]
    BY <1>1, <1>3, <1>5, SpendFacts DEF OwnTurn
  <2>2. Reports(working, <<>>) /\ UNCHANGED <<owner, job, queue, due, host, took, told>>
    BY <1>5 DEF OwnTurn
  <2> HIDE DEF working
  <2> QED
    BY <1>2, <1>4, <2>1, <2>2, ReportOfStateKeeps
<1>6. CASE Ask
  <2>1. budget' \in [Bounded -> Nat]
    BY <1>1, <1>3, <1>6, SpendFacts DEF Ask
  <2>2. Reports(asks, <<>>) /\ UNCHANGED <<owner, job, queue, due, host, took, told>>
    BY <1>6 DEF Ask
  <2> HIDE DEF asks
  <2> QED
    BY <1>2, <1>4, <2>1, <2>2, ReportOfStateKeeps
<1>7. CASE Answered
  <2>1. budget' \in [Bounded -> Nat]
    BY <1>1, <1>7 DEF Answered, TypeOK
  <2>2. Reports(answered, <<>>) /\ UNCHANGED <<owner, job, queue, due, host, took, told>>
    BY <1>7 DEF Answered
  <2> HIDE DEF answered
  <2> QED
    BY <1>2, <1>4, <2>1, <2>2, ReportOfStateKeeps
<1>8. CASE Reattaches
  <2>1. budget' \in [Bounded -> Nat]
    BY <1>1, <1>8 DEF Reattaches, TypeOK
  <2>2. Reports(attached, <<>>) /\ UNCHANGED <<owner, job, queue, due, host, took, told>>
    BY <1>8 DEF Reattaches
  <2> HIDE DEF attached
  <2> QED
    BY <1>2, <1>4, <2>1, <2>2, ReportOfStateKeeps
<1>9. CASE StatusReport
  <2>1. budget' \in [Bounded -> Nat]
    BY <1>1, <1>9 DEF StatusReport, TypeOK
  <2>2. Reports(readable, <<>>) /\ UNCHANGED <<owner, job, queue, due, host, took, told>>
    BY <1>9 DEF StatusReport
  <2> HIDE DEF readable
  <2> QED
    BY <1>2, <1>4, <2>1, <2>2, ReportOfStateKeeps
<1>10. ASSUME NEW outcome \in TurnEnds, EndTurn(outcome)
       PROVE  Inv'
  <2> DEFINE ended == <<[kind |-> "ended", outcome |-> outcome]>>
  <2>1. budget' \in [Bounded -> Nat]
    BY <1>1, <1>10 DEF EndTurn, TypeOK
  <2>2. Reports(over, ended) /\ UNCHANGED <<owner, job, queue, due, host, took, told>>
    BY <1>10 DEF EndTurn, TurnOver
  <2>3. [kind |-> "ended", outcome |-> outcome] \in Events
    BY TurnsAssumption DEF Events
  <2>4. ended \in Seq(Events) /\ \A j \in DOMAIN ended : ended[j].kind # "user"
    BY <2>3
  <2> HIDE DEF over, ended
  <2> QED
    BY <1>4, <2>1, <2>2, <2>4, ReportOfStateKeeps
<1>11. ASSUME NEW event \in Events, event.kind # "user", events' = Append(events, event)
       PROVE  /\ events' \in Seq(Events)
              /\ \A i \in DOMAIN events' : events'[i].kind = "user" =>
                    i \in DOMAIN events /\ events'[i] = events[i]
  <2>1. events \in Seq(Events)
    BY <1>1 DEF TypeOK
  <2>2. /\ events' \in Seq(Events) /\ DOMAIN events' = 1..(Len(events) + 1)
        /\ DOMAIN events = 1..Len(events) /\ Len(events) \in Nat
        /\ events'[Len(events) + 1] = event
        /\ \A i \in 1..Len(events) : events'[i] = events[i]
    BY <1>11, <2>1
  <2>3. \A i \in DOMAIN events' : i = Len(events) + 1 \/ i \in DOMAIN events
    BY <2>2
  <2> QED
    BY <1>11, <2>2, <2>3
<1>12. CASE SessionLeaves
  <2>0. PICK kind \in {"removed", "finished"} : events' = Append(events, [kind |-> kind])
    BY <1>12 DEF SessionLeaves
  <2> DEFINE event == [kind |-> kind]
  <2>1. budget' \in [Bounded -> Nat]
    BY <1>1, <1>3, <1>12, SpendFacts DEF SessionLeaves
  <2>2. /\ rt' = [rt EXCEPT !.attached = FALSE, !.turn = FALSE, !.asking = FALSE]
        /\ events' = Append(events, event)
        /\ UNCHANGED <<owner, job, queue, due, host, took, seen, told>>
    BY <1>12, <2>0 DEF SessionLeaves
  <2>3. rt' \in RuntimeStates /\ rt'.open = rt.open
    BY <1>1, <2>2 DEF RuntimeStates
  <2>4. event \in Events /\ event.kind # "user"
    BY DEF Events
  <2> HIDE DEF event
  <2>5. NothingButReports
    BY <1>1, <1>11, <2>1, <2>2, <2>3, <2>4 DEF NothingButReports, SameRequests, TypeOK
  <2> QED
    BY <2>5, ReportsKeepInv
<1>13. CASE StatusFault
  <2> DEFINE event == [kind |-> "fault"]
  <2>1. budget' \in [Bounded -> Nat]
    BY <1>1, <1>3, <1>13, SpendFacts DEF StatusFault
  <2>2. /\ rt' = [rt EXCEPT !.readable = FALSE]
        /\ events' = Append(events, event)
        /\ UNCHANGED <<owner, job, queue, due, host, took, seen, told>>
    BY <1>13 DEF StatusFault
  <2>3. rt' \in RuntimeStates /\ rt'.open = rt.open
    BY <1>1, <2>2 DEF RuntimeStates
  <2>4. event \in Events /\ event.kind # "user"
    BY DEF Events
  <2> HIDE DEF event
  <2>5. NothingButReports
    BY <1>1, <1>11, <2>1, <2>2, <2>3, <2>4 DEF NothingButReports, SameRequests, TypeOK
  <2> QED
    BY <2>5, ReportsKeepInv
<1> QED
  BY <1>5, <1>6, <1>7, <1>8, <1>9, <1>10, <1>12, <1>13 DEF ReportsOnly

-----------------------------------------------------------------------------
(* The head of the lane goes on *)

\* While the head is not the queue action that settles, only an unnamed operation blocks.
LEMMA BlockedWhenOneGoes ==
    ASSUME Inv, NEW a \in Actors, Goes(a)
    PROVE  /\ Blocked => unresolved = "unnamed"
           /\ Blocked => Blocked'
           /\ unresolved = None => ~Blocked
<1>1. Blocked => unresolved = "unnamed"
  <2>1. /\ \A b \in Actors \ {a} : job[b].at \notin AtWork
        /\ job[a].at \in Running \cup {"waiting"}
    BY HeadIsAlone DEF Inv, Goes
  <2>2. job["manage"].at # "settling"
    BY <2>1, Names DEF AtWork, Running
  <2> QED
    BY <2>2 DEF Blocked
<1>2. None # "unnamed"
  BY DEF None
<1> QED
  BY <1>1, <1>2 DEF Blocked, Goes

\* The head alone moves, so the queue goes on agreeing with the others.
LEMMA QueueCalmWhenOneGoes ==
    ASSUME Inv, NEW a \in Actors, Goes(a),
           a \in Messages => (DefaultInFlight(a)' => DefaultInFlight(a)),
           a = "manage" => (Steering' => Steering)
    PROVE  QueueCalm
<1>1. job[a].at \notin Returned \cup {"idle"}
  BY DEF Goes, Running, Returned
<1>2. \A b \in Actors \ {a} : Stays(b)
  BY DEF Goes, OthersStay
<1>3. \A m \in Messages : job[m].at \in Returned => job'[m].at \in Returned
  BY <1>1, <1>2, Names DEF Stays
<1>4. \A m \in Messages : DefaultInFlight(m)' => DefaultInFlight(m)
  <2> SUFFICES ASSUME NEW m \in Messages, DefaultInFlight(m)'
               PROVE  DefaultInFlight(m)
    OBVIOUS
  <2>1. CASE m = a
    BY <2>1
  <2>2. CASE m # a
    BY <1>2, <2>2, Names DEF Stays, DefaultInFlight
  <2> QED
    BY <2>1, <2>2
<1>5. job'["drain"].at # "idle" => job["drain"].at # "idle" /\ job'["drain"].msg = job["drain"].msg
  BY <1>1, <1>2, Names DEF Stays, Goes
<1>6. Steering' => Steering /\ job'["manage"].msg = job["manage"].msg
  <2>1. CASE a = "manage"
    BY <2>1 DEF Goes
  <2>2. CASE a # "manage"
    BY <1>2, <2>2, Names DEF Stays, Steering
  <2> QED
    BY <2>1, <2>2
<1> QED
  BY <1>3, <1>4, <1>5, <1>6 DEF QueueCalm

\* Where a message may be sent from there, it was so before or is not with the runtime.
UnsentGoes(a) ==
    /\ \A m \in Messages : Out(m)' => Out(m)
    /\ job[a].at \in {"issued", "committing"} => job'[a].at = "settling"
    /\ a = "manage" /\ job'[a].at \in {"routing", "sending"} =>
          job[a].at \in {"routing", "sending"} \/ ~Out(job[a].msg)'
    /\ a = "drain" /\ job'[a].at = "sending" =>
          job[a].at = "sending" \/ (job[a].at = "waiting" /\ unresolved = None)
    /\ a = "drain" /\ job'[a].at = "settling" /\ job'[a].outcome \in {"refused", "busy"} =>
          job[a].at \in {"sending", "waiting"} \/ ~Out(job[a].msg)'
    /\ \A m \in Messages : Waiting(queue', m) => Waiting(queue, m) \/ ~Out(m)' \/ Blocked'

\* Then what may still be sent stays away from the runtime.
LEMMA UnsentWhenOneGoes ==
    ASSUME Inv, NEW a \in Actors, Goes(a), JobsFit', UnsentGoes(a)
    PROVE  Unsent'
<1>1. (Blocked => Blocked') /\ (unresolved = None => ~Blocked)
  BY BlockedWhenOneGoes
<1>2. job[a].at \in Running \cup {"waiting"} /\ job'[a].msg = job[a].msg /\ job'[a].at # "waiting"
  BY DEF Goes, AtWork, Running
<1>3. \A b \in Actors \ {a} : Stays(b)
  BY DEF Goes, OthersStay
<1>4. \A m \in Messages : job'[m].at \in Early => job[m].at \in Early
  BY <1>2, <1>3, Names DEF Stays, Early, Running, UnsentGoes
<1>5. job'["manage"].at \in {"routing", "sending"} =>
          \/ job["manage"].at \in {"routing", "sending"} /\ job'["manage"].msg = job["manage"].msg
          \/ ~Out(job["manage"].msg)'
  <2>1. CASE a = "manage"
    BY <1>2, <2>1 DEF UnsentGoes
  <2>2. CASE a # "manage"
    BY <1>3, <2>2, Names DEF Stays
  <2> QED
    BY <2>1, <2>2
<1>6. ASSUME a = "drain", job["drain"].at = "waiting", unresolved = None
      PROVE  ~Out(job["drain"].msg)'
  <2>1. ~Out(job["drain"].msg) /\ job["drain"].msg \in Messages /\ job'["drain"].msg = job["drain"].msg
    BY <1>1, <1>2, <1>6 DEF Inv, Unsent, JobsFit, DrainFits, Pending
  <2>2. \A m \in Messages : ~Out(m) /\ m = job'["drain"].msg => ~Out(job["drain"].msg)'
    BY DEF UnsentGoes, Out, Taken, OpenFor
  <2> QED
    BY <2>1, <2>2
<1>7. job'["drain"].at = "sending" =>
          \/ job["drain"].at = "sending" /\ job'["drain"].msg = job["drain"].msg
          \/ ~Out(job["drain"].msg)'
  <2>1. CASE a = "drain"
    BY <1>2, <1>6, <2>1 DEF UnsentGoes
  <2>2. CASE a # "drain"
    BY <1>3, <2>2, Names DEF Stays
  <2> QED
    BY <2>1, <2>2
<1>8. job'["drain"].at \in Pending =>
          job["drain"].at \in Pending /\ job'["drain"].msg = job["drain"].msg
  BY <1>2, <1>3, Names DEF Stays, Goes, AtWork, Running, Pending
<1>9. job'["drain"].at = "settling" /\ job'["drain"].outcome \in {"refused", "busy"} =>
          \/ /\ job'["drain"].msg = job["drain"].msg
             /\ \/ job["drain"].at \in {"sending", "waiting"}
                \/ job["drain"].at = "settling" /\ job["drain"].outcome \in {"refused", "busy"}
          \/ ~Out(job["drain"].msg)' \/ Blocked'
  <2>1. CASE a = "drain"
    BY <1>2, <2>1 DEF UnsentGoes
  <2>2. CASE a # "drain"
    BY <1>3, <2>2, Names DEF Stays
  <2> QED
    BY <2>1, <2>2
<1>10. /\ \A m \in Messages : Out(m)' => Out(m)
       /\ \A m \in Messages : Waiting(queue', m) => Waiting(queue, m) \/ ~Out(m)' \/ Blocked'
  BY DEF UnsentGoes
<1>11. UnsentCalm
  BY <1>1, <1>4, <1>5, <1>7, <1>8, <1>9, <1>10 DEF UnsentCalm
<1> QED
  BY <1>11, UnsentInCalm DEF Inv

\* The head learns of nothing that the runtime did not do.
KnownGoes(a) ==
    /\ \A m \in Messages : Taken(m) => Taken(m)'
    /\ job'[a].at = "issued" /\ a # "stop" =>
          /\ Request(a)' \in rt'.open \/ Taken(job[a].msg)'
          /\ a = "manage" => active'.native = "uncertain"
    /\ active'.native = "accepted" =>
          \/ active.native = "accepted" /\ active'.op = active.op
          \/ Taken(job[a].msg)'
    /\ a = "drain" /\ job'[a].at = "settling" /\ job'[a].outcome \in {"accepted", "received"} =>
          Taken(job[a].msg)'
    /\ ShownEventsTaken'

\* Then all that the host knows stays true.
LEMMA KnownWhenOneGoes ==
    ASSUME Inv, NEW a \in Actors, Goes(a), GoesRightly(a), JobsFit', KnownGoes(a)
    PROVE  Known'
<1>1. /\ \A b \in Actors \ {a} : job[b].at \notin AtWork
      /\ active.op \in {None, a}
  BY HeadIsAlone DEF Inv, Goes
<1>2. \A b \in Actors \ {a} : job'[b].at \notin AtWork
  BY <1>1 DEF Goes, OthersStay, Stays
<1>3. \A b \in Actors \ {"stop"} :
         job'[b].at = "issued" => Request(b)' \in rt'.open \/ Taken(job[b].msg)'
  BY <1>2 DEF KnownGoes, AtWork, Running
<1>4. job'["manage"].at = "issued" => active'.native = "uncertain"
  BY <1>2, Names DEF KnownGoes, AtWork, Running
<1>5. active'.native = "accepted" /\ active'.op # "manage" => Taken(job[active.op].msg)'
  <2> SUFFICES ASSUME active'.native = "accepted", active'.op # "manage"
               PROVE  Taken(job[active.op].msg)'
    OBVIOUS
  <2>1. Lanes'
    BY LanesWhenOneGoes DEF Inv
  <2>2. active'.op \notin {None, "stop"}
    BY <2>1 DEF Lanes
  <2>3. active'.op = a /\ a # "stop" /\ a # "manage"
    BY <1>1, <2>2 DEF GoesRightly
  <2>4. CASE active.native = "accepted" /\ active'.op = active.op
    <3>1. Taken(job[a].msg)
      BY <2>3, <2>4 DEF Inv, Known
    <3>2. job'[a].msg = job[a].msg /\ job[a].msg \in Messages
      <4>1. a \in Messages \/ a = "drain"
        BY <2>3, Names
      <4> QED
        BY <4>1 DEF Goes, Inv, JobsFit, SubmissionFits, DrainFits, Running
    <3>3. \A m \in Messages : Taken(m) /\ m = job'[a].msg => Taken(job[a].msg)'
      BY DEF KnownGoes, Taken
    <3> QED
      BY <2>3, <3>1, <3>2, <3>3
  <2>5. CASE Taken(job[a].msg)'
    BY <2>3, <2>5
  <2> QED
    BY <2>4, <2>5 DEF KnownGoes
<1>6. job'["drain"].at = "settling" /\ job'["drain"].outcome \in {"accepted", "received"} =>
          Taken(job["drain"].msg)'
  BY <1>2, Names DEF KnownGoes, AtWork
<1> QED
  BY <1>3, <1>4, <1>5, <1>6 DEF Known, KnownGoes, ShownEventsTaken

\* The head goes on and neither the queue nor the runtime's requests change.
QuietGoes(a) ==
    /\ queue' = queue /\ SameRequests /\ ShownEventsTaken'
    /\ a \in Messages => (DefaultInFlight(a)' => DefaultInFlight(a))
    /\ a = "manage" => (Steering' => Steering)
    /\ a = "manage" /\ job'[a].at \in {"routing", "sending"} => job[a].at \in {"routing", "sending"}
    /\ job[a].at \in {"issued", "committing"} => job'[a].at = "settling"
    /\ a = "drain" /\ job'[a].at = "sending" => job[a].at = "waiting" /\ unresolved = None
    /\ a = "drain" /\ job'[a].at = "settling" =>
          job[a].at \in {"sending", "waiting"} /\ job'[a].outcome \notin {"accepted", "received"}
    /\ job'[a].at = "issued" => a = "stop"
    /\ active'.native = "accepted" => active.native = "accepted" /\ active'.op = active.op
    /\ \A m \in Messages : status'[m] = "queued" => status[m] = "queued"
    /\ a = "manage" /\ job'[a].at = "committing" => ~HasUnknown(queue)

\* Such a step keeps the invariant.
LEMMA QuietGoesKeeps ==
    ASSUME Inv, NEW a \in Actors, Goes(a), GoesRightly(a), QuietGoes(a), TypeOK', JobsFit'
    PROVE  Inv'
<1>1. /\ \A m \in Messages : (Taken(m)' <=> Taken(m)) /\ (OpenFor(m)' <=> OpenFor(m))
      /\ \A m \in Messages : Out(m)' <=> Out(m)
      /\ Requested'
  BY RequestsStay DEF Inv, QuietGoes
<1>2. Lanes'
  BY LanesWhenOneGoes DEF Inv
<1>3. QueueFits'
  <2>1. QueueCalm
    BY QueueCalmWhenOneGoes DEF QuietGoes
  <2> QED
    BY <2>1, QueueFitsInCalm DEF Inv, QuietGoes, SendingFits, QueueFits
<1>4. Unsent'
  <2>1. UnsentGoes(a)
    BY <1>1 DEF UnsentGoes, QuietGoes
  <2> QED
    BY <2>1, UnsentWhenOneGoes
<1>5. Known'
  <2>1. KnownGoes(a)
    BY <1>1 DEF KnownGoes, QuietGoes
  <2> QED
    BY <2>1, KnownWhenOneGoes
<1>6. Kept'
  BY <1>1 DEF Inv, Kept, QuietGoes
<1>7. Paused'
  <2>1. job'["manage"].at = "committing" => ~HasUnknown(queue)
    <3>1. CASE a = "manage"
      BY <3>1 DEF QuietGoes
    <3>2. CASE a # "manage"
      <4>1. job'["manage"].at = job["manage"].at
        BY <3>2, Names DEF Goes, OthersStay, Stays
      <4> QED
        BY <4>1 DEF Inv, Paused
    <3> QED
      BY <3>1, <3>2
  <2> QED
    BY <2>1 DEF Inv, Paused, QuietGoes
<1> QED
  BY <1>1, <1>2, <1>3, <1>4, <1>5, <1>6, <1>7 DEF Inv

\* Each kind of actor goes on to a stage of its own.
FitsStage(a) ==
    /\ a \in Messages => /\ job'[a].at # "committing"
                         /\ job'[a].at = "routing" => job'[a].how = "steer"
    /\ a = "drain" => /\ job'[a].at \in {"sending", "issued", "settling"}
                      /\ job'[a].at = "settling" => job'[a].outcome # None
    /\ a = "stop" => job'[a].at \in {"issued", "settling"}
    /\ \A m \in Messages : status'[m] = "unsent" <=> status[m] = "unsent"

\* Then the jobs fit their stages.
LEMMA JobsFitWhenOneGoes ==
    ASSUME Inv, NEW a \in Actors, Goes(a), FitsStage(a)
    PROVE  JobsFit'
<1>1. \A b \in Actors \ {a} : Stays(b)
  BY DEF Goes, OthersStay
<1>2. job[a].at \notin Resting /\ job'[a].at \notin Resting
  BY DEF Goes, AtWork, Running, Resting
<1>3. job'[a].msg = job[a].msg /\ job'[a].how = job[a].how
  BY DEF Goes
<1>4. \A m \in Messages : SubmissionFits(m)'
  <2> SUFFICES ASSUME NEW m \in Messages PROVE SubmissionFits(m)'
    OBVIOUS
  <2>1. SubmissionFits(m)
    BY DEF Inv, JobsFit
  <2>2. CASE m = a
    BY <1>2, <1>3, <2>1, <2>2 DEF SubmissionFits, FitsStage, Resting
  <2>3. CASE m # a
    BY <1>1, <2>1, <2>3, Names DEF SubmissionFits, FitsStage, Stays
  <2> QED
    BY <2>2, <2>3
<1>5. DrainFits'
  <2>1. CASE a = "drain"
    BY <1>2, <1>3, <2>1 DEF Inv, JobsFit, DrainFits, FitsStage, Resting
  <2>2. CASE a # "drain"
    BY <1>1, <2>2, Names DEF Inv, JobsFit, DrainFits, Stays
  <2> QED
    BY <2>1, <2>2
<1>6. ManageFits'
  <2>1. CASE a = "manage"
    BY <1>2, <1>3, <2>1 DEF Inv, JobsFit, ManageFits, Resting
  <2>2. CASE a # "manage"
    BY <1>1, <2>2, Names DEF Inv, JobsFit, ManageFits, Stays
  <2> QED
    BY <2>1, <2>2
<1>7. StopFits'
  BY <1>1, Names DEF Inv, JobsFit, StopFits, Stays, FitsStage
<1> QED
  BY <1>4, <1>5, <1>6, <1>7 DEF JobsFit

\* The jobs after a step of one actor have their shape.
LEMMA MovedTypes ==
    ASSUME TypeOK, NEW a \in Actors, NEW s \in Stages
    PROVE  /\ Moved(a, s) \in [Actors -> Jobs]
           /\ Moved(a, s)[a].at = s
           /\ Moved(a, s)[a].msg = job[a].msg /\ Moved(a, s)[a].how = job[a].how
           /\ Moved(a, s)[a].via = job[a].via /\ Moved(a, s)[a].outcome = job[a].outcome
           /\ \A b \in Actors \ {a} : Moved(a, s)[b] = job[b]
<1> DEFINE moved == [job[a] EXCEPT !.at = s]
<1>1. job \in [Actors -> Jobs] /\ job[a] \in Jobs
  BY DEF TypeOK
<1>2. /\ moved \in Jobs /\ moved.at = s /\ moved.msg = job[a].msg /\ moved.how = job[a].how
      /\ moved.via = job[a].via /\ moved.outcome = job[a].outcome
  BY <1>1 DEF Jobs
<1>3. Moved(a, s) = [job EXCEPT ![a] = moved]
  BY <1>1 DEF Moved
<1> HIDE DEF moved
<1> QED
  BY <1>1, <1>2, <1>3

\* An operation that fails keeps what it carries.
LEMMA FailedTypes ==
    ASSUME TypeOK, NEW a \in Actors, Failed(a)
    PROVE  /\ job' \in [Actors -> Jobs] /\ job'[a].at = "settling"
           /\ job'[a].msg = job[a].msg /\ job'[a].how = job[a].how
           /\ job'[a].outcome = IF a = "drain" THEN "refused" ELSE None
           /\ \A b \in Actors \ {a} : job'[b] = job[b]
           /\ status' \in [Messages -> {"unsent", "pending", "accepted", "queued", "failed", "removed"}]
           /\ \A m \in Messages : status'[m] = status[m] \/ (m = a /\ status'[m] = "failed")
<1>1. job \in [Actors -> Jobs]
  BY DEF TypeOK
<1>2. /\ job' \in [Actors -> Jobs] /\ job'[a].at = "settling"
      /\ job'[a].msg = job[a].msg /\ job'[a].how = job[a].how
      /\ job'[a].outcome = IF a = "drain" THEN "refused" ELSE None
      /\ \A b \in Actors \ {a} : job'[b] = job[b]
  <2> DEFINE moved == [job[a] EXCEPT !.at = "settling",
                                     !.outcome = IF a = "drain" THEN "refused" ELSE None]
  <2>1. job[a] \in Jobs
    BY <1>1
  <2>2. /\ moved \in Jobs /\ moved.at = "settling"
        /\ moved.msg = job[a].msg /\ moved.how = job[a].how
        /\ moved.outcome = IF a = "drain" THEN "refused" ELSE None
    BY <2>1 DEF Jobs, Stages, AllOutcomes
  <2>3. job' = [job EXCEPT ![a] = moved]
    BY <1>1 DEF Failed
  <2> HIDE DEF moved
  <2> QED
    BY <1>1, <2>2, <2>3
<1>3. status \in [Messages -> {"unsent", "pending", "accepted", "queued", "failed", "removed"}]
  BY DEF TypeOK
<1>4. /\ status' \in [Messages -> {"unsent", "pending", "accepted", "queued", "failed", "removed"}]
      /\ \A m \in Messages : status'[m] = status[m] \/ (m = a /\ status'[m] = "failed")
  BY <1>3 DEF Failed
<1> QED
  BY <1>2, <1>4

\* What the events show stays taken.
LEMMA ShownEventsStay ==
    ASSUME Inv, took' = took, events' = events
    PROVE  ShownEventsTaken'
<1>1. \A i \in DOMAIN events : events[i].kind = "user" => Taken(events[i].msg)
  BY DEF Inv, Known
<1> QED
  BY <1>1 DEF ShownEventsTaken, Taken

\* What the head's own step changes of the types.
LEMMA HeadTypes ==
    ASSUME TypeOK, UNCHANGED <<gen, lane, unresolved, queue, due, host, took, joined>>,
           job' \in [Actors -> Jobs],
           active' \in [op : Actors \cup {None},
                        native : {"not_issued", "uncertain", "accepted", "refused"}],
           status' \in [Messages -> {"unsent", "pending", "accepted", "queued", "failed", "removed"}],
           rt' \in RuntimeStates, events' \in Seq(Events), seen' \in BOOLEAN,
           budget' \in [Bounded -> Nat]
    PROVE  TypeOK'
  BY DEF TypeOK, RuntimeStates

\* The head is admitted or refused.
LEMMA BeginKeeps ==
    ASSUME Inv, NEW a \in Actors, Begin(a)
    PROVE  Inv'
<1>1. /\ AtHead(a) /\ job[a].at = "waiting" /\ TypeOK
      /\ UNCHANGED <<gen, lane, unresolved, queue, due, host, rt, took, events, seen, joined, budget>>
  BY DEF Begin, live, Inv
<1>2. \/ Admitted(a) /\ active' = [op |-> a, native |-> "not_issued"]
         /\ GoTo(a, FirstStage(a)) /\ UNCHANGED status
      \/ Failed(a) /\ active' = active
  BY DEF Begin
<1>3. ShownEventsTaken' /\ SameRequests
  BY <1>1, ShownEventsStay DEF SameRequests
<1>4. rt' \in RuntimeStates /\ events' \in Seq(Events) /\ seen' \in BOOLEAN /\ budget' \in [Bounded -> Nat]
      /\ active \in [op : Actors \cup {None}, native : {"not_issued", "uncertain", "accepted", "refused"}]
      /\ status \in [Messages -> {"unsent", "pending", "accepted", "queued", "failed", "removed"}]
  BY <1>1 DEF TypeOK, RuntimeStates
<1>5. CASE Admitted(a) /\ active' = [op |-> a, native |-> "not_issued"]
           /\ GoTo(a, FirstStage(a)) /\ UNCHANGED status
  <2>1. FirstStage(a) \in {"sending", "issued", "preparing"}
        /\ (FirstStage(a) = "sending" => a = "drain") /\ (FirstStage(a) = "issued" => a = "stop")
        /\ (a = "drain" => FirstStage(a) = "sending") /\ (a = "stop" => FirstStage(a) = "issued")
    BY DEF FirstStage
  <2>2. FirstStage(a) \in Stages
    BY <2>1 DEF Stages
  <2>3. /\ job' \in [Actors -> Jobs] /\ job'[a].at = FirstStage(a)
        /\ job'[a].msg = job[a].msg /\ job'[a].how = job[a].how
        /\ \A b \in Actors \ {a} : job'[b] = job[b]
    BY <1>1, <1>5, <2>2, MovedTypes DEF GoTo
  <2>4. Goes(a)
    BY <1>1, <2>1, <2>3 DEF Goes, OthersStay, Stays, AtWork, Running
  <2>5. GoesRightly(a)
    BY <1>1, <1>5, <2>1, <2>3 DEF GoesRightly, Admitted, Running
  <2>6. JobsFit'
    <3>1. FitsStage(a)
      BY <1>5, <2>1, <2>3, Names DEF FitsStage
    <3> QED
      BY <2>4, <3>1, JobsFitWhenOneGoes
  <2>7. TypeOK'
    BY <1>1, <1>4, <1>5, <2>3, HeadTypes
  <2>8. QuietGoes(a)
    BY <1>1, <1>3, <1>5, <2>1, <2>3, Names DEF QuietGoes, DefaultInFlight, Steering, Admitted
  <2> QED
    BY <2>4, <2>5, <2>6, <2>7, <2>8, QuietGoesKeeps
<1>6. CASE Failed(a) /\ active' = active
  <2>1. /\ job' \in [Actors -> Jobs] /\ job'[a].at = "settling"
        /\ job'[a].msg = job[a].msg /\ job'[a].how = job[a].how
        /\ job'[a].outcome = IF a = "drain" THEN "refused" ELSE None
        /\ \A b \in Actors \ {a} : job'[b] = job[b]
        /\ status' \in [Messages -> {"unsent", "pending", "accepted", "queued", "failed", "removed"}]
        /\ \A m \in Messages : status'[m] = status[m] \/ (m = a /\ status'[m] = "failed")
    BY <1>1, <1>6, FailedTypes
  <2>2. Goes(a) /\ GoesRightly(a)
    BY <1>1, <1>6, <2>1 DEF Goes, GoesRightly, OthersStay, Stays, AtWork, Running
  <2>3. JobsFit'
    <3>1. \A m \in Messages : m = a => status[m] # "unsent"
      BY <1>1 DEF Inv, JobsFit, SubmissionFits
    <3>2. FitsStage(a)
      BY <2>1, <3>1 DEF FitsStage, None
    <3> QED
      BY <2>2, <3>2, JobsFitWhenOneGoes
  <2>4. TypeOK'
    BY <1>1, <1>4, <1>6, <2>1, HeadTypes
  <2>5. QuietGoes(a)
    BY <1>1, <1>3, <1>6, <2>1, Names DEF QuietGoes, DefaultInFlight, Steering
  <2> QED
    BY <2>2, <2>3, <2>4, <2>5, QuietGoesKeeps
<1> QED
  BY <1>2, <1>5, <1>6

\* A queue action or a Stop goes on and changes only its stage.
MoveKeepsRest(a, s) ==
    /\ AtHead(a) /\ job[a].at \in Running /\ GoTo(a, s)
    /\ UNCHANGED <<owner, queue, due, host, told>>
    /\ rt' \in RuntimeStates /\ SameRequests
    /\ events' \in Seq(Events) /\ seen' \in BOOLEAN /\ ShownEventsTaken'
    /\ budget' \in [Bounded -> Nat]

\* Such a move keeps the invariant.
LEMMA MoveKeeps ==
    ASSUME Inv, NEW a \in {"manage", "stop"}, NEW s \in {"settling", "committing"},
           MoveKeepsRest(a, s),
           s = "committing" => a = "manage" /\ job[a].at = "preparing" /\ ~HasUnknown(queue)
    PROVE  Inv'
<1> USE DEF owner, told, MoveKeepsRest
<1>1. a \in Actors /\ a \notin Messages /\ TypeOK
  BY Names DEF Inv
<1>2. s \in Stages /\ s \in AtWork
  BY DEF Stages, AtWork, Running
<1>3. /\ job' \in [Actors -> Jobs] /\ job'[a].at = s
      /\ job'[a].msg = job[a].msg /\ job'[a].how = job[a].how
      /\ \A b \in Actors \ {a} : job'[b] = job[b]
  BY <1>1, <1>2, MovedTypes DEF GoTo
<1>4. Goes(a) /\ GoesRightly(a)
  BY <1>1, <1>2, <1>3 DEF Goes, GoesRightly, OthersStay, Stays
<1>5. JobsFit'
  <2>1. FitsStage(a)
    BY <1>1, <1>3 DEF FitsStage
  <2> QED
    BY <1>1, <1>4, <2>1, JobsFitWhenOneGoes
<1>6. TypeOK'
  <2>1. took' = took /\ UNCHANGED <<gen, lane, unresolved, queue, due, host, joined>>
    BY DEF SameRequests
  <2>2. active' \in [op : Actors \cup {None}, native : {"not_issued", "uncertain", "accepted", "refused"}]
        /\ status' \in [Messages -> {"unsent", "pending", "accepted", "queued", "failed", "removed"}]
    BY <1>1 DEF TypeOK
  <2> QED
    BY <1>1, <1>3, <2>1, <2>2, HeadTypes
<1>7. QuietGoes(a)
  BY <1>1, <1>3 DEF QuietGoes, DefaultInFlight, Steering
<1> QED
  BY <1>1, <1>4, <1>5, <1>6, <1>7, QuietGoesKeeps

\* A queue action that is checked or fails changes nothing else.
LEMMA ManageMovesKeep ==
    ASSUME Inv, ResumeChecks \/ ManageFails
    PROVE  Inv'
<1>1. TypeOK /\ rt \in RuntimeStates /\ events \in Seq(Events) /\ seen \in BOOLEAN
      /\ budget \in [Bounded -> Nat]
  BY DEF Inv, TypeOK, RuntimeStates
<1>2. CASE ResumeChecks
  <2>1. /\ AtHead("manage") /\ job["manage"].at = "preparing" /\ ~HasUnknown(queue)
        /\ GoTo("manage", "committing")
        /\ UNCHANGED <<owner, queue, due, host, live, told, budget>>
    BY <1>2 DEF ResumeChecks, Pressed, MayResume
  <2>2. ShownEventsTaken'
    BY <2>1, ShownEventsStay DEF live
  <2>3. MoveKeepsRest("manage", "committing")
    BY <1>1, <2>1, <2>2 DEF MoveKeepsRest, Running, live, SameRequests
  <2> QED
    BY <2>1, <2>3, MoveKeeps
<1>3. CASE ManageFails
  <2>1. /\ AtHead("manage") /\ job["manage"].at \in {"preparing", "committing"}
        /\ GoTo("manage", "settling")
        /\ UNCHANGED <<owner, queue, due, host, live, told>>
        /\ Spend("failures") \/ budget' = budget
    BY <1>3 DEF ManageFails
  <2>2. ShownEventsTaken'
    BY <2>1, ShownEventsStay DEF live
  <2>3. budget' \in [Bounded -> Nat]
    BY <1>1, <2>1, BudgetIsKept DEF Bounded
  <2>4. MoveKeepsRest("manage", "settling")
    BY <1>1, <2>1, <2>2, <2>3 DEF MoveKeepsRest, Running, live, SameRequests
  <2> QED
    BY <2>4, MoveKeeps
<1> QED
  BY <1>2, <1>3

\* A Stop that ends a turn or fails changes nothing of the host but its stage.
LEMMA StopMovesKeep ==
    ASSUME Inv, StopTurn \/ StopFails
    PROVE  Inv'
<1>1. TypeOK /\ rt \in RuntimeStates /\ events \in Seq(Events) /\ seen \in BOOLEAN
      /\ budget \in [Bounded -> Nat]
  BY DEF Inv, TypeOK, RuntimeStates
<1>2. CASE StopFails
  <2>1. /\ AtHead("stop") /\ job["stop"].at = "issued" /\ GoTo("stop", "settling")
        /\ UNCHANGED <<owner, queue, due, host, live, told>>
        /\ Spend("failures")
    BY <1>2 DEF StopFails
  <2>2. ShownEventsTaken'
    BY <2>1, ShownEventsStay DEF live
  <2>3. budget' \in [Bounded -> Nat]
    BY <1>1, <2>1, BudgetIsKept DEF Bounded
  <2>4. MoveKeepsRest("stop", "settling")
    BY <1>1, <2>1, <2>2, <2>3 DEF MoveKeepsRest, Running, live, SameRequests
  <2> QED
    BY <2>4, MoveKeeps
<1>3. CASE StopTurn
  <2>1. /\ AtHead("stop") /\ job["stop"].at = "issued" /\ GoTo("stop", "settling")
        /\ UNCHANGED <<owner, queue, due, host, took, told, budget>>
        /\ TurnOver("interrupted") \/ UNCHANGED <<rt, events, seen>>
    BY <1>3 DEF StopTurn
  <2>2. /\ rt' \in RuntimeStates /\ rt'.open = rt.open /\ events' \in Seq(Events) /\ seen' \in BOOLEAN
        /\ \A i \in DOMAIN events' : events'[i].kind = "user" =>
              i \in DOMAIN events /\ events'[i] = events[i]
    <3>1. CASE UNCHANGED <<rt, events, seen>>
      BY <1>1, <3>1
    <3>2. CASE TurnOver("interrupted")
      <4> DEFINE over == [rt EXCEPT !.turn = FALSE, !.asking = FALSE]
      <4> DEFINE ended == <<[kind |-> "ended", outcome |-> "interrupted"]>>
      <4>1. over \in RuntimeStates /\ over.open = rt.open
        BY <1>1 DEF RuntimeStates
      <4>2. [kind |-> "ended", outcome |-> "interrupted"] \in Events
        BY DEF Events, AllTurnEnds
      <4>3. ended \in Seq(Events) /\ \A j \in DOMAIN ended : ended[j].kind # "user"
        BY <4>2
      <4>4. Reports(over, ended)
        BY <3>2 DEF TurnOver
      <4> HIDE DEF over, ended
      <4>5. /\ rt' = over /\ events' \in Seq(Events) /\ seen' = seen
            /\ \A i \in DOMAIN events' :
                  \/ i \in DOMAIN events /\ events'[i] = events[i]
                  \/ events'[i].kind = "state"
                  \/ \E j \in DOMAIN ended : events'[i] = ended[j]
        BY <1>1, <4>1, <4>3, <4>4, ReportFacts
      <4>6. \A i \in DOMAIN events' : events'[i].kind = "user" =>
                i \in DOMAIN events /\ events'[i] = events[i]
        BY <4>3, <4>5
      <4> QED
        BY <1>1, <4>1, <4>5, <4>6
    <3> QED
      BY <2>1, <3>1, <3>2
  <2>3. ShownEventsTaken'
    <3>1. \A i \in DOMAIN events : events[i].kind = "user" => Taken(events[i].msg)
      BY DEF Inv, Known
    <3> QED
      BY <2>1, <2>2, <3>1 DEF ShownEventsTaken, Taken
  <2>4. MoveKeepsRest("stop", "settling")
    BY <1>1, <2>1, <2>2, <2>3 DEF MoveKeepsRest, Running, SameRequests
  <2> QED
    BY <2>4, MoveKeeps
<1> QED
  BY <1>2, <1>3

\* A request is issued for a message that the runtime does not have.
LEMMA IssueKeeps ==
    ASSUME Inv, NEW a \in Actors \ {"stop"}, Issue(a)
    PROVE  Inv'
<1> DEFINE m == job[a].msg
<1> DEFINE request == Request(a)
<1>1. /\ AtHead(a) /\ job[a].at = "sending" /\ TypeOK
      /\ active' = [active EXCEPT !.native = "uncertain"]
      /\ rt' = [rt EXCEPT !.open = @ \cup {request}]
      /\ GoTo(a, "issued")
      /\ UNCHANGED <<gen, lane, unresolved, queue, due, host, took, events, seen, status, joined, budget>>
  BY DEF Issue, told, Inv
<1>2. /\ job' \in [Actors -> Jobs] /\ job'[a].at = "issued"
      /\ job'[a].msg = job[a].msg /\ job'[a].how = job[a].how /\ job'[a].via = job[a].via
      /\ \A b \in Actors \ {a} : job'[b] = job[b]
  BY <1>1, MovedTypes DEF GoTo, Stages
<1>3. active \in [op : Actors \cup {None}, native : {"not_issued", "uncertain", "accepted", "refused"}]
      /\ rt \in RuntimeStates /\ job[a] \in Jobs
  BY <1>1 DEF TypeOK, RuntimeStates
<1>4. active'.op = active.op /\ active'.native = "uncertain"
      /\ active' \in [op : Actors \cup {None}, native : {"not_issued", "uncertain", "accepted", "refused"}]
  BY <1>1, <1>3
<1>5. Goes(a) /\ GoesRightly(a)
  BY <1>1, <1>2, <1>4 DEF Goes, GoesRightly, OthersStay, Stays, AtWork, Running
<1>6. m \in Messages
  <2>1. a \in Messages \/ a = "drain" \/ a = "manage"
    BY Names
  <2> QED
    BY <1>1, <2>1 DEF Inv, JobsFit, SubmissionFits, DrainFits, ManageFits
<1>7. request \in Requests /\ request.msg = m
  BY <1>3, <1>6 DEF Request, Requests, Jobs
<1>8. ~Out(m)
  <2>1. CASE a \in Messages
    <3>1. m = a
      BY <1>1, <2>1 DEF Inv, JobsFit, SubmissionFits
    <3> QED
      BY <1>1, <2>1, <3>1 DEF Inv, Unsent, Early
  <2>2. CASE a = "drain"
    BY <1>1, <2>2 DEF Inv, Unsent
  <2>3. CASE a = "manage"
    BY <1>1, <2>3 DEF Inv, Unsent
  <2> QED
    BY <2>1, <2>2, <2>3, Names
<1> HIDE DEF m, request
<1>9. rt' \in RuntimeStates /\ rt'.open = rt.open \cup {request}
  BY <1>1, <1>3, <1>7 DEF RuntimeStates
<1>10. /\ \A n \in Messages : Taken(n)' <=> Taken(n)
       /\ \A n \in Messages \ {m} : (OpenFor(n)' <=> OpenFor(n)) /\ (Out(n)' <=> Out(n))
       /\ ~Taken(m) /\ ~OpenFor(m)
  BY <1>1, <1>7, <1>8, <1>9 DEF Taken, OpenFor, Out
<1>11. JobsFit'
  <2>1. FitsStage(a)
    BY <1>1, <1>2 DEF FitsStage
  <2> QED
    BY <1>5, <2>1, JobsFitWhenOneGoes
<1>12. TypeOK'
  <2>1. /\ UNCHANGED <<gen, lane, unresolved, queue, due, host, took, joined>>
        /\ status' \in [Messages -> {"unsent", "pending", "accepted", "queued", "failed", "removed"}]
        /\ events' \in Seq(Events) /\ seen' \in BOOLEAN /\ budget' \in [Bounded -> Nat]
    BY <1>1 DEF TypeOK
  <2> QED
    BY <1>1, <1>2, <1>4, <1>9, <2>1, HeadTypes
<1>13. Lanes'
  BY <1>5, LanesWhenOneGoes DEF Inv
<1>14. QueueFits'
  <2>1. QueueCalm
    BY <1>1, <1>2, <1>5, QueueCalmWhenOneGoes DEF DefaultInFlight, Steering
  <2> QED
    BY <1>1, <2>1, QueueFitsInCalm DEF Inv, SendingFits, QueueFits
<1>15. Requested'
  <2>1. \A r, t \in rt'.open : r.msg = t.msg => r = t
    BY <1>7, <1>9, <1>10 DEF OpenFor, Inv, Requested
  <2>2. \A n \in Messages : OpenFor(n)' => ~Taken(n)'
    BY <1>10 DEF Inv, Requested
  <2> QED
    BY <1>1, <2>1, <2>2 DEF Inv, Requested
<1>16. Known'
  <2>1. ShownEventsTaken'
    BY <1>1, ShownEventsStay
  <2>2. Request(a)' = request
    BY <1>2 DEF Request, request
  <2>3. KnownGoes(a)
    BY <1>2, <1>4, <1>9, <1>10, <2>1, <2>2 DEF KnownGoes
  <2> QED
    BY <1>5, <1>11, <2>3, KnownWhenOneGoes
<1>17. Unsent'
  <2>1. /\ \A b \in Actors \ {a} : job[b].at \notin AtWork
        /\ Blocked => unresolved = "unnamed" /\ Blocked'
        /\ active.op = a
    BY <1>1, <1>5, HeadIsAlone, BlockedWhenOneGoes DEF Inv, Running
  <2>2. unresolved = None
    BY <2>1, Names DEF Inv, Lanes
  <2>3. ~Blocked
    BY <1>5, <2>2, BlockedWhenOneGoes
  <2>4. \A n \in Messages : job'[n].at \in Early => ~Out(n)'
    <3> SUFFICES ASSUME NEW n \in Messages, job'[n].at \in Early PROVE ~Out(n)'
      OBVIOUS
    <3>1. n # a
      BY <1>2 DEF Early
    <3>2. job[n].at \in Early /\ ~Out(n)
      BY <1>2, <3>1, Names DEF Inv, Unsent
    <3>3. n # m
      <4>1. CASE a \in Messages
        BY <1>1, <3>1, <4>1 DEF Inv, JobsFit, SubmissionFits, m
      <4>2. CASE a = "drain"
        <5>1. job[m].at \in Returned
          BY <1>1, <4>2 DEF Inv, QueueFits, m
        <5> QED
          BY <3>2, <5>1 DEF Returned, Early
      <4>3. CASE a = "manage"
        <5>1. job[m].at \in Returned
          BY <1>1, <4>3 DEF Inv, QueueFits, Steering, m
        <5> QED
          BY <3>2, <5>1 DEF Returned, Early
      <4> QED
        BY <4>1, <4>2, <4>3, Names
    <3> QED
      BY <1>10, <3>2, <3>3
  <2>5. job'["manage"].at \notin {"routing", "sending"}
    BY <1>2, <2>1, Names DEF AtWork, Running
  <2>6. job'["drain"].at \notin {"sending", "settling"}
    BY <1>2, <2>1, Names DEF AtWork, Running
  <2>7. job'["drain"].at \in Pending => ~Out(job["drain"].msg)'
    <3> SUFFICES ASSUME job'["drain"].at \in Pending PROVE ~Out(job["drain"].msg)'
      OBVIOUS
    <3> DEFINE d == job["drain"].msg
    <3>1. a # "drain" /\ job'["drain"] = job["drain"]
      BY <1>2, <2>1, Names DEF Pending, AtWork, Running
    <3>2. d \in Messages /\ ~Out(d)
      BY <2>3, <3>1 DEF Inv, Unsent, JobsFit, DrainFits, Pending
    <3>3. d # m
      <4>1. CASE a \in Messages
        <5>1. m = a
          BY <1>1, <4>1 DEF Inv, JobsFit, SubmissionFits, m
        <5>2. job[d].at \in Returned
          BY <3>1 DEF Inv, QueueFits, Pending
        <5> QED
          BY <1>1, <5>1, <5>2 DEF Returned
      <4>2. CASE a = "manage"
        BY <1>1, <3>1, <4>2 DEF Inv, QueueFits, Steering, m, Pending
      <4> QED
        BY <3>1, <4>1, <4>2, Names
    <3>4. ~Out(d)'
      <4>1. \A n \in Messages \ {m} : ~Out(n) /\ n = job'["drain"].msg => ~Out(job["drain"].msg)'
        BY <1>10, <1>9, <1>7, <1>1 DEF Out, Taken, OpenFor
      <4> QED
        BY <3>1, <3>2, <3>3, <4>1
    <3> QED
      BY <3>4
  <2>8. \A n \in Messages : Waiting(queue', n) => ~Out(n)' \/ Blocked'
    <3> SUFFICES ASSUME NEW n \in Messages, Waiting(queue, n) PROVE ~Out(n)'
      BY <1>1
    <3>1. ~Out(n)
      BY <2>3 DEF Inv, Unsent, Waiting
    <3>2. n # m
      <4>0. /\ \A s : Has(queue, n, s) => InQueue(queue, n)
            /\ \A s, t : Has(queue, n, s) /\ Has(queue, n, t) => s = t
        BY DEF Has, InQueue, Inv, QueueFits, GoodQueue, Single
      <4>1. CASE a \in Messages
        <5>1. m = a
          BY <1>1, <4>1 DEF Inv, JobsFit, SubmissionFits, m
        <5>2. job[n].at \in Returned
          BY <4>0 DEF Inv, QueueFits, Waiting
        <5> QED
          BY <1>1, <5>1, <5>2 DEF Returned
      <4>2. CASE a = "drain"
        <5>1. \A s \in EntryStates : Has(queue, m, s) => s = "sending"
          BY <1>1, <4>2 DEF Inv, QueueFits, m
        <5> QED
          BY <5>1 DEF Waiting, EntryStates
      <4>3. CASE a = "manage"
        <5>1. \A s \in EntryStates : Has(queue, m, s) => s = "steering"
          BY <1>1, <4>3 DEF Inv, QueueFits, Steering, m
        <5> QED
          BY <5>1 DEF Waiting, EntryStates
      <4> QED
        BY <4>1, <4>2, <4>3, Names
    <3> QED
      BY <1>10, <3>1, <3>2
  <2> QED
    BY <2>4, <2>5, <2>6, <2>7, <2>8 DEF Unsent, Waiting
<1>18. Kept'
  BY <1>1, <1>10 DEF Inv, Kept
<1>19. Paused'
  <2>1. job'["manage"].at = "committing" => job["manage"].at = "committing"
    BY <1>2, Names
  <2> QED
    BY <1>1, <2>1 DEF Inv, Paused
<1> QED
  BY <1>11, <1>12, <1>13, <1>14, <1>15, <1>16, <1>17, <1>18, <1>19 DEF Inv

-----------------------------------------------------------------------------
(* The head changes one entry *)

\* The queue changes by at most one entry, to a state that its message may have.
OneEntryChanges(m) ==
    /\ GoodQueue(queue') /\ Others(queue, queue', m) /\ SendingFits
    /\ \A s \in EntryStates : Has(queue', m, s) => Has(queue, m, s) \/ AllowedEntry(m, s)
    /\ Waiting(queue', m) => Waiting(queue, m) \/ ~Out(m)' \/ Blocked'
    /\ PausedWhenUnknown(queue')

\* A message told to be queued is in the queue or taken.
ToldRightly(m) ==
    /\ \A n \in Messages \ {m} : status'[n] = "queued" => status[n] = "queued"
    /\ status'[m] = "queued" => InQueue(queue', m) \/ Taken(m)

GoesWithEntry(a) ==
    /\ took' = took /\ Requested'
    /\ \A n \in Messages : Out(n)' => Out(n)
    /\ a \in Messages => (DefaultInFlight(a)' => DefaultInFlight(a))
    /\ a = "manage" => job'[a].at = "settling"
    /\ job[a].at \in {"issued", "committing"} => job'[a].at = "settling"
    /\ job'[a].at \notin {"issued", "committing"}
    /\ a = "drain" => /\ job'[a].at = "settling" /\ job[a].at # "waiting"
                      /\ job'[a].outcome \in {"refused", "busy"} =>
                            job[a].at = "sending" \/ ~Out(job[a].msg)'
    /\ KnownGoes(a)

\* The head goes on with a change of one entry.
LEMMA EntryChangeKeeps ==
    ASSUME Inv, NEW a \in Actors, NEW m \in Messages, Goes(a), GoesRightly(a),
           TypeOK', JobsFit', OneEntryChanges(m), ToldRightly(m), GoesWithEntry(a)
    PROVE  Inv'
<1>1. GoodQueue(queue) /\ GoodQueue(queue')
  BY DEF Inv, QueueFits, OneEntryChanges
<1>2. Lanes'
  BY LanesWhenOneGoes DEF Inv
<1>3. QueueFits'
  <2>1. a = "manage" => ~Steering'
    BY DEF GoesWithEntry, Steering
  <2>2. QueueCalm
    BY <2>1, QueueCalmWhenOneGoes DEF GoesWithEntry
  <2>3. \A n \in Messages, s \in EntryStates :
           Has(queue', n, s) => Has(queue, n, s) \/ AllowedEntry(n, s)
    BY DEF OneEntryChanges, Others
  <2> QED
    BY <1>1, <2>2, <2>3, QueueFitsInCalm DEF Inv, OneEntryChanges
<1>4. Unsent'
  <2>1. \A n \in Messages : Waiting(queue', n) => Waiting(queue, n) \/ ~Out(n)' \/ Blocked'
    <3> SUFFICES ASSUME NEW n \in Messages, Waiting(queue', n)
                 PROVE  Waiting(queue, n) \/ ~Out(n)' \/ Blocked'
      OBVIOUS
    <3>1. CASE n = m
      BY <3>1 DEF OneEntryChanges
    <3>2. CASE n # m
      BY <3>2 DEF OneEntryChanges, Others, Waiting, EntryStates
    <3> QED
      BY <3>1, <3>2
  <2>2. UnsentGoes(a)
    BY <2>1 DEF UnsentGoes, GoesWithEntry
  <2> QED
    BY <2>2, UnsentWhenOneGoes
<1>5. Known'
  BY KnownWhenOneGoes DEF GoesWithEntry
<1>6. Kept'
  <2>1. \A n \in Messages \ {m} : InQueue(queue', n) <=> InQueue(queue, n)
    BY <1>1, OthersFacts DEF OneEntryChanges
  <2>2. \A n \in Messages : Taken(n)' <=> Taken(n)
    BY DEF GoesWithEntry, Taken
  <2>3. ASSUME NEW n \in Messages, status'[n] = "queued"
        PROVE  InQueue(queue', n) \/ Taken(n)'
    <3>1. CASE n = m
      BY <2>2, <2>3, <3>1 DEF ToldRightly
    <3>2. CASE n # m
      BY <2>1, <2>2, <2>3, <3>2 DEF ToldRightly, Inv, Kept
    <3> QED
      BY <3>1, <3>2
  <2> QED
    BY <2>3 DEF Kept
<1>7. Paused'
  <2>1. job'["manage"].at # "committing"
    <3>1. CASE a = "manage"
      BY <3>1 DEF GoesWithEntry
    <3>2. CASE a # "manage"
      <4>1. job["manage"].at \notin AtWork
        BY <3>2, HeadIsAlone, Names DEF Inv, Goes
      <4> QED
        BY <3>2, <4>1, Names DEF Goes, OthersStay, Stays, AtWork, Running
    <3> QED
      BY <3>1, <3>2
  <2> QED
    BY <2>1 DEF Paused, OneEntryChanges
<1> QED
  BY <1>2, <1>3, <1>4, <1>5, <1>6, <1>7 DEF Inv, GoesWithEntry

\* Setting whether a send holds the queue changes nothing else of it.
LEMMA SendingFacts ==
    ASSUME NEW q, GoodQueue(q), NEW b \in BOOLEAN
    PROVE  LET p == [q EXCEPT !.sending = b]
           IN GoodQueue(p) /\ Alike(q, p) /\ p.entries = q.entries /\ p.pause = q.pause /\ p.sending = b
<1> DEFINE p == [q EXCEPT !.sending = b]
<1>1. q \in Queues
  BY DEF GoodQueue
<1>2. p \in Queues /\ p.entries = q.entries /\ p.pause = q.pause /\ p.sending = b
  BY <1>1 DEF Queues
<1> HIDE DEF p
<1>3. GoodQueue(p) /\ Alike(q, p)
  BY <1>2, SameEntries
<1> QED
  BY <1>2, <1>3 DEF p

\* What holds alike, holds alike with a third.
LEMMA AlikeOthers ==
    ASSUME NEW p, NEW q, NEW r, NEW m \in Messages
    PROVE  /\ Alike(p, q) /\ Others(q, r, m) => Others(p, r, m)
           /\ Others(p, q, m) /\ Alike(q, r) => Others(p, r, m)
           /\ Alike(p, q) /\ Alike(q, r) => Alike(p, r)
  BY DEF Alike, Others

Results == {"accepted", "received", "refused", "unknown", "busy"}

\* How a message that was not queued enters the queue as its send ends.
EntersQueue(p, m, outcome, queued) ==
    /\ GoodQueue(p) /\ Others(queue, p, m)
    /\ \A s \in EntryStates : Has(p, m, s) =>
          \/ outcome = "busy" /\ queued
          \/ outcome = "unknown" /\ s = "acceptance_unknown"
    /\ outcome = "unknown" \/ (outcome = "busy" /\ queued) => InQueue(p, m)
    /\ PausedWhenUnknown(queue) => PausedWhenUnknown(p)

\* An entry for an unknown result pauses the queue.
LEMMA UnknownEnters ==
    ASSUME NEW q, GoodQueue(q), NEW m \in Messages, ~InQueue(q, m)
    PROVE  LET p == FirstPause(EnqueueFirst(q, m, "acceptance_unknown"), "acceptance_unknown")
           IN /\ GoodQueue(p) /\ Others(q, p, m) /\ p.sending = q.sending /\ p.pause # None
              /\ \A s \in EntryStates : Has(p, m, s) => s = "acceptance_unknown"
              /\ InQueue(p, m)
<1> DEFINE w == EnqueueFirst(q, m, "acceptance_unknown")
<1> DEFINE p == FirstPause(w, "acceptance_unknown")
<1>1. /\ GoodQueue(w) /\ Others(q, w, m) /\ w.pause = q.pause /\ w.sending = q.sending
      /\ Has(w, m, "acceptance_unknown") /\ InQueue(w, m)
  BY EnqueueFirstFacts DEF EntryStates
<1> HIDE DEF w
<1>2. GoodQueue(p) /\ Alike(w, p) /\ p.sending = w.sending /\ p.pause # None
  BY <1>1, FirstPauseFacts DEF Pauses, None
<1> HIDE DEF p
<1>3. Others(q, p, m) /\ InQueue(p, m)
  BY <1>1, <1>2, AlikeOthers, AlikeFacts
<1>4. \A s, t : Has(w, m, s) /\ Has(w, m, t) => s = t
  BY <1>1, HasIsState
<1>5. \A s \in EntryStates : Has(p, m, s) => s = "acceptance_unknown"
  BY <1>1, <1>2, <1>4 DEF Alike
<1> QED
  BY <1>1, <1>2, <1>3, <1>5 DEF p, w

\* A schedule keeps the number of waiting drains in its bounds.
LEMMA ScheduleFacts ==
    ASSUME due \in 0..2, NEW n \in 0..2, Schedule(n)
    PROVE  due' \in 0..2
  BY DEF Schedule

\* A submission that held the queue enters it as busy or unknown, or not at all.
LEMMA AfterNewTurnFacts ==
    ASSUME TypeOK, GoodQueue(queue), NEW m \in Messages, ~InQueue(queue, m),
           NEW outcome \in Results, AfterNewTurn(m, outcome)
    PROVE  EntersQueue(queue', m, outcome, TRUE) /\ queue'.sending = FALSE /\ due' \in 0..2
<1> DEFINE q == [queue EXCEPT !.sending = FALSE]
<1> DEFINE ended == Once(job[m].ended)
<1>1. /\ GoodQueue(q) /\ Alike(queue, q) /\ q.entries = queue.entries
      /\ q.pause = queue.pause /\ q.sending = FALSE
  BY SendingFacts
<1>2. /\ ended \in 0..1 /\ ended + Once(q.entries # <<>>) \in 0..2 /\ due \in 0..2
  BY DEF Once, TypeOK
<1>3. /\ outcome = "accepted" => queue' = EndPauseIfEmpty(q) /\ Schedule(ended)
      /\ outcome = "busy" => queue' = EnqueueFirst(q, m, "queued") /\ Schedule(ended)
      /\ outcome = "unknown" =>
            /\ queue' = FirstPause(EnqueueFirst(q, m, "acceptance_unknown"), "acceptance_unknown")
            /\ due' = due
      /\ outcome = "received" =>
            queue' = EndPauseIfEmpty(PauseQueue(q, "accepted_then_failed")) /\ Schedule(ended)
      /\ outcome = "refused" =>
            queue' = EndPauseIfEmpty(q) /\ Schedule(ended + Once(q.entries # <<>>))
  BY DEF AfterNewTurn
<1> HIDE DEF q, ended
<1>4. ~InQueue(q, m) /\ (HasUnknown(q) <=> HasUnknown(queue))
  BY <1>1, AlikeFacts
<1>5. due' \in 0..2
  BY <1>2, <1>3, ScheduleFacts DEF Results
<1>6. \A p : GoodQueue(p) /\ Alike(q, p) =>
         Others(queue, p, m) /\ \A s \in EntryStates : ~Has(p, m, s)
  <2> SUFFICES ASSUME NEW p, GoodQueue(p), Alike(q, p)
               PROVE  Others(queue, p, m) /\ \A s \in EntryStates : ~Has(p, m, s)
    OBVIOUS
  <2>1. \A s \in EntryStates : ~Has(q, m, s)
    BY <1>1, <1>4, HasIsState
  <2>2. Alike(queue, p)
    BY <1>1, AlikeOthers
  <2> QED
    BY <2>1, <2>2 DEF Alike, Others
<1>7. PausedWhenUnknown(queue) => PausedWhenUnknown(q)
  BY <1>1, <1>4 DEF PausedWhenUnknown
<1>8. CASE outcome \in {"accepted", "refused"}
  <2>1. queue' = EndPauseIfEmpty(q)
    BY <1>3, <1>8
  <2>2. /\ GoodQueue(queue') /\ Alike(q, queue') /\ queue'.sending = FALSE
        /\ HasUnknown(queue') => queue'.pause = q.pause
    BY <1>1, <2>1, EndPauseFacts
  <2>3. HasUnknown(queue') <=> HasUnknown(q)
    BY <1>1, <2>2, AlikeFacts
  <2> QED
    BY <1>5, <1>6, <1>7, <1>8, <2>2, <2>3 DEF EntersQueue, PausedWhenUnknown
<1>9. CASE outcome = "received"
  <2> DEFINE w == PauseQueue(q, "accepted_then_failed")
  <2>1. queue' = EndPauseIfEmpty(w)
    BY <1>3, <1>9
  <2>2. /\ GoodQueue(w) /\ Alike(q, w) /\ w.sending = q.sending
        /\ PausedWhenUnknown(q) => PausedWhenUnknown(w)
    BY <1>1, PauseQueueFacts DEF Pauses, None
  <2> HIDE DEF w
  <2>3. /\ GoodQueue(queue') /\ Alike(w, queue') /\ queue'.sending = w.sending
        /\ HasUnknown(queue') => queue'.pause = w.pause
    BY <2>1, <2>2, EndPauseFacts
  <2>4. HasUnknown(queue') <=> HasUnknown(w)
    BY <2>2, <2>3, AlikeFacts
  <2>5. Alike(q, queue')
    BY <2>2, <2>3 DEF Alike
  <2> QED
    BY <1>1, <1>5, <1>6, <1>7, <1>9, <2>2, <2>3, <2>4, <2>5 DEF EntersQueue, PausedWhenUnknown
<1>10. CASE outcome = "unknown"
  <2>1. queue' = FirstPause(EnqueueFirst(q, m, "acceptance_unknown"), "acceptance_unknown")
    BY <1>3, <1>10
  <2>2. /\ GoodQueue(queue') /\ Others(q, queue', m) /\ queue'.sending = q.sending
        /\ queue'.pause # None
        /\ \A s \in EntryStates : Has(queue', m, s) => s = "acceptance_unknown"
        /\ InQueue(queue', m)
    BY <1>1, <1>4, <2>1, UnknownEnters
  <2>3. Others(queue, queue', m)
    BY <1>1, <2>2, AlikeOthers
  <2> QED
    BY <1>1, <1>5, <1>10, <2>2, <2>3 DEF EntersQueue, PausedWhenUnknown
<1>11. CASE outcome = "busy"
  <2>1. queue' = EnqueueFirst(q, m, "queued")
    BY <1>3, <1>11
  <2>2. /\ GoodQueue(queue') /\ Others(q, queue', m) /\ queue'.pause = q.pause
        /\ queue'.sending = q.sending /\ Has(queue', m, "queued") /\ InQueue(queue', m)
    BY <1>1, <1>4, <2>1, EnqueueFirstFacts DEF EntryStates
  <2>3. Others(queue, queue', m)
    BY <1>1, <2>2, AlikeOthers
  <2>4. \A s \in EntryStates : Has(queue', m, s) => s = "queued"
    BY <2>2, HasIsState
  <2>5. HasUnknown(queue') => HasUnknown(q)
    <3>1. ~Has(queue', m, "acceptance_unknown")
      BY <2>4 DEF EntryStates
    <3> QED
      BY <1>1, <2>2, <3>1, OthersFacts
  <2> QED
    BY <1>1, <1>5, <1>7, <1>11, <2>2, <2>3, <2>5 DEF EntersQueue, PausedWhenUnknown
<1> QED
  BY <1>8, <1>9, <1>10, <1>11 DEF Results

\* A composer steer enters the queue as unknown, or not at all.
LEMMA AfterSteerFacts ==
    ASSUME TypeOK, GoodQueue(queue), NEW m \in Messages, ~InQueue(queue, m),
           NEW outcome \in Results, AfterSteer(m, outcome)
    PROVE  EntersQueue(queue', m, outcome, FALSE) /\ queue'.sending = queue.sending /\ due' \in 0..2
<1>1. due' \in 0..2
  BY DEF AfterSteer, TypeOK
<1>2. \A s \in EntryStates : ~Has(queue, m, s)
  BY HasIsState
<1>3. CASE outcome = "unknown"
  <2>1. queue' = FirstPause(EnqueueFirst(queue, m, "acceptance_unknown"), "acceptance_unknown")
    BY <1>3 DEF AfterSteer
  <2>2. /\ GoodQueue(queue') /\ Others(queue, queue', m) /\ queue'.sending = queue.sending
        /\ queue'.pause # None
        /\ \A s \in EntryStates : Has(queue', m, s) => s = "acceptance_unknown"
        /\ InQueue(queue', m)
    BY <2>1, UnknownEnters
  <2> QED
    BY <1>1, <1>3, <2>2 DEF EntersQueue, PausedWhenUnknown
<1>4. CASE outcome = "accepted"
  <2>1. queue' = queue
    BY <1>4 DEF AfterSteer
  <2> QED
    BY <1>1, <1>2, <1>4, <2>1 DEF EntersQueue, Others
<1>5. CASE outcome \in {"received", "busy", "refused"}
  <2>1. PICK c \in {"accepted_then_failed", "steer_failed"} : queue' = PauseQueue(queue, c)
    BY <1>5 DEF AfterSteer
  <2>2. /\ GoodQueue(queue') /\ Alike(queue, queue') /\ queue'.sending = queue.sending
        /\ PausedWhenUnknown(queue) => PausedWhenUnknown(queue')
    BY <2>1, PauseQueueFacts DEF Pauses, None
  <2>3. Others(queue, queue', m) /\ \A s \in EntryStates : ~Has(queue', m, s)
    BY <1>2, <2>2 DEF Alike, Others
  <2> QED
    BY <1>1, <1>5, <2>2, <2>3 DEF EntersQueue
<1> QED
  BY <1>3, <1>4, <1>5 DEF Results

\* A steered entry leaves the queue, waits again, or is kept as unknown.
LEMMA AfterSteerEntryFacts ==
    ASSUME TypeOK, GoodQueue(queue), NEW m \in Messages,
           NEW outcome \in Results, AfterSteerEntry(m, outcome)
    PROVE  /\ GoodQueue(queue') /\ Others(queue, queue', m)
           /\ queue'.sending = queue.sending /\ due' \in 0..2
           /\ InQueue(queue', m) => InQueue(queue, m) /\ outcome \notin {"accepted", "received"}
           /\ InQueue(queue, m) /\ outcome \notin {"accepted", "received"} => InQueue(queue', m)
           /\ outcome = "unknown" =>
                 \A s \in EntryStates : Has(queue', m, s) => s = "acceptance_unknown"
           /\ PausedWhenUnknown(queue) => PausedWhenUnknown(queue')
<1>1. CASE Unused(queue)
  <2>1. queue' = queue /\ due' = due
    BY <1>1 DEF AfterSteerEntry
  <2>2. ~InQueue(queue, m) /\ \A s : ~Has(queue, m, s)
    BY <1>1 DEF Unused, InQueue, Has
  <2> QED
    BY <2>1, <2>2 DEF TypeOK, Others
<1>2. CASE ~Unused(queue)
  <2>1. Schedule(Once(job["manage"].ended))
        /\ queue' = IF outcome = "accepted" THEN RemoveEntry(queue, m)
                    ELSE FailEntry(queue, m, outcome)
    BY <1>2 DEF AfterSteerEntry
  <2>2. due' \in 0..2
    BY <2>1, ScheduleFacts DEF Once, TypeOK
  <2>3. CASE outcome = "accepted"
    <3>1. /\ GoodQueue(queue') /\ queue'.sending = queue.sending
          /\ Others(queue, queue', m) /\ ~InQueue(queue', m)
          /\ HasUnknown(queue') => HasUnknown(queue) /\ queue'.pause = queue.pause
      BY <2>1, <2>3, RemoveEntryFacts
    <3> QED
      BY <2>2, <2>3, <3>1 DEF PausedWhenUnknown
  <2>4. CASE outcome # "accepted"
    <3>1. /\ GoodQueue(queue') /\ queue'.sending = queue.sending /\ queue'.pause # None
          /\ Others(queue, queue', m)
          /\ InQueue(queue', m) => InQueue(queue, m) /\ outcome # "received"
          /\ outcome # "received" /\ InQueue(queue, m) => InQueue(queue', m)
          /\ outcome = "unknown" => \A t \in EntryStates : Has(queue', m, t) => t = "acceptance_unknown"
      BY <2>1, <2>4, FailEntryFacts
    <3> QED
      BY <2>2, <2>4, <3>1 DEF PausedWhenUnknown
  <2> QED
    BY <2>3, <2>4
<1> QED
  BY <1>1, <1>2

-----------------------------------------------------------------------------
(* A send ends *)

\* What is known as a send of actor a ends with this answer.
AnswerKnown(a, answer) ==
    /\ AtHead(a) /\ job[a].at \in {"sending", "issued"} /\ Answer(a, answer)
    /\ UNCHANGED <<gen, lane, unresolved, host, took, events, seen, joined>>
    /\ active' \in [op : Actors \cup {None}, native : {"not_issued", "uncertain", "accepted", "refused"}]
    /\ active'.op = active.op
    /\ active'.native = "accepted" => active.native = "accepted" \/ Taken(job[a].msg)
    /\ rt' \in RuntimeStates /\ rt'.open \subseteq rt.open /\ budget' \in [Bounded -> Nat]
    /\ answer \in {"accepted", "received"} => Taken(job[a].msg)
    /\ answer \in {"refused", "busy"} =>
          ~Taken(job[a].msg) /\ \A r \in rt'.open : r.msg # job[a].msg
    /\ answer = "unclear" /\ a = "manage" => active.native = "uncertain" /\ active' = active

\* What the delivery service makes of an answer is true of the runtime.
LEMMA ClassifiedFacts ==
    ASSUME Inv, NEW a \in Actors \ {"stop"}, NEW answer \in AllOutcomes \cup {"busy"},
           AnswerKnown(a, answer)
    PROVE  /\ Classified(a, answer) \in Results
           /\ Classified(a, answer) \in {"accepted", "received"} => Taken(job[a].msg)
           /\ Classified(a, answer) \in {"refused", "busy"} =>
                 answer \in {"refused", "busy"} \/ (a = "manage" /\ answer = "unclear")
<1>1. ShownMeanwhile(a) => Taken(job[a].msg)
  BY Names DEF ShownMeanwhile, Inv, Known
<1>2. answer \in {"accepted", "received", "refused", "unknown", "unclear", "busy"}
  BY DEF AllOutcomes
<1>3. answer \in {"accepted", "received"} => Taken(job[a].msg)
  BY DEF AnswerKnown
<1> QED
  BY <1>1, <1>2, <1>3 DEF Classified, Results

\* A send that ends keeps the invariant, whoever sent.
LEMMA AnswerKeeps ==
    ASSUME Inv, NEW a \in Actors \ {"stop"}, NEW answer \in AllOutcomes \cup {"busy"},
           AnswerKnown(a, answer)
    PROVE  Inv'
<1> DEFINE c == Classified(a, answer)
<1>1. /\ AtHead(a) /\ job[a].at \in {"sending", "issued"} /\ Answer(a, answer) /\ TypeOK
      /\ GoodQueue(queue)
  BY DEF AnswerKnown, Inv, QueueFits
<1>2. a \in Actors /\ (a \in Messages \/ a = "drain" \/ a = "manage")
  BY Names
<1>3. PICK m \in Messages : m = job[a].msg /\ (a \in Messages => m = a)
  BY <1>1, <1>2, Names DEF Inv, JobsFit, SubmissionFits, DrainFits, ManageFits
<1>4. c \in Results /\ (c \in {"accepted", "received"} => Taken(m))
      /\ (c \in {"refused", "busy"} => answer \in {"refused", "busy"} \/ (a = "manage" /\ answer = "unclear"))
  BY <1>3, ClassifiedFacts
<1>5. /\ job' \in [Actors -> Jobs] /\ job'[a].at = "settling"
      /\ job'[a].msg = job[a].msg /\ job'[a].how = job[a].how
      /\ job'[a].outcome = IF a = "drain" THEN answer ELSE None
      /\ \A b \in Actors \ {a} : job'[b] = job[b]
  <2> DEFINE moved == [job[a] EXCEPT !.at = "settling",
                                     !.outcome = IF a = "drain" THEN answer ELSE None]
  <2>1. job \in [Actors -> Jobs] /\ job[a] \in Jobs
    BY <1>1 DEF TypeOK
  <2>2. /\ moved \in Jobs /\ moved.at = "settling"
        /\ moved.msg = job[a].msg /\ moved.how = job[a].how
        /\ moved.outcome = IF a = "drain" THEN answer ELSE None
    BY <2>1 DEF Jobs, Stages
  <2>3. job' = [job EXCEPT ![a] = moved]
    BY <1>1, <2>1 DEF Answer
  <2> HIDE DEF moved
  <2> QED
    BY <2>1, <2>2, <2>3
<1>6. Goes(a) /\ GoesRightly(a)
  BY <1>1, <1>5 DEF Goes, GoesRightly, OthersStay, Stays, AnswerKnown, AtWork, Running
<1>7. /\ status' \in [Messages -> {"unsent", "pending", "accepted", "queued", "failed", "removed"}]
      /\ \A n \in Messages : status'[n] # status[n] => n = a
      /\ a \in Messages => status'[a] # "unsent"
      /\ a \in Messages /\ status'[a] = "queued" =>
            c = "unknown" \/ (c = "busy" /\ job[a].how = "default")
      /\ a \notin Messages => status' = status
  <2>1. status \in [Messages -> {"unsent", "pending", "accepted", "queued", "failed", "removed"}]
    BY <1>1 DEF TypeOK
  <2>2. CASE a \in Messages
    <3>1. Told(a, c)
      BY <1>1, <2>2, Names DEF Answer
    <3> HIDE DEF c
    <3> QED
      BY <2>1, <2>2, <3>1 DEF Told
  <2>3. CASE a \notin Messages
    <3>1. status' = status
      BY <1>1, <1>2, <2>3 DEF Answer
    <3> QED
      BY <2>1, <2>3, <3>1
  <2> QED
    BY <2>2, <2>3
<1> HIDE DEF c
<1>8. JobsFit'
  <2>1. a \in Messages => status[a] # "unsent"
    BY <1>1 DEF Inv, JobsFit, SubmissionFits
  <2>2. answer # None
    BY DEF AllOutcomes, None
  <2>3. \A n \in Messages : status'[n] = "unsent" <=> status[n] = "unsent"
    BY <1>7, <2>1
  <2>4. FitsStage(a)
    BY <1>5, <2>2, <2>3 DEF FitsStage
  <2> QED
    BY <1>2, <1>6, <2>4, JobsFitWhenOneGoes
<1>9. /\ took' = took /\ rt'.open \subseteq rt.open /\ rt' \in RuntimeStates
      /\ answer \in {"refused", "busy"} => ~Taken(m) /\ \A r \in rt'.open : r.msg # m
  BY <1>3 DEF AnswerKnown
<1>10. /\ \A n \in Messages : (Taken(n)' <=> Taken(n)) /\ (Out(n)' => Out(n))
       /\ Requested'
       /\ answer \in {"refused", "busy"} => ~Out(m)'
  <2>1. \A n \in Messages : (Taken(n)' <=> Taken(n)) /\ (OpenFor(n)' => OpenFor(n))
    BY <1>9 DEF Taken, OpenFor
  <2>2. \A n \in Messages : Out(n)' => Out(n)
    BY <2>1 DEF Out
  <2>3. Requested'
    BY <1>9, <2>1 DEF Inv, Requested
  <2>4. answer \in {"refused", "busy"} => ~Out(m)'
    BY <1>9, <2>1 DEF Out, OpenFor
  <2> QED
    BY <2>1, <2>2, <2>3, <2>4
<1>11. a = "manage" /\ answer = "unclear" => Blocked'
  <2>1. active.op = a
    BY <1>1 DEF Inv, Lanes, Running
  <2> QED
    BY <1>5, <2>1 DEF AnswerKnown, Blocked
<1>12. KnownGoes(a)
  <2>1. ShownEventsTaken'
    BY ShownEventsStay DEF AnswerKnown
  <2>2. \A n \in Messages : Taken(n) /\ n = job'[a].msg => Taken(job[a].msg)'
    BY <1>9 DEF Taken
  <2>3. Taken(job[a].msg) => Taken(job[a].msg)'
    BY <1>3, <1>5, <2>2
  <2> QED
    BY <1>5, <1>10, <2>1, <2>3 DEF KnownGoes, AnswerKnown
<1>13. GoesWithEntry(a)
  <2>1. \A n \in Messages : ~Out(n)' /\ n = job'[a].msg => ~Out(job[a].msg)'
    BY DEF Out, Taken, OpenFor
  <2>2. answer \in {"refused", "busy"} => ~Out(job[a].msg)'
    BY <1>3, <1>5, <1>10, <2>1
  <2> QED
    BY <1>1, <1>5, <1>9, <1>10, <1>12, <2>2 DEF GoesWithEntry, DefaultInFlight
<1>14. PausedWhenUnknown(queue)
  BY DEF Inv, Paused
<1>15. /\ \A b \in Actors \ {a} : job[b].at \notin AtWork
       /\ (Blocked => Blocked')
  BY <1>2, <1>6, HeadIsAlone, BlockedWhenOneGoes DEF Inv, Goes
<1>16. OneEntryChanges(m) /\ ToldRightly(m) /\ due' \in 0..2
  <2>1. CASE a = "drain"
    <3>1. queue' = queue /\ due' = due /\ status' = status
      BY <1>1, <2>1 DEF Answer
    <3>2. OneEntryChanges(m)
      BY <1>1, <1>14, <3>1 DEF OneEntryChanges, Others, SendingFits
    <3> QED
      BY <1>1, <3>1, <3>2 DEF ToldRightly, Inv, Kept, TypeOK
  <2>2. CASE a = "manage"
    <3>1. AfterSteerEntry(m, c) /\ status' = status
      BY <1>1, <1>3, <2>2 DEF Answer, c
    <3>2. /\ GoodQueue(queue') /\ Others(queue, queue', m)
          /\ queue'.sending = queue.sending /\ due' \in 0..2
          /\ InQueue(queue', m) => InQueue(queue, m) /\ c \notin {"accepted", "received"}
          /\ InQueue(queue, m) /\ c \notin {"accepted", "received"} => InQueue(queue', m)
          /\ c = "unknown" => \A s \in EntryStates : Has(queue', m, s) => s = "acceptance_unknown"
          /\ PausedWhenUnknown(queue) => PausedWhenUnknown(queue')
      BY <1>1, <1>4, <3>1, AfterSteerEntryFacts
    <3>3. \A s \in EntryStates : Has(queue', m, s) => AllowedEntry(m, s)
      <4>1. Steering /\ job[m].at \in Returned
        BY <1>1, <1>3, <2>2 DEF Inv, QueueFits, Steering
      <4>2. job'[m].at \in Returned
        BY <1>5, <2>2, <4>1, Names
      <4>3. ~Steering'
        BY <1>5, <2>2 DEF Steering
      <4>4. job'["drain"] = job["drain"]
        BY <1>5, <2>2, Names
      <4>5. job'["drain"].at # "idle" => m # job["drain"].msg
        BY <1>3, <2>2, <4>1, <4>4 DEF Inv, QueueFits
      <4> QED
        BY <4>2, <4>3, <4>5 DEF AllowedEntry
    <3>4. Waiting(queue', m) => ~Out(m)' \/ Blocked'
      <4> SUFFICES ASSUME Waiting(queue', m) PROVE ~Out(m)' \/ Blocked'
        OBVIOUS
      <4>1. InQueue(queue', m) /\ c # "unknown"
        <5>1. InQueue(queue', m)
          BY DEF Waiting, Has, InQueue
        <5>2. \A s \in {"queued", "editing"} : s \in EntryStates /\ s # "acceptance_unknown"
          BY DEF EntryStates
        <5> QED
          BY <3>2, <5>1, <5>2 DEF Waiting
      <4>2. c \in {"refused", "busy"}
        BY <1>4, <3>2, <4>1 DEF Results
      <4> QED
        BY <1>4, <1>10, <1>11, <2>2, <4>2
    <3>5. OneEntryChanges(m)
      BY <1>14, <3>2, <3>3, <3>4 DEF OneEntryChanges, SendingFits
    <3>6. ToldRightly(m)
      <4>1. status[m] = "queued" => InQueue(queue, m) \/ Taken(m)
        BY DEF Inv, Kept
      <4> QED
        BY <1>4, <3>1, <3>2, <4>1 DEF ToldRightly
    <3> QED
      BY <3>2, <3>5, <3>6
  <2>3. CASE a \in Messages
    <3>1. m = a /\ job[m].how \in {"default", "steer"} /\ ~InQueue(queue, m)
      BY <1>1, <1>3, <2>3 DEF Inv, JobsFit, SubmissionFits, QueueFits, Returned
    <3> DEFINE held == job[a].how = "default"
    <3>2. EntersQueue(queue', m, c, held) /\ due' \in 0..2
          /\ queue'.sending = IF held THEN FALSE ELSE queue.sending
      <4>1. CASE job[a].how = "default"
        <5>1. AfterNewTurn(m, c)
          BY <1>1, <2>3, <3>1, <4>1, Names DEF Answer, c
        <5> QED
          BY <1>1, <1>4, <3>1, <4>1, <5>1, AfterNewTurnFacts DEF EntersQueue
      <4>2. CASE job[a].how # "default"
        <5>1. AfterSteer(m, c)
          BY <1>1, <2>3, <3>1, <4>2, Names DEF Answer, c
        <5> QED
          BY <1>1, <1>4, <3>1, <4>2, <5>1, AfterSteerFacts DEF EntersQueue
      <4> QED
        BY <4>1, <4>2
    <3> HIDE DEF held
    <3>3. \A s \in EntryStates : Has(queue', m, s) => AllowedEntry(m, s)
      <4>1. job'[m].at \in Returned
        BY <1>5, <3>1 DEF Returned
      <4>2. job'["drain"] = job["drain"] /\ job'["manage"] = job["manage"]
        BY <1>5, <2>3, Names
      <4>3. job'["drain"].at # "idle" => m # job["drain"].msg
        BY <1>1, <3>1, <4>2 DEF Inv, QueueFits, Returned
      <4>4. ~Steering'
        BY <1>15, <2>3, <4>2, Names DEF Steering, AtWork, Running
      <4> QED
        BY <4>1, <4>3, <4>4 DEF AllowedEntry
    <3>4. SendingFits
      <4>1. CASE held
        <5>1. DefaultInFlight(a)
          BY <1>1, <4>1 DEF DefaultInFlight, held
        <5>2. job["drain"].at = "idle" /\ job'["drain"] = job["drain"]
          BY <1>5, <2>3, <5>1, Names DEF Inv, QueueFits, DefaultInFlight
        <5>3. \A n \in Messages : ~DefaultInFlight(n)'
          <6> SUFFICES ASSUME NEW n \in Messages PROVE ~DefaultInFlight(n)'
            OBVIOUS
          <6>1. CASE n = a
            BY <1>5, <6>1 DEF DefaultInFlight
          <6>2. CASE n # a
            BY <1>5, <1>15, <6>2, Names DEF DefaultInFlight, AtWork, Running
          <6> QED
            BY <6>1, <6>2
        <5> QED
          BY <5>2, <5>3 DEF SendingFits
      <4>2. CASE ~held
        BY <3>2, <4>2 DEF SendingFits
      <4> QED
        BY <4>1, <4>2
    <3>5. Waiting(queue', m) => ~Out(m)' \/ Blocked'
      <4> SUFFICES ASSUME Waiting(queue', m) PROVE ~Out(m)'
        OBVIOUS
      <4>1. \A s \in {"queued", "editing"} : s \in EntryStates /\ s # "acceptance_unknown"
        BY DEF EntryStates
      <4>2. c = "busy"
        BY <3>2, <4>1 DEF EntersQueue, Waiting
      <4>3. a # "manage"
        BY <2>3, Names
      <4> QED
        BY <1>4, <1>10, <4>2, <4>3
    <3>6. OneEntryChanges(m)
      BY <1>14, <3>2, <3>3, <3>4, <3>5 DEF OneEntryChanges, EntersQueue
    <3>7. ToldRightly(m)
      BY <1>7, <2>3, <3>1, <3>2 DEF ToldRightly, EntersQueue, held
    <3> QED
      BY <3>2, <3>6, <3>7
  <2> QED
    BY <1>2, <2>1, <2>2, <2>3
<1>17. TypeOK'
  <2>1. queue' \in Queues
    BY <1>16 DEF OneEntryChanges, GoodQueue
  <2> QED
    BY <1>1, <1>5, <1>7, <1>9, <1>16, <2>1 DEF TypeOK, AnswerKnown, RuntimeStates
<1> QED
  BY <1>2, <1>6, <1>8, <1>13, <1>16, <1>17, EntryChangeKeeps

\* A message that is about to be sent is not with the runtime.
LEMMA NotOutWhenSending ==
    ASSUME Inv, NEW a \in Actors \ {"stop"}, job[a].at = "sending"
    PROVE  ~Taken(job[a].msg) /\ \A r \in rt.open : r.msg # job[a].msg
<1>1. a \in Messages => job[a].msg = a
  BY DEF Inv, JobsFit, SubmissionFits
<1>2. ~Out(job[a].msg)
  BY <1>1, Names DEF Inv, Unsent, Early
<1> QED
  BY <1>2 DEF Out, OpenFor

\* A send that fails before its request, or finds the runtime busy.
LEMMA SendKeeps ==
    ASSUME Inv, NEW a \in Actors \ {"stop"}, SendFails(a) \/ SendBusy(a)
    PROVE  Inv'
<1>1. PICK answer \in {"refused", "busy"} :
         /\ AtHead(a) /\ job[a].at = "sending" /\ Answer(a, answer)
         /\ UNCHANGED <<owner, host, live, joined>>
         /\ budget' = budget \/ Spend("failures")
  BY DEF SendFails, SendBusy
<1>2. TypeOK /\ budget' \in [Bounded -> Nat]
  BY <1>1, BudgetIsKept DEF Inv, Bounded
<1>3. ~Taken(job[a].msg) /\ \A r \in rt.open : r.msg # job[a].msg
  BY <1>1, NotOutWhenSending
<1>4. active \in [op : Actors \cup {None}, native : {"not_issued", "uncertain", "accepted", "refused"}]
      /\ rt \in RuntimeStates
  BY <1>2 DEF TypeOK, RuntimeStates
<1>5. AnswerKnown(a, answer)
  BY <1>1, <1>2, <1>3, <1>4 DEF AnswerKnown, owner, live
<1>6. answer \in AllOutcomes \cup {"busy"}
  BY DEF AllOutcomes
<1> QED
  BY <1>5, <1>6, AnswerKeeps

\* An answer says what the runtime did with the request.
LEMMA ReplyKeeps ==
    ASSUME Inv, NEW a \in Actors, NEW answer \in Outcomes, Reply(a, answer)
    PROVE  Inv'
<1> DEFINE request == Request(a)
<1>1. /\ AtHead(a) /\ job[a].at = "issued" /\ a # "stop" /\ TypeOK
      /\ answer \in {"accepted", "received"} => request \notin rt.open
      /\ answer = "refused" => request \in rt.open
      /\ rt' = IF answer = "refused" THEN [rt EXCEPT !.open = @ \ {request}] ELSE rt
      /\ active' = [active EXCEPT !.native = NativeAfter(answer)]
      /\ Answer(a, answer)
      /\ UNCHANGED <<gen, lane, unresolved, host, took, events, seen, joined, budget>>
  BY DEF Reply, Inv
<1>2. answer \in AllOutcomes
  BY AnswersAssumption
<1>3. active \in [op : Actors \cup {None}, native : {"not_issued", "uncertain", "accepted", "refused"}]
      /\ rt \in RuntimeStates
  BY <1>1 DEF TypeOK, RuntimeStates
<1>4. request.msg = job[a].msg
  BY DEF Request
<1>5. request \in rt.open \/ Taken(job[a].msg)
  BY <1>1 DEF Inv, Known
<1>6. request \in rt.open => ~Taken(job[a].msg) /\ \A r \in rt.open : r.msg = job[a].msg => r = request
  <2> SUFFICES ASSUME request \in rt.open
               PROVE  ~Taken(job[a].msg) /\ \A r \in rt.open : r.msg = job[a].msg => r = request
    OBVIOUS
  <2>1. rt.open \subseteq Requests
    BY <1>3 DEF RuntimeStates
  <2>2. request \in Requests
    BY <2>1
  <2>3. job[a].msg \in Messages /\ OpenFor(job[a].msg)
    BY <1>4, <2>2 DEF Requests, OpenFor
  <2> QED
    BY <1>4, <2>3 DEF Inv, Requested
<1>7. active'.op = active.op /\ active'.native = NativeAfter(answer)
      /\ active' \in [op : Actors \cup {None}, native : {"not_issued", "uncertain", "accepted", "refused"}]
  <2>1. NativeAfter(answer) \in {"not_issued", "uncertain", "accepted", "refused"}
    BY <1>2, <1>3 DEF NativeAfter, AllOutcomes
  <2> QED
    BY <1>1, <1>3, <2>1
<1> HIDE DEF request
<1>8. /\ rt' \in RuntimeStates /\ rt'.open \subseteq rt.open
      /\ answer = "refused" => rt'.open = rt.open \ {request}
  BY <1>1, <1>3 DEF RuntimeStates
<1>9. answer \in {"accepted", "received"} => Taken(job[a].msg)
  BY <1>1, <1>5
<1>10. answer = "refused" => ~Taken(job[a].msg) /\ \A r \in rt'.open : r.msg # job[a].msg
  BY <1>1, <1>6, <1>8
<1>11. answer = "unclear" /\ a = "manage" => active.native = "uncertain" /\ active' = active
  <2> SUFFICES ASSUME answer = "unclear", a = "manage"
               PROVE  active.native = "uncertain" /\ active' = active
    OBVIOUS
  <2>1. active.native = "uncertain"
    BY <1>1 DEF Inv, Known
  <2>2. NativeAfter(answer) = active.native
    BY DEF NativeAfter
  <2>3. active' = [active EXCEPT !.native = active.native]
    BY <1>1, <2>2
  <2> QED
    BY <1>3, <2>1, <2>3
<1>12. active'.native = "accepted" => active.native = "accepted" \/ Taken(job[a].msg)
  BY <1>2, <1>7, <1>9 DEF NativeAfter, AllOutcomes
<1>13. answer # "busy" /\ budget' \in [Bounded -> Nat]
  BY <1>1, <1>2 DEF AllOutcomes, TypeOK
<1>14. AnswerKnown(a, answer)
  <2>1. /\ AtHead(a) /\ job[a].at \in {"sending", "issued"} /\ Answer(a, answer)
        /\ UNCHANGED <<gen, lane, unresolved, host, took, events, seen, joined>>
    BY <1>1
  <2>2. answer \in {"refused", "busy"} =>
           ~Taken(job[a].msg) /\ \A r \in rt'.open : r.msg # job[a].msg
    BY <1>10, <1>13
  <2>3. /\ active'.op = active.op
        /\ active' \in [op : Actors \cup {None}, native : {"not_issued", "uncertain", "accepted", "refused"}]
        /\ rt' \in RuntimeStates /\ rt'.open \subseteq rt.open /\ budget' \in [Bounded -> Nat]
    BY <1>7, <1>8, <1>13
  <2> QED
    BY <1>9, <1>11, <1>12, <2>1, <2>2, <2>3, Zenon DEF AnswerKnown
<1> QED
  BY <1>1, <1>2, <1>14, AnswerKeeps

-----------------------------------------------------------------------------
(* Submissions and steers on their way *)

\* What a step of the head leaves alone when it only prepares a message.
Prepares ==
    /\ UNCHANGED <<gen, lane, active, unresolved, host, rt, took, events, seen, joined>>
    /\ budget' \in [Bounded -> Nat]

\* Then the runtime has what it had.
LEMMA PreparesFacts ==
    ASSUME Inv, Prepares
    PROVE  /\ ShownEventsTaken' /\ SameRequests /\ Requested'
           /\ \A n \in Messages : (Taken(n)' <=> Taken(n)) /\ (Out(n)' <=> Out(n))
<1>1. ShownEventsTaken' /\ SameRequests
  BY ShownEventsStay DEF Prepares, SameRequests
<1> QED
  BY <1>1, RequestsStay DEF Inv

\* A step of the head that prepares without touching the queue.
LEMMA PreparesQuietly ==
    ASSUME Inv, NEW a \in Actors, Prepares, UNCHANGED <<queue, due>>, Goes(a),
           job[a].at \in Running, job' \in [Actors -> Jobs], FitsStage(a),
           status' \in [Messages -> {"unsent", "pending", "accepted", "queued", "failed", "removed"}],
           \A m \in Messages : status'[m] = "queued" => status[m] = "queued",
           a # "drain", job'[a].at \notin {"issued", "committing"},
           a \in Messages => (DefaultInFlight(a)' => DefaultInFlight(a)),
           a = "manage" => (Steering' => Steering),
           a = "manage" /\ job'[a].at \in {"routing", "sending"} => job[a].at \in {"routing", "sending"},
           job[a].at \in {"issued", "committing"} => job'[a].at = "settling"
    PROVE  Inv'
<1>1. ShownEventsTaken' /\ SameRequests
  BY PreparesFacts
<1>2. GoesRightly(a)
  BY DEF GoesRightly, Prepares
<1>3. JobsFit'
  BY JobsFitWhenOneGoes
<1>4. TypeOK'
  BY DEF Inv, TypeOK, Prepares
<1>5. QuietGoes(a)
  BY <1>1 DEF QuietGoes, Prepares
<1> QED
  BY <1>2, <1>3, <1>4, <1>5, QuietGoesKeeps

\* A submission is prepared: it fails, is steered, waits in the queue, or is sent.
LEMMA PreparedKeeps ==
    ASSUME Inv, NEW m \in Messages, Prepared(m)
    PROVE  Inv'
<1>1. /\ AtHead(m) /\ job[m].at = "preparing" /\ TypeOK /\ m \in Actors
      /\ UNCHANGED <<gen, lane, active, unresolved, due, host, rt, took, events, seen, joined>>
      /\ budget' = budget \/ Spend("failures")
  BY Names DEF Prepared, owner, live, Inv
<1>2. Prepares
  BY <1>1, BudgetIsKept DEF Prepares, Bounded
<1>3. \/ Failed(m) /\ queue' = queue
      \/ job[m].how = "steer" /\ GoTo(m, "routing") /\ UNCHANGED <<queue, status>>
      \/ /\ MustWait /\ job[m].how # "steer" /\ queue' = EnqueueLast(queue, m)
         /\ GoTo(m, "settling") /\ status' = [status EXCEPT ![m] = "queued"]
      \/ /\ ~MustWait /\ job[m].how # "steer" /\ queue' = [queue EXCEPT !.sending = TRUE]
         /\ job' = [job EXCEPT ![m].at = "sending", ![m].ended = FALSE]
         /\ status' = status
  BY DEF Prepared
<1>4. /\ status \in [Messages -> {"unsent", "pending", "accepted", "queued", "failed", "removed"}]
      /\ status[m] # "unsent" /\ ~Out(m) /\ ~InQueue(queue, m) /\ GoodQueue(queue)
      /\ PausedWhenUnknown(queue) /\ m # "manage" /\ m # "drain" /\ m # "stop"
  BY <1>1, Names DEF TypeOK, Inv, JobsFit, SubmissionFits, Unsent, Early, QueueFits, Returned, Paused
<1>5. \A b \in Actors \ {m} : job[b].at \notin AtWork
  BY <1>1, HeadIsAlone DEF Inv
<1>6. /\ ShownEventsTaken' /\ SameRequests /\ Requested'
      /\ \A n \in Messages : (Taken(n)' <=> Taken(n)) /\ (Out(n)' <=> Out(n))
  BY <1>2, PreparesFacts
<1>7. CASE Failed(m) /\ queue' = queue
  <2>1. /\ job' \in [Actors -> Jobs] /\ job'[m].at = "settling"
        /\ job'[m].msg = job[m].msg /\ job'[m].how = job[m].how
        /\ \A b \in Actors \ {m} : job'[b] = job[b]
        /\ status' \in [Messages -> {"unsent", "pending", "accepted", "queued", "failed", "removed"}]
        /\ \A n \in Messages : status'[n] = status[n] \/ (n = m /\ status'[n] = "failed")
    BY <1>1, <1>7, FailedTypes
  <2>2. Goes(m)
    BY <1>1, <2>1 DEF Goes, OthersStay, Stays, AtWork, Running
  <2>3. FitsStage(m)
    BY <1>4, <2>1 DEF FitsStage
  <2> QED
    BY <1>1, <1>2, <1>4, <1>7, <2>1, <2>2, <2>3, PreparesQuietly DEF DefaultInFlight, Running
<1>8. CASE job[m].how = "steer" /\ GoTo(m, "routing") /\ UNCHANGED <<queue, status>>
  <2>1. /\ job' \in [Actors -> Jobs] /\ job'[m].at = "routing"
        /\ job'[m].msg = job[m].msg /\ job'[m].how = job[m].how
        /\ \A b \in Actors \ {m} : job'[b] = job[b]
    BY <1>1, <1>8, MovedTypes DEF GoTo, Stages
  <2>2. Goes(m)
    BY <1>1, <2>1 DEF Goes, OthersStay, Stays, AtWork, Running
  <2>3. FitsStage(m)
    BY <1>4, <1>8, <2>1 DEF FitsStage
  <2> QED
    BY <1>1, <1>2, <1>4, <1>8, <2>1, <2>2, <2>3, PreparesQuietly DEF DefaultInFlight, Running
<1>9. CASE /\ MustWait /\ queue' = EnqueueLast(queue, m)
           /\ GoTo(m, "settling") /\ status' = [status EXCEPT ![m] = "queued"]
  <2>1. /\ job' \in [Actors -> Jobs] /\ job'[m].at = "settling"
        /\ job'[m].msg = job[m].msg /\ job'[m].how = job[m].how
        /\ \A b \in Actors \ {m} : job'[b] = job[b]
    BY <1>1, <1>9, MovedTypes DEF GoTo, Stages
  <2>2. Goes(m) /\ GoesRightly(m)
    BY <1>1, <2>1 DEF Goes, GoesRightly, OthersStay, Stays, AtWork, Running
  <2>3. /\ status' \in [Messages -> {"unsent", "pending", "accepted", "queued", "failed", "removed"}]
        /\ status'[m] = "queued" /\ \A n \in Messages \ {m} : status'[n] = status[n]
    BY <1>4, <1>9
  <2>4. JobsFit'
    <3>1. FitsStage(m)
      BY <1>4, <2>1, <2>3 DEF FitsStage
    <3> QED
      BY <1>1, <2>2, <3>1, JobsFitWhenOneGoes
  <2>5. /\ GoodQueue(queue') /\ Others(queue, queue', m) /\ queue'.pause = queue.pause
        /\ queue'.sending = queue.sending /\ Has(queue', m, "queued") /\ InQueue(queue', m)
    BY <1>4, <1>9, EnqueueLastFacts
  <2>6. TypeOK'
    BY <1>1, <1>2, <2>1, <2>3, <2>5 DEF TypeOK, Prepares, GoodQueue
  <2>7. AllowedEntry(m, "queued")
    <3>1. job'["drain"] = job["drain"] /\ job'["manage"] = job["manage"]
      BY <1>4, <2>1, Names
    <3>2. job'["drain"].at # "idle" => m # job["drain"].msg
      BY <1>1, <3>1 DEF Inv, QueueFits, Returned
    <3>3. ~Steering'
      BY <1>4, <1>5, <3>1, Names DEF Steering, AtWork, Running
    <3> QED
      BY <2>1, <3>2, <3>3 DEF AllowedEntry, Returned
  <2>8. \A s \in EntryStates : Has(queue', m, s) => s = "queued"
    BY <2>5, HasIsState
  <2>9. PausedWhenUnknown(queue')
    <3>1. ~Has(queue', m, "acceptance_unknown")
      BY <2>8 DEF EntryStates
    <3>2. HasUnknown(queue') => HasUnknown(queue)
      BY <1>4, <2>5, <3>1, OthersFacts
    <3> QED
      BY <1>4, <2>5, <3>2 DEF PausedWhenUnknown
  <2>10. OneEntryChanges(m)
    <3>1. ~Out(m)'
      BY <1>4, <1>6
    <3>2. \A s \in EntryStates : Has(queue', m, s) => AllowedEntry(m, s)
      BY <2>7, <2>8
    <3> QED
      BY <2>5, <2>9, <3>1, <3>2 DEF OneEntryChanges, SendingFits
  <2>11. ToldRightly(m)
    BY <2>3, <2>5 DEF ToldRightly
  <2>12. KnownGoes(m)
    BY <1>1, <1>4, <1>6, <2>1 DEF KnownGoes
  <2>13. GoesWithEntry(m)
    BY <1>1, <1>4, <1>6, <2>1, <2>12 DEF GoesWithEntry, DefaultInFlight, SameRequests
  <2> QED
    BY <1>1, <2>2, <2>4, <2>6, <2>10, <2>11, <2>13, EntryChangeKeeps
<1>10. CASE /\ ~MustWait /\ queue' = [queue EXCEPT !.sending = TRUE]
            /\ job' = [job EXCEPT ![m].at = "sending", ![m].ended = FALSE]
            /\ status' = status
  <2>1. /\ job' \in [Actors -> Jobs] /\ job'[m].at = "sending"
        /\ job'[m].msg = job[m].msg /\ job'[m].how = job[m].how
        /\ \A b \in Actors \ {m} : job'[b] = job[b]
    <3> DEFINE moved == [job[m] EXCEPT !.at = "sending", !.ended = FALSE]
    <3>1. job \in [Actors -> Jobs] /\ job[m] \in Jobs
      BY <1>1 DEF TypeOK
    <3>2. /\ moved \in Jobs /\ moved.at = "sending"
          /\ moved.msg = job[m].msg /\ moved.how = job[m].how
      BY <3>1 DEF Jobs, Stages
    <3>3. job' = [job EXCEPT ![m] = moved]
      BY <1>10, <3>1
    <3> HIDE DEF moved
    <3> QED
      BY <1>1, <3>1, <3>2, <3>3
  <2>2. Goes(m) /\ GoesRightly(m)
    BY <1>1, <2>1 DEF Goes, GoesRightly, OthersStay, Stays, AtWork, Running
  <2>3. JobsFit'
    <3>1. FitsStage(m)
      BY <1>4, <1>10, <2>1 DEF FitsStage
    <3> QED
      BY <1>1, <2>2, <3>1, JobsFitWhenOneGoes
  <2>4. /\ GoodQueue(queue') /\ Alike(queue, queue') /\ queue'.entries = queue.entries
        /\ queue'.pause = queue.pause /\ queue'.sending = TRUE
    BY <1>4, <1>10, SendingFacts
  <2>5. TypeOK'
    BY <1>1, <1>2, <1>10, <2>1, <2>4 DEF TypeOK, Prepares, GoodQueue
  <2>6. queue.entries = <<>> /\ ~queue.sending
    BY <1>10 DEF MustWait
  <2>7. \A n, s : ~Has(queue', n, s) /\ ~InQueue(queue', n)
    BY <2>4, <2>6 DEF Has, InQueue
  <2>8. job'["drain"].at = "idle" /\ ~Steering'
    <3>1. job'["drain"] = job["drain"] /\ job'["manage"] = job["manage"]
      BY <1>4, <2>1, Names
    <3> QED
      BY <1>4, <1>5, <2>6, <3>1, Names DEF Inv, QueueFits, Steering, AtWork, Running
  <2>9. QueueFits'
    BY <2>4, <2>7, <2>8 DEF QueueFits
  <2>10. Lanes'
    BY <1>1, <2>2, LanesWhenOneGoes DEF Inv
  <2>11. Unsent'
    <3>1. UnsentGoes(m)
      BY <1>1, <1>4, <1>6, <2>1, <2>7 DEF UnsentGoes, Waiting
    <3> QED
      BY <1>1, <2>2, <2>3, <3>1, UnsentWhenOneGoes
  <2>12. Known'
    <3>1. KnownGoes(m)
      BY <1>1, <1>4, <1>6, <2>1 DEF KnownGoes
    <3> QED
      BY <1>1, <2>2, <2>3, <3>1, KnownWhenOneGoes
  <2>13. Kept'
    <3>1. \A n \in Messages : ~InQueue(queue, n)
      BY <2>6 DEF InQueue
    <3> QED
      BY <1>6, <1>10, <3>1 DEF Inv, Kept
  <2>14. Paused'
    <3>1. ~HasUnknown(queue')
      BY <2>4, <2>6 DEF HasUnknown
    <3> QED
      BY <3>1 DEF Paused, PausedWhenUnknown
  <2> QED
    BY <1>6, <2>3, <2>5, <2>9, <2>10, <2>11, <2>12, <2>13, <2>14 DEF Inv
<1> QED
  BY <1>3, <1>7, <1>8, <1>9, <1>10

\* A steer becomes a request of one kind, or is not possible.
LEMMA RouteKeeps ==
    ASSUME Inv, NEW a \in Actors \ {"stop"}, Route(a)
    PROVE  Inv'
<1>1. /\ AtHead(a) /\ job[a].at = "routing" /\ TypeOK /\ a \in Actors
      /\ UNCHANGED <<gen, lane, active, unresolved, host, rt, took, events, seen, joined, budget>>
  BY DEF Route, owner, live, Inv
<1>2. Prepares
  BY <1>1 DEF Prepares, TypeOK
<1>3. a # "drain" /\ (a \in Messages => job[a].how = "steer" /\ status[a] # "unsent")
  BY <1>1 DEF Inv, JobsFit, SubmissionFits, DrainFits
<1>4. \A b \in Actors \ {a} : job[b].at \notin AtWork
  BY <1>1, HeadIsAlone DEF Inv
<1>5. status \in [Messages -> {"unsent", "pending", "accepted", "queued", "failed", "removed"}]
  BY <1>1 DEF TypeOK
<1>6. ASSUME job' = [job EXCEPT ![a].at = "sending",
                                ![a].via = IF host.working THEN "steer" ELSE "new_turn"],
             UNCHANGED <<queue, due, status>>
      PROVE  Inv'
  <2>1. /\ job' \in [Actors -> Jobs] /\ job'[a].at = "sending"
        /\ job'[a].msg = job[a].msg /\ job'[a].how = job[a].how
        /\ \A b \in Actors \ {a} : job'[b] = job[b]
    <3> DEFINE moved == [job[a] EXCEPT !.at = "sending",
                                       !.via = IF host.working THEN "steer" ELSE "new_turn"]
    <3>1. job \in [Actors -> Jobs] /\ job[a] \in Jobs
      BY <1>1 DEF TypeOK
    <3>2. /\ moved \in Jobs /\ moved.at = "sending"
          /\ moved.msg = job[a].msg /\ moved.how = job[a].how
      BY <3>1 DEF Jobs, Stages
    <3>3. job' = [job EXCEPT ![a] = moved]
      BY <1>6, <3>1
    <3> HIDE DEF moved
    <3> QED
      BY <3>1, <3>2, <3>3
  <2>2. Goes(a)
    BY <1>1, <2>1 DEF Goes, OthersStay, Stays, AtWork, Running
  <2>3. FitsStage(a)
    BY <1>3, <1>6, <2>1 DEF FitsStage
  <2> QED
    BY <1>1, <1>2, <1>3, <1>5, <1>6, <2>1, <2>2, <2>3, PreparesQuietly
       DEF DefaultInFlight, Running, Steering
<1>7. ASSUME Failed(a)
      PROVE  /\ job' \in [Actors -> Jobs] /\ job'[a].at = "settling"
             /\ job'[a].msg = job[a].msg /\ job'[a].how = job[a].how
             /\ \A b \in Actors \ {a} : job'[b] = job[b]
             /\ status' \in [Messages -> {"unsent", "pending", "accepted", "queued", "failed", "removed"}]
             /\ \A n \in Messages : status'[n] = status[n] \/ (n = a /\ status'[n] = "failed")
             /\ Goes(a) /\ FitsStage(a)
  <2>1. /\ job' \in [Actors -> Jobs] /\ job'[a].at = "settling"
        /\ job'[a].msg = job[a].msg /\ job'[a].how = job[a].how
        /\ \A b \in Actors \ {a} : job'[b] = job[b]
        /\ status' \in [Messages -> {"unsent", "pending", "accepted", "queued", "failed", "removed"}]
        /\ \A n \in Messages : status'[n] = status[n] \/ (n = a /\ status'[n] = "failed")
    BY <1>1, <1>7, FailedTypes
  <2>2. Goes(a)
    BY <1>1, <2>1 DEF Goes, OthersStay, Stays, AtWork, Running
  <2>3. FitsStage(a)
    BY <1>3, <2>1 DEF FitsStage
  <2> QED
    BY <2>1, <2>2, <2>3
<1>8. ASSUME Failed(a), UNCHANGED <<queue, due>>
      PROVE  Inv'
  BY <1>1, <1>2, <1>3, <1>7, <1>8, PreparesQuietly DEF DefaultInFlight, Running, Steering
<1>9. ASSUME Failed(a), a = "manage", queue' = Mark(queue, job[a].msg, "queued"),
             Schedule(Once(job[a].ended))
      PROVE  Inv'
  <2>1. PICK m \in Messages : m = job[a].msg
    BY <1>1, <1>9 DEF Inv, JobsFit, ManageFits
  <2>2. /\ GoodQueue(queue) /\ PausedWhenUnknown(queue) /\ ~Out(m) /\ job[m].at \in Returned
        /\ job["drain"].at # "idle" => m # job["drain"].msg
    BY <1>1, <1>9, <2>1 DEF Inv, QueueFits, Paused, Unsent, Steering
  <2>3. queue' = Mark(queue, m, "queued") /\ "queued" \in EntryStates
    BY <1>9, <2>1 DEF EntryStates
  <2>4. /\ GoodQueue(queue') /\ Others(queue, queue', m)
        /\ queue'.pause = queue.pause /\ queue'.sending = queue.sending
        /\ \A t : Has(queue', m, t) => t = "queued" /\ InQueue(queue, m)
        /\ InQueue(queue, m) <=> InQueue(queue', m)
    BY <2>2, <2>3, MarkFacts
  <2>5. due' \in 0..2
    BY <1>1, <1>9, ScheduleFacts DEF Once, TypeOK
  <2>6. /\ job' \in [Actors -> Jobs] /\ job'[a].at = "settling"
        /\ job'[a].msg = job[a].msg /\ job'[a].how = job[a].how
        /\ \A b \in Actors \ {a} : job'[b] = job[b]
        /\ status' \in [Messages -> {"unsent", "pending", "accepted", "queued", "failed", "removed"}]
        /\ Goes(a) /\ FitsStage(a)
    BY <1>7, <1>9
  <2>7. status' = status
    BY <1>9, Names DEF Failed
  <2>8. GoesRightly(a)
    BY <1>1 DEF GoesRightly, Running
  <2>9. JobsFit'
    BY <1>1, <2>6, JobsFitWhenOneGoes
  <2>10. TypeOK'
    BY <1>1, <2>4, <2>5, <2>6 DEF TypeOK, GoodQueue
  <2>11. /\ ShownEventsTaken' /\ SameRequests /\ Requested'
         /\ \A n \in Messages : (Taken(n)' <=> Taken(n)) /\ (Out(n)' <=> Out(n))
    BY <1>2, PreparesFacts
  <2>12. PausedWhenUnknown(queue')
    <3>1. ~Has(queue', m, "acceptance_unknown")
      BY <2>4
    <3>2. HasUnknown(queue') => HasUnknown(queue)
      BY <2>2, <2>4, <3>1, OthersFacts
    <3> QED
      BY <2>2, <2>4, <3>2 DEF PausedWhenUnknown
  <2>13. OneEntryChanges(m)
    <3>1. \A s \in EntryStates : Has(queue', m, s) => AllowedEntry(m, s)
      <4>1. job'["drain"] = job["drain"] /\ job'[m] = job[m]
        BY <1>9, <2>6, Names
      <4> QED
        BY <1>9, <2>2, <2>6, <4>1 DEF AllowedEntry, Steering
    <3> QED
      BY <2>2, <2>4, <2>11, <2>12, <3>1 DEF OneEntryChanges, SendingFits
  <2>14. ToldRightly(m)
    BY <2>4, <2>7 DEF ToldRightly, Inv, Kept
  <2>15. KnownGoes(a)
    BY <1>1, <1>3, <2>6, <2>11 DEF KnownGoes
  <2>16. GoesWithEntry(a)
    BY <1>1, <1>3, <1>9, <2>6, <2>11, <2>15, Names DEF GoesWithEntry, SameRequests
  <2> QED
    BY <1>1, <2>6, <2>8, <2>9, <2>10, <2>13, <2>14, <2>16, EntryChangeKeeps
<1> QED
  BY <1>6, <1>8, <1>9 DEF Route

-----------------------------------------------------------------------------
(* The queue's buttons *)

\* The entry of m may change: its message has left its submission and no drain sends it.
Changeable(m) == job[m].at \in Returned /\ (job["drain"].at # "idle" => m # job["drain"].msg)

Statuses == [Messages -> {"unsent", "pending", "accepted", "queued", "failed", "removed"}]

\* A queue action ends with a change of its entry.
LEMMA EntryActionKeeps ==
    ASSUME Inv, NEW m \in Messages, m = job["manage"].msg,
           AtHead("manage"), job["manage"].at \in {"preparing", "committing"},
           GoTo("manage", "settling"), UNCHANGED <<owner, host, live, joined, budget>>,
           GoodQueue(queue'), Others(queue, queue', m), queue'.sending = queue.sending,
           PausedWhenUnknown(queue'), Waiting(queue', m) => Waiting(queue, m),
           \A s \in EntryStates : Has(queue', m, s) => Has(queue, m, s) \/ Changeable(m),
           due' \in 0..2, status' \in Statuses, ToldRightly(m),
           \A n \in Messages : status'[n] = "unsent" <=> status[n] = "unsent"
    PROVE  Inv'
<1>1. /\ "manage" \in Actors /\ "settling" \in Stages /\ TypeOK /\ "manage" \notin Messages
      /\ \A n \in Messages : n # "manage"
  BY Names DEF Inv, Stages
<1>2. /\ job' \in [Actors -> Jobs] /\ job'["manage"].at = "settling"
      /\ job'["manage"].msg = job["manage"].msg /\ job'["manage"].how = job["manage"].how
      /\ \A b \in Actors \ {"manage"} : job'[b] = job[b]
  BY <1>1, MovedTypes DEF GoTo
<1>3. Prepares
  BY <1>1 DEF Prepares, owner, live, TypeOK
<1>4. Goes("manage")
  BY <1>2 DEF Goes, OthersStay, Stays, AtWork, Running, owner
<1>5. GoesRightly("manage")
  BY DEF GoesRightly, Running, owner
<1>6. FitsStage("manage")
  BY <1>1, <1>2 DEF FitsStage
<1>7. JobsFit'
  BY <1>1, <1>4, <1>6, JobsFitWhenOneGoes
<1>8. TypeOK'
  BY <1>1, <1>2 DEF TypeOK, Statuses, GoodQueue, owner, live
<1>9. /\ ShownEventsTaken' /\ SameRequests /\ Requested'
      /\ \A n \in Messages : (Taken(n)' <=> Taken(n)) /\ (Out(n)' <=> Out(n))
  BY <1>3, PreparesFacts
<1>10. OneEntryChanges(m)
  <2>1. \A s \in EntryStates : Has(queue', m, s) => Has(queue, m, s) \/ AllowedEntry(m, s)
    <3>1. job'["drain"] = job["drain"] /\ job'[m] = job[m]
      BY <1>1, <1>2, Names
    <3> QED
      BY <1>2, <3>1 DEF AllowedEntry, Steering, Changeable
  <2> QED
    BY <2>1 DEF OneEntryChanges, SendingFits
<1>11. KnownGoes("manage")
  BY <1>1, <1>2, <1>9, Names DEF KnownGoes, owner
<1>12. GoesWithEntry("manage")
  BY <1>1, <1>2, <1>9, <1>11, Names DEF GoesWithEntry, SameRequests
<1> QED
  BY <1>1, <1>4, <1>5, <1>7, <1>8, <1>10, <1>12, EntryChangeKeeps

\* An entry that a button may change is no drain's, and its submission is over.
LEMMA MayChangeFacts ==
    ASSUME Inv, AtHead("manage"), job["manage"].at = "preparing", MayChange
    PROVE  /\ job["manage"].msg \in Messages /\ InQueue(queue, job["manage"].msg)
           /\ Changeable(job["manage"].msg) /\ Waiting(queue, job["manage"].msg)
           /\ status[job["manage"].msg] # "unsent"
           /\ job["manage"].how \notin {"end_edit", "remove"} => Has(queue, job["manage"].msg, "queued")
<1>1. PICK m \in Messages : m = job["manage"].msg
  BY DEF Inv, JobsFit, ManageFits
<1>2. /\ InQueue(queue, m) /\ StateOf(queue, m) \in {"queued", "editing"}
      /\ job["manage"].how \notin {"end_edit", "remove"} => StateOf(queue, m) = "queued"
  BY <1>1, SMT DEF MayChange, Entry
<1>3. GoodQueue(queue) /\ job[m].at \in Returned
  BY <1>2 DEF Inv, QueueFits
<1>4. Has(queue, m, StateOf(queue, m)) /\ StateOf(queue, m) \in EntryStates
  BY <1>2, <1>3, HasIsState
<1>5. Waiting(queue, m)
  BY <1>2, <1>4 DEF Waiting
<1>6. job["drain"].at # "idle" => m # job["drain"].msg
  BY <1>2, <1>4 DEF Inv, QueueFits
<1>7. status[m] # "unsent"
  BY <1>3 DEF Inv, JobsFit, SubmissionFits, Returned
<1> QED
  BY <1>1, <1>2, <1>3, <1>4, <1>5, <1>6, <1>7 DEF Changeable

\* A change that releases the queue schedules a drain.
LEMMA ReleaseFacts ==
    ASSUME Inv, NEW q, ReleaseWith(q)
    PROVE  queue' = q /\ due' \in 0..2
BY ScheduleFacts DEF ReleaseWith, Once, Inv, TypeOK

\* Resume ends the pause, unless a Stop came.
LEMMA ResumeCommitsKeeps ==
    ASSUME Inv, ResumeCommits
    PROVE  Inv'
<1>1. /\ AtHead("manage") /\ job["manage"].at = "committing" /\ TypeOK /\ GoodQueue(queue)
      /\ GoTo("manage", "settling") /\ UNCHANGED <<owner, host, live, told, budget>>
  BY DEF ResumeCommits, Inv, QueueFits
<1>2. PICK m \in Messages : m = job["manage"].msg
  BY <1>1 DEF Inv, JobsFit, ManageFits
<1> DEFINE resumed == [queue EXCEPT !.pause = None]
<1>3. queue' \in {queue, resumed} /\ due' \in 0..2
  BY <1>1, ReleaseFacts DEF ResumeCommits, TypeOK
<1>4. resumed \in Queues /\ resumed.entries = queue.entries /\ resumed.sending = queue.sending
  BY <1>1 DEF GoodQueue, Queues, Pauses
<1>5. GoodQueue(resumed) /\ Alike(queue, resumed)
  BY <1>1, <1>4, SameEntries
<1>6. Alike(queue, queue)
  BY DEF Alike
<1>7. GoodQueue(queue') /\ Alike(queue, queue') /\ queue'.sending = queue.sending
  BY <1>1, <1>3, <1>4, <1>5, <1>6
<1>8. /\ HasUnknown(queue') <=> HasUnknown(queue)
      /\ \A n \in Messages : InQueue(queue', n) <=> InQueue(queue, n)
      /\ Others(queue, queue', m)
  BY <1>1, <1>7, AlikeFacts
<1>9. PausedWhenUnknown(queue')
  BY <1>1, <1>8 DEF Inv, Paused, PausedWhenUnknown
<1>10. /\ Waiting(queue', m) => Waiting(queue, m)
       /\ \A s \in EntryStates : Has(queue', m, s) => Has(queue, m, s)
  BY <1>7 DEF Waiting, Alike, EntryStates
<1>11. status' = status /\ status' \in Statuses
  BY <1>1 DEF told, TypeOK, Statuses
<1>12. ToldRightly(m)
  BY <1>8, <1>11 DEF ToldRightly, Inv, Kept
<1> QED
  BY <1>1, <1>2, <1>3, <1>7, <1>8, <1>9, <1>10, <1>11, <1>12, EntryActionKeeps DEF told

\* Edits mark the entry, and nothing else of it changes.
LEMMA EditsKeep ==
    ASSUME Inv, BeginEdit \/ EndEdit
    PROVE  Inv'
<1>1. /\ AtHead("manage") /\ job["manage"].at = "preparing" /\ MayChange /\ TypeOK /\ GoodQueue(queue)
      /\ GoTo("manage", "settling") /\ UNCHANGED <<owner, host, live, told, budget>>
  BY DEF BeginEdit, EndEdit, Pressed, Inv, QueueFits
<1>2. PICK m \in Messages : m = job["manage"].msg /\ m = Entry
  BY <1>1 DEF Inv, JobsFit, ManageFits, Entry
<1>3. PICK s \in {"editing", "queued"} : queue' = Mark(queue, m, s) /\ due' \in 0..2
  <2>1. CASE BeginEdit
    BY <1>1, <1>2, <2>1 DEF BeginEdit, TypeOK
  <2>2. CASE EndEdit
    BY <1>2, <2>2, ReleaseFacts DEF EndEdit
  <2> QED
    BY <2>1, <2>2
<1>4. s \in EntryStates
  BY DEF EntryStates
<1>5. /\ GoodQueue(queue') /\ Others(queue, queue', m)
      /\ queue'.pause = queue.pause /\ queue'.sending = queue.sending
      /\ \A t : Has(queue', m, t) => t = s /\ InQueue(queue, m)
      /\ InQueue(queue', m) <=> InQueue(queue, m)
  BY <1>1, <1>3, <1>4, MarkFacts
<1>6. InQueue(queue, m) /\ Changeable(m) /\ Waiting(queue, m)
  BY <1>1, <1>2, MayChangeFacts
<1>7. PausedWhenUnknown(queue')
  <2>1. ~Has(queue', m, "acceptance_unknown")
    BY <1>5
  <2>2. HasUnknown(queue') => HasUnknown(queue)
    BY <1>1, <1>5, <2>1, OthersFacts
  <2> QED
    BY <1>5, <2>2 DEF Inv, Paused, PausedWhenUnknown
<1>8. status' = status /\ status' \in Statuses
  BY <1>1 DEF told, TypeOK, Statuses
<1>9. ToldRightly(m)
  BY <1>5, <1>6, <1>8 DEF ToldRightly
<1> QED
  BY <1>1, <1>2, <1>3, <1>5, <1>6, <1>7, <1>8, <1>9, EntryActionKeeps DEF told

\* An entry that still waits is removed at the user's wish.
LEMMA RemoveKeeps ==
    ASSUME Inv, RemoveMessage
    PROVE  Inv'
<1>1. /\ AtHead("manage") /\ job["manage"].at = "preparing" /\ MayChange /\ TypeOK /\ GoodQueue(queue)
      /\ GoTo("manage", "settling") /\ UNCHANGED <<owner, host, live, joined, budget>>
  BY DEF RemoveMessage, Pressed, Inv, QueueFits
<1>2. PICK m \in Messages : m = job["manage"].msg /\ m = Entry
  BY <1>1 DEF Inv, JobsFit, ManageFits, Entry
<1>3. queue' = RemoveEntry(queue, m) /\ due' \in 0..2 /\ status' = [status EXCEPT ![m] = "removed"]
  BY <1>2, ReleaseFacts DEF RemoveMessage
<1>4. /\ GoodQueue(queue') /\ queue'.sending = queue.sending
      /\ Others(queue, queue', m) /\ ~InQueue(queue', m)
      /\ HasUnknown(queue') => HasUnknown(queue) /\ queue'.pause = queue.pause
  BY <1>1, <1>3, RemoveEntryFacts
<1>5. \A s \in EntryStates : ~Has(queue', m, s)
  BY <1>4, HasIsState
<1>6. ~Waiting(queue', m)
  BY <1>5 DEF Waiting, EntryStates
<1>7. PausedWhenUnknown(queue')
  BY <1>4 DEF Inv, Paused, PausedWhenUnknown
<1>8. status \in Statuses /\ status[m] # "unsent"
  BY <1>1, <1>2, MayChangeFacts DEF TypeOK, Statuses
<1>9. /\ status' \in Statuses /\ status'[m] = "removed"
      /\ \A n \in Messages \ {m} : status'[n] = status[n]
  BY <1>3, <1>8 DEF Statuses
<1>10. ToldRightly(m)
  BY <1>9 DEF ToldRightly
<1> QED
  BY <1>1, <1>2, <1>3, <1>4, <1>5, <1>6, <1>7, <1>8, <1>9, <1>10, EntryActionKeeps

\* A steered entry is marked, and only an entry that the runtime does not have.
LEMMA SteerEntryKeeps ==
    ASSUME Inv, SteerEntry
    PROVE  Inv'
<1>1. /\ AtHead("manage") /\ job["manage"].at = "preparing" /\ MayChange /\ TypeOK /\ GoodQueue(queue)
      /\ job["manage"].how = "steer" /\ queue' = Mark(queue, Entry, "steering")
      /\ job' = [job EXCEPT !["manage"].at = "routing", !["manage"].ended = FALSE]
      /\ UNCHANGED <<owner, due, host, live, told, budget>>
  BY DEF SteerEntry, Pressed, Inv, QueueFits
<1>2. PICK m \in Messages : m = job["manage"].msg /\ m = Entry
  BY <1>1 DEF Inv, JobsFit, ManageFits, Entry
<1>3. /\ "manage" \in Actors /\ "drain" \in Actors /\ "drain" # "manage" /\ Messages \subseteq Actors
      /\ "steering" \in EntryStates /\ \A n \in Messages : n # "manage"
  BY Names DEF EntryStates
<1>4. /\ job' \in [Actors -> Jobs] /\ job'["manage"].at = "routing"
      /\ job'["manage"].msg = job["manage"].msg /\ job'["manage"].how = job["manage"].how
      /\ \A b \in Actors \ {"manage"} : job'[b] = job[b]
  <2> DEFINE moved == [job["manage"] EXCEPT !.at = "routing", !.ended = FALSE]
  <2>1. job \in [Actors -> Jobs] /\ job["manage"] \in Jobs
    BY <1>1, <1>3 DEF TypeOK
  <2>2. /\ moved \in Jobs /\ moved.at = "routing"
        /\ moved.msg = job["manage"].msg /\ moved.how = job["manage"].how
    BY <2>1 DEF Jobs, Stages
  <2>3. job' = [job EXCEPT !["manage"] = moved]
    BY <1>1, <2>1
  <2> HIDE DEF moved
  <2> QED
    BY <1>3, <2>1, <2>2, <2>3
<1>5. Goes("manage")
  BY <1>1, <1>4 DEF Goes, OthersStay, Stays, AtWork, Running, owner
<1>6. GoesRightly("manage")
  BY <1>1 DEF GoesRightly, Running, owner
<1>7. FitsStage("manage")
  BY <1>1, <1>3, <1>4 DEF FitsStage, told
<1>8. JobsFit'
  BY <1>3, <1>5, <1>7, JobsFitWhenOneGoes
<1>9. Lanes'
  BY <1>1, <1>3, <1>5, <1>6, LanesWhenOneGoes DEF Inv
<1>10. /\ GoodQueue(queue') /\ Others(queue, queue', m)
       /\ queue'.pause = queue.pause /\ queue'.sending = queue.sending
       /\ \A t : Has(queue', m, t) => t = "steering" /\ InQueue(queue, m)
       /\ InQueue(queue', m) <=> InQueue(queue, m)
  BY <1>1, <1>2, <1>3, MarkFacts
<1>11. InQueue(queue, m) /\ Changeable(m) /\ Waiting(queue, m)
  BY <1>1, <1>2, MayChangeFacts
<1>12. TypeOK'
  BY <1>1, <1>4, <1>10 DEF TypeOK, GoodQueue, owner, live, told
<1>13. Prepares
  BY <1>1 DEF Prepares, owner, live, told, TypeOK
<1>14. /\ ShownEventsTaken' /\ SameRequests /\ Requested'
       /\ \A n \in Messages : (Taken(n)' <=> Taken(n)) /\ (Out(n)' <=> Out(n))
  BY <1>13, PreparesFacts
<1>15. \A n \in Messages : InQueue(queue', n) <=> InQueue(queue, n)
  BY <1>1, <1>10, OthersFacts
<1>16. QueueFits'
  <2>1. \A n \in Messages : job'[n] = job[n]
    BY <1>3, <1>4
  <2>2. job'["drain"] = job["drain"] /\ (job["drain"].at # "idle" => job["drain"].msg \in Messages)
    BY <1>3, <1>4 DEF Inv, JobsFit, DrainFits
  <2>3. \A n \in Messages : InQueue(queue', n) => job'[n].at \in Returned
    BY <1>15, <2>1 DEF Inv, QueueFits
  <2>4. job'["drain"].at # "idle" => queue'.sending
    BY <1>10, <2>2 DEF Inv, QueueFits
  <2>5. \A n \in Messages : job'[n].how = "default" /\ job'[n].at \in {"sending", "issued"} =>
           queue'.sending /\ job'["drain"].at = "idle"
    BY <1>10, <2>1, <2>2 DEF Inv, QueueFits
  <2>6. job'["drain"].at # "idle" =>
          /\ \A s \in EntryStates : Has(queue', job'["drain"].msg, s) => s = "sending"
          /\ job'[job'["drain"].msg].at \in Returned
    <3> SUFFICES ASSUME job["drain"].at # "idle"
                 PROVE  /\ \A s \in EntryStates : Has(queue', job["drain"].msg, s) => s = "sending"
                        /\ job[job["drain"].msg].at \in Returned
      BY <2>1, <2>2
    <3>1. job["drain"].msg \in Messages \ {m}
      BY <1>11, <2>2 DEF Changeable
    <3>2. \A s \in EntryStates : Has(queue', job["drain"].msg, s) => Has(queue, job["drain"].msg, s)
      BY <1>10, <3>1 DEF Others
    <3> QED
      BY <3>2 DEF Inv, QueueFits
  <2>7. Steering' =>
          /\ \A s \in EntryStates : Has(queue', job'["manage"].msg, s) => s = "steering"
          /\ job'[job'["manage"].msg].at \in Returned
    BY <1>2, <1>4, <1>10, <1>11, <2>1 DEF Changeable
  <2>8. job'["drain"].at # "idle" => job'["drain"].msg # job'["manage"].msg
    BY <1>2, <1>4, <1>11, <2>2 DEF Changeable
  <2> QED
    BY <1>10, <2>3, <2>4, <2>5, <2>6, <2>7, <2>8 DEF QueueFits
<1>17. Unsent'
  <2>1. unresolved = None
    BY <1>1, <1>3 DEF Inv, Lanes, Running, None
  <2>2. ~Blocked
    BY <1>3, <1>5, <2>1, BlockedWhenOneGoes
  <2>3. ~Out(m)
    BY <1>11, <2>2 DEF Inv, Unsent, Waiting
  <2>4. \A n \in Messages : Waiting(queue', n) => Waiting(queue, n)
    BY <1>10, <1>11 DEF Waiting, Others, EntryStates
  <2>5. UnsentGoes("manage")
    BY <1>1, <1>2, <1>3, <1>4, <1>14, <2>3, <2>4 DEF UnsentGoes
  <2> QED
    BY <1>3, <1>5, <1>8, <2>5, UnsentWhenOneGoes
<1>18. Known'
  <2>1. KnownGoes("manage")
    BY <1>1, <1>3, <1>4, <1>14 DEF KnownGoes, owner
  <2> QED
    BY <1>3, <1>5, <1>6, <1>8, <2>1, KnownWhenOneGoes
<1>19. Kept'
  BY <1>1, <1>14, <1>15 DEF Inv, Kept, told
<1>20. Paused'
  <2>1. ~Has(queue', m, "acceptance_unknown")
    BY <1>10
  <2>2. HasUnknown(queue') => HasUnknown(queue)
    BY <1>1, <1>10, <2>1, OthersFacts
  <2> QED
    BY <1>4, <1>10, <2>2 DEF Inv, Paused, PausedWhenUnknown
<1> QED
  BY <1>8, <1>9, <1>12, <1>14, <1>16, <1>17, <1>18, <1>19, <1>20 DEF Inv

-----------------------------------------------------------------------------
(* Operations leave the lane *)

\* What leaves with an uncertain result is remembered, so what is blocked stays blocked.
LEMMA LeaverFacts ==
    ASSUME Inv, NEW a \in Actors, LeavesLane(a), Leave(a)
    PROVE  /\ unresolved' \in Messages \cup {None, "unnamed"}
           /\ Blocked => Blocked'
           /\ \A b \in Actors \ {a} : job'[b].at \notin AtWork
           /\ lane' \in Seq(Actors) /\ IsInjective(lane')
<1>1. /\ AtHead(a) /\ job[a].at = "settling" /\ active' = NoOperation /\ TypeOK /\ Lanes
      /\ lane' = Tail(lane)
      /\ unresolved' = IF active.op = a /\ active.native = "uncertain" THEN NameOf(a) ELSE unresolved
  BY DEF LeavesLane, Leave, Inv
<1>2. active.op = a /\ active.native = "uncertain" => unresolved = None /\ a # "stop"
  BY <1>1, Names DEF Lanes
<1>3. a # "stop" => NameOf(a) \in Messages \cup {"unnamed"}
  BY <1>1, Names DEF Inv, JobsFit, SubmissionFits, DrainFits, NameOf
<1>4. Blocked => Blocked'
  <2> SUFFICES ASSUME Blocked
               PROVE  unresolved' = "unnamed"
    BY DEF Blocked
  <2>1. CASE unresolved = "unnamed"
    BY <1>1, <1>2, <2>1 DEF None
  <2>2. CASE active.op = "manage" /\ active.native = "uncertain" /\ job["manage"].at = "settling"
    <3>1. a = "manage"
      BY <1>1, <2>2, Names DEF Lanes, AtHead, AtWork
    <3> QED
      BY <1>1, <2>2, <3>1 DEF NameOf
  <2> QED
    BY <2>1, <2>2 DEF Blocked
<1>5. \A b \in Actors \ {a} : job'[b].at \notin AtWork
  BY <1>1, HeadIsAlone DEF LeavesLane, OthersStay, Stays
<1>6. lane \in Seq(Actors) /\ lane # <<>> /\ IsInjective(lane)
  BY <1>1 DEF TypeOK, AtHead
<1>7. lane' \in Seq(Actors)
  BY <1>1, <1>6
<1>8. IsInjective(lane')
  <2>1. \A i, j \in DOMAIN lane : lane[i] = lane[j] => i = j
    BY <1>6 DEF IsInjective
  <2>2. \A i \in DOMAIN lane' : i + 1 \in DOMAIN lane /\ lane'[i] = lane[i + 1] /\ i \in Int
    BY <1>1, <1>6
  <2>3. \A i, j \in DOMAIN lane' : lane'[i] = lane'[j] => i = j
    BY <2>1, <2>2
  <2> QED
    BY <2>3 DEF IsInjective
<1>9. unresolved \in Messages \cup {None, "unnamed"}
  BY <1>1 DEF TypeOK
<1> QED
  BY <1>1, <1>2, <1>3, <1>4, <1>5, <1>7, <1>8, <1>9

\* Where nothing else changes, an operation that leaves keeps what is known.
LEMMA KnownWhenOneLeaves ==
    ASSUME Inv, NEW a \in Actors, LeavesLane(a), Leave(a), UNCHANGED live
    PROVE  /\ Known' /\ SameRequests /\ Requested'
           /\ \A n \in Messages : (Taken(n)' <=> Taken(n)) /\ (Out(n)' <=> Out(n))
<1>1. SameRequests /\ events' = events /\ took' = took
  BY DEF SameRequests, live
<1>2. /\ Requested'
      /\ \A n \in Messages : (Taken(n)' <=> Taken(n)) /\ (Out(n)' <=> Out(n))
  BY <1>1, RequestsStay DEF Inv
<1>3. \A b \in Actors \ {a} : job'[b].at \notin AtWork
  BY LeaverFacts
<1>4. job'[a].at \in {"idle", "done"} /\ active' = NoOperation
  BY DEF LeavesLane
<1>5. \A b \in Actors : job'[b].at # "issued" /\ job'[b].at # "settling"
  BY <1>3, <1>4 DEF AtWork, Running
<1>6. active'.native # "accepted"
  BY <1>4 DEF NoOperation
<1>7. ShownEventsTaken'
  BY <1>1, ShownEventsStay
<1> QED
  BY <1>1, <1>2, <1>5, <1>6, <1>7, Names DEF Known, ShownEventsTaken

\* What leaves the lane has the shape of an actor that rests.
LEMMA JobsWhenOneLeaves ==
    ASSUME Inv, NEW a \in Actors, LeavesLane(a), status' = status,
           NEW s \in {"idle", "done"}, s = "done" <=> a \in Messages,
           NEW rested \in Jobs, rested.at = s, job' = [job EXCEPT ![a] = rested]
    PROVE  /\ job' \in [Actors -> Jobs] /\ job'[a].at = s /\ JobsFit'
           /\ \A b \in Actors \ {a} : job'[b] = job[b]
<1>1. job \in [Actors -> Jobs]
  BY DEF Inv, TypeOK
<1>3. job' \in [Actors -> Jobs] /\ job'[a].at = s /\ \A b \in Actors \ {a} : job'[b] = job[b]
  BY <1>1
<1>4. \A b \in Actors : job'[b] = job[b] \/ (b = a /\ job'[b].at = s)
  BY <1>3
<1>5. \A m \in Messages : SubmissionFits(m)'
  <2> SUFFICES ASSUME NEW m \in Messages
               PROVE  SubmissionFits(m)'
    OBVIOUS
  <2>1. SubmissionFits(m) /\ m \in Actors /\ job[a].at = "settling"
    BY Names DEF Inv, JobsFit, LeavesLane
  <2>2. CASE m = a
    BY <1>3, <2>1, <2>2 DEF SubmissionFits
  <2>3. CASE m # a
    BY <1>3, <2>1, <2>3 DEF SubmissionFits
  <2> QED
    BY <2>2, <2>3
<1>6. DrainFits' /\ ManageFits' /\ StopFits'
  <2>1. /\ DrainFits /\ ManageFits /\ StopFits
        /\ "drain" \in Actors /\ "manage" \in Actors /\ "stop" \in Actors
        /\ (a \in {"drain", "manage", "stop"} => s = "idle")
    BY Names DEF Inv, JobsFit
  <2>2. /\ job'["drain"] = job["drain"] \/ job'["drain"].at = "idle"
        /\ job'["manage"] = job["manage"] \/ job'["manage"].at = "idle"
        /\ job'["stop"] = job["stop"] \/ job'["stop"].at = "idle"
    BY <1>4, <2>1
  <2> QED
    BY <2>1, <2>2 DEF DrainFits, ManageFits, StopFits
<1> QED
  BY <1>3, <1>5, <1>6 DEF JobsFit

\* An operation that is over leaves the lane.
LEMMA SettleKeeps ==
    ASSUME Inv, NEW a \in Actors, Settle(a)
    PROVE  Inv'
<1>1. PICK s \in {"idle", "done"} :
         (s = "done" <=> a \in Messages) /\ job' = [job EXCEPT ![a] = [Idle EXCEPT !.at = s]]
  BY DEF Settle
<1>2. /\ AtHead(a) /\ job[a].at = "settling" /\ a # "drain" /\ Leave(a) /\ TypeOK
      /\ UNCHANGED <<gen, queue, due, host, live, told, budget>>
  BY DEF Settle, Inv
<1>3. LeavesLane(a)
  <2>1. \A b \in Actors \ {a} : job'[b] = job[b]
    BY <1>1, <1>2 DEF TypeOK
  <2>2. job'[a].at \in {"idle", "done"}
    BY <1>1, <1>2 DEF TypeOK, Idle
  <2> QED
    BY <1>2, <2>1, <2>2 DEF LeavesLane, OthersStay, Stays, Leave
<1>4. /\ job' \in [Actors -> Jobs] /\ job'[a].at = s /\ JobsFit'
      /\ \A b \in Actors \ {a} : job'[b] = job[b]
  <2> DEFINE rested == [Idle EXCEPT !.at = s]
  <2>1. rested \in Jobs /\ rested.at = s /\ job' = [job EXCEPT ![a] = rested]
    BY <1>1 DEF Idle, Jobs, Stages
  <2>2. status' = status
    BY <1>2 DEF told
  <2> HIDE DEF rested
  <2> QED
    BY <1>1, <1>3, <2>1, <2>2, JobsWhenOneLeaves
<1>5. Lanes'
  BY <1>3, LanesWhenOneLeaves DEF Inv
<1>6. /\ unresolved' \in Messages \cup {None, "unnamed"}
      /\ Blocked => Blocked'
      /\ \A b \in Actors \ {a} : job'[b].at \notin AtWork
      /\ lane' \in Seq(Actors) /\ IsInjective(lane')
  BY <1>2, <1>3, LeaverFacts
<1>7. /\ Known' /\ SameRequests /\ Requested'
      /\ \A n \in Messages : (Taken(n)' <=> Taken(n)) /\ (Out(n)' <=> Out(n))
  BY <1>2, <1>3, KnownWhenOneLeaves
<1>8. TypeOK'
  <2>1. NoOperation \in [op : Actors \cup {None},
                         native : {"not_issued", "uncertain", "accepted", "refused"}]
    BY DEF NoOperation
  <2> QED
    BY <1>2, <1>3, <1>4, <1>6, <2>1 DEF TypeOK, LeavesLane, told, live
<1>9. /\ job'["drain"] = job["drain"]
      /\ \A n \in Messages : job'[n] = job[n] \/ job'[n].at = "done"
      /\ job'["manage"] = job["manage"] \/ job'["manage"].at = "idle"
  BY <1>1, <1>2, <1>4, Names
<1>10. QueueFits'
  <2>1. QueueCalm
    BY <1>9 DEF QueueCalm, Returned, DefaultInFlight, Steering
  <2>2. GoodQueue(queue') /\ queue' = queue
    BY <1>2 DEF Inv, QueueFits
  <2> QED
    BY <2>1, <2>2, QueueFitsInCalm DEF Inv, SendingFits
<1>11. Unsent'
  <2>1. UnsentCalm
    BY <1>2, <1>6, <1>7, <1>9 DEF UnsentCalm, Early
  <2> QED
    BY <1>4, <2>1, UnsentInCalm DEF Inv
<1>12. Kept' /\ Paused'
  BY <1>2, <1>7, <1>9 DEF Inv, Kept, Paused, told
<1> QED
  BY <1>4, <1>5, <1>7, <1>8, <1>10, <1>11, <1>12 DEF Inv

\* The result of a drain, and what it does to the entry that was sent.
LEMMA DrainResult ==
    ASSUME Inv, job["drain"].at = "settling", NEW outcome,
           outcome = Classified("drain", job["drain"].outcome)
    PROVE  /\ outcome \in Results
           /\ outcome \in {"accepted", "received"} => Taken(job["drain"].msg)
           /\ outcome \in {"refused", "busy"} => ~Out(job["drain"].msg) \/ Blocked
<1>1. /\ job["drain"].outcome \in AllOutcomes \cup {"busy"}
      /\ job["drain"].outcome \in {"accepted", "received"} => Taken(job["drain"].msg)
      /\ job["drain"].outcome \in {"refused", "busy"} => ~Out(job["drain"].msg) \/ Blocked
  BY Names DEF Inv, JobsFit, DrainFits, Known, Unsent, TypeOK, Jobs
<1>2. ShownMeanwhile("drain") => Taken(job["drain"].msg)
  BY Names DEF Inv, Known, ShownMeanwhile
<1> QED
  BY <1>1, <1>2, SMT DEF Classified, Results, AllOutcomes

\* What a drain's result makes of the queue.
DrainEntry(q, m, outcome) ==
    CASE outcome = "accepted" -> RemoveEntry(q, m)
      [] outcome = "busy" -> Mark(q, m, "queued")
      [] OTHER -> FailEntry(q, m, outcome)

\* The entry that a drain sent leaves the queue, waits again, or is kept as unknown.
LEMMA DrainEntryFacts ==
    ASSUME NEW q, GoodQueue(q), PausedWhenUnknown(q), NEW m \in Messages, NEW outcome \in Results
    PROVE  LET p == DrainEntry(q, m, outcome)
           IN /\ GoodQueue(p) /\ p.sending = q.sending /\ Others(q, p, m)
              /\ InQueue(p, m) => InQueue(q, m)
              /\ InQueue(q, m) => InQueue(p, m) \/ outcome \in {"accepted", "received"}
              /\ Waiting(p, m) => outcome \in {"refused", "busy"}
              /\ PausedWhenUnknown(p)
<1> DEFINE p == DrainEntry(q, m, outcome)
<1>1. CASE outcome = "accepted"
  <2>1. p = RemoveEntry(q, m)
    BY <1>1 DEF DrainEntry
  <2>2. /\ GoodQueue(p) /\ p.sending = q.sending
        /\ Others(q, p, m) /\ ~InQueue(p, m)
        /\ HasUnknown(p) => HasUnknown(q) /\ p.pause = q.pause
    BY <2>1, RemoveEntryFacts
  <2> HIDE DEF p
  <2>3. ~Waiting(p, m)
    BY <2>2, HasIsState DEF Waiting, EntryStates
  <2>4. PausedWhenUnknown(p)
    BY <2>2 DEF PausedWhenUnknown
  <2> QED
    BY <1>1, <2>2, <2>3, <2>4 DEF p
<1>2. CASE outcome = "busy"
  <2>1. p = Mark(q, m, "queued") /\ "queued" \in EntryStates
    BY <1>2 DEF DrainEntry, EntryStates
  <2>2. /\ GoodQueue(p) /\ Others(q, p, m)
        /\ p.pause = q.pause /\ p.sending = q.sending
        /\ \A t : Has(p, m, t) => t = "queued" /\ InQueue(q, m)
        /\ InQueue(q, m) <=> InQueue(p, m)
    BY <2>1, MarkFacts
  <2> HIDE DEF p
  <2>3. ~Has(p, m, "acceptance_unknown")
    BY <2>2
  <2>4. HasUnknown(p) => HasUnknown(q)
    BY <2>2, <2>3, OthersFacts
  <2>5. PausedWhenUnknown(p)
    BY <2>2, <2>4 DEF PausedWhenUnknown
  <2> QED
    BY <1>2, <2>2, <2>5 DEF p
<1>3. CASE outcome \notin {"accepted", "busy"}
  <2>1. p = FailEntry(q, m, outcome)
    BY <1>3 DEF DrainEntry
  <2>2. /\ GoodQueue(p) /\ p.sending = q.sending /\ p.pause # None
        /\ Others(q, p, m)
        /\ InQueue(p, m) => InQueue(q, m) /\ outcome # "received"
        /\ outcome # "received" /\ InQueue(q, m) => InQueue(p, m)
        /\ outcome = "unknown" => \A t \in EntryStates : Has(p, m, t) => t = "acceptance_unknown"
    BY <2>1, FailEntryFacts
  <2> HIDE DEF p
  <2>3. Waiting(p, m) => InQueue(p, m)
    BY <2>2, HasIsState DEF Waiting, EntryStates
  <2>4. Waiting(p, m) => outcome # "unknown"
    BY <2>2 DEF Waiting, EntryStates
  <2>5. Waiting(p, m) => outcome \in {"refused", "busy"}
    BY <1>3, <2>2, <2>3, <2>4 DEF Results
  <2>6. PausedWhenUnknown(p)
    BY <2>2 DEF PausedWhenUnknown
  <2> QED
    BY <2>2, <2>5, <2>6 DEF p
<1> QED
  BY <1>1, <1>2, <1>3

\* A drain leaves the lane, and its result changes the queue.
LEMMA DrainSettlesKeeps ==
    ASSUME Inv, DrainSettles
    PROVE  Inv'
<1> DEFINE outcome == Classified("drain", job["drain"].outcome)
<1>1. /\ AtHead("drain") /\ job["drain"].at = "settling" /\ Leave("drain") /\ TypeOK
      /\ job' = [job EXCEPT !["drain"] = Idle]
      /\ queue' = DrainEntry([queue EXCEPT !.sending = FALSE], job["drain"].msg, outcome)
      /\ Schedule(Once(job["drain"].ended))
      /\ UNCHANGED <<gen, host, live, told, budget>>
  BY DEF DrainSettles, DrainEntry, Inv
<1>2. "drain" \in Actors /\ "drain" \notin Messages /\ Messages \subseteq Actors /\ "manage" \in Actors
  BY Names
<1>3. PICK m \in Messages : m = job["drain"].msg
  BY <1>1 DEF Inv, JobsFit, DrainFits
<1>4. /\ outcome \in Results
      /\ outcome \in {"accepted", "received"} => Taken(m)
      /\ outcome \in {"refused", "busy"} => ~Out(m) \/ Blocked
  BY <1>1, <1>3, DrainResult
<1>5. /\ GoodQueue(queue') /\ ~queue'.sending /\ Others(queue, queue', m)
      /\ InQueue(queue', m) => InQueue(queue, m)
      /\ InQueue(queue, m) => InQueue(queue', m) \/ outcome \in {"accepted", "received"}
      /\ Waiting(queue', m) => outcome \in {"refused", "busy"}
      /\ PausedWhenUnknown(queue')
  <2> DEFINE q == [queue EXCEPT !.sending = FALSE]
  <2>1. GoodQueue(queue) /\ PausedWhenUnknown(queue)
    BY DEF Inv, QueueFits, Paused
  <2>2. /\ GoodQueue(q) /\ Alike(queue, q) /\ q.pause = queue.pause /\ q.sending = FALSE
    BY <2>1, SendingFacts
  <2>3. queue' = DrainEntry(q, m, outcome)
    BY <1>1, <1>3
  <2> HIDE DEF q, outcome
  <2>4. /\ \A n \in Messages : InQueue(q, n) <=> InQueue(queue, n)
        /\ HasUnknown(q) <=> HasUnknown(queue)
    BY <2>1, <2>2, AlikeFacts
  <2>5. PausedWhenUnknown(q)
    BY <2>1, <2>2, <2>4 DEF PausedWhenUnknown
  <2>6. /\ GoodQueue(queue') /\ queue'.sending = q.sending /\ Others(q, queue', m)
        /\ InQueue(queue', m) => InQueue(q, m)
        /\ InQueue(q, m) => InQueue(queue', m) \/ outcome \in {"accepted", "received"}
        /\ Waiting(queue', m) => outcome \in {"refused", "busy"}
        /\ PausedWhenUnknown(queue')
    BY <1>4, <2>2, <2>3, <2>5, DrainEntryFacts
  <2>7. Others(queue, queue', m)
    BY <2>2, <2>6, AlikeOthers
  <2> QED
    BY <2>2, <2>4, <2>6, <2>7
<1> HIDE DEF outcome
<1>6. Idle \in Jobs /\ Idle.at = "idle"
  BY DEF Idle, Jobs, Stages
<1>7. LeavesLane("drain")
  BY <1>1, <1>2 DEF LeavesLane, OthersStay, Stays, Leave, TypeOK, Idle
<1>8. /\ job' \in [Actors -> Jobs] /\ job'["drain"].at = "idle" /\ JobsFit'
      /\ \A b \in Actors \ {"drain"} : job'[b] = job[b]
  BY <1>1, <1>2, <1>6, <1>7, JobsWhenOneLeaves DEF told
<1>9. Lanes'
  BY <1>2, <1>7, LanesWhenOneLeaves DEF Inv
<1>10. /\ unresolved' \in Messages \cup {None, "unnamed"}
       /\ Blocked => Blocked'
       /\ \A b \in Actors \ {"drain"} : job'[b].at \notin AtWork
       /\ lane' \in Seq(Actors) /\ IsInjective(lane')
  BY <1>1, <1>2, <1>7, LeaverFacts
<1>11. /\ Known' /\ SameRequests /\ Requested'
       /\ \A n \in Messages : (Taken(n)' <=> Taken(n)) /\ (Out(n)' <=> Out(n))
  BY <1>1, <1>2, <1>7, KnownWhenOneLeaves
<1>12. due' \in 0..2
  BY <1>1, ScheduleFacts DEF Once, TypeOK
<1>13. TypeOK'
  <2>1. NoOperation \in [op : Actors \cup {None},
                         native : {"not_issued", "uncertain", "accepted", "refused"}]
    BY DEF NoOperation
  <2> QED
    BY <1>1, <1>5, <1>7, <1>8, <1>10, <1>12, <2>1 DEF TypeOK, LeavesLane, told, live, GoodQueue
<1>14. /\ \A n \in Messages : job'[n] = job[n] /\ job'[n].at \notin AtWork
       /\ job'["manage"] = job["manage"] /\ job'["manage"].at \notin AtWork
  BY <1>2, <1>8, <1>10, Names
<1>15. GoodQueue(queue) /\ \A n \in Messages : InQueue(queue, n) => job[n].at \in Returned
  BY DEF Inv, QueueFits
<1>16. \A n \in Messages \ {m} : InQueue(queue', n) <=> InQueue(queue, n)
  BY <1>5, <1>15, OthersFacts
<1>17. QueueFits'
  <2>1. QueueCalm
    BY <1>8, <1>14 DEF QueueCalm, DefaultInFlight, Steering, AtWork, Running
  <2>2. SendingFits
    BY <1>8, <1>14 DEF SendingFits, DefaultInFlight, AtWork, Running
  <2>3. \A n \in Messages, s \in EntryStates : Has(queue', n, s) => Has(queue, n, s) \/ AllowedEntry(n, s)
    <3> SUFFICES ASSUME NEW n \in Messages, NEW s \in EntryStates, Has(queue', n, s)
                 PROVE  Has(queue, n, s) \/ AllowedEntry(n, s)
      OBVIOUS
    <3>1. CASE n # m
      BY <1>5, <3>1 DEF Others
    <3>2. CASE n = m
      <4>1. InQueue(queue', m)
        BY <1>5, <3>2, HasIsState
      <4>2. job'[m].at \in Returned
        BY <1>5, <1>14, <1>15, <4>1
      <4> QED
        BY <1>8, <1>14, <3>2, <4>2 DEF AllowedEntry, Steering, AtWork, Running
    <3> QED
      BY <3>1, <3>2
  <2> QED
    BY <1>5, <2>1, <2>2, <2>3, QueueFitsInCalm DEF Inv
<1>18. Unsent'
  <2>1. \A n \in Messages : Waiting(queue', n) => Waiting(queue, n) \/ ~Out(n)' \/ Blocked'
    <3> SUFFICES ASSUME NEW n \in Messages, Waiting(queue', n)
                 PROVE  Waiting(queue, n) \/ ~Out(n)' \/ Blocked'
      OBVIOUS
    <3>1. CASE n # m
      BY <1>5, <3>1 DEF Waiting, Others, EntryStates
    <3>2. CASE n = m
      BY <1>4, <1>5, <1>10, <1>11, <3>2
    <3> QED
      BY <3>1, <3>2
  <2>2. UnsentCalm
    BY <1>8, <1>10, <1>11, <1>14, <2>1 DEF UnsentCalm, Pending
  <2> QED
    BY <1>8, <2>2, UnsentInCalm DEF Inv
<1>19. Kept'
  <2> SUFFICES ASSUME NEW n \in Messages, status'[n] = "queued"
               PROVE  InQueue(queue', n) \/ Taken(n)'
    BY DEF Kept
  <2>1. InQueue(queue, n) \/ Taken(n)
    BY <1>1 DEF Inv, Kept, told
  <2> QED
    BY <1>4, <1>5, <1>11, <1>16, <2>1
<1>20. Paused'
  BY <1>5, <1>14 DEF Paused, AtWork, Running
<1> QED
  BY <1>8, <1>9, <1>11, <1>13, <1>17, <1>18, <1>19, <1>20 DEF Inv

-----------------------------------------------------------------------------
(* Operations join the lane *)

\* The shape of what joins.
LEMMA JoinFacts ==
    ASSUME Inv, NEW a \in Actors, NEW m \in Messages \cup {None},
           NEW how \in AllActions \cup {"default", None},
           job[a].at \in Resting, Join(a, m, how), UNCHANGED <<active, unresolved>>
    PROVE  /\ job' \in [Actors -> Jobs] /\ job'[a].at = "waiting"
           /\ job'[a].msg = m /\ job'[a].how = how
           /\ \A b \in Actors \ {a} : job'[b] = job[b]
           /\ lane' \in Seq(Actors) /\ IsInjective(lane') /\ Lanes'
<1> DEFINE waiting == [Idle EXCEPT !.at = "waiting", !.gen = gen, !.msg = m, !.how = how]
<1>1. TypeOK /\ Lanes
  BY DEF Inv
<1>2. waiting \in Jobs /\ waiting.at = "waiting" /\ waiting.msg = m /\ waiting.how = how
  BY <1>1 DEF TypeOK, Idle, Jobs, Stages
<1>3. job \in [Actors -> Jobs] /\ job' = [job EXCEPT ![a] = waiting] /\ lane' = Append(lane, a)
  BY <1>1 DEF Join, TypeOK
<1> HIDE DEF waiting
<1>4. /\ job' \in [Actors -> Jobs] /\ job'[a].at = "waiting"
      /\ job'[a].msg = m /\ job'[a].how = how
      /\ \A b \in Actors \ {a} : job'[b] = job[b]
  BY <1>2, <1>3
<1>5. JoinsLane(a)
  BY <1>3, <1>4 DEF JoinsLane, OthersStay, Stays
<1>6. Lanes'
  BY <1>1, <1>5, LanesWhenOneJoins
<1>7. lane' \in Seq(Actors)
  BY <1>1, <1>3 DEF TypeOK
<1>8. IsInjective(lane')
  BY <1>6 DEF Lanes, IsInjective
<1> QED
  BY <1>4, <1>6, <1>7, <1>8

\* An actor that rests, and is not a drain, gets ready while the queue stays alike.
LEMMA ReadyKeeps ==
    ASSUME Inv, NEW a \in Actors \ {"drain"}, \A b \in Actors \ {a} : job'[b] = job[b],
           job[a].at \in Resting, job'[a].at \in {"waiting", "cancelled"},
           a \in Messages => job[a].at = "idle" /\ job'[a].at = "waiting",
           UNCHANGED <<active, unresolved, live>>,
           GoodQueue(queue'), Alike(queue, queue'), queue'.sending = queue.sending,
           PausedWhenUnknown(queue'), Lanes', JobsFit', TypeOK',
           \A n \in Messages : status'[n] = "queued" => status[n] = "queued"
    PROVE  Inv'
<1>1. /\ Messages \subseteq Actors /\ "drain" \in Actors /\ "manage" \in Actors
      /\ "drain" \notin Messages /\ "manage" \notin Messages /\ None \notin Actors
  BY Names
<1>2. /\ SameRequests /\ Requested' /\ events' = events /\ took' = took
      /\ \A n \in Messages : (Taken(n)' <=> Taken(n)) /\ (Out(n)' <=> Out(n))
  BY RequestsStay DEF Inv, SameRequests, live
<1>3. /\ \A b \in Actors : job'[b] = job[b] \/ (b = a /\ job'[b].at \in {"waiting", "cancelled"})
      /\ job'["drain"] = job["drain"]
  BY <1>1
<1>4. \A n \in Messages : job'[n] = job[n] \/ (job[n].at = "idle" /\ job'[n].at = "waiting")
  BY <1>1
<1>5. \/ job'["manage"] = job["manage"]
      \/ job["manage"].at \in Resting /\ job'["manage"].at \in {"waiting", "cancelled"}
  BY <1>1
<1>6. Blocked => Blocked'
  BY <1>5 DEF Blocked, Resting
<1>7. QueueFits'
  <2>1. QueueCalm
    BY <1>3, <1>4, <1>5 DEF QueueCalm, Returned, DefaultInFlight, Steering
  <2> QED
    BY <2>1, QueueFitsInCalm DEF Inv, SendingFits, Alike
<1>8. Unsent'
  <2>1. \A n \in Messages : Waiting(queue', n) => Waiting(queue, n)
    BY DEF Waiting, Alike, EntryStates
  <2>2. UnsentCalm
    BY <1>2, <1>3, <1>4, <1>5, <1>6, <2>1 DEF UnsentCalm, Early
  <2> QED
    BY <2>2, UnsentInCalm DEF Inv
<1>9. Known'
  <2> USE DEF Inv
  <2>1. (\A b \in Actors \ {"stop"} :
            job[b].at = "issued" => Request(b) \in rt.open \/ Taken(job[b].msg))'
    <3> SUFFICES ASSUME NEW b \in Actors \ {"stop"}, job'[b].at = "issued"
                 PROVE  (Request(b) \in rt.open \/ Taken(job[b].msg))'
      OBVIOUS
    <3>1. job'[b] = job[b]
      BY <1>3
    <3> QED
      BY <1>2, <3>1 DEF Known, Request, SameRequests, Taken
  <2>2. job'["manage"].at = "issued" => active'.native = "uncertain"
    BY <1>5 DEF Known
  <2>3. (active.native = "accepted" /\ active.op # "manage" => Taken(job[active.op].msg))'
    <3> SUFFICES ASSUME active.native = "accepted", active.op # "manage"
                 PROVE  Taken(job[active.op].msg)'
      OBVIOUS
    <3>1. active.op \in Actors
      BY DEF TypeOK, Lanes
    <3>2. job[active.op].at \in AtWork
      BY <1>1, <3>1 DEF Lanes
    <3>3. job'[active.op] = job[active.op]
      BY <3>1, <3>2 DEF AtWork, Running, Resting
    <3> QED
      BY <1>2, <3>3 DEF Known, Taken
  <2>4. ShownEventsTaken'
    BY <1>2, ShownEventsStay
  <2>5. (job["drain"].at = "settling" /\ job["drain"].outcome \in {"accepted", "received"} =>
            Taken(job["drain"].msg))'
    BY <1>2, <1>3 DEF Known, Taken
  <2> QED
    BY <2>1, <2>2, <2>3, <2>4, <2>5 DEF Known, ShownEventsTaken
<1>10. Kept'
  <2>1. \A n \in Messages : InQueue(queue', n) <=> InQueue(queue, n)
    BY AlikeFacts DEF Inv, QueueFits
  <2> QED
    BY <1>2, <2>1 DEF Inv, Kept
<1>11. Paused'
  <2>1. HasUnknown(queue') <=> HasUnknown(queue)
    BY AlikeFacts DEF Inv, QueueFits
  <2> QED
    BY <1>5, <2>1 DEF Inv, Paused
<1> QED
  BY <1>2, <1>7, <1>8, <1>9, <1>10, <1>11 DEF Inv

\* A new submission joins the lane.
LEMMA SubmitKeeps ==
    ASSUME Inv, NEW m \in Messages, NEW mode \in Modes, Submit(m, mode)
    PROVE  Inv'
<1>1. /\ status[m] = "unsent" /\ Join(m, m, mode) /\ TypeOK
      /\ status' = [status EXCEPT ![m] = "pending"] /\ joined' = Append(joined, m)
      /\ UNCHANGED <<gen, active, unresolved, queue, due, host, live, budget>>
  BY DEF Submit, Inv
<1>2. /\ m \in Actors \ {"drain"} /\ Messages \subseteq Actors /\ job[m].at = "idle"
      /\ "drain" \in Actors /\ "manage" \in Actors /\ "stop" \in Actors
      /\ m \notin {"drain", "manage", "stop"}
  BY <1>1, Names DEF Inv, JobsFit, SubmissionFits
<1>3. mode \in {"default", "steer"} /\ mode \in AllActions \cup {"default", None}
  BY ModesAssumption DEF AllActions
<1>4. /\ job' \in [Actors -> Jobs] /\ job'[m].at = "waiting"
      /\ job'[m].msg = m /\ job'[m].how = mode
      /\ \A b \in Actors \ {m} : job'[b] = job[b]
      /\ lane' \in Seq(Actors) /\ IsInjective(lane') /\ Lanes'
  BY <1>1, <1>2, <1>3, JoinFacts DEF Resting
<1>5. status \in Statuses /\ joined \in Seq(Messages)
  BY <1>1 DEF TypeOK, Statuses
<1>6. /\ status' \in Statuses /\ status'[m] = "pending" /\ joined' \in Seq(Messages)
      /\ \A n \in Messages \ {m} : status'[n] = status[n]
  BY <1>1, <1>5 DEF Statuses
<1>7. JobsFit'
  <2>1. \A n \in Messages : SubmissionFits(n)'
    BY <1>2, <1>3, <1>4, <1>6 DEF SubmissionFits, Inv, JobsFit
  <2>2. job'["drain"] = job["drain"] /\ job'["manage"] = job["manage"] /\ job'["stop"] = job["stop"]
    BY <1>2, <1>4
  <2> QED
    BY <2>1, <2>2 DEF Inv, JobsFit, DrainFits, ManageFits, StopFits
<1>8. TypeOK'
  BY <1>1, <1>4, <1>6 DEF TypeOK, Statuses, live
<1>9. GoodQueue(queue) /\ PausedWhenUnknown(queue) /\ Alike(queue, queue)
  BY DEF Inv, QueueFits, Paused, Alike
<1> QED
  BY <1>1, <1>2, <1>4, <1>6, <1>7, <1>8, <1>9, ReadyKeeps DEF Resting

\* A queue action joins the lane.
LEMMA ManageKeeps ==
    ASSUME Inv, NEW m \in Messages, NEW how \in Actions, Manage(how, m)
    PROVE  Inv'
<1>1. /\ job["manage"].at = "idle" /\ Spend("manages") /\ Join("manage", m, how) /\ TypeOK
      /\ UNCHANGED <<gen, active, unresolved, queue, due, host, live, told>>
  BY DEF Manage, Inv
<1>2. /\ "manage" \in Actors \ {"drain"} /\ Messages \subseteq Actors
      /\ "drain" \in Actors /\ "stop" \in Actors /\ "manage" \notin Messages
      /\ "manage" # "stop"
  BY Names
<1>3. how \in AllActions \cup {"default", None}
  BY AnswersAssumption
<1>4. /\ job' \in [Actors -> Jobs] /\ job'["manage"].at = "waiting"
      /\ job'["manage"].msg = m /\ job'["manage"].how = how
      /\ \A b \in Actors \ {"manage"} : job'[b] = job[b]
      /\ lane' \in Seq(Actors) /\ IsInjective(lane') /\ Lanes'
  BY <1>1, <1>2, <1>3, JoinFacts DEF Resting
<1>5. budget' \in [Bounded -> Nat]
  BY <1>1, SpendFacts DEF Bounded
<1>6. JobsFit'
  <2>1. \A n \in Messages : job'[n] = job[n]
    BY <1>2, <1>4
  <2>2. job'["drain"] = job["drain"] /\ job'["stop"] = job["stop"]
    BY <1>2, <1>4
  <2> QED
    BY <1>1, <1>4, <2>1, <2>2 DEF Inv, JobsFit, SubmissionFits, DrainFits, ManageFits, StopFits, told
<1>7. TypeOK'
  BY <1>1, <1>4, <1>5 DEF TypeOK, told, live
<1>8. GoodQueue(queue) /\ PausedWhenUnknown(queue) /\ Alike(queue, queue)
  BY DEF Inv, QueueFits, Paused, Alike
<1> QED
  BY <1>1, <1>2, <1>4, <1>6, <1>7, <1>8, ReadyKeeps DEF Resting, told

\* A Stop cancels what waits by its generation, and then pauses the queue.
LEMMA StopKeeps ==
    ASSUME Inv, Stop
    PROVE  Inv'
<1>1. /\ job["stop"].at = "idle" /\ Spend("stops") /\ gen' = gen + 1 /\ GoTo("stop", "cancelled") /\ TypeOK
      /\ UNCHANGED <<lane, active, unresolved, queue, due, host, live, told>>
  BY DEF Stop, Inv
<1>2. /\ "stop" \in Actors \ {"drain"} /\ Messages \subseteq Actors /\ "stop" \notin Messages
      /\ "drain" \in Actors /\ "manage" \in Actors /\ "cancelled" \in Stages
      /\ "stop" # "manage"
  BY Names DEF Stages
<1>3. /\ job' \in [Actors -> Jobs] /\ job'["stop"].at = "cancelled"
      /\ \A b \in Actors \ {"stop"} : job'[b] = job[b]
  BY <1>1, <1>2, MovedTypes DEF GoTo
<1>4. budget' \in [Bounded -> Nat]
  BY <1>1, SpendFacts DEF Bounded
<1>5. JobsFit'
  <2>1. \A n \in Messages : job'[n] = job[n]
    BY <1>2, <1>3
  <2>2. job'["drain"] = job["drain"] /\ job'["manage"] = job["manage"]
    BY <1>2, <1>3
  <2> QED
    BY <1>1, <1>3, <2>1, <2>2 DEF Inv, JobsFit, SubmissionFits, DrainFits, ManageFits, StopFits, told
<1>6. Lanes'
  <2>1. StandsStill
    BY <1>1, <1>3 DEF StandsStill, Resting
  <2> QED
    BY <1>1, <2>1, LanesWhenNoneMoves DEF Inv
<1>7. TypeOK'
  BY <1>1, <1>3, <1>4 DEF TypeOK, told, live
<1>8. GoodQueue(queue) /\ PausedWhenUnknown(queue) /\ Alike(queue, queue)
  BY DEF Inv, QueueFits, Paused, Alike
<1> QED
  BY <1>1, <1>2, <1>3, <1>5, <1>6, <1>7, <1>8, ReadyKeeps DEF Resting, told

\* A Stop pauses the queue and joins the lane.
LEMMA StopPausesKeeps ==
    ASSUME Inv, StopPauses
    PROVE  Inv'
<1>1. /\ job["stop"].at = "cancelled" /\ queue' = PauseQueue(queue, "stopped")
      /\ Join("stop", None, None) /\ TypeOK
      /\ UNCHANGED <<gen, active, unresolved, due, host, live, told, budget>>
  BY DEF StopPauses, Inv
<1>2. /\ "stop" \in Actors \ {"drain"} /\ Messages \subseteq Actors /\ "stop" \notin Messages
      /\ "drain" \in Actors /\ "manage" \in Actors /\ "stop" # "manage"
  BY Names
<1>3. /\ job' \in [Actors -> Jobs] /\ job'["stop"].at = "waiting"
      /\ \A b \in Actors \ {"stop"} : job'[b] = job[b]
      /\ lane' \in Seq(Actors) /\ IsInjective(lane') /\ Lanes'
  BY <1>1, <1>2, JoinFacts DEF Resting
<1>4. JobsFit'
  <2>1. \A n \in Messages : job'[n] = job[n]
    BY <1>2, <1>3
  <2>2. job'["drain"] = job["drain"] /\ job'["manage"] = job["manage"]
    BY <1>2, <1>3
  <2> QED
    BY <1>1, <1>3, <2>1, <2>2 DEF Inv, JobsFit, SubmissionFits, DrainFits, ManageFits, StopFits, told
<1>5. /\ GoodQueue(queue') /\ Alike(queue, queue') /\ queue'.sending = queue.sending
      /\ PausedWhenUnknown(queue')
  <2>1. "stopped" \in Pauses \ {None}
    BY DEF Pauses, None
  <2>2. GoodQueue(queue) /\ PausedWhenUnknown(queue)
    BY DEF Inv, QueueFits, Paused
  <2> QED
    BY <1>1, <2>1, <2>2, PauseQueueFacts
<1>6. TypeOK'
  BY <1>1, <1>3, <1>5 DEF TypeOK, told, live, GoodQueue
<1> QED
  BY <1>1, <1>2, <1>3, <1>4, <1>5, <1>6, ReadyKeeps DEF Resting, told

\* A scheduled drain that finds nothing to send changes nothing.
LEMMA IdleDrainKeeps ==
    ASSUME Inv, UNCHANGED <<owner, job, queue, host, live, told, budget>>, due' \in 0..2
    PROVE  Inv'
<1>1. TypeOK'
  BY DEF Inv, TypeOK, owner, live, told
<1>2. Lanes'
  BY DEF Inv, Lanes, AtHead, owner
<1>3. JobsFit'
  BY DEF Inv, JobsFit, SubmissionFits, DrainFits, ManageFits, StopFits, told
<1>4. QueueFits'
  BY DEF Inv, QueueFits, Steering
<1>5. /\ Requested' /\ events' = events /\ took' = took /\ rt' = rt
      /\ \A n \in Messages : (Taken(n)' <=> Taken(n)) /\ (Out(n)' <=> Out(n))
  BY RequestsStay DEF Inv, SameRequests, live
<1>6. Blocked <=> Blocked'
  BY DEF Blocked, owner
<1>7. Unsent'
  <2>1. UnsentCalm
    BY <1>5, <1>6 DEF UnsentCalm
  <2> QED
    BY <1>3, <2>1, UnsentInCalm DEF Inv
<1>8. Known'
  BY <1>5 DEF Inv, Known, Request, Taken, owner
<1>9. Kept' /\ Paused'
  BY <1>5 DEF Inv, Kept, Paused, told
<1> QED
  BY <1>1, <1>2, <1>3, <1>4, <1>5, <1>7, <1>8, <1>9 DEF Inv

\* A drain marks the head of a queue that nothing else sends from.
LEMMA MarkingDrainKeeps ==
    ASSUME Inv, Drain, Deliverable
    PROVE  Inv'
<1>1. /\ due' = due - 1 /\ due > 0 /\ Deliverable /\ TypeOK /\ GoodQueue(queue)
      /\ queue' = [Mark(queue, Head(queue.entries).msg, "sending") EXCEPT !.sending = TRUE]
      /\ job' = [job EXCEPT !["drain"] = [Idle EXCEPT !.at = "joining", !.msg = Head(queue.entries).msg]]
      /\ UNCHANGED <<owner, host, live, told, budget>>
  BY DEF Drain, Inv, QueueFits
<1>2. /\ "drain" \in Actors /\ Messages \subseteq Actors /\ "drain" \notin Messages
      /\ "manage" \in Actors /\ "manage" # "drain" /\ "stop" \in Actors /\ "stop" # "drain"
      /\ None \notin Actors
  BY Names
<1>3. PICK m \in Messages : m = Head(queue.entries).msg /\ Has(queue, m, "queued")
  BY <1>1, EmptyHoldsNothing DEF Deliverable
<1>4. job["drain"].at = "idle" /\ \A n \in Messages : ~DefaultInFlight(n)
  BY <1>1 DEF Inv, QueueFits, Deliverable, DefaultInFlight
<1>5. /\ job' \in [Actors -> Jobs] /\ job'["drain"].at = "joining"
      /\ job'["drain"].msg = m
      /\ \A b \in Actors \ {"drain"} : job'[b] = job[b]
      /\ lane' \in Seq(Actors) /\ IsInjective(lane') /\ Lanes'
  <2> DEFINE joining == [Idle EXCEPT !.at = "joining", !.msg = m]
  <2>1. joining \in Jobs /\ joining.at = "joining" /\ joining.msg = m
    BY DEF Idle, Jobs, Stages
  <2>2. job \in [Actors -> Jobs] /\ job' = [job EXCEPT !["drain"] = joining]
    BY <1>1, <1>3 DEF TypeOK
  <2> HIDE DEF joining
  <2>3. /\ job' \in [Actors -> Jobs] /\ job'["drain"].at = "joining" /\ job'["drain"].msg = m
        /\ \A b \in Actors \ {"drain"} : job'[b] = job[b]
    BY <1>2, <2>1, <2>2
  <2>4. StandsStill
    BY <1>1, <1>4, <2>3 DEF StandsStill, Resting, owner
  <2>5. Lanes'
    BY <1>1, <2>4, LanesWhenNoneMoves DEF Inv
  <2>6. lane' \in Seq(Actors) /\ IsInjective(lane')
    BY <1>1 DEF TypeOK, owner
  <2> QED
    BY <2>3, <2>5, <2>6
<1>6. /\ \A n \in Messages : job'[n] = job[n]
      /\ job'["manage"] = job["manage"] /\ job'["stop"] = job["stop"]
  BY <1>2, <1>5
<1> DEFINE p == Mark(queue, m, "sending")
<1>7. /\ GoodQueue(p) /\ p.pause = queue.pause /\ p.sending = queue.sending
      /\ Others(queue, p, m)
      /\ \A t : Has(p, m, t) => t = "sending" /\ InQueue(queue, m)
      /\ InQueue(queue, m) <=> InQueue(p, m)
  <2>1. "sending" \in EntryStates
    BY DEF EntryStates
  <2> QED
    BY <1>1, <2>1, MarkFacts
<1>8. queue' = [p EXCEPT !.sending = TRUE]
  BY <1>1, <1>3
<1> HIDE DEF p
<1>9. GoodQueue(queue') /\ Alike(p, queue') /\ queue'.pause = p.pause /\ queue'.sending
  BY <1>7, <1>8, SendingFacts
<1>10. /\ Others(queue, queue', m)
       /\ \A t \in EntryStates : Has(queue', m, t) => t = "sending"
  BY <1>7, <1>9, AlikeOthers DEF Alike
<1>11. /\ \A n \in Messages : InQueue(queue', n) <=> InQueue(queue, n)
       /\ HasUnknown(queue') => HasUnknown(queue)
  <2>1. ~Has(queue', m, "acceptance_unknown")
    BY <1>10 DEF EntryStates
  <2>2. InQueue(queue', m) <=> InQueue(queue, m)
    BY <1>7, <1>9, AlikeFacts
  <2> QED
    BY <1>1, <1>9, <1>10, <2>1, <2>2, OthersFacts
<1>12. InQueue(queue, m) /\ job[m].at \in Returned
  <2>1. InQueue(queue, m)
    BY <1>3 DEF Has, InQueue
  <2> QED
    BY <2>1 DEF Inv, QueueFits
<1>13. /\ SameRequests /\ Requested' /\ events' = events /\ took' = took /\ rt' = rt
       /\ \A n \in Messages : (Taken(n)' <=> Taken(n)) /\ (Out(n)' <=> Out(n))
  BY <1>1, RequestsStay DEF Inv, SameRequests, live
<1>14. JobsFit'
  <2>1. \A n \in Messages : SubmissionFits(n)'
    <3>1. status' = status /\ \A n \in Messages : job'[n] = job[n]
      BY <1>1, <1>6 DEF told
    <3> QED
      BY <3>1 DEF Inv, JobsFit, SubmissionFits
  <2>2. DrainFits'
    BY <1>5 DEF DrainFits
  <2>3. ManageFits' /\ StopFits'
    BY <1>6 DEF Inv, JobsFit, ManageFits, StopFits
  <2> QED
    BY <2>1, <2>2, <2>3 DEF JobsFit
<1>15. TypeOK'
  BY <1>1, <1>5, <1>9 DEF TypeOK, owner, told, live, GoodQueue
<1>16. QueueFits'
  <2>1. Steering => job["manage"].msg \in Messages \ {m}
    <3> SUFFICES ASSUME Steering
                 PROVE  job["manage"].msg \in Messages \ {m}
      OBVIOUS
    <3>1. job["manage"].msg \in Messages
      BY DEF Inv, JobsFit, ManageFits, Steering
    <3>2. ~Has(queue, job["manage"].msg, "queued")
      BY DEF Inv, QueueFits, EntryStates
    <3> QED
      BY <1>3, <3>1, <3>2
  <2>2. Steering =>
          /\ \A s \in EntryStates : Has(queue', job["manage"].msg, s) => s = "steering"
          /\ job[job["manage"].msg].at \in Returned
    BY <1>10, <2>1 DEF Others, Inv, QueueFits
  <2>3. Steering' <=> Steering
    BY <1>6 DEF Steering
  <2>4. Steering' =>
          /\ \A s \in EntryStates : Has(queue', job'["manage"].msg, s) => s = "steering"
          /\ job'[job'["manage"].msg].at \in Returned
    BY <1>6, <2>1, <2>2, <2>3
  <2>5. \A n \in Messages : InQueue(queue', n) => job'[n].at \in Returned
    BY <1>6, <1>11 DEF Inv, QueueFits
  <2>6. \A n \in Messages : ~(job'[n].how = "default" /\ job'[n].at \in {"sending", "issued"})
    BY <1>4, <1>6 DEF DefaultInFlight
  <2>7. /\ \A s \in EntryStates : Has(queue', job'["drain"].msg, s) => s = "sending"
        /\ job'[job'["drain"].msg].at \in Returned
    BY <1>5, <1>6, <1>10, <1>12
  <2>8. Steering' => job'["drain"].msg # job'["manage"].msg
    BY <1>5, <1>6, <2>1, <2>3
  <2> QED
    BY <1>9, <2>4, <2>5, <2>6, <2>7, <2>8 DEF QueueFits
<1>17. Unsent'
  <2>1. Blocked => Blocked'
    BY <1>1, <1>6 DEF Blocked, owner
  <2>2. \A n \in Messages : Waiting(queue', n) => Waiting(queue, n)
    BY <1>3, <1>10 DEF Waiting, Others, EntryStates
  <2>3. \A n \in Messages : Waiting(queue, n) => ~Out(n) \/ Blocked
    BY DEF Inv, Unsent, Waiting
  <2>4. \A n \in Messages : job'[n].at \in Early => ~Out(n)'
    BY <1>6, <1>13 DEF Inv, Unsent
  <2>5. job'["manage"].at \in {"routing", "sending"} => ~(Out(job["manage"].msg))'
    BY <1>6, <1>13 DEF Inv, Unsent, JobsFit, ManageFits
  <2>6. ~Out(m)' \/ Blocked'
    BY <1>3, <1>13, <2>1, <2>3 DEF Waiting
  <2>7. (job["drain"].at \in Pending => ~Out(job["drain"].msg) \/ Blocked)'
    BY <1>5, <2>6
  <2>8. \A n \in Messages :
           Has(queue', n, "queued") \/ Has(queue', n, "editing") => ~Out(n)' \/ Blocked'
    BY <1>13, <2>1, <2>2, <2>3 DEF Waiting
  <2> QED
    BY <1>5, <2>4, <2>5, <2>7, <2>8 DEF Unsent
<1>18. Known'
  <2>1. \A b \in Actors : job'[b] = job[b] \/ (b = "drain" /\ job'[b].at = "joining")
    BY <1>5
  <2>2. (\A b \in Actors \ {"stop"} :
            job[b].at = "issued" => Request(b) \in rt.open \/ Taken(job[b].msg))'
    <3> SUFFICES ASSUME NEW b \in Actors \ {"stop"}, job'[b].at = "issued"
                 PROVE  (Request(b) \in rt.open \/ Taken(job[b].msg))'
      OBVIOUS
    <3>1. job'[b] = job[b]
      BY <2>1
    <3> QED
      BY <1>13, <3>1 DEF Inv, Known, Request, Taken
  <2>3. (job["manage"].at = "issued" => active.native = "uncertain")'
    BY <1>1, <1>6 DEF Inv, Known, owner
  <2>4. (active.native = "accepted" /\ active.op # "manage" => Taken(job[active.op].msg))'
    <3> SUFFICES ASSUME active.native = "accepted", active.op # "manage"
                 PROVE  Taken(job[active.op].msg)'
      BY <1>1 DEF owner
    <3>1. active.op \in Actors
      BY <1>1 DEF Inv, TypeOK, Lanes, owner
    <3>2. job[active.op].at \in AtWork
      BY <1>1, <1>2, <3>1 DEF Inv, Lanes, owner
    <3>3. job'[active.op] = job[active.op] /\ active' = active
      BY <1>1, <1>4, <1>5, <3>1, <3>2 DEF AtWork, Running, owner
    <3> QED
      BY <1>13, <3>3 DEF Inv, Known, Taken
  <2>5. ShownEventsTaken'
    BY <1>13, ShownEventsStay
  <2> QED
    BY <1>5, <2>2, <2>3, <2>4, <2>5 DEF Known, ShownEventsTaken
<1>19. Kept'
  BY <1>1, <1>11, <1>13 DEF Inv, Kept, told
<1>20. Paused'
  BY <1>6, <1>7, <1>9, <1>11 DEF Inv, Paused, PausedWhenUnknown
<1> QED
  BY <1>5, <1>13, <1>14, <1>15, <1>16, <1>17, <1>18, <1>19, <1>20 DEF Inv

\* A refused entry waits again, whatever it was before.
LEMMA FailRefusedFacts ==
    ASSUME Inv, NEW m \in Messages, queue' = FailEntry([queue EXCEPT !.sending = FALSE], m, "refused")
    PROVE  \A t \in EntryStates : Has(queue', m, t) => t = "queued"
<1> DEFINE q == [queue EXCEPT !.sending = FALSE]
<1>1. GoodQueue(q)
  BY SendingFacts DEF Inv, QueueFits
<1>2. CASE InQueue(q, m)
  <2> DEFINE w == Mark(q, m, "queued")
  <2>1. "queued" \in EntryStates /\ "delivery_failed" \in Pauses \ {None}
    BY DEF EntryStates, Pauses, None
  <2>2. queue' = FirstPause(w, "delivery_failed")
    BY <1>2 DEF FailEntry
  <2> HIDE DEF q
  <2>3. GoodQueue(w) /\ \A t : Has(w, m, t) => t = "queued" /\ InQueue(q, m)
    BY <1>1, <2>1, MarkFacts
  <2> HIDE DEF w
  <2>4. Alike(w, queue')
    BY <2>1, <2>2, <2>3, FirstPauseFacts
  <2> QED
    BY <2>3, <2>4 DEF Alike
<1>3. CASE ~InQueue(q, m)
  <2>1. queue' = FailEntry(q, m, "refused")
    OBVIOUS
  <2> HIDE DEF q
  <2>2. GoodQueue(queue') /\ ~InQueue(queue', m)
    BY <1>1, <1>3, <2>1, FailEntryFacts
  <2> QED
    BY <2>2, HasIsState
<1> QED
  BY <1>2, <1>3

\* A drain whose entry is marked joins the lane.
LEMMA DrainJoinsKeeps ==
    ASSUME Inv, DrainJoins
    PROVE  Inv'
<1>1. /\ job["drain"].at = "joining" /\ TypeOK
      /\ job' = [job EXCEPT !["drain"].at = "waiting", !["drain"].gen = gen]
      /\ lane' = Append(lane, "drain")
      /\ UNCHANGED <<gen, active, unresolved, queue, due, host, live, told, budget>>
  BY DEF DrainJoins, Inv
<1>2. /\ "drain" \in Actors /\ "manage" \in Actors /\ "manage" # "drain"
      /\ "stop" \in Actors /\ "stop" # "drain" /\ None \notin Actors
      /\ \A m \in Messages : m \in Actors /\ m # "drain"
  BY Names
<1>3. /\ job' \in [Actors -> Jobs] /\ job'["drain"].at = "waiting"
      /\ job'["drain"].msg = job["drain"].msg
      /\ \A b \in Actors \ {"drain"} : job'[b] = job[b]
  <2> DEFINE waiting == [job["drain"] EXCEPT !.at = "waiting", !.gen = gen]
  <2>1. job \in [Actors -> Jobs] /\ job["drain"] \in Jobs /\ gen \in Nat
    BY <1>1, <1>2 DEF TypeOK
  <2>2. waiting \in Jobs /\ waiting.at = "waiting" /\ waiting.msg = job["drain"].msg
    BY <2>1 DEF Jobs, Stages
  <2>3. job' = [job EXCEPT !["drain"] = waiting]
    BY <1>1, <2>1
  <2> HIDE DEF waiting
  <2> QED
    BY <1>2, <2>1, <2>2, <2>3
<1>4. Lanes'
  <2>1. JoinsLane("drain")
    BY <1>1, <1>3 DEF JoinsLane, OthersStay, Stays, Resting
  <2> QED
    BY <1>2, <2>1, LanesWhenOneJoins DEF Inv
<1>5. lane' \in Seq(Actors) /\ IsInjective(lane')
  <2>1. lane' \in Seq(Actors)
    BY <1>1, <1>2 DEF TypeOK
  <2> QED
    BY <1>4, <2>1 DEF Lanes, IsInjective
<1>6. TypeOK'
  BY <1>1, <1>3, <1>5 DEF TypeOK, told, live
<1>7. /\ \A n \in Messages : job'[n] = job[n]
      /\ job'["manage"] = job["manage"] /\ job'["stop"] = job["stop"]
  BY <1>2, <1>3
<1>8. JobsFit'
  <2>1. \A n \in Messages : SubmissionFits(n)'
    <3>1. status' = status /\ \A n \in Messages : job'[n] = job[n]
      BY <1>1, <1>7 DEF told
    <3> QED
      BY <3>1 DEF Inv, JobsFit, SubmissionFits
  <2>2. DrainFits'
    BY <1>1, <1>3 DEF Inv, JobsFit, DrainFits
  <2>3. ManageFits' /\ StopFits'
    BY <1>7 DEF Inv, JobsFit, ManageFits, StopFits
  <2> QED
    BY <2>1, <2>2, <2>3 DEF JobsFit
<1>9. QueueFits'
  <2>1. QueueCalm
    BY <1>1, <1>3, <1>7 DEF QueueCalm, DefaultInFlight, Steering
  <2>2. GoodQueue(queue)
    BY DEF Inv, QueueFits
  <2> QED
    BY <1>1, <2>1, <2>2, QueueFitsInCalm DEF Inv, SendingFits
<1>10. /\ Requested' /\ events' = events /\ took' = took /\ rt' = rt
       /\ \A n \in Messages : (Taken(n)' <=> Taken(n)) /\ (Out(n)' <=> Out(n))
  BY <1>1, RequestsStay DEF Inv, SameRequests, live
<1>11. Unsent'
  <2>1. Blocked => Blocked'
    BY <1>1, <1>7 DEF Blocked
  <2>2. UnsentCalm
    BY <1>1, <1>3, <1>7, <1>10, <2>1 DEF UnsentCalm, Pending
  <2> QED
    BY <1>8, <2>2, UnsentInCalm DEF Inv
<1>12. Known'
  <2>1. \A b \in Actors : job'[b] = job[b] \/ (b = "drain" /\ job'[b].at = "waiting")
    BY <1>3
  <2>2. (\A b \in Actors \ {"stop"} :
            job[b].at = "issued" => Request(b) \in rt.open \/ Taken(job[b].msg))'
    <3> SUFFICES ASSUME NEW b \in Actors \ {"stop"}, job'[b].at = "issued"
                 PROVE  (Request(b) \in rt.open \/ Taken(job[b].msg))'
      OBVIOUS
    <3>1. job'[b] = job[b]
      BY <2>1
    <3> QED
      BY <1>10, <3>1 DEF Inv, Known, Request, Taken
  <2>3. (job["manage"].at = "issued" => active.native = "uncertain")'
    BY <1>1, <1>7 DEF Inv, Known
  <2>4. (active.native = "accepted" /\ active.op # "manage" => Taken(job[active.op].msg))'
    <3> SUFFICES ASSUME active.native = "accepted", active.op # "manage"
                 PROVE  Taken(job[active.op].msg)'
      BY <1>1
    <3>1. active.op \in Actors
      BY <1>1 DEF Inv, TypeOK, Lanes
    <3>2. job'[active.op].msg = job[active.op].msg /\ active' = active
      BY <1>1, <1>3, <3>1
    <3> QED
      BY <1>10, <3>2 DEF Inv, Known, Taken
  <2>5. ShownEventsTaken'
    BY <1>10, ShownEventsStay
  <2> QED
    BY <1>3, <2>2, <2>3, <2>4, <2>5 DEF Known, ShownEventsTaken
<1>13. Kept' /\ Paused'
  BY <1>1, <1>7, <1>10 DEF Inv, Kept, Paused, told
<1> QED
  BY <1>4, <1>6, <1>8, <1>9, <1>10, <1>11, <1>12, <1>13 DEF Inv

\* A drain that cannot join returns its message to the queue.
LEMMA DrainFailsKeeps ==
    ASSUME Inv, DrainFails
    PROVE  Inv'
<1>1. /\ job["drain"].at = "joining" /\ TypeOK /\ Spend("failures")
      /\ queue' = FailEntry([queue EXCEPT !.sending = FALSE], job["drain"].msg, "refused")
      /\ Schedule(Once(job["drain"].ended))
      /\ job' = [job EXCEPT !["drain"] = Idle]
      /\ UNCHANGED <<owner, host, live, told>>
  BY DEF DrainFails, Inv
<1>2. /\ "drain" \in Actors /\ "manage" \in Actors /\ "manage" # "drain"
      /\ "stop" \in Actors /\ "stop" # "drain" /\ None \notin Actors
      /\ \A m \in Messages : m \in Actors /\ m # "drain"
  BY Names
<1>3. PICK m \in Messages : m = job["drain"].msg
  BY <1>1 DEF Inv, JobsFit, DrainFits
<1>4. /\ GoodQueue(queue') /\ ~queue'.sending /\ queue'.pause # None /\ Others(queue, queue', m)
      /\ \A n \in Messages : InQueue(queue', n) <=> InQueue(queue, n)
  <2> DEFINE q == [queue EXCEPT !.sending = FALSE]
  <2>1. GoodQueue(queue)
    BY DEF Inv, QueueFits
  <2>2. GoodQueue(q) /\ Alike(queue, q) /\ q.sending = FALSE
    BY <2>1, SendingFacts
  <2>3. queue' = FailEntry(q, m, "refused")
    BY <1>1, <1>3
  <2> HIDE DEF q
  <2>4. /\ GoodQueue(queue') /\ queue'.sending = q.sending /\ queue'.pause # None
        /\ Others(q, queue', m)
        /\ InQueue(queue', m) <=> InQueue(q, m)
    BY <2>2, <2>3, FailEntryFacts
  <2>5. \A n \in Messages : InQueue(q, n) <=> InQueue(queue, n)
    BY <2>1, <2>2, AlikeFacts
  <2>6. \A n \in Messages \ {m} : InQueue(queue', n) <=> InQueue(q, n)
    BY <2>2, <2>4, OthersFacts
  <2>7. Others(queue, queue', m)
    BY <2>2, <2>4, AlikeOthers
  <2> QED
    BY <2>2, <2>4, <2>5, <2>6, <2>7
<1>5. Idle \in Jobs /\ Idle.at = "idle"
  BY DEF Idle, Jobs, Stages
<1>6. /\ job' \in [Actors -> Jobs] /\ job'["drain"].at = "idle"
      /\ \A b \in Actors \ {"drain"} : job'[b] = job[b]
  BY <1>1, <1>2, <1>5 DEF TypeOK
<1>7. /\ \A n \in Messages : job'[n] = job[n]
      /\ job'["manage"] = job["manage"] /\ job'["stop"] = job["stop"]
  BY <1>2, <1>6
<1>8. Lanes'
  <2>1. StandsStill
    BY <1>1, <1>6 DEF StandsStill, Resting, owner
  <2> QED
    BY <1>1, <2>1, LanesWhenNoneMoves DEF Inv
<1>9. TypeOK'
  <2>1. due' \in 0..2 /\ budget' \in [Bounded -> Nat]
    BY <1>1, ScheduleFacts, SpendFacts DEF Once, TypeOK, Bounded
  <2> QED
    BY <1>1, <1>4, <1>6, <2>1 DEF TypeOK, owner, told, live, GoodQueue
<1>10. JobsFit'
  BY <1>1, <1>6, <1>7 DEF Inv, JobsFit, SubmissionFits, DrainFits, ManageFits, StopFits, told
<1>11. /\ job[m].at \in Returned /\ \A n \in Messages : ~DefaultInFlight(n)
       /\ Steering => m # job["manage"].msg
  BY <1>1, <1>3 DEF Inv, QueueFits, DefaultInFlight
<1>12. QueueFits'
  <2>1. QueueCalm
    BY <1>6, <1>7 DEF QueueCalm, DefaultInFlight, Steering
  <2>2. SendingFits
    BY <1>6, <1>7, <1>11 DEF SendingFits, DefaultInFlight
  <2>3. \A n \in Messages, s \in EntryStates : Has(queue', n, s) => Has(queue, n, s) \/ AllowedEntry(n, s)
    <3> SUFFICES ASSUME NEW n \in Messages, NEW s \in EntryStates, Has(queue', n, s)
                 PROVE  Has(queue, n, s) \/ AllowedEntry(n, s)
      OBVIOUS
    <3>1. CASE n # m
      BY <1>4, <3>1 DEF Others
    <3>2. CASE n = m
      BY <1>6, <1>7, <1>11, <3>2 DEF AllowedEntry, Steering
    <3> QED
      BY <3>1, <3>2
  <2> QED
    BY <1>4, <2>1, <2>2, <2>3, QueueFitsInCalm DEF Inv
<1>13. /\ SameRequests /\ Requested' /\ events' = events /\ took' = took /\ rt' = rt
       /\ \A n \in Messages : (Taken(n)' <=> Taken(n)) /\ (Out(n)' <=> Out(n))
  BY <1>1, RequestsStay DEF Inv, SameRequests, live
<1>14. Unsent'
  <2>1. Blocked => Blocked'
    BY <1>1, <1>7 DEF Blocked, owner
  <2>2. ~Out(m) \/ Blocked
    BY <1>1, <1>3 DEF Inv, Unsent, Pending
  <2>3. \A n \in Messages : Waiting(queue', n) => Waiting(queue, n) \/ ~Out(n)' \/ Blocked'
    <3> SUFFICES ASSUME NEW n \in Messages, Waiting(queue', n)
                 PROVE  Waiting(queue, n) \/ ~Out(n)' \/ Blocked'
      OBVIOUS
    <3>1. CASE n # m
      BY <1>4, <3>1 DEF Waiting, Others, EntryStates
    <3>2. CASE n = m
      BY <1>13, <2>1, <2>2, <3>2
    <3> QED
      BY <3>1, <3>2
  <2>4. UnsentCalm
    BY <1>6, <1>7, <1>13, <2>1, <2>3 DEF UnsentCalm, Pending
  <2> QED
    BY <1>10, <2>4, UnsentInCalm DEF Inv
<1>15. Known'
  <2>1. \A b \in Actors : job'[b] = job[b] \/ (b = "drain" /\ job'[b].at = "idle")
    BY <1>6
  <2>2. (\A b \in Actors \ {"stop"} :
            job[b].at = "issued" => Request(b) \in rt.open \/ Taken(job[b].msg))'
    <3> SUFFICES ASSUME NEW b \in Actors \ {"stop"}, job'[b].at = "issued"
                 PROVE  (Request(b) \in rt.open \/ Taken(job[b].msg))'
      OBVIOUS
    <3>1. job'[b] = job[b]
      BY <2>1
    <3> QED
      BY <1>13, <3>1 DEF Inv, Known, Request, Taken
  <2>3. (job["manage"].at = "issued" => active.native = "uncertain")'
    BY <1>1, <1>7 DEF Inv, Known, owner
  <2>4. (active.native = "accepted" /\ active.op # "manage" => Taken(job[active.op].msg))'
    <3> SUFFICES ASSUME active.native = "accepted", active.op # "manage"
                 PROVE  Taken(job[active.op].msg)'
      BY <1>1 DEF owner
    <3>1. active.op \in Actors /\ active' = active
      BY <1>1 DEF Inv, TypeOK, Lanes, owner
    <3>2. job[active.op].at \in AtWork
      BY <1>2, <3>1 DEF Inv, Lanes
    <3>3. job'[active.op] = job[active.op]
      BY <1>1, <1>6, <3>1, <3>2 DEF AtWork, Running
    <3> QED
      BY <1>13, <3>1, <3>3 DEF Inv, Known, Taken
  <2>5. ShownEventsTaken'
    BY <1>13, ShownEventsStay
  <2> QED
    BY <1>6, <2>2, <2>3, <2>4, <2>5 DEF Known, ShownEventsTaken
<1>16. Kept'
  BY <1>1, <1>4, <1>13 DEF Inv, Kept, told
<1>17. Paused'
  <2>1. "manage" \in Actors /\ job'["manage"] = job["manage"]
    BY <1>2, <1>7
  <2>2. job["manage"].at # "committing" \/ ~HasUnknown(queue')
    <3>1. Has(queue', m, "acceptance_unknown") => FALSE
      <4>1. \A t \in EntryStates : Has(queue', m, t) => t = "queued"
        BY <1>1, <1>3, FailRefusedFacts
      <4> QED
        BY <4>1 DEF EntryStates
    <3>2. HasUnknown(queue') => HasUnknown(queue)
      BY <1>4, <3>1, OthersFacts DEF Inv, QueueFits
    <3> QED
      BY <3>2 DEF Inv, Paused
  <2> QED
    BY <1>4, <2>1, <2>2 DEF Paused, PausedWhenUnknown
<1> QED
  BY <1>8, <1>9, <1>10, <1>12, <1>13, <1>14, <1>15, <1>16, <1>17 DEF Inv

\* A scheduled drain runs.
LEMMA DrainKeeps ==
    ASSUME Inv, Drain
    PROVE  Inv'
<1>1. CASE Deliverable
  BY <1>1, MarkingDrainKeeps
<1>2. CASE ~Deliverable
  <2>1. UNCHANGED <<owner, job, queue, host, live, told, budget>> /\ due' \in 0..2
    BY <1>2 DEF Drain, owner, Inv, TypeOK
  <2> QED
    BY <2>1, IdleDrainKeeps
<1> QED
  BY <1>1, <1>2

-----------------------------------------------------------------------------
(* The runtime takes a message, and the host observes it *)

\* Where only the runtime's side and the events move, the rest of the invariant stays.
LEMMA HostSideStays ==
    ASSUME Inv, UNCHANGED <<owner, job, queue, told>>
    PROVE  /\ Lanes' /\ JobsFit' /\ QueueFits' /\ Paused' /\ (Blocked <=> Blocked')
<1>1. Lanes'
  BY DEF Inv, Lanes, AtHead, owner
<1>2. JobsFit'
  BY DEF Inv, JobsFit, SubmissionFits, DrainFits, ManageFits, StopFits, told
<1>3. QueueFits'
  BY DEF Inv, QueueFits, Steering
<1>4. Blocked <=> Blocked'
  BY DEF Blocked, owner
<1>5. Paused'
  BY DEF Inv, Paused
<1> QED
  BY <1>1, <1>2, <1>3, <1>4, <1>5

\* The runtime takes an open request: it is closed, and counts once.
LEMMA TakeKeeps ==
    ASSUME Inv, NEW request \in rt.open, Take(request)
    PROVE  Inv'
<1> DEFINE r == [rt EXCEPT !.turn = TRUE, !.open = @ \ {request}]
<1> DEFINE shown == [kind |-> "user", msg |-> request.msg]
<1>1. /\ TypeOK /\ took' = Append(took, request.msg) /\ Reports(r, <<shown>>)
      /\ UNCHANGED <<owner, job, queue, due, host, told, budget>>
  BY DEF Take, Inv
<1>2. rt \in RuntimeStates /\ request \in Requests /\ took \in Seq(Messages)
  BY <1>1 DEF TypeOK, RuntimeStates
<1>3. PICK m \in Messages : m = request.msg
  BY <1>2 DEF Requests
<1>4. r \in RuntimeStates /\ r.open = rt.open \ {request}
  BY <1>2 DEF RuntimeStates
<1>5. shown \in Events /\ shown.kind = "user" /\ shown.msg = m /\ <<shown>> \in Seq(Events)
  BY <1>3 DEF Events
<1> HIDE DEF r, shown
<1>6. /\ rt' = r /\ events' \in Seq(Events) /\ seen' = seen
      /\ \A i \in DOMAIN events' :
            \/ i \in DOMAIN events /\ events'[i] = events[i]
            \/ events'[i].kind = "state"
            \/ events'[i] = shown
  <2>1. /\ rt' = r /\ events' \in Seq(Events) /\ seen' = seen
        /\ \A i \in DOMAIN events' :
              \/ i \in DOMAIN events /\ events'[i] = events[i]
              \/ events'[i].kind = "state"
              \/ \E j \in DOMAIN <<shown>> : events'[i] = <<shown>>[j]
    BY <1>1, <1>4, <1>5, ReportFacts
  <2>2. \A j \in DOMAIN <<shown>> : <<shown>>[j] = shown
    OBVIOUS
  <2> QED
    BY <2>1, <2>2
<1>7. rt'.open = rt.open \ {request} /\ rt' \in RuntimeStates
  BY <1>4, <1>6
<1>8. took' \in Seq(Messages) /\ Len(took') = Len(took) + 1 /\ took'[Len(took) + 1] = m
      /\ \A i \in DOMAIN took : i \in DOMAIN took' /\ took'[i] = took[i]
  BY <1>1, <1>2, <1>3
<1>9. \A i \in DOMAIN took' : i \in DOMAIN took \/ i = Len(took) + 1
  BY <1>2, <1>8
<1>10. Taken(m)' /\ \A n \in Messages : (Taken(n) => Taken(n)') /\ (Taken(n)' => Taken(n) \/ n = m)
  <2>1. Taken(m)'
    BY <1>2, <1>8 DEF Taken
  <2> QED
    BY <1>8, <1>9, <2>1 DEF Taken
<1>11. OpenFor(m) /\ ~Taken(m)
  BY <1>3 DEF OpenFor, Inv, Requested
<1>12. \A n \in Messages : (OpenFor(n)' => OpenFor(n) /\ n # m)
  <2> SUFFICES ASSUME NEW n \in Messages, OpenFor(n)'
               PROVE  OpenFor(n) /\ n # m
    OBVIOUS
  <2>1. PICK t \in rt.open \ {request} : t.msg = n
    BY <1>7 DEF OpenFor
  <2>2. n # m
    BY <1>3, <2>1 DEF Inv, Requested
  <2> QED
    BY <2>1, <2>2 DEF OpenFor
<1>13. \A n \in Messages : Out(n)' => Out(n)
  BY <1>10, <1>11, <1>12 DEF Out
<1>14. Requested'
  <2>1. \A s, t \in rt'.open : s.msg = t.msg => s = t
    BY <1>7 DEF Inv, Requested
  <2>2. \A n \in Messages : OpenFor(n)' => ~Taken(n)'
    BY <1>10, <1>12 DEF Inv, Requested
  <2>3. \A i, j \in DOMAIN took' : took'[i] = took'[j] => i = j
    <3>1. \A i \in DOMAIN took : took[i] # m
      BY <1>11 DEF Taken
    <3>2. \A i, j \in DOMAIN took : took[i] = took[j] => i = j
      BY DEF Inv, Requested
    <3> QED
      BY <1>8, <1>9, <3>1, <3>2
  <2> QED
    BY <2>1, <2>2, <2>3 DEF Requested
<1>15. /\ Lanes' /\ JobsFit' /\ QueueFits' /\ Paused' /\ (Blocked <=> Blocked')
  BY <1>1, HostSideStays
<1>16. TypeOK'
  BY <1>1, <1>6, <1>7, <1>8 DEF TypeOK, RuntimeStates, owner, told
<1>17. Unsent'
  <2>1. UnsentCalm
    BY <1>1, <1>13, <1>15 DEF UnsentCalm
  <2> QED
    BY <1>15, <2>1, UnsentInCalm DEF Inv
<1>18. Known'
  <2>1. \A n : Taken(n) => Taken(n)'
    BY <1>8 DEF Taken
  <2>2. \A b \in Actors \ {"stop"} :
           job[b].at = "issued" => Request(b) \in rt'.open \/ Taken(job[b].msg)'
    <3> SUFFICES ASSUME NEW b \in Actors \ {"stop"}, job[b].at = "issued", Request(b) \notin rt'.open
                 PROVE  Taken(job[b].msg)'
      OBVIOUS
    <3>1. Request(b).msg = job[b].msg
      BY DEF Request
    <3>2. Request(b) \in rt.open \/ Taken(job[b].msg)
      BY DEF Inv, Known
    <3>3. Request(b) = request => Taken(job[b].msg)'
      BY <1>1, <1>3, <1>10, <3>1
    <3> QED
      BY <1>1, <1>7, <2>1, <3>2, <3>3 DEF Taken
  <2>3. ShownEventsTaken'
    BY <1>5, <1>6, <1>10, <2>1 DEF ShownEventsTaken, Inv, Known, Taken
  <2>4. /\ job["manage"].at = "issued" => active.native = "uncertain"
        /\ active.native = "accepted" /\ active.op # "manage" => Taken(job[active.op].msg)'
        /\ job["drain"].at = "settling" /\ job["drain"].outcome \in {"accepted", "received"} =>
              Taken(job["drain"].msg)'
    <3>1. active' = active /\ job' = job
      BY <1>1 DEF owner
    <3>2. /\ job["manage"].at = "issued" => active.native = "uncertain"
          /\ active.native = "accepted" /\ active.op # "manage" => Taken(job[active.op].msg)
          /\ job["drain"].at = "settling" /\ job["drain"].outcome \in {"accepted", "received"} =>
                Taken(job["drain"].msg)
      BY DEF Inv, Known
    <3> QED
      BY <2>1, <3>1, <3>2 DEF Taken
  <2> QED
    BY <1>1, <2>2, <2>3, <2>4 DEF Known, ShownEventsTaken, owner, Request, Taken
<1>19. Kept'
  BY <1>1, <1>10 DEF Inv, Kept, told
<1> QED
  BY <1>14, <1>15, <1>16, <1>17, <1>18, <1>19 DEF Inv

\* What the conversation shows first is a message that the runtime took.
LEMMA FirstEventFacts ==
    ASSUME Inv, events # <<>>
    PROVE  /\ Head(events) \in Events /\ Tail(events) \in Seq(Events)
           /\ Head(events).kind = "user" => Head(events).msg \in Messages /\ Taken(Head(events).msg)
           /\ \A i \in DOMAIN Tail(events) : i + 1 \in DOMAIN events /\ Tail(events)[i] = events[i + 1]
<1>1. events \in Seq(Events)
  BY DEF Inv, TypeOK
<1>2. /\ Tail(events) \in Seq(Events) /\ Head(events) \in Events
      /\ \A i \in DOMAIN Tail(events) : i + 1 \in DOMAIN events /\ Tail(events)[i] = events[i + 1]
      /\ 1 \in DOMAIN events /\ Head(events) = events[1]
  BY <1>1, TailFacts
<1>3. Head(events).kind = "user" => Taken(Head(events).msg)
  BY <1>2 DEF Inv, Known
<1>4. Head(events).kind = "user" => Head(events).msg \in Messages
  BY <1>2 DEF Events, StateEvent
<1> QED
  BY <1>2, <1>3, <1>4

\* The owner learns of a taken message, or forgets the operation that named it.
LEMMA OwnerObservesKeeps ==
    ASSUME Inv, OwnerObserves
    PROVE  Inv'
<1>1. /\ events # <<>> /\ Head(events).kind = "user" /\ seen' = TRUE /\ TypeOK /\ Lanes
      /\ UNCHANGED <<gen, lane, job, queue, due, host, rt, took, events, told, budget>>
  BY DEF OwnerObserves, Inv
<1>2. PICK m \in Messages : m = Head(events).msg /\ Taken(m)
  BY <1>1, FirstEventFacts
<1>3. \/ /\ active.op \notin {None, "manage", "stop"} /\ job[active.op].msg = m
         /\ active' = [active EXCEPT !.native = "accepted"] /\ unresolved' = unresolved
      \/ unresolved' = StillUnresolved(m) /\ active' = active
      \/ unresolved' = unresolved /\ active' = active
  BY <1>2 DEF OwnerObserves
<1>4. active \in [op : Actors \cup {None}, native : {"not_issued", "uncertain", "accepted", "refused"}]
      /\ unresolved \in Messages \cup {None, "unnamed"}
  BY <1>1 DEF TypeOK
<1>5. /\ active' \in [op : Actors \cup {None}, native : {"not_issued", "uncertain", "accepted", "refused"}]
      /\ active'.op = active.op
      /\ active.op \in {None, "manage", "stop"} => active' = active
      /\ unresolved' \in {unresolved, None}
      /\ unresolved = "unnamed" => unresolved' = "unnamed"
  BY <1>3, <1>4, Names DEF StillUnresolved
<1>6. Blocked => Blocked'
  BY <1>1, <1>5 DEF Blocked
<1>7. TypeOK'
  BY <1>1, <1>4, <1>5 DEF TypeOK, told
<1>8. Lanes'
  <2>1. StandsStill
    BY <1>1, <1>5 DEF StandsStill
  <2> QED
    BY <1>1, <2>1, LanesWhenNoneMoves
<1>9. JobsFit'
  BY <1>1 DEF Inv, JobsFit, SubmissionFits, DrainFits, ManageFits, StopFits, told
<1>10. QueueFits' /\ Paused'
  BY <1>1 DEF Inv, QueueFits, Paused, Steering
<1>11. /\ SameRequests /\ Requested'
       /\ \A n \in Messages : (Taken(n)' <=> Taken(n)) /\ (Out(n)' <=> Out(n))
  BY <1>1, RequestsStay DEF Inv, SameRequests
<1>12. Unsent'
  <2>1. UnsentCalm
    BY <1>1, <1>6, <1>11 DEF UnsentCalm
  <2> QED
    BY <1>9, <2>1, UnsentInCalm DEF Inv
<1>13. Known'
  <2>1. job["manage"].at = "issued" => active'.native = "uncertain"
    BY <1>1, <1>5, Names DEF Inv, Known, Lanes, Running
  <2>2. active'.native = "accepted" /\ active.op # "manage" => Taken(job[active.op].msg)
    BY <1>2, <1>3 DEF Inv, Known
  <2> QED
    BY <1>1, <1>5, <2>1, <2>2 DEF Inv, Known, Request, Taken
<1>14. Kept'
  BY <1>1, <1>11 DEF Inv, Kept, told
<1> QED
  BY <1>7, <1>8, <1>9, <1>10, <1>11, <1>12, <1>13, <1>14 DEF Inv

\* What the queue makes of an event: no message comes in or changes, and only one that
\* the runtime took leaves.
LEMMA QueueAfterFacts ==
    ASSUME Inv, NEW event \in Events, NEW idKnown \in BOOLEAN,
           event.kind = "user" => event.msg \in Messages /\ Taken(event.msg)
    PROVE  LET q == QueueAfter(event, idKnown)
           IN /\ GoodQueue(q) /\ q.sending = queue.sending
              /\ \A m \in Messages, s \in EntryStates : Has(q, m, s) => Has(queue, m, s)
              /\ \A m \in Messages : InQueue(queue, m) => InQueue(q, m) \/ Taken(m)
              /\ PausedWhenUnknown(q) /\ (HasUnknown(q) => HasUnknown(queue))
<1> DEFINE q == QueueAfter(event, idKnown)
<1>1. GoodQueue(queue) /\ PausedWhenUnknown(queue)
  BY DEF Inv, QueueFits, Paused
<1>2. CASE event.kind = "user"
  <2>1. PICK m \in Messages : m = event.msg /\ Taken(m)
    BY <1>2
  <2>2. q = ResolveAccepted(queue, m, idKnown)
    BY <1>2, <2>1 DEF QueueAfter
  <2>3. /\ GoodQueue(q) /\ q.sending = queue.sending /\ Others(queue, q, m)
        /\ \A t \in EntryStates : Has(q, m, t) => Has(queue, m, t)
        /\ PausedWhenUnknown(queue) => PausedWhenUnknown(q)
        /\ HasUnknown(q) => HasUnknown(queue)
    BY <1>1, <2>2, ResolveAcceptedFacts
  <2> HIDE DEF q
  <2>4. \A n \in Messages \ {m} : InQueue(q, n) <=> InQueue(queue, n)
    BY <1>1, <2>3, OthersFacts
  <2>5. \A n \in Messages, s \in EntryStates : Has(q, n, s) => Has(queue, n, s)
    BY <2>3 DEF Others
  <2>6. \A n \in Messages : InQueue(queue, n) => InQueue(q, n) \/ Taken(n)
    BY <2>1, <2>4
  <2> QED
    BY <1>1, <2>3, <2>5, <2>6 DEF q
<1>3. CASE q = queue
  <2> HIDE DEF q
  <2> QED
    BY <1>1, <1>3 DEF q
<1>4. ASSUME NEW c \in Pauses \ {None}, q = PauseQueue(queue, c)
      PROVE  /\ GoodQueue(q) /\ q.sending = queue.sending /\ Alike(queue, q)
             /\ PausedWhenUnknown(q)
  BY <1>1, <1>4, PauseQueueFacts
<1>5. ASSUME NEW c \in Pauses \ {None}, q = PauseQueue(queue, c)
      PROVE  /\ GoodQueue(q) /\ q.sending = queue.sending
             /\ \A m \in Messages, s \in EntryStates : Has(q, m, s) => Has(queue, m, s)
             /\ \A m \in Messages : InQueue(queue, m) => InQueue(q, m) \/ Taken(m)
             /\ PausedWhenUnknown(q) /\ (HasUnknown(q) => HasUnknown(queue))
  <2>1. GoodQueue(q) /\ q.sending = queue.sending /\ Alike(queue, q) /\ PausedWhenUnknown(q)
    BY <1>4, <1>5
  <2> HIDE DEF q
  <2>2. /\ \A m \in Messages : InQueue(q, m) <=> InQueue(queue, m)
        /\ HasUnknown(q) <=> HasUnknown(queue)
    BY <1>1, <2>1, AlikeFacts
  <2> QED
    BY <2>1, <2>2 DEF Alike
<1>6. CASE q # queue /\ event.kind # "user"
  <2>1. event.kind = "ended" => event.outcome \in AllTurnEnds
    BY DEF Events, StateEvent
  <2>2. event.kind = "ended" /\ event.outcome # "completed" => PauseAfter(event.outcome) \in Pauses \ {None}
    BY <2>1 DEF PauseAfter, Pauses, None, AllTurnEnds
  <2>3. "left_runtime" \in Pauses \ {None}
    BY DEF Pauses, None
  <2>4. \/ q = PauseQueue(queue, "left_runtime")
        \/ event.kind = "ended" /\ event.outcome # "completed" /\ q = PauseQueue(queue, PauseAfter(event.outcome))
    BY <1>6 DEF QueueAfter
  <2> QED
    BY <1>5, <2>2, <2>3, <2>4
<1> QED
  BY <1>2, <1>3, <1>6

\* What the queue knows of the session keeps its shape.
LEMMA HostAfterTypes ==
    ASSUME TypeOK, NEW event \in Events
    PROVE  HostAfter(event) \in
              [working : BOOLEAN, blocked : BOOLEAN, left : BOOLEAN, unavailable : BOOLEAN]
<1>1. host \in [working : BOOLEAN, blocked : BOOLEAN, left : BOOLEAN, unavailable : BOOLEAN]
  BY DEF TypeOK
<1>2. event.kind = "state" => event.turn \in BOOLEAN /\ event.asking \in BOOLEAN /\ event.readable \in BOOLEAN
  BY DEF Events, StateEvent
<1> QED
  BY <1>1, <1>2 DEF HostAfter

\* The queue observes the first event.
LEMMA QueueObservesKeeps ==
    ASSUME Inv, QueueObserves
    PROVE  Inv'
<1> DEFINE event == Head(events)
<1>1. /\ events # <<>> /\ host' = HostAfter(event) /\ TypeOK
      /\ \E idKnown \in BOOLEAN : queue' = QueueAfter(event, idKnown)
      /\ job' \in {job, TurnCompleted} /\ events' = Tail(events) /\ seen' = FALSE
      /\ \E n \in 0..1 : Schedule(n)
      /\ UNCHANGED <<owner, rt, took, told, budget>>
  BY DEF QueueObserves, Once, Inv
<1>2. /\ event \in Events /\ events' \in Seq(Events)
      /\ event.kind = "user" => event.msg \in Messages /\ Taken(event.msg)
      /\ \A i \in DOMAIN events' : i + 1 \in DOMAIN events /\ events'[i] = events[i + 1]
  BY <1>1, FirstEventFacts
<1> HIDE DEF event
<1>3. /\ GoodQueue(queue') /\ queue'.sending = queue.sending
      /\ \A m \in Messages, s \in EntryStates : Has(queue', m, s) => Has(queue, m, s)
      /\ \A m \in Messages : InQueue(queue, m) => InQueue(queue', m) \/ Taken(m)
      /\ PausedWhenUnknown(queue') /\ (HasUnknown(queue') => HasUnknown(queue))
  BY <1>1, <1>2, QueueAfterFacts
<1>4. host' \in [working : BOOLEAN, blocked : BOOLEAN, left : BOOLEAN, unavailable : BOOLEAN]
  BY <1>1, <1>2, HostAfterTypes
<1>5. due' \in 0..2
  BY <1>1, ScheduleFacts DEF TypeOK
<1>6. job' \in [Actors -> Jobs] /\ \A b \in Actors : Stays(b)
  <2>1. job \in [Actors -> Jobs]
    BY <1>1 DEF TypeOK
  <2>2. CASE job' = job
    BY <2>1, <2>2 DEF Stays
  <2>3. CASE job' = TurnCompleted
    <3>3. \A b \in Actors : job'[b] \in Jobs /\ Stays(b)
      <4> SUFFICES ASSUME NEW b \in Actors
                   PROVE  job'[b] \in Jobs /\ Stays(b)
        OBVIOUS
      <4>1. PICK e \in BOOLEAN : e = (job[b].ended \/ Delivering(b))
        OBVIOUS
      <4>2. job'[b] = [job[b] EXCEPT !.ended = e]
        BY <2>3, <4>1 DEF TurnCompleted
      <4> QED
        BY <2>1, <4>2 DEF Jobs, Stays
    <3>4. job' = [b \in Actors |-> job'[b]]
      BY <2>3 DEF TurnCompleted
    <3> QED
      BY <3>3, <3>4
  <2> QED
    BY <1>1, <2>2, <2>3
<1>7. TypeOK'
  BY <1>1, <1>2, <1>3, <1>4, <1>5, <1>6 DEF TypeOK, owner, told, GoodQueue
<1>8. Lanes'
  <2>1. StandsStill
    BY <1>1, <1>6 DEF StandsStill, Stays, owner
  <2> QED
    BY <1>1, <2>1, LanesWhenNoneMoves DEF Inv
<1>9. /\ \A m \in Messages : Stays(m)
      /\ Stays("drain") /\ Stays("manage") /\ Stays("stop")
  BY <1>6, Names
<1>10. JobsFit'
  BY <1>1, <1>9 DEF Inv, JobsFit, SubmissionFits, DrainFits, ManageFits, StopFits, told, Stays
<1>11. QueueFits'
  <2>1. QueueCalm
    BY <1>9 DEF QueueCalm, Stays, DefaultInFlight, Steering
  <2> QED
    BY <1>3, <2>1, QueueFitsInCalm DEF Inv, SendingFits
<1>12. /\ SameRequests /\ Requested'
       /\ \A n \in Messages : (Taken(n)' <=> Taken(n)) /\ (Out(n)' <=> Out(n))
  BY <1>1, RequestsStay DEF Inv, SameRequests
<1>13. Blocked => Blocked'
  BY <1>1, <1>9 DEF Blocked, owner, Stays
<1>14. Unsent'
  <2>1. \A m \in Messages : Waiting(queue', m) => Waiting(queue, m)
    BY <1>3 DEF Waiting, EntryStates
  <2>2. UnsentCalm
    BY <1>9, <1>12, <1>13, <2>1 DEF UnsentCalm, Stays
  <2> QED
    BY <1>10, <2>2, UnsentInCalm DEF Inv
<1>15. Known'
  <2>1. (\A b \in Actors \ {"stop"} :
            job[b].at = "issued" => Request(b) \in rt.open \/ Taken(job[b].msg))'
    <3> SUFFICES ASSUME NEW b \in Actors \ {"stop"}, job'[b].at = "issued"
                 PROVE  (Request(b) \in rt.open \/ Taken(job[b].msg))'
      OBVIOUS
    <3>1. /\ job'[b].at = job[b].at /\ job'[b].msg = job[b].msg /\ job'[b].via = job[b].via
          /\ rt' = rt /\ took' = took
      BY <1>1, <1>6 DEF Stays
    <3>2. Request(b) \in rt.open \/ Taken(job[b].msg)
      BY <3>1 DEF Inv, Known
    <3> QED
      BY <3>1, <3>2 DEF Request, Taken
  <2>2. ShownEventsTaken'
    BY <1>1, <1>2 DEF ShownEventsTaken, Inv, Known, Taken
  <2>3. (active.native = "accepted" /\ active.op # "manage" => Taken(job[active.op].msg))'
    <3> SUFFICES ASSUME active.native = "accepted", active.op # "manage"
                 PROVE  Taken(job[active.op].msg)'
      BY <1>1 DEF owner
    <3>1. active.op \in Actors /\ active' = active
      BY <1>1 DEF Inv, TypeOK, Lanes, owner
    <3>2. job'[active.op].msg = job[active.op].msg
      BY <1>6, <3>1 DEF Stays
    <3> QED
      BY <1>1, <3>1, <3>2 DEF Inv, Known, Taken
  <2>4. (job["manage"].at = "issued" => active.native = "uncertain")'
    BY <1>1, <1>9 DEF Inv, Known, Stays, owner
  <2>5. (job["drain"].at = "settling" /\ job["drain"].outcome \in {"accepted", "received"} =>
            Taken(job["drain"].msg))'
    BY <1>1, <1>9 DEF Inv, Known, Stays, Taken
  <2> QED
    BY <2>1, <2>2, <2>3, <2>4, <2>5 DEF Known, ShownEventsTaken
<1>16. Kept'
  BY <1>1, <1>3, <1>12 DEF Inv, Kept, told
<1>17. Paused'
  BY <1>3, <1>9 DEF Inv, Paused, Stays
<1> QED
  BY <1>7, <1>8, <1>10, <1>11, <1>12, <1>14, <1>15, <1>16, <1>17 DEF Inv

-----------------------------------------------------------------------------
(* The specification *)

\* The invariant holds at first.
LEMMA InitFits == Init => Inv
<1> SUFFICES ASSUME Init
             PROVE  Inv
  OBVIOUS
<1> USE DEF Init
<1>1. /\ \A a \in Actors : job[a] = Idle
      /\ Messages \subseteq Actors /\ {"drain", "manage", "stop"} \subseteq Actors
  BY Names
<1>2. \A a \in Actors : job[a].at = "idle"
  BY <1>1 DEF Idle
<1>3. TypeOK
  <2>1. Idle \in Jobs
    BY DEF Idle, Jobs, Stages
  <2>2. job \in [Actors -> Jobs]
    BY <2>1
  <2>3. IsInjective(lane) /\ lane \in Seq(Actors) /\ took \in Seq(Messages)
        /\ events \in Seq(Events) /\ joined \in Seq(Messages)
    BY DEF IsInjective
  <2>4. queue \in Queues
    BY DEF Queues, Pauses
  <2>5. active \in [op : Actors \cup {None}, native : {"not_issued", "uncertain", "accepted", "refused"}]
    BY DEF NoOperation
  <2>6. status \in [Messages -> {"unsent", "pending", "accepted", "queued", "failed", "removed"}]
    OBVIOUS
  <2>7. gen \in Nat /\ due \in 0..2
    OBVIOUS
  <2>11. unresolved \in Messages \cup {None, "unnamed"}
    OBVIOUS
  <2>12. seen \in BOOLEAN
    OBVIOUS
  <2>9. host \in [working : BOOLEAN, blocked : BOOLEAN, left : BOOLEAN, unavailable : BOOLEAN]
    OBVIOUS
  <2>10. rt \in [turn : BOOLEAN, asking : BOOLEAN, attached : BOOLEAN, readable : BOOLEAN,
                open : SUBSET Requests]
    OBVIOUS
  <2>8. budget \in [Bounded -> Nat]
    BY BudgetAssumption
  <2> HIDE DEF Init
  <2> QED
    BY <2>2, <2>3, <2>4, <2>5, <2>6, <2>7, <2>8, <2>9, <2>10, <2>11, <2>12 DEF TypeOK
<1>4. Lanes
  BY <1>2 DEF Lanes, Resting, AtWork, Running, NoOperation
<1>5. JobsFit
  BY <1>1, <1>2 DEF JobsFit, SubmissionFits, DrainFits, ManageFits, StopFits
<1>6. /\ \A m \in Messages : ~InQueue(queue, m) /\ \A s : ~Has(queue, m, s)
      /\ ~HasUnknown(queue) /\ Single(queue)
  BY DEF InQueue, Has, HasUnknown, Single
<1>7. QueueFits
  BY <1>1, <1>2, <1>3, <1>6 DEF QueueFits, GoodQueue, TypeOK, Steering
<1>8. \A m : ~Taken(m) /\ ~OpenFor(m) /\ ~Out(m)
  BY DEF Taken, OpenFor, Out
<1>9. Unsent
  BY <1>1, <1>2, <1>6, <1>8 DEF Unsent, Early
<1>10. Requested
  BY <1>8 DEF Requested
<1>11. Known
  BY <1>1, <1>2 DEF Known, NoOperation
<1>12. Kept /\ Paused
  BY <1>1, <1>2, <1>6 DEF Kept, Paused, PausedWhenUnknown
<1> QED
  BY <1>3, <1>4, <1>5, <1>7, <1>9, <1>10, <1>11, <1>12 DEF Inv

\* Each step of the host keeps the invariant.
LEMMA HostKeeps ==
    ASSUME Inv, Host
    PROVE  Inv'
<1>1. ASSUME NEW a \in Actors, Begin(a) \/ Settle(a)
      PROVE  Inv'
  BY <1>1, BeginKeeps, SettleKeeps
<1>2. ASSUME NEW m \in Messages, Prepared(m)
      PROVE  Inv'
  BY <1>2, PreparedKeeps
<1>3. ASSUME NEW a \in Actors \ {"stop"}, Route(a) \/ SendFails(a) \/ SendBusy(a) \/ Issue(a)
      PROVE  Inv'
  BY <1>3, RouteKeeps, SendKeeps, IssueKeeps
<1>4. ASSUME Drain \/ DrainJoins \/ DrainFails \/ DrainSettles
      PROVE  Inv'
  BY <1>4, DrainKeeps, DrainJoinsKeeps, DrainFailsKeeps, DrainSettlesKeeps
<1>5. ASSUME \/ ResumeChecks \/ ResumeCommits \/ SteerEntry \/ ManageFails
             \/ BeginEdit \/ EndEdit \/ RemoveMessage
      PROVE  Inv'
  BY <1>5, ManageMovesKeep, ResumeCommitsKeeps, SteerEntryKeeps, EditsKeep, RemoveKeeps
<1>6. ASSUME StopPauses \/ OwnerObserves \/ QueueObserves
      PROVE  Inv'
  BY <1>6, StopPausesKeeps, OwnerObservesKeeps, QueueObservesKeeps
<1> QED
  BY <1>1, <1>2, <1>3, <1>4, <1>5, <1>6 DEF Host

\* Each step of the user keeps the invariant.
LEMMA UserKeeps ==
    ASSUME Inv, User
    PROVE  Inv'
<1>1. ASSUME NEW m \in Messages, NEW mode \in Modes, Submit(m, mode)
      PROVE  Inv'
  BY <1>1, SubmitKeeps
<1>2. ASSUME NEW m \in Messages, NEW how \in Actions, Manage(how, m)
      PROVE  Inv'
  BY <1>2, ManageKeeps
<1>3. ASSUME Stop
      PROVE  Inv'
  BY <1>3, StopKeeps
<1>4. ASSUME Answered
      PROVE  Inv'
  BY <1>4, ReportsOnlyKeep DEF ReportsOnly
<1> QED
  BY <1>1, <1>2, <1>3, <1>4 DEF User

\* Each step of the runtime keeps the invariant.
LEMMA RuntimeKeeps ==
    ASSUME Inv, Runtime
    PROVE  Inv'
<1>1. ASSUME NEW a \in Actors, NEW answer \in Outcomes, Reply(a, answer)
      PROVE  Inv'
  BY <1>1, ReplyKeeps
<1>2. ASSUME NEW request \in rt.open, Take(request)
      PROVE  Inv'
  BY <1>2, TakeKeeps
<1>3. ASSUME ReportsOnly
      PROVE  Inv'
  BY <1>3, ReportsOnlyKeep
<1>4. ASSUME StopTurn \/ StopFails
      PROVE  Inv'
  BY <1>4, StopMovesKeep
<1> QED
  BY <1>1, <1>2, <1>3, <1>4 DEF Runtime, ReportsOnly

\* Each step keeps the invariant.
LEMMA StepKeeps == Inv /\ [Next]_vars => Inv'
<1> SUFFICES ASSUME Inv, [Next]_vars
             PROVE  Inv'
  OBVIOUS
<1>1. CASE Next
  BY <1>1, HostKeeps, UserKeeps, RuntimeKeeps DEF Next
<1>2. CASE UNCHANGED vars
  <2>1. UNCHANGED <<owner, job, queue, host, live, told, budget>> /\ due' = due
    BY <1>2 DEF vars, owner, live, told
  <2> QED
    BY <2>1, IdleDrainKeeps DEF Inv, TypeOK
<1> QED
  BY <1>1, <1>2

\* The invariant holds always.
LEMMA InvHolds == Spec => []Inv
BY InitFits, StepKeeps, PTL DEF Spec

\* The state keeps its shape and no actor waits twice in the lane, whatever messages,
\* answers, actions and budgets there are.
THEOREM TypeCorrect == Spec => []TypeOK
<1>1. Inv => TypeOK
  BY DEF Inv
<1> QED
  BY <1>1, InvHolds, PTL

\* A message that the runtime took is taken once, and counts.
LEMMA TakenCounts ==
    ASSUME Inv, NEW m \in Messages
    PROVE  TimesTaken(m) = IF Taken(m) THEN 1 ELSE 0
<1> DEFINE places == {i \in DOMAIN took : took[i] = m}
<1>1. CASE Taken(m)
  <2>1. PICK i \in DOMAIN took : took[i] = m
    BY <1>1 DEF Taken
  <2>2. places = {i}
    BY <2>1 DEF Inv, Requested
  <2> QED
    BY <1>1, <2>2, FS_Singleton DEF TimesTaken
<1>2. CASE ~Taken(m)
  <2>1. places = {}
    BY <1>2 DEF Taken
  <2> QED
    BY <1>2, <2>1, FS_EmptySet DEF TimesTaken
<1> QED
  BY <1>1, <1>2

\* The runtime takes no message twice: not when an answer is lost or comes late, not when
\* a drain, a queue action and a submission have each sent it, and not after the user
\* resumed, steered or edited it (markAcceptanceUnknown, session.unresolved).
THEOREM TakenAtMostOnce == Spec => []SentOnce
<1>1. Inv => SentOnce
  BY TakenCounts DEF SentOnce
<1> QED
  BY <1>1, InvHolds, PTL

\* A message the composer was told is queued, and that nobody removed, is in the queue
\* until the runtime takes it (failEntry, removeEntry, resolveAccepted).
THEOREM QueuedIsKept == Spec => []NothingLost
<1>1. Inv => NothingLost
  BY TakenCounts DEF NothingLost, Inv, Kept
<1> QED
  BY <1>1, InvHolds, PTL

\* No resume, edit, removal, Stop or live event ends the pause of a queue in which the
\* result of a delivery is unknown (applyAction, endPauseIfEmpty, resolveAccepted).
THEOREM UnknownIsPaused == Spec => []UnknownKeepsPause
<1>1. Inv => UnknownKeepsPause
  BY DEF Inv, Paused, PausedWhenUnknown, UnknownKeepsPause
<1> QED
  BY <1>1, InvHolds, PTL

==============================================================================
