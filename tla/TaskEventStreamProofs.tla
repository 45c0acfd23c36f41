----------------------- MODULE TaskEventStreamProofs -----------------------
(***************************************************************************)
(* Proofs about TaskEventStream: for every number of subscribers, every    *)
(* capacity and every history of operations, the replay buffer has no gap, *)
(* no subscriber skips a change, and no queue outgrows the buffer.         *)
(*                                                                         *)
(* NoChangeIsSkipped is not inductive: what a replay queues starts at the  *)
(* acknowledged cursor, so the invariant adds where that cursor is.        *)
(***************************************************************************)
EXTENDS TaskEventStream, SequenceTheorems, FiniteSetTheorems, TLAPS

\* A boundary frame followed by the changes after it.
BoundaryRun(e, m, n) == <<SnapshotRequired(At(e, m - 1))>> \o Run(e, m, n)

\* The buffer of a log holds its newest changes, no more than Capacity of them.
LogInv(l) ==
    /\ l \in Log
    /\ l.replayFloor <= l.sequence
    /\ l.sequence - l.replayFloor <= Capacity
    /\ l.buffer = Run(l.epoch, l.replayFloor + 1, l.sequence)

\* What waits for a subscriber continues at number m: after what was delivered to it, or behind a
\* boundary that is queued again, and that is then the cursor acknowledged last.
FlowsFrom(l, sub, m) ==
    /\ l.replayFloor < m
    /\ \/ /\ sub.queue = Run(l.epoch, m, l.sequence)
          /\ m <= sub.highestDelivered.sequence + 1
       \/ /\ sub.queue = BoundaryRun(l.epoch, m, l.sequence)
          /\ sub.lastAcknowledged.sequence = m - 1

\* A subscription without an open boundary has acknowledged a change or a boundary of this host
\* process, no newer than what was delivered to it.
FlowingInv(l, sub) ==
    /\ sub.lastAcknowledged # None
    /\ sub.lastAcknowledged.epoch = l.epoch
    /\ sub.highestDelivered # None
    /\ sub.highestDelivered.epoch = l.epoch
    /\ sub.highestDelivered.sequence <= l.sequence
    /\ sub.lastAcknowledged.sequence <= sub.highestDelivered.sequence
    /\ \E m \in 1..(l.sequence + 1) : FlowsFrom(l, sub, m)

\* A subscription with an open boundary has it in its queue, or has been given it.
BoundaryInv(l, sub) ==
    /\ sub.snapshotBoundary.epoch = l.epoch
    /\ sub.snapshotBoundary.sequence <= l.sequence
    /\ \/ sub.queue = <<SnapshotRequired(sub.snapshotBoundary)>>
       \/ sub.queue = <<>> /\ sub.highestDelivered = sub.snapshotBoundary

SubscriptionInv(l, sub) ==
    /\ sub \in Subscription
    /\ IF sub.snapshotBoundary = None THEN FlowingInv(l, sub) ELSE BoundaryInv(l, sub)

StreamInv ==
    /\ LogInv(log)
    /\ subs \in [Subs -> Subscription \cup {None}]
    /\ \A s \in Subs : subs[s] # None => SubscriptionInv(log, subs[s])

-----------------------------------------------------------------------------
(* Runs of changes *)

\* The numbers a run can have.
IsRange(m, n) == m \in 1..(n + 1) /\ n \in 0..MaxSequence

LEMMA RunFacts ==
    ASSUME NEW e \in 1..MaxEpochs, NEW m, NEW n, IsRange(m, n)
    PROVE  /\ Run(e, m, n) \in Seq(Frame)
           /\ Len(Run(e, m, n)) = n + 1 - m
           /\ \A i \in 1..(n + 1 - m) :
                /\ Run(e, m, n)[i] = Change(At(e, m + i - 1))
                /\ Run(e, m, n)[i].type = "change"
                /\ Run(e, m, n)[i].cursor = At(e, m + i - 1)
                /\ Run(e, m, n)[i].cursor.sequence = m + i - 1
<1> DEFINE k == n + 1 - m
<1>1. k \in Nat /\ (IF n < m THEN 0 ELSE n - m + 1) = k
  BY StreamAssumption DEF IsRange, StreamAssumption
<1>2. \A i \in 1..k : Change(At(e, m + i - 1)) \in Frame
  BY StreamAssumption DEF IsRange, StreamAssumption, Change, At, Frame, Cursor
<1>3. Run(e, m, n) = [i \in 1..k |-> Change(At(e, m + i - 1))]
  BY <1>1 DEF Run
<1>4. Run(e, m, n) \in [1..k -> Frame]
  BY <1>2, <1>3
<1>5. Run(e, m, n) \in Seq(Frame) /\ Len(Run(e, m, n)) = k
  BY <1>1, <1>4, SeqDef
<1>6. ASSUME NEW i \in 1..k
      PROVE  /\ Run(e, m, n)[i] = Change(At(e, m + i - 1))
             /\ Run(e, m, n)[i].type = "change"
             /\ Run(e, m, n)[i].cursor = At(e, m + i - 1)
             /\ Run(e, m, n)[i].cursor.sequence = m + i - 1
  <2>1. Run(e, m, n)[i] = Change(At(e, m + i - 1))
    BY <1>3
  <2> QED
    BY <2>1 DEF Change, At
<1> QED
  BY <1>5, <1>6

LEMMA IsRun ==
    ASSUME NEW e \in 1..MaxEpochs, NEW m, NEW n, IsRange(m, n),
           NEW q \in Seq(Frame), Len(q) = n + 1 - m,
           \A i \in 1..(n + 1 - m) : q[i] = Change(At(e, m + i - 1))
    PROVE  q = Run(e, m, n)
BY RunFacts, SeqEqual

LEMMA RunAppend ==
    ASSUME NEW e \in 1..MaxEpochs, NEW m, NEW n, IsRange(m, n), n < MaxSequence
    PROVE  Append(Run(e, m, n), Change(At(e, n + 1))) = Run(e, m, n + 1)
<1> DEFINE q == Append(Run(e, m, n), Change(At(e, n + 1)))
<1>1. Change(At(e, n + 1)) \in Frame
  BY StreamAssumption DEF IsRange, StreamAssumption, Change, At, Frame, Cursor
<1>2. /\ q \in Seq(Frame) /\ Len(q) = (n + 1 - m) + 1
      /\ \A i \in 1..(n + 1 - m) : q[i] = Run(e, m, n)[i]
      /\ q[(n + 1 - m) + 1] = Change(At(e, n + 1))
  BY <1>1, RunFacts, AppendProperties
<1>3. IsRange(m, n + 1)
  BY StreamAssumption DEF IsRange, StreamAssumption
<1>4. ASSUME NEW i \in 1..((n + 1) + 1 - m) PROVE q[i] = Change(At(e, m + i - 1))
  <2>0. i \in 1..(n + 1 - m) \/ i = (n + 1 - m) + 1
    BY StreamAssumption DEF IsRange, StreamAssumption
  <2>1. CASE i \in 1..(n + 1 - m)
    BY <1>2, <2>1, RunFacts
  <2>2. CASE i = (n + 1 - m) + 1
    BY <1>2, <2>2 DEF IsRange
  <2> QED
    BY <2>0, <2>1, <2>2
<1>5. Len(q) = (n + 1) + 1 - m
  BY <1>2 DEF IsRange
<1> HIDE DEF q
<1>6. q = Run(e, m, n + 1)
  BY <1>2, <1>3, <1>4, <1>5, IsRun
<1> QED
  BY <1>6 DEF q

LEMMA RunSuffix ==
    ASSUME NEW e \in 1..MaxEpochs, NEW m, NEW n, IsRange(m, n), NEW k \in 0..(n + 1 - m)
    PROVE  SubSeq(Run(e, m, n), k + 1, Len(Run(e, m, n))) = Run(e, m + k, n)
<1> DEFINE r == Run(e, m, n)
           q == SubSeq(r, k + 1, Len(r))
<1>1. /\ r \in Seq(Frame) /\ Len(r) = n + 1 - m
      /\ \A i \in 1..(n + 1 - m) : r[i] = Change(At(e, m + i - 1))
  BY RunFacts
<1>2. \A i \in (k + 1)..Len(r) : r[i] \in Frame
  BY <1>1, ElementOfSeq DEF IsRange
<1>3. IsRange(m + k, n)
  BY DEF IsRange
<1> HIDE DEF r
<1>4. /\ q \in Seq(Frame)
      /\ Len(q) = IF k + 1 <= Len(r) THEN Len(r) - (k + 1) + 1 ELSE 0
      /\ \A i \in 1..(Len(r) - (k + 1) + 1) : q[i] = r[(k + 1) + i - 1]
  <2>1. Len(r) \in Int /\ k + 1 \in Int
    BY <1>1 DEF IsRange
  <2> QED
    BY <1>2, <2>1, SubSeqProperties
<1>5. Len(q) = n + 1 - (m + k)
  BY <1>1, <1>4 DEF IsRange
<1>6. \A i \in 1..(n + 1 - (m + k)) : q[i] = Change(At(e, (m + k) + i - 1))
  <2> TAKE i \in 1..(n + 1 - (m + k))
  <2>1. q[i] = r[k + i]
    BY <1>1, <1>4 DEF IsRange
  <2>2. r[k + i] = Change(At(e, m + (k + i) - 1))
    BY <1>1 DEF IsRange
  <2>3. m + (k + i) - 1 = (m + k) + i - 1
    BY DEF IsRange
  <2> QED
    BY <2>1, <2>2, <2>3
<1> HIDE DEF q
<1>7. q = Run(e, m + k, n)
  BY <1>3, <1>4, <1>5, <1>6, IsRun
<1> QED
  BY <1>7 DEF q, r

LEMMA EmptyRun ==
    ASSUME NEW e \in 1..MaxEpochs, NEW n \in 0..MaxSequence
    PROVE  Run(e, n + 1, n) = <<>>
BY RunFacts, EmptySeq DEF IsRange

LEMMA RunTail ==
    ASSUME NEW e \in 1..MaxEpochs, NEW m, NEW n, IsRange(m, n), m <= n
    PROVE  /\ Run(e, m, n) # <<>>
           /\ Head(Run(e, m, n)) = Change(At(e, m))
           /\ Tail(Run(e, m, n)) = Run(e, m + 1, n)
<1>1. Run(e, m, n) \in Seq(Frame) /\ Len(Run(e, m, n)) > 0
  BY RunFacts DEF IsRange
<1>2. Run(e, m, n) # <<>>
  BY <1>1, EmptySeq
<1>3. Head(Run(e, m, n)) = Run(e, m, n)[1]
  BY <1>1
<1>4. Run(e, m, n)[1] = Change(At(e, m))
  BY RunFacts DEF IsRange
<1>5. SubSeq(Run(e, m, n), 1 + 1, Len(Run(e, m, n))) = Run(e, m + 1, n)
  <2>1. 1 \in 0..(n + 1 - m)
    BY DEF IsRange
  <2> QED
    BY <2>1, RunSuffix
<1>6. Tail(Run(e, m, n)) = Run(e, m + 1, n)
  BY <1>1, <1>2, <1>5, TailIsSubSeq
<1> QED
  BY <1>2, <1>3, <1>4, <1>6

LEMMA AfterRun ==
    ASSUME NEW e \in 1..MaxEpochs, NEW m, NEW n, IsRange(m, n), NEW c \in 0..n
    PROVE  After(Run(e, m, n), c) = Run(e, IF c < m THEN m ELSE c + 1, n)
<1> DEFINE r == Run(e, m, n)
           passed == {i \in DOMAIN r : r[i].cursor.sequence <= c}
           k == IF c < m THEN 0 ELSE c - m + 1
<1>1. /\ r \in Seq(Frame) /\ Len(r) = n + 1 - m
      /\ \A i \in 1..(n + 1 - m) : r[i].cursor.sequence = m + i - 1
  BY RunFacts
<1>2. DOMAIN r = 1..(n + 1 - m)
  BY <1>1
<1> HIDE DEF r
<1>3. passed = 1..(c - m + 1)
  BY <1>1, <1>2 DEF IsRange
<1> HIDE DEF passed
<1>4. Cardinality(passed) = k
  <2>1. 1 \in Int /\ c - m + 1 \in Int
    BY DEF IsRange
  <2>2. Cardinality(1..(c - m + 1)) = IF 1 > c - m + 1 THEN 0 ELSE (c - m + 1) - 1 + 1
    BY <2>1, FS_Interval
  <2> QED
    BY <1>3, <2>2 DEF IsRange
<1>5. After(r, c) = SubSeq(r, k + 1, Len(r))
  BY <1>4 DEF After, passed
<1>6. k \in 0..(n + 1 - m)
  BY DEF IsRange
<1>7. SubSeq(r, k + 1, Len(r)) = Run(e, m + k, n)
  BY <1>6, RunSuffix DEF r
<1>8. m + k = IF c < m THEN m ELSE c + 1
  BY DEF IsRange
<1> QED
  BY <1>5, <1>7, <1>8 DEF r

LEMMA BoundaryRunFacts ==
    ASSUME NEW e \in 1..MaxEpochs, NEW m, NEW n, IsRange(m, n)
    PROVE  /\ BoundaryRun(e, m, n) \in Seq(Frame)
           /\ Len(BoundaryRun(e, m, n)) = n + 2 - m
           /\ BoundaryRun(e, m, n) # <<>>
           /\ BoundaryRun(e, m, n)[1] = SnapshotRequired(At(e, m - 1))
           /\ BoundaryRun(e, m, n)[1].cursor.sequence = m - 1
           /\ \A i \in 1..(n + 1 - m) : BoundaryRun(e, m, n)[i + 1] = Run(e, m, n)[i]
           /\ Head(BoundaryRun(e, m, n)) = SnapshotRequired(At(e, m - 1))
           /\ Tail(BoundaryRun(e, m, n)) = Run(e, m, n)
<1> DEFINE r == Run(e, m, n)
           f == SnapshotRequired(At(e, m - 1))
           q == BoundaryRun(e, m, n)
<1>1. f \in Frame
  BY StreamAssumption DEF IsRange, StreamAssumption, SnapshotRequired, At, Frame, Cursor
<1>2. r \in Seq(Frame) /\ Len(r) = n + 1 - m
  BY RunFacts
<1>3. <<f>> \in Seq(Frame) /\ Len(<<f>>) = 1 /\ <<f>>[1] = f
  BY <1>1
<1> HIDE DEF r, f
<1>4. /\ <<f>> \o r \in Seq(Frame)
      /\ Len(<<f>> \o r) = 1 + Len(r)
      /\ \A i \in 1..(1 + Len(r)) : (<<f>> \o r)[i] = IF i <= 1 THEN <<f>>[i] ELSE r[i - 1]
  BY <1>2, <1>3, ConcatProperties
<1>5. q = <<f>> \o r
  BY DEF BoundaryRun, r, f
<1>6. q \in Seq(Frame) /\ Len(q) = n + 2 - m /\ q[1] = f
  BY <1>2, <1>3, <1>4, <1>5 DEF IsRange
<1>7. \A i \in 1..(n + 1 - m) : q[i + 1] = r[i]
  BY <1>2, <1>4, <1>5 DEF IsRange
<1> HIDE DEF q
<1>8. q # <<>> /\ Head(q) = f
  BY <1>6, EmptySeq DEF IsRange
<1>9. Tail(q) = r
  <2>1. /\ Tail(q) \in Seq(Frame)
        /\ Len(Tail(q)) = Len(q) - 1
        /\ \A i \in 1..Len(Tail(q)) : Tail(q)[i] = q[i + 1]
    BY <1>6, <1>8, HeadTailProperties
  <2>2. Len(Tail(q)) = n + 1 - m
    BY <1>6, <2>1 DEF IsRange
  <2> QED
    BY <1>2, <1>7, <2>1, <2>2, SeqEqual
<1>10. f.cursor.sequence = m - 1
  BY DEF f, SnapshotRequired, At
<1> QED
  BY <1>6, <1>7, <1>8, <1>9, <1>10 DEF q, r, f

LEMMA AfterBoundaryRun ==
    ASSUME NEW e \in 1..MaxEpochs, NEW m, NEW n, IsRange(m, n), NEW c \in 0..n, m - 1 <= c
    PROVE  After(BoundaryRun(e, m, n), c) = Run(e, c + 1, n)
<1> DEFINE r == Run(e, m, n)
           q == BoundaryRun(e, m, n)
           passed == {i \in DOMAIN q : q[i].cursor.sequence <= c}
           k == c - m + 2
<1>1. /\ r \in Seq(Frame) /\ Len(r) = n + 1 - m
      /\ \A i \in 1..(n + 1 - m) : r[i].cursor.sequence = m + i - 1
      /\ \A i \in 1..(n + 1 - m) : r[i] = Change(At(e, m + i - 1))
  BY RunFacts
<1>2. /\ q \in Seq(Frame) /\ Len(q) = n + 2 - m
      /\ q[1].cursor.sequence = m - 1
      /\ \A i \in 1..(n + 1 - m) : q[i + 1] = r[i]
  BY BoundaryRunFacts
<1> HIDE DEF r, q
<1>3. DOMAIN q = 1..(n + 2 - m)
  BY <1>2
<1>4. \A i \in 1..(n + 2 - m) : q[i].cursor.sequence = m + i - 2
  <2> TAKE i \in 1..(n + 2 - m)
  <2>1. CASE i = 1
    BY <1>2, <2>1 DEF IsRange
  <2>2. CASE i # 1
    <3>1. i - 1 \in 1..(n + 1 - m) /\ (i - 1) + 1 = i
      BY <2>2 DEF IsRange
    <3>2. q[i] = r[i - 1]
      BY <1>2, <3>1
    <3>3. r[i - 1].cursor.sequence = m + (i - 1) - 1
      BY <1>1, <3>1
    <3> QED
      BY <3>2, <3>3 DEF IsRange
  <2> QED
    BY <2>1, <2>2
<1>5. passed = 1..k
  BY <1>3, <1>4 DEF IsRange
<1> HIDE DEF passed
<1>6. Cardinality(passed) = k
  <2>1. 1 \in Int /\ k \in Int /\ ~(1 > k)
    BY DEF IsRange
  <2>2. Cardinality(1..k) = k - 1 + 1
    BY <2>1, FS_Interval
  <2> QED
    BY <1>5, <2>1, <2>2
<1>7. After(q, c) = SubSeq(q, k + 1, Len(q))
  BY <1>6 DEF After, passed
<1>8. /\ SubSeq(q, k + 1, Len(q)) \in Seq(Frame)
      /\ Len(SubSeq(q, k + 1, Len(q))) =
            IF k + 1 <= Len(q) THEN Len(q) - (k + 1) + 1 ELSE 0
      /\ \A i \in 1..(Len(q) - (k + 1) + 1) : SubSeq(q, k + 1, Len(q))[i] = q[(k + 1) + i - 1]
  <2>1. \A i \in (k + 1)..Len(q) : q[i] \in Frame
    BY <1>2, ElementOfSeq DEF IsRange
  <2>2. k + 1 \in Int /\ Len(q) \in Int
    BY <1>2 DEF IsRange
  <2> QED
    BY <2>1, <2>2, SubSeqProperties
<1>9. IsRange(c + 1, n) /\ Len(SubSeq(q, k + 1, Len(q))) = n + 1 - (c + 1)
  BY <1>2, <1>8 DEF IsRange
<1>10. \A i \in 1..(n + 1 - (c + 1)) :
          SubSeq(q, k + 1, Len(q))[i] = Change(At(e, (c + 1) + i - 1))
  <2> TAKE i \in 1..(n + 1 - (c + 1))
  <2>1. SubSeq(q, k + 1, Len(q))[i] = q[k + i]
    BY <1>2, <1>8 DEF IsRange
  <2>2. k + i - 1 \in 1..(n + 1 - m) /\ (k + i - 1) + 1 = k + i
    BY DEF IsRange
  <2>3. q[k + i] = r[k + i - 1]
    BY <1>2, <2>2
  <2>4. r[k + i - 1] = Change(At(e, m + (k + i - 1) - 1))
    BY <1>1, <2>2
  <2>5. m + (k + i - 1) - 1 = (c + 1) + i - 1
    BY DEF IsRange
  <2> QED
    BY <2>1, <2>3, <2>4, <2>5
<1>11. SubSeq(q, k + 1, Len(q)) = Run(e, c + 1, n)
  BY <1>8, <1>9, <1>10, IsRun
<1> QED
  BY <1>7, <1>11 DEF q

-----------------------------------------------------------------------------
(* The operators on one subscription keep its invariant *)

LEMMA CursorFacts ==
    /\ Cursor \subseteq [epoch : Nat, sequence : Nat]
    /\ None \notin Cursor
BY StreamAssumption DEF StreamAssumption, Cursor

LEMMA LogFacts ==
    ASSUME NEW l, LogInv(l)
    PROVE  /\ l.epoch \in 1..MaxEpochs /\ l.sequence \in 0..MaxSequence
           /\ l.replayFloor \in 0..MaxSequence /\ l.buffer \in Seq(Frame)
           /\ CurrentCursor(l) \in Cursor /\ CurrentCursor(l) # None
           /\ CurrentCursor(l).epoch = l.epoch /\ CurrentCursor(l).sequence = l.sequence
           /\ IsRange(l.replayFloor + 1, l.sequence)
<1>1. /\ l.epoch \in 1..MaxEpochs /\ l.sequence \in 0..MaxSequence
      /\ l.replayFloor \in 0..MaxSequence /\ l.buffer \in Seq(Frame)
  BY DEF LogInv, Log
<1>2. CurrentCursor(l) \in Cursor
  BY <1>1 DEF CurrentCursor, At, Cursor
<1>3. IsRange(l.replayFloor + 1, l.sequence)
  BY <1>1, StreamAssumption DEF IsRange, LogInv, StreamAssumption
<1> QED
  BY <1>1, <1>2, <1>3, CursorFacts DEF CurrentCursor, At

LEMMA ResumeKeeps ==
    ASSUME NEW l, NEW sub, SubscriptionInv(l, sub)
    PROVE  SubscriptionInv(l, Resume(sub))
<1> DEFINE r == Resume(sub)
<1>1. sub \in Subscription
  BY DEF SubscriptionInv
<1>2. (sub.scheduled \/ sub.queue # <<>>) \in BOOLEAN
  OBVIOUS
<1>3. r \in Subscription
  BY <1>1, <1>2 DEF Resume, Subscription
<1>4. /\ r.highestDelivered = sub.highestDelivered /\ r.lastAcknowledged = sub.lastAcknowledged
      /\ r.queue = sub.queue /\ r.snapshotBoundary = sub.snapshotBoundary
  BY <1>1 DEF Resume, Subscription
<1> HIDE DEF r
<1>5. SubscriptionInv(l, r)
  BY <1>3, <1>4 DEF SubscriptionInv, FlowingInv, FlowsFrom, BoundaryInv
<1> QED
  BY <1>5 DEF r

LEMMA EnqueueFacts ==
    ASSUME NEW sub \in Subscription, NEW frames \in Seq(Frame)
    PROVE  /\ Enqueue(sub, frames) \in Subscription
           /\ Enqueue(sub, frames).queue = sub.queue \o frames
           /\ Enqueue(sub, frames).highestDelivered = sub.highestDelivered
           /\ Enqueue(sub, frames).lastAcknowledged = sub.lastAcknowledged
           /\ Enqueue(sub, frames).snapshotBoundary = sub.snapshotBoundary
<1>1. sub.queue \in Seq(Frame)
  BY DEF Subscription
<1>2. sub.queue \o frames \in Seq(Frame)
  BY <1>1, ConcatProperties
<1> DEFINE q == sub.queue \o frames
           t == [sub EXCEPT !.queue = q]
<1> HIDE DEF q
<1>3. /\ t \in Subscription /\ t.queue = q
      /\ t.highestDelivered = sub.highestDelivered /\ t.lastAcknowledged = sub.lastAcknowledged
      /\ t.snapshotBoundary = sub.snapshotBoundary
  BY <1>2 DEF Subscription, q
<1> HIDE DEF t
<1>4. (t.scheduled \/ t.queue # <<>>) \in BOOLEAN
  OBVIOUS
<1>5. /\ Resume(t) \in Subscription /\ Resume(t).queue = q
      /\ Resume(t).highestDelivered = sub.highestDelivered
      /\ Resume(t).lastAcknowledged = sub.lastAcknowledged
      /\ Resume(t).snapshotBoundary = sub.snapshotBoundary
  BY <1>3, <1>4 DEF Resume, Subscription
<1>6. Enqueue(sub, frames) = Resume(t)
  BY DEF Enqueue, t, q
<1> QED
  BY <1>5, <1>6 DEF q

LEMMA SnapshotKeeps ==
    ASSUME NEW l, LogInv(l), NEW sub \in Subscription, sub.snapshotBoundary = None
    PROVE  SubscriptionInv(l, EnqueueSnapshot(l, sub))
<1> DEFINE boundary == CurrentCursor(l)
           t == [sub EXCEPT !.snapshotBoundary = boundary, !.queue = <<>>]
           frames == <<SnapshotRequired(boundary)>>
           r == Enqueue(t, frames)
<1>1. /\ boundary \in Cursor /\ boundary # None
      /\ boundary.epoch = l.epoch /\ boundary.sequence = l.sequence
      /\ l.sequence \in Nat
  BY LogFacts
<1> HIDE DEF boundary
<1>2. t \in Subscription /\ t.queue = <<>> /\ t.snapshotBoundary = boundary
  <2>1. <<>> \in Seq(Frame)
    BY EmptySeq
  <2> QED
    BY <1>1, <2>1 DEF Subscription
<1>3. frames \in Seq(Frame)
  BY <1>1 DEF SnapshotRequired, Frame
<1> HIDE DEF t, frames
<1>4. r \in Subscription /\ r.queue = <<>> \o frames /\ r.snapshotBoundary = boundary
  BY <1>2, <1>3, EnqueueFacts
<1>5. r.queue = frames
  BY <1>3, <1>4, ConcatEmptySeq
<1> HIDE DEF r
<1>6. SubscriptionInv(l, r)
  BY <1>1, <1>4, <1>5 DEF SubscriptionInv, BoundaryInv, frames
<1> QED
  BY <1>6 DEF EnqueueSnapshot, r, t, frames, boundary

\* A replay into an empty queue, or behind the boundary that was just acknowledged.
LEMMA ReplayKeeps ==
    ASSUME NEW l, LogInv(l), NEW sub \in Subscription, sub.snapshotBoundary = None,
           sub.lastAcknowledged # None /\ CanReplayFrom(l, sub.lastAcknowledged) =>
              /\ sub.highestDelivered # None
              /\ sub.highestDelivered.epoch = l.epoch
              /\ sub.highestDelivered.sequence <= l.sequence
              /\ sub.lastAcknowledged.sequence <= sub.highestDelivered.sequence,
           \/ sub.queue = <<>>
           \/ /\ sub.lastAcknowledged # None
              /\ sub.queue = <<SnapshotRequired(sub.lastAcknowledged)>>
    PROVE  SubscriptionInv(l, EnqueueReplay(l, sub))
<1> DEFINE ack == sub.lastAcknowledged
<1>1. CASE ack = None \/ ~CanReplayFrom(l, ack)
  BY <1>1, SnapshotKeeps DEF EnqueueReplay
<1>2. CASE ack # None /\ CanReplayFrom(l, ack)
  <2> DEFINE m == ack.sequence + 1
             frames == After(l.buffer, ack.sequence)
             rest == Run(l.epoch, m, l.sequence)
             r == Enqueue(sub, frames)
  <2>1. /\ ack \in Cursor /\ ack.epoch = l.epoch /\ ack.sequence \in Nat
        /\ l.replayFloor <= ack.sequence /\ ack.sequence <= l.sequence
    BY <1>2, CursorFacts DEF CanReplayFrom, Subscription
  <2>2. /\ l.epoch \in 1..MaxEpochs /\ l.sequence \in 0..MaxSequence
        /\ l.replayFloor \in 0..MaxSequence /\ IsRange(l.replayFloor + 1, l.sequence)
        /\ l.buffer = Run(l.epoch, l.replayFloor + 1, l.sequence)
    BY LogFacts DEF LogInv
  <2>3. /\ m \in 1..(l.sequence + 1) /\ IsRange(m, l.sequence) /\ l.replayFloor < m
        /\ m - 1 = ack.sequence
    BY <2>1, <2>2, StreamAssumption DEF IsRange, StreamAssumption
  <2>4. frames = rest
    <3>1. ack.sequence \in 0..l.sequence
      BY <2>1, <2>2, StreamAssumption DEF StreamAssumption
    <3>2. After(l.buffer, ack.sequence) =
            Run(l.epoch, IF ack.sequence < l.replayFloor + 1 THEN l.replayFloor + 1
                         ELSE ack.sequence + 1, l.sequence)
      BY <2>2, <3>1, AfterRun
    <3>3. (IF ack.sequence < l.replayFloor + 1 THEN l.replayFloor + 1 ELSE ack.sequence + 1) = m
      BY <2>1, <2>2, StreamAssumption DEF StreamAssumption
    <3> QED
      BY <3>2, <3>3
  <2>5. rest \in Seq(Frame)
    BY <2>2, <2>3, RunFacts
  <2> HIDE DEF rest, frames
  <2>6. /\ r \in Subscription /\ r.queue = sub.queue \o rest
        /\ r.highestDelivered = sub.highestDelivered /\ r.lastAcknowledged = ack
        /\ r.snapshotBoundary = None
    BY <2>4, <2>5, EnqueueFacts
  <2>7. FlowsFrom(l, r, m)
    <3>1. CASE sub.queue = <<>>
      <4>1. r.queue = rest
        BY <2>5, <2>6, <3>1, ConcatEmptySeq
      <4>2. m <= r.highestDelivered.sequence + 1
        <5>1. sub.highestDelivered.sequence \in Nat
          BY <1>2, CursorFacts DEF Subscription
        <5> QED
          BY <1>2, <2>1, <2>6, <5>1
      <4> QED
        BY <2>3, <4>1, <4>2 DEF FlowsFrom, rest
    <3>2. CASE sub.queue = <<SnapshotRequired(ack)>>
      <4>1. ack = At(l.epoch, m - 1)
        BY <2>1, <2>3 DEF At, Cursor
      <4> HIDE DEF m
      <4>2. r.queue = BoundaryRun(l.epoch, m, l.sequence)
        BY <2>6, <3>2, <4>1 DEF BoundaryRun, rest
      <4> QED
        BY <2>3, <2>6, <4>2 DEF FlowsFrom
    <3> QED
      BY <3>1, <3>2
  <2> HIDE DEF r, m
  <2>8. SubscriptionInv(l, r)
    BY <1>2, <2>1, <2>3, <2>6, <2>7 DEF SubscriptionInv, FlowingInv
  <2> QED
    BY <1>2, <2>8 DEF EnqueueReplay, r, frames
<1> QED
  BY <1>1, <1>2

\* A step that changes the scheduled flag alone.
LEMMA ScheduleKeeps ==
    ASSUME NEW l, NEW sub, SubscriptionInv(l, sub), NEW b \in BOOLEAN
    PROVE  SubscriptionInv(l, [sub EXCEPT !.scheduled = b])
<1> DEFINE r == [sub EXCEPT !.scheduled = b]
<1>1. r \in Subscription
  BY DEF SubscriptionInv, Subscription
<1>2. /\ r.highestDelivered = sub.highestDelivered /\ r.lastAcknowledged = sub.lastAcknowledged
      /\ r.queue = sub.queue /\ r.snapshotBoundary = sub.snapshotBoundary
  BY DEF SubscriptionInv, Subscription
<1> HIDE DEF r
<1>3. SubscriptionInv(l, r)
  BY <1>1, <1>2 DEF SubscriptionInv, FlowingInv, FlowsFrom, BoundaryInv
<1> QED
  BY <1>3 DEF r

LEMMA DeliveryKeeps ==
    ASSUME NEW l, LogInv(l), NEW sub, SubscriptionInv(l, sub), sub.queue # <<>>, NEW b \in BOOLEAN
    PROVE  SubscriptionInv(l, [sub EXCEPT !.highestDelivered = Delivered(l, sub, Head(sub.queue)),
                                          !.queue = Tail(@), !.scheduled = b])
<1> DEFINE frame == Head(sub.queue)
           rest == Tail(sub.queue)
           high == Delivered(l, sub, frame)
           r == [sub EXCEPT !.highestDelivered = high, !.queue = rest, !.scheduled = b]
<1> SUFFICES SubscriptionInv(l, r)
  OBVIOUS
<1>1. /\ sub \in Subscription /\ sub.queue \in Seq(Frame)
      /\ sub.highestDelivered \in Cursor \cup {None}
  BY DEF SubscriptionInv, Subscription
<1>2. frame \in Frame /\ rest \in Seq(Frame)
  BY <1>1, HeadTailProperties
<1>3. high \in Cursor \cup {None}
  BY <1>1, <1>2 DEF Delivered, Frame
<1>4. l.epoch \in 1..MaxEpochs /\ l.sequence \in 0..MaxSequence /\ l.sequence \in Nat
  BY LogFacts, StreamAssumption DEF StreamAssumption
<1> HIDE DEF frame, rest, high
<1>5. /\ r \in Subscription /\ r.highestDelivered = high /\ r.queue = rest
      /\ r.lastAcknowledged = sub.lastAcknowledged /\ r.snapshotBoundary = sub.snapshotBoundary
  BY <1>1, <1>2, <1>3 DEF Subscription
<1> HIDE DEF r
<1>6. CASE sub.snapshotBoundary = None
  <2>1. FlowingInv(l, sub)
    BY <1>6 DEF SubscriptionInv
  <2>2. PICK m \in 1..(l.sequence + 1) : FlowsFrom(l, sub, m)
    BY <2>1 DEF FlowingInv
  <2>3. IsRange(m, l.sequence) /\ m \in Nat /\ m - 1 \in Nat
    BY <1>4 DEF IsRange
  <2>4. /\ sub.highestDelivered \in Cursor /\ sub.highestDelivered.sequence \in Nat
        /\ sub.lastAcknowledged.sequence \in Nat
    BY <1>1, <2>1, CursorFacts DEF FlowingInv, Subscription
  <2>5. CASE /\ sub.queue = Run(l.epoch, m, l.sequence)
             /\ m <= sub.highestDelivered.sequence + 1
    <3>1. m <= l.sequence
      BY <1>4, <2>3, <2>5, EmptyRun
    <3>2. frame = Change(At(l.epoch, m)) /\ rest = Run(l.epoch, m + 1, l.sequence)
      BY <1>4, <2>3, <2>5, <3>1, RunTail DEF frame, rest
    <3>3. frame.type = "change" /\ frame.cursor = At(l.epoch, m)
      BY <3>2 DEF Change
    <3>4. high = IF sub.highestDelivered.sequence < m THEN At(l.epoch, m) ELSE sub.highestDelivered
      BY <2>1, <3>3 DEF high, Delivered, FlowingInv, At
    <3>5. /\ high # None /\ high.epoch = l.epoch /\ high.sequence \in Nat
          /\ high.sequence <= l.sequence /\ m <= high.sequence
          /\ sub.lastAcknowledged.sequence <= high.sequence
      <4>1. At(l.epoch, m) \in Cursor /\ At(l.epoch, m).epoch = l.epoch /\ At(l.epoch, m).sequence = m
        BY <1>4, <2>3, <3>1, StreamAssumption DEF At, Cursor, StreamAssumption
      <4> QED
        BY <1>4, <2>1, <2>3, <2>4, <3>1, <3>4, <4>1, CursorFacts DEF FlowingInv
    <3>6. m + 1 \in 1..(l.sequence + 1) /\ l.replayFloor < m + 1
      BY <1>4, <2>2, <2>3, <3>1, LogFacts, StreamAssumption DEF FlowsFrom, StreamAssumption
    <3>7. FlowsFrom(l, r, m + 1)
      BY <1>5, <2>3, <3>2, <3>5, <3>6 DEF FlowsFrom
    <3> QED
      BY <1>5, <1>6, <2>1, <3>5, <3>6, <3>7 DEF SubscriptionInv, FlowingInv
  <2>6. CASE /\ sub.queue = BoundaryRun(l.epoch, m, l.sequence)
             /\ sub.lastAcknowledged.sequence = m - 1
    <3>1. /\ frame = SnapshotRequired(At(l.epoch, m - 1))
          /\ rest = Run(l.epoch, m, l.sequence)
      BY <1>4, <2>3, <2>6, BoundaryRunFacts DEF frame, rest
    <3>2. high = At(l.epoch, m - 1)
      BY <3>1 DEF high, Delivered, SnapshotRequired
    <3>3. /\ high # None /\ high.epoch = l.epoch /\ high.sequence = m - 1
          /\ high.sequence <= l.sequence
      <4>1. high \in Cursor
        BY <1>4, <2>3, <3>2, StreamAssumption DEF At, Cursor, StreamAssumption
      <4> QED
        BY <1>4, <2>3, <3>2, <4>1, CursorFacts DEF At
    <3>4. FlowsFrom(l, r, m)
      BY <1>5, <2>2, <2>3, <3>1, <3>3 DEF FlowsFrom
    <3>5. sub.lastAcknowledged.sequence <= high.sequence
      BY <2>3, <2>6, <3>3
    <3> QED
      BY <1>5, <1>6, <2>1, <3>3, <3>4, <3>5 DEF SubscriptionInv, FlowingInv
  <2> QED
    BY <2>2, <2>5, <2>6 DEF FlowsFrom
<1>7. CASE sub.snapshotBoundary # None
  <2>1. BoundaryInv(l, sub) /\ sub.queue = <<SnapshotRequired(sub.snapshotBoundary)>>
    BY <1>7 DEF SubscriptionInv, BoundaryInv
  <2>2. frame = SnapshotRequired(sub.snapshotBoundary) /\ rest = <<>>
    BY <2>1 DEF frame, rest
  <2>3. high = sub.snapshotBoundary
    BY <2>2 DEF high, Delivered, SnapshotRequired
  <2> QED
    BY <1>5, <1>7, <2>1, <2>2, <2>3 DEF SubscriptionInv, BoundaryInv
<1> QED
  BY <1>6, <1>7

LEMMA AcknowledgeKeeps ==
    ASSUME NEW l, LogInv(l), NEW sub, SubscriptionInv(l, sub),
           NEW cursor \in Cursor, AckAccepted(l, sub, cursor)
    PROVE  SubscriptionInv(l, Acknowledged(l, sub, cursor))
<1>1. sub \in Subscription
  BY DEF SubscriptionInv
<1>2. /\ l.epoch \in 1..MaxEpochs /\ l.sequence \in 0..MaxSequence /\ l.sequence \in Nat
      /\ l.replayFloor \in Nat
  BY LogFacts, StreamAssumption DEF StreamAssumption
<1>3. cursor.epoch = l.epoch /\ cursor.sequence \in Nat /\ cursor # None
  BY CursorFacts DEF AckAccepted
<1>4. CASE sub.snapshotBoundary # None
  <2> DEFINE t == [sub EXCEPT !.lastAcknowledged = cursor, !.snapshotBoundary = None]
  <2>1. /\ BoundaryInv(l, sub) /\ sub.highestDelivered = cursor /\ sub.snapshotBoundary = cursor
    BY <1>4 DEF SubscriptionInv, AckAccepted
  <2>2. /\ t \in Subscription /\ t.lastAcknowledged = cursor /\ t.snapshotBoundary = None
        /\ t.highestDelivered = cursor /\ t.queue = sub.queue
    BY <1>1, <2>1 DEF Subscription
  <2>3. cursor.sequence <= l.sequence
    BY <2>1 DEF BoundaryInv
  <2>4. sub.queue = <<>> \/ sub.queue = <<SnapshotRequired(cursor)>>
    BY <2>1 DEF BoundaryInv
  <2> HIDE DEF t
  <2>5. SubscriptionInv(l, EnqueueReplay(l, t))
    BY <1>3, <2>2, <2>3, <2>4, ReplayKeeps
  <2> QED
    BY <1>4, <2>5 DEF Acknowledged, t
<1>5. CASE sub.snapshotBoundary = None /\ cursor = sub.lastAcknowledged
  BY <1>5 DEF Acknowledged
<1>6. CASE sub.snapshotBoundary = None /\ cursor # sub.lastAcknowledged
  <2> DEFINE c == cursor.sequence
             rest == After(sub.queue, c)
             r == [sub EXCEPT !.lastAcknowledged = cursor, !.queue = rest]
  <2>1. FlowingInv(l, sub)
    BY <1>6 DEF SubscriptionInv
  <2>2. PICK m \in 1..(l.sequence + 1) : FlowsFrom(l, sub, m)
    BY <2>1 DEF FlowingInv
  <2>3. IsRange(m, l.sequence) /\ m \in Nat /\ m - 1 \in Nat
    BY <1>2 DEF IsRange
  <2>4. /\ sub.highestDelivered.sequence \in Nat /\ sub.lastAcknowledged.sequence \in Nat
        /\ sub.highestDelivered \in Cursor /\ sub.lastAcknowledged \in Cursor
    BY <1>1, <2>1, CursorFacts DEF FlowingInv, Subscription
  <2>5. /\ sub.lastAcknowledged.sequence <= c /\ c <= sub.highestDelivered.sequence
        /\ c <= l.sequence /\ c \in 0..l.sequence
    BY <1>2, <1>3, <1>6, <2>1, <2>4 DEF AckAccepted, FlowingInv
  <2>6. \E k \in 1..(l.sequence + 1) :
          /\ rest = Run(l.epoch, k, l.sequence)
          /\ l.replayFloor < k /\ k <= sub.highestDelivered.sequence + 1
    <3>1. CASE /\ sub.queue = Run(l.epoch, m, l.sequence)
               /\ m <= sub.highestDelivered.sequence + 1
      <4> DEFINE k == IF c < m THEN m ELSE c + 1
      <4>1. rest = Run(l.epoch, k, l.sequence)
        BY <1>2, <2>3, <2>5, <3>1, AfterRun
      <4>2. /\ k \in 1..(l.sequence + 1) /\ l.replayFloor < k
            /\ k <= sub.highestDelivered.sequence + 1
        BY <1>2, <1>3, <2>2, <2>3, <2>4, <2>5, <3>1 DEF FlowsFrom
      <4> HIDE DEF k
      <4> QED
        BY <4>1, <4>2
    <3>2. CASE /\ sub.queue = BoundaryRun(l.epoch, m, l.sequence)
               /\ sub.lastAcknowledged.sequence = m - 1
      <4>1. m - 1 <= c
        BY <2>5, <3>2
      <4>2. rest = Run(l.epoch, c + 1, l.sequence)
        BY <1>2, <2>3, <2>5, <3>2, <4>1, AfterBoundaryRun
      <4>3. /\ c + 1 \in 1..(l.sequence + 1) /\ l.replayFloor < c + 1
            /\ c + 1 <= sub.highestDelivered.sequence + 1
        BY <1>2, <1>3, <2>2, <2>3, <2>4, <2>5, <4>1 DEF FlowsFrom
      <4> HIDE DEF rest
      <4> QED
        BY <4>2, <4>3
    <3> QED
      BY <2>2, <3>1, <3>2 DEF FlowsFrom
  <2>7. PICK k \in 1..(l.sequence + 1) :
          /\ rest = Run(l.epoch, k, l.sequence)
          /\ l.replayFloor < k /\ k <= sub.highestDelivered.sequence + 1
    BY <2>6
  <2>8. rest \in Seq(Frame)
    <3>1. IsRange(k, l.sequence)
      BY <1>2 DEF IsRange
    <3> QED
      BY <1>2, <2>7, <3>1, RunFacts
  <2> HIDE DEF rest
  <2>9. /\ r \in Subscription /\ r.lastAcknowledged = cursor /\ r.queue = rest
        /\ r.highestDelivered = sub.highestDelivered /\ r.snapshotBoundary = None
    BY <1>1, <1>6, <2>8 DEF Subscription
  <2> HIDE DEF r
  <2>10. FlowsFrom(l, r, k)
    BY <2>7, <2>9 DEF FlowsFrom
  <2>11. SubscriptionInv(l, r)
    BY <1>3, <2>1, <2>5, <2>9, <2>10 DEF SubscriptionInv, FlowingInv
  <2> QED
    BY <1>6, <2>11 DEF Acknowledged, r, rest
<1> QED
  BY <1>4, <1>5, <1>6

LEMMA ReplayOfSinkKeeps ==
    ASSUME NEW l, LogInv(l), NEW sub, SubscriptionInv(l, sub)
    PROVE  SubscriptionInv(l, Replay(l, sub))
<1> DEFINE t == [sub EXCEPT !.queue = <<>>]
<1>1. /\ t \in Subscription /\ t.queue = <<>> /\ t.snapshotBoundary = sub.snapshotBoundary
      /\ t.highestDelivered = sub.highestDelivered /\ t.lastAcknowledged = sub.lastAcknowledged
  <2>1. <<>> \in Seq(Frame)
    BY EmptySeq
  <2> QED
    BY <2>1 DEF SubscriptionInv, Subscription
<1> HIDE DEF t
<1>2. CASE sub.snapshotBoundary # None
  <2> DEFINE frames == <<SnapshotRequired(sub.snapshotBoundary)>>
             r == Enqueue(t, frames)
  <2>1. BoundaryInv(l, sub) /\ sub.snapshotBoundary \in Cursor
    BY <1>2 DEF SubscriptionInv, Subscription
  <2>2. frames \in Seq(Frame)
    BY <2>1 DEF SnapshotRequired, Frame
  <2> HIDE DEF frames
  <2>3. r \in Subscription /\ r.queue = <<>> \o frames /\ r.snapshotBoundary = sub.snapshotBoundary
    BY <1>1, <2>2, EnqueueFacts
  <2>4. r.queue = frames
    BY <2>2, <2>3, ConcatEmptySeq
  <2> HIDE DEF r
  <2>5. SubscriptionInv(l, r)
    BY <1>2, <2>1, <2>3, <2>4 DEF SubscriptionInv, BoundaryInv, frames
  <2> QED
    BY <1>2, <2>5 DEF Replay, r, frames, t
<1>3. CASE sub.snapshotBoundary = None
  <2>1. FlowingInv(l, sub)
    BY <1>3 DEF SubscriptionInv
  <2>2. SubscriptionInv(l, EnqueueReplay(l, t))
    BY <1>1, <1>3, <2>1, ReplayKeeps DEF FlowingInv
  <2> QED
    BY <1>3, <2>2 DEF Replay, t
<1> QED
  BY <1>2, <1>3

LEMMA NewSubscriptionKeeps ==
    ASSUME NEW l, LogInv(l), NEW cursor \in Cursor \cup {None}
    PROVE  SubscriptionInv(l, NewSubscription(l, cursor))
<1> DEFINE ack == IF cursor # None /\ cursor.epoch = l.epoch THEN cursor ELSE None
           sub == [highestDelivered |-> cursor, lastAcknowledged |-> ack,
                   queue |-> <<>>, scheduled |-> FALSE, snapshotBoundary |-> None]
<1>1. ack \in Cursor \cup {None} /\ (ack # None => ack = cursor /\ cursor.epoch = l.epoch)
  OBVIOUS
<1>2. <<>> \in Seq(Frame)
  BY EmptySeq
<1>3. cursor # None => cursor.sequence \in Nat
  BY CursorFacts
<1> HIDE DEF ack
<1>4. sub \in Subscription
  BY <1>1, <1>2 DEF Subscription
<1>5. /\ sub.highestDelivered = cursor /\ sub.lastAcknowledged = ack
      /\ sub.queue = <<>> /\ sub.snapshotBoundary = None
  OBVIOUS
<1> HIDE DEF sub
<1>6. sub.lastAcknowledged # None /\ CanReplayFrom(l, sub.lastAcknowledged) =>
              /\ sub.highestDelivered # None
              /\ sub.highestDelivered.epoch = l.epoch
              /\ sub.highestDelivered.sequence <= l.sequence
              /\ sub.lastAcknowledged.sequence <= sub.highestDelivered.sequence
  BY <1>1, <1>3, <1>5 DEF CanReplayFrom
<1>7. SubscriptionInv(l, EnqueueReplay(l, sub))
  BY <1>4, <1>5, <1>6, ReplayKeeps
<1> QED
  BY <1>7 DEF NewSubscription, sub, ack

-----------------------------------------------------------------------------
(* A publication *)

\* The log after a publication that evicts some of the oldest frames.
Published(l, evicted) ==
    LET buffer == Append(l.buffer, Change(At(l.epoch, l.sequence + 1)))
    IN  [l EXCEPT !.sequence = @ + 1,
                  !.buffer = SubSeq(buffer, evicted + 1, Len(buffer)),
                  !.replayFloor = IF evicted = 0 THEN @ ELSE buffer[evicted].cursor.sequence]

LEMMA PublishedLog ==
    ASSUME NEW l, LogInv(l), l.sequence < MaxSequence,
           NEW evicted \in 0..(Len(l.buffer) + 1), (Len(l.buffer) + 1) - evicted <= Capacity
    PROVE  /\ LogInv(Published(l, evicted))
           /\ Published(l, evicted).epoch = l.epoch
           /\ Published(l, evicted).sequence = l.sequence + 1
           /\ Published(l, evicted).replayFloor = l.replayFloor + evicted
<1> DEFINE e == l.epoch
           n == l.sequence
           m == l.replayFloor + 1
           buffer == Append(l.buffer, Change(At(e, n + 1)))
           floor == IF evicted = 0 THEN l.replayFloor ELSE buffer[evicted].cursor.sequence
           p == [l EXCEPT !.sequence = n + 1,
                          !.buffer = SubSeq(buffer, evicted + 1, Len(buffer)),
                          !.replayFloor = floor]
<1>1. /\ e \in 1..MaxEpochs /\ n \in 0..MaxSequence /\ m \in 1..(n + 1) /\ IsRange(m, n)
      /\ l.buffer = Run(e, m, n) /\ n \in Nat /\ m \in Nat /\ MaxSequence \in Nat
      /\ l.replayFloor = m - 1
  BY LogFacts, StreamAssumption DEF IsRange, StreamAssumption, LogInv
<1>2. IsRange(m, n + 1) /\ n + 1 \in 0..MaxSequence
  BY <1>1 DEF IsRange
<1>3. l \in Log
  BY DEF LogInv
<1> HIDE DEF e, n, m
<1>4. buffer = Run(e, m, n + 1)
  BY <1>1, RunAppend DEF n
<1>5. Len(l.buffer) = n + 1 - m
  BY <1>1, RunFacts
<1>51. /\ Len(Run(e, m, n + 1)) = (n + 1) + 1 - m
       /\ \A i \in 1..((n + 1) + 1 - m) : Run(e, m, n + 1)[i].cursor.sequence = m + i - 1
  <2> DEFINE next == n + 1
  <2>1. IsRange(m, next)
    BY <1>2
  <2> HIDE DEF next
  <2>2. /\ Len(Run(e, m, next)) = next + 1 - m
        /\ \A i \in 1..(next + 1 - m) : Run(e, m, next)[i].cursor.sequence = m + i - 1
    BY <1>1, <2>1, RunFacts
  <2> QED
    BY <2>2 DEF next
<1> HIDE DEF buffer
<1>6. Len(buffer) = n + 2 - m /\ Len(buffer) = Len(l.buffer) + 1
  BY <1>1, <1>4, <1>5, <1>51
<1>7. evicted \in 0..(n + 2 - m) /\ evicted \in Nat
  BY <1>1, <1>5
<1>8. floor = (m - 1) + evicted
  <2>1. CASE evicted = 0
    BY <1>1, <2>1
  <2>2. CASE evicted # 0
    <3>1. evicted \in 1..((n + 1) + 1 - m)
      BY <1>1, <1>7, <2>2
    <3>2. buffer[evicted].cursor.sequence = m + evicted - 1
      BY <1>4, <1>51, <3>1
    <3> QED
      BY <1>1, <1>7, <2>2, <3>2
  <2> QED
    BY <2>1, <2>2
<1>9. SubSeq(buffer, evicted + 1, Len(buffer)) = Run(e, m + evicted, n + 1)
  <2>1. evicted \in 0..((n + 1) + 1 - m)
    BY <1>1, <1>7
  <2> QED
    BY <1>1, <1>2, <1>4, <2>1, RunSuffix
<1>10. IsRange(m + evicted, n + 1)
  BY <1>1, <1>2, <1>7 DEF IsRange
<1>11. Run(e, m + evicted, n + 1) \in Seq(Frame)
  BY <1>1, <1>10, RunFacts
<1> HIDE DEF floor
<1>12. floor \in 0..MaxSequence /\ floor <= n + 1 /\ m + evicted = floor + 1
  BY <1>1, <1>2, <1>7, <1>8
<1>13. /\ p \in Log /\ p.epoch = e /\ p.sequence = n + 1 /\ p.replayFloor = floor
       /\ p.buffer = Run(e, m + evicted, n + 1)
  BY <1>2, <1>3, <1>9, <1>11, <1>12 DEF Log, e
<1> HIDE DEF p
<1>14. p.sequence - p.replayFloor <= Capacity
  BY <1>1, <1>5, <1>7, <1>8, <1>13, StreamAssumption DEF StreamAssumption
<1>15. LogInv(p)
  BY <1>12, <1>13, <1>14 DEF LogInv
<1>16. Published(l, evicted) = p
  BY DEF Published, p, buffer, floor, e, n
<1> QED
  BY <1>1, <1>8, <1>13, <1>15, <1>16 DEF e, n, m

\* What a publication offers to a subscription of the log before it.
LEMMA OfferKeeps ==
    ASSUME NEW l, LogInv(l), NEW p, LogInv(p),
           p.epoch = l.epoch, p.sequence = l.sequence + 1, l.replayFloor <= p.replayFloor,
           NEW sub, sub # None, SubscriptionInv(l, sub)
    PROVE  SubscriptionInv(p, Offer(p, Change(At(l.epoch, l.sequence + 1)), sub))
<1> DEFINE frame == Change(At(l.epoch, l.sequence + 1))
<1>1. sub \in Subscription /\ sub.queue \in Seq(Frame)
  BY DEF SubscriptionInv, Subscription
<1>2. /\ l.epoch \in 1..MaxEpochs /\ l.sequence \in Nat /\ l.sequence \in 0..MaxSequence
      /\ p.sequence \in 0..MaxSequence /\ l.replayFloor \in Nat /\ p.replayFloor \in Nat
      /\ MaxSequence \in Nat
  BY LogFacts, StreamAssumption DEF StreamAssumption
<1>3. CASE sub.snapshotBoundary # None
  <2>1. BoundaryInv(l, sub) /\ sub.snapshotBoundary.sequence \in Nat
    BY <1>1, <1>3, CursorFacts DEF SubscriptionInv, Subscription
  <2>2. BoundaryInv(p, sub)
    BY <1>2, <2>1 DEF BoundaryInv
  <2> QED
    BY <1>1, <1>3, <2>2 DEF Offer, SubscriptionInv
<1>4. CASE sub.snapshotBoundary = None
  <2>1. FlowingInv(l, sub)
    BY <1>4 DEF SubscriptionInv
  <2>2. PICK m \in 1..(l.sequence + 1) : FlowsFrom(l, sub, m)
    BY <2>1 DEF FlowingInv
  <2>3. IsRange(m, l.sequence) /\ m \in Nat /\ m - 1 \in Nat
    BY <1>2 DEF IsRange
  <2>4. sub.highestDelivered \in Cursor /\ sub.highestDelivered.sequence \in Nat
    BY <1>1, <2>1, CursorFacts DEF FlowingInv, Subscription
  <2>5. CASE ~CanReplayFrom(p, DeliveryProgress(p, sub))
    BY <1>1, <1>4, <2>5, SnapshotKeeps DEF Offer
  <2>6. CASE CanReplayFrom(p, DeliveryProgress(p, sub))
    <3> DEFINE r == Enqueue(sub, <<frame>>)
    <3>1. frame \in Frame /\ <<frame>> \in Seq(Frame)
      BY <1>2 DEF Change, At, Frame, Cursor
    <3>2. /\ r \in Subscription /\ r.queue = sub.queue \o <<frame>>
          /\ r.highestDelivered = sub.highestDelivered /\ r.snapshotBoundary = None
          /\ r.lastAcknowledged = sub.lastAcknowledged
      BY <1>1, <1>4, <3>1, EnqueueFacts
    <3>3. sub.queue \o <<frame>> = Append(sub.queue, frame)
      BY <1>1, <3>1, AppendIsConcat
    <3>4. Append(Run(l.epoch, m, l.sequence), frame) = Run(p.epoch, m, p.sequence)
      BY <1>2, <2>3, RunAppend
    <3>5. m \in 1..(p.sequence + 1)
      BY <1>2, <2>3
    <3>6. FlowsFrom(p, r, m)
      <4>1. CASE /\ sub.queue = Run(l.epoch, m, l.sequence)
                 /\ m <= sub.highestDelivered.sequence + 1
        <5>1. r.queue = Run(p.epoch, m, p.sequence)
          BY <3>2, <3>3, <3>4, <4>1
        <5>2. CASE m <= l.sequence
          <6>1. sub.queue # <<>> /\ sub.queue[1].cursor.sequence = m
            <7>1. 1 \in 1..(l.sequence + 1 - m)
              BY <1>2, <2>3, <5>2
            <7> QED
              BY <1>2, <2>3, <4>1, <5>2, <7>1, RunTail, RunFacts
          <6>2. DeliveryProgress(p, sub) = At(p.epoch, m - 1)
            BY <6>1 DEF DeliveryProgress
          <6>3. p.replayFloor <= m - 1
            BY <2>6, <6>2 DEF CanReplayFrom, At
          <6> QED
            BY <1>2, <2>3, <3>2, <4>1, <5>1, <6>3 DEF FlowsFrom
        <5>3. CASE m = l.sequence + 1
          <6>1. sub.queue = <<>>
            BY <1>2, <4>1, <5>3, EmptyRun
          <6>2. DeliveryProgress(p, sub) = sub.highestDelivered
            BY <2>1, <6>1 DEF DeliveryProgress, FlowingInv
          <6>3. p.replayFloor <= sub.highestDelivered.sequence
            BY <2>6, <6>2 DEF CanReplayFrom
          <6>4. sub.highestDelivered.sequence <= l.sequence
            BY <2>1 DEF FlowingInv
          <6> QED
            BY <1>2, <2>3, <2>4, <3>2, <4>1, <5>1, <5>3, <6>3, <6>4 DEF FlowsFrom
        <5> QED
          BY <1>2, <2>3, <5>2, <5>3
      <4>2. CASE /\ sub.queue = BoundaryRun(l.epoch, m, l.sequence)
                 /\ sub.lastAcknowledged.sequence = m - 1
        <5>1. sub.queue # <<>> /\ sub.queue[1].cursor.sequence = m - 1
          BY <1>2, <2>3, <4>2, BoundaryRunFacts
        <5>2. DeliveryProgress(p, sub) = At(p.epoch, (m - 1) - 1)
          BY <5>1 DEF DeliveryProgress
        <5>3. p.replayFloor <= (m - 1) - 1
          BY <2>6, <5>2 DEF CanReplayFrom, At
        <5>4. r.queue = BoundaryRun(p.epoch, m, p.sequence)
          <6> DEFINE f == SnapshotRequired(At(l.epoch, m - 1))
                     s1 == <<f>>
                     s2 == Run(l.epoch, m, l.sequence)
                     s3 == <<frame>>
          <6>1. f \in Frame
            BY <1>2, <2>3 DEF SnapshotRequired, At, Frame, Cursor, IsRange
          <6>2. s1 \in Seq(Frame) /\ s2 \in Seq(Frame) /\ s3 \in Seq(Frame)
            <7>1. s2 \in Seq(Frame)
              BY <1>2, <2>3, RunFacts
            <7> QED
              BY <3>1, <6>1, <7>1
          <6>3. s2 \o s3 = Run(p.epoch, m, p.sequence)
            BY <3>1, <3>4, <6>2, AppendIsConcat
          <6>4. r.queue = (s1 \o s2) \o s3
            BY <3>2, <4>2 DEF BoundaryRun
          <6> HIDE DEF s1, s2, s3
          <6>5. (s1 \o s2) \o s3 = s1 \o (s2 \o s3)
            BY <6>2, ConcatAssociative
          <6> QED
            BY <6>3, <6>4, <6>5 DEF BoundaryRun, s1
        <5> QED
          BY <1>2, <2>3, <3>2, <4>2, <5>3, <5>4 DEF FlowsFrom
      <4> QED
        BY <2>2, <4>1, <4>2 DEF FlowsFrom
    <3>7. sub.highestDelivered.sequence <= p.sequence
      BY <1>2, <2>1, <2>4 DEF FlowingInv
    <3> HIDE DEF r
    <3>8. SubscriptionInv(p, r)
      BY <2>1, <3>2, <3>5, <3>6, <3>7 DEF SubscriptionInv, FlowingInv
    <3> QED
      BY <1>4, <2>1, <2>6, <3>8 DEF Offer, FlowingInv, r
  <2> QED
    BY <2>5, <2>6
<1> QED
  BY <1>3, <1>4

-----------------------------------------------------------------------------
(* Every step keeps the invariant *)

LEMMA InitStream == StreamInit => StreamInv
<1> SUFFICES ASSUME StreamInit PROVE StreamInv
  OBVIOUS
<1>1. 1 \in 1..MaxEpochs /\ 0 \in 0..MaxSequence
  BY StreamAssumption DEF StreamAssumption
<1>2. <<>> \in Seq(Frame)
  BY EmptySeq
<1>3. log \in Log /\ log.epoch = 1 /\ log.sequence = 0 /\ log.replayFloor = 0 /\ log.buffer = <<>>
  BY <1>1, <1>2 DEF StreamInit, EmptyLog, Log
<1>4. Run(1, 0 + 1, 0) = <<>>
  BY <1>1, EmptyRun
<1>5. LogInv(log)
  BY <1>3, <1>4, StreamAssumption DEF LogInv, StreamAssumption
<1> QED
  BY <1>5 DEF StreamInit, StreamInv

LEMMA PublishKeeps == StreamInv /\ Publish => StreamInv'
<1> SUFFICES ASSUME StreamInv, Publish PROVE StreamInv'
  OBVIOUS
<1> DEFINE frame == Change(At(log.epoch, log.sequence + 1))
           buffer == Append(log.buffer, frame)
<1>1. LogInv(log) /\ log.buffer \in Seq(Frame) /\ log.sequence < MaxSequence
  BY LogFacts DEF StreamInv, Publish
<1>2. frame \in Frame
  BY <1>1, LogFacts, StreamAssumption DEF Change, At, Frame, Cursor, StreamAssumption
<1>3. Len(buffer) = Len(log.buffer) + 1
  BY <1>1, <1>2, AppendProperties
<1>4. PICK evicted \in 0..Len(buffer) :
        /\ Len(buffer) - evicted <= Capacity
        /\ log' = [log EXCEPT
             !.sequence = @ + 1,
             !.buffer = SubSeq(buffer, evicted + 1, Len(buffer)),
             !.replayFloor = IF evicted = 0 THEN @ ELSE buffer[evicted].cursor.sequence]
        /\ subs' = [s \in Subs |-> Offer(log', frame, subs[s])]
  BY DEF Publish
<1>5. log' = Published(log, evicted)
  BY <1>4 DEF Published
<1>6. /\ LogInv(log') /\ log'.epoch = log.epoch /\ log'.sequence = log.sequence + 1
      /\ log'.replayFloor = log.replayFloor + evicted
  <2>1. evicted \in 0..(Len(log.buffer) + 1) /\ (Len(log.buffer) + 1) - evicted <= Capacity
    BY <1>3, <1>4
  <2> QED
    BY <1>1, <1>5, <2>1, PublishedLog
<1>7. log.replayFloor <= log'.replayFloor
  BY <1>1, <1>3, <1>4, <1>6, LogFacts
<1>8. ASSUME NEW s \in Subs PROVE subs'[s] = None \/ SubscriptionInv(log', subs'[s])
  <2>1. subs'[s] = Offer(log', frame, subs[s])
    BY <1>4
  <2>2. CASE subs[s] = None
    BY <2>1, <2>2 DEF Offer
  <2>3. CASE subs[s] # None
    <3>1. SubscriptionInv(log, subs[s])
      BY <2>3 DEF StreamInv
    <3> QED
      BY <1>1, <1>6, <1>7, <2>1, <2>3, <3>1, OfferKeeps
  <2> QED
    BY <2>2, <2>3
<1>9. subs' \in [Subs -> Subscription \cup {None}]
  BY <1>4, <1>8 DEF SubscriptionInv
<1> QED
  BY <1>6, <1>8, <1>9 DEF StreamInv

LEMMA ResetKeeps == StreamInv /\ Reset => StreamInv'
<1> SUFFICES ASSUME StreamInv, Reset PROVE StreamInv'
  OBVIOUS
<1>1. /\ LogInv(log) /\ log \in Log /\ log.epoch \in 1..MaxEpochs
      /\ log.sequence \in 0..MaxSequence /\ log.sequence < MaxSequence
  BY LogFacts DEF StreamInv, LogInv, Reset
<1>2. log.sequence + 1 \in 0..MaxSequence
  BY <1>1, StreamAssumption DEF StreamAssumption
<1>3. <<>> \in Seq(Frame)
  BY EmptySeq
<1>4. /\ log' \in Log /\ log'.epoch = log.epoch /\ log'.sequence = log.sequence + 1
      /\ log'.replayFloor = log.sequence + 1 /\ log'.buffer = <<>>
  BY <1>1, <1>2, <1>3 DEF Reset, Log
<1>5. Run(log.epoch, (log.sequence + 1) + 1, log.sequence + 1) = <<>>
  BY <1>1, <1>2, EmptyRun
<1>6. LogInv(log')
  BY <1>1, <1>4, <1>5, StreamAssumption DEF LogInv, StreamAssumption
<1>7. ASSUME NEW s \in Subs PROVE subs'[s] = None \/ SubscriptionInv(log', subs'[s])
  <2> DEFINE t == [subs[s] EXCEPT !.snapshotBoundary = None]
  <2>1. CASE subs[s] = None
    BY <2>1 DEF Reset
  <2>2. CASE subs[s] # None
    <3>1. subs[s] \in Subscription
      BY <2>2 DEF StreamInv
    <3>2. t \in Subscription /\ t.snapshotBoundary = None
      BY <3>1 DEF Subscription
    <3>3. subs'[s] = EnqueueSnapshot(log', t)
      BY <2>2 DEF Reset
    <3> QED
      BY <1>6, <3>2, <3>3, SnapshotKeeps
  <2> QED
    BY <2>1, <2>2
<1>8. subs' \in [Subs -> Subscription \cup {None}]
  <2>1. \A s \in Subs : subs'[s] \in Subscription \cup {None}
    BY <1>7 DEF SubscriptionInv
  <2> QED
    BY <2>1 DEF Reset
<1> QED
  BY <1>6, <1>7, <1>8 DEF StreamInv

LEMMA RestartKeeps == StreamInv /\ RestartHost => StreamInv'
<1> SUFFICES ASSUME StreamInv, RestartHost PROVE StreamInv'
  OBVIOUS
<1>1. log.epoch \in 1..MaxEpochs /\ log.epoch < MaxEpochs
  BY LogFacts DEF StreamInv, RestartHost
<1>2. log.epoch + 1 \in 1..MaxEpochs /\ 0 \in 0..MaxSequence
  BY <1>1, StreamAssumption DEF StreamAssumption
<1>3. <<>> \in Seq(Frame)
  BY EmptySeq
<1>4. /\ log' \in Log /\ log'.epoch = log.epoch + 1 /\ log'.sequence = 0
      /\ log'.replayFloor = 0 /\ log'.buffer = <<>>
  BY <1>2, <1>3 DEF RestartHost, EmptyLog, Log
<1>5. Run(log.epoch + 1, 0 + 1, 0) = <<>>
  BY <1>2, EmptyRun
<1>6. LogInv(log')
  BY <1>4, <1>5, StreamAssumption DEF LogInv, StreamAssumption
<1> QED
  BY <1>6 DEF RestartHost, StreamInv

\* The steps on one subscription leave the log alone.
LEMMA OneSubscription ==
    ASSUME StreamInv, NEW s \in Subs, NEW sub, UNCHANGED log, subs' = [subs EXCEPT ![s] = sub],
           sub = None \/ SubscriptionInv(log, sub)
    PROVE  StreamInv'
<1>1. sub \in Subscription \cup {None}
  BY DEF SubscriptionInv
<1>2. subs' \in [Subs -> Subscription \cup {None}]
  BY <1>1 DEF StreamInv
<1>3. \A t \in Subs : subs'[t] # None => SubscriptionInv(log, subs'[t])
  BY DEF StreamInv
<1> QED
  BY <1>2, <1>3 DEF StreamInv

LEMMA SubscriberKeeps ==
    ASSUME StreamInv, NEW s \in Subs,
           \/ \E cursor \in Cursor \cup {None} : Subscribe(s, cursor)
           \/ \E cursor \in Cursor : Acknowledge(s, cursor)
           \/ Unsubscribe(s)
           \/ ReplayFrom(s)
           \/ ResumeDelivery(s)
           \/ DeliverFrame(s)
           \/ StopDraining(s)
           \/ FailDelivery(s)
    PROVE  StreamInv'
<1>1. LogInv(log) /\ (subs[s] # None => SubscriptionInv(log, subs[s]))
  BY DEF StreamInv
<1>2. CASE \E cursor \in Cursor \cup {None} : Subscribe(s, cursor)
  BY <1>1, <1>2, NewSubscriptionKeeps, OneSubscription DEF Subscribe
<1>3. CASE \E cursor \in Cursor : Acknowledge(s, cursor)
  <2>1. PICK cursor \in Cursor : Acknowledge(s, cursor)
    BY <1>3
  <2>2. subs' = [subs EXCEPT ![s] = Acknowledged(log, subs[s], cursor)]
    BY <2>1 DEF Acknowledge
  <2>3. SubscriptionInv(log, Acknowledged(log, subs[s], cursor))
    BY <1>1, <2>1, AcknowledgeKeeps DEF Acknowledge
  <2> QED
    BY <2>1, <2>2, <2>3, OneSubscription DEF Acknowledge
<1>4. CASE Unsubscribe(s) \/ FailDelivery(s)
  BY <1>4, OneSubscription DEF Unsubscribe, FailDelivery
<1>5. CASE ReplayFrom(s)
  BY <1>1, <1>5, ReplayOfSinkKeeps, OneSubscription DEF ReplayFrom
<1>6. CASE ResumeDelivery(s)
  BY <1>1, <1>6, ResumeKeeps, OneSubscription DEF ResumeDelivery
<1>7. CASE DeliverFrame(s)
  <2> DEFINE b == Tail(subs[s].queue) # <<>>
             r == [subs[s] EXCEPT
                     !.highestDelivered = Delivered(log, subs[s], Head(subs[s].queue)),
                     !.queue = Tail(@), !.scheduled = b]
  <2>1. b \in BOOLEAN
    OBVIOUS
  <2>2. subs[s] # None /\ subs[s].queue # <<>>
    BY <1>7 DEF DeliverFrame, Draining
  <2> HIDE DEF b
  <2>3. SubscriptionInv(log, r)
    BY <1>1, <2>1, <2>2, DeliveryKeeps
  <2>4. subs' = [subs EXCEPT ![s] = r]
    BY <1>7 DEF DeliverFrame, b
  <2> QED
    BY <1>7, <2>3, <2>4, OneSubscription DEF DeliverFrame
<1>8. CASE StopDraining(s)
  <2> DEFINE r == [subs[s] EXCEPT !.scheduled = FALSE]
  <2>1. subs[s] # None
    BY <1>8 DEF StopDraining, Draining
  <2>2. SubscriptionInv(log, r)
    BY <1>1, <2>1, ScheduleKeeps
  <2>3. subs' = [subs EXCEPT ![s] = r]
    BY <1>8 DEF StopDraining
  <2> QED
    BY <1>8, <2>2, <2>3, OneSubscription DEF StopDraining
<1> QED
  BY <1>2, <1>3, <1>4, <1>5, <1>6, <1>7, <1>8

LEMMA StepStream == StreamInv /\ [StreamNext]_streamVars => StreamInv'
<1> SUFFICES ASSUME StreamInv, [StreamNext]_streamVars PROVE StreamInv'
  OBVIOUS
<1>1. CASE Publish
  BY <1>1, PublishKeeps
<1>2. CASE Reset
  BY <1>2, ResetKeeps
<1>3. CASE RestartHost
  BY <1>3, RestartKeeps
<1>4. ASSUME NEW s \in Subs,
             \/ \E cursor \in Cursor \cup {None} : Subscribe(s, cursor)
             \/ \E cursor \in Cursor : Acknowledge(s, cursor)
             \/ Unsubscribe(s)
             \/ ReplayFrom(s)
             \/ ResumeDelivery(s)
             \/ DeliverFrame(s)
             \/ StopDraining(s)
             \/ FailDelivery(s)
      PROVE  StreamInv'
  BY <1>4, SubscriberKeeps
<1>5. CASE UNCHANGED streamVars
  BY <1>5 DEF streamVars, StreamInv
<1> QED
  BY <1>1, <1>2, <1>3, <1>4, <1>5 DEF StreamNext

THEOREM StreamInvariant == StreamSpec => []StreamInv
<1>1. StreamInit => StreamInv
  BY InitStream
<1>2. StreamInv /\ [StreamNext]_streamVars => StreamInv'
  BY StepStream
<1> QED
  BY <1>1, <1>2, PTL DEF StreamSpec

-----------------------------------------------------------------------------
(* What the invariant says *)

\* The log and every subscription always have their types.
THEOREM StreamTypeCorrect == StreamSpec => []StreamTypeOK
<1>1. StreamInv => StreamTypeOK
  BY DEF StreamInv, StreamTypeOK, LogInv
<1> QED
  BY <1>1, StreamInvariant, PTL

\* task-event-stream.ts:175-188: whatever is evicted, the buffer has no gap after its floor.
THEOREM BufferCorrect == StreamSpec => []BufferIsContiguous
<1>1. StreamInv => BufferIsContiguous
  BY DEF StreamInv, BufferIsContiguous, LogInv
<1> QED
  BY <1>1, StreamInvariant, PTL

\* task-event-stream.ts:185, 288: no order of publications, evictions, deliveries, replays and
\* acknowledgements makes a subscriber skip a change.
THEOREM NothingSkipped == StreamSpec => []NoChangeIsSkipped
<1>1. ASSUME StreamInv PROVE NoChangeIsSkipped
  <2> SUFFICES ASSUME NEW s \in Subs, subs[s] # None
               PROVE  IF subs[s].snapshotBoundary = None
                      THEN \E m \in 1..(log.sequence + 1) : ContinuesAt(subs[s], m)
                      ELSE \/ subs[s].queue = <<SnapshotRequired(subs[s].snapshotBoundary)>>
                           \/ /\ subs[s].queue = <<>>
                              /\ subs[s].highestDelivered = subs[s].snapshotBoundary
    BY DEF NoChangeIsSkipped
  <2>1. SubscriptionInv(log, subs[s])
    BY <1>1 DEF StreamInv
  <2>2. CASE subs[s].snapshotBoundary = None
    <3>1. FlowingInv(log, subs[s])
      BY <2>1, <2>2 DEF SubscriptionInv
    <3>2. PICK m \in 1..(log.sequence + 1) : FlowsFrom(log, subs[s], m)
      BY <3>1 DEF FlowingInv
    <3>3. ContinuesAt(subs[s], m)
      BY <3>1, <3>2 DEF FlowingInv, FlowsFrom, ContinuesAt, BoundaryRun
    <3> QED
      BY <2>2, <3>3
  <2>3. CASE subs[s].snapshotBoundary # None
    BY <2>1, <2>3 DEF SubscriptionInv, BoundaryInv
  <2> QED
    BY <2>2, <2>3
<1> QED
  BY <1>1, StreamInvariant, PTL

\* A queue is a run of the newest changes, or one boundary frame and such a run.
LEMMA QueueLength ==
    ASSUME StreamInv, NEW s \in Subs, subs[s] # None
    PROVE  Len(subs[s].queue) <= Capacity + 1
<1>1. SubscriptionInv(log, subs[s]) /\ LogInv(log)
  BY DEF StreamInv
<1>2. /\ log.epoch \in 1..MaxEpochs /\ log.sequence \in 0..MaxSequence /\ log.sequence \in Nat
      /\ log.replayFloor \in Nat /\ Capacity \in Nat /\ MaxSequence \in Nat
      /\ log.sequence - log.replayFloor <= Capacity
  BY <1>1, LogFacts, StreamAssumption DEF StreamAssumption, LogInv
<1>3. CASE subs[s].snapshotBoundary = None
  <2>1. PICK m \in 1..(log.sequence + 1) : FlowsFrom(log, subs[s], m)
    BY <1>1, <1>3 DEF SubscriptionInv, FlowingInv
  <2>2. IsRange(m, log.sequence) /\ m \in Nat /\ log.replayFloor < m
    BY <1>2, <2>1 DEF IsRange, FlowsFrom
  <2>3. /\ Len(Run(log.epoch, m, log.sequence)) = log.sequence + 1 - m
        /\ Len(BoundaryRun(log.epoch, m, log.sequence)) = log.sequence + 2 - m
    BY <1>2, <2>2, RunFacts, BoundaryRunFacts
  <2>4. Len(subs[s].queue) <= log.sequence + 2 - m
    BY <1>2, <2>1, <2>2, <2>3 DEF FlowsFrom
  <2>5. log.sequence + 2 - m <= Capacity + 1
    BY <1>2, <2>2
  <2>6. Len(subs[s].queue) \in Nat
    <3>1. \/ subs[s].queue = Run(log.epoch, m, log.sequence)
          \/ subs[s].queue = BoundaryRun(log.epoch, m, log.sequence)
      BY <2>1 DEF FlowsFrom
    <3> QED
      BY <1>2, <2>2, <2>3, <3>1 DEF IsRange
  <2> QED
    BY <1>2, <2>2, <2>4, <2>5, <2>6
<1>4. CASE subs[s].snapshotBoundary # None
  <2>1. \/ subs[s].queue = <<SnapshotRequired(subs[s].snapshotBoundary)>>
        \/ subs[s].queue = <<>>
    BY <1>1, <1>4 DEF SubscriptionInv, BoundaryInv
  <2>2. CASE subs[s].queue = <<>>
    <3>1. Len(subs[s].queue) = 0
      BY <2>2, EmptySeq
    <3> QED
      BY <1>2, <3>1
  <2>3. CASE subs[s].queue = <<SnapshotRequired(subs[s].snapshotBoundary)>>
    <3> DEFINE f == SnapshotRequired(subs[s].snapshotBoundary)
    <3>1. Len(<<f>>) = 1
      OBVIOUS
    <3> QED
      BY <1>2, <2>3, <3>1
  <2> QED
    BY <2>1, <2>2, <2>3
<1> QED
  BY <1>3, <1>4

\* The changes a queue holds are the newest ones, and the buffer holds all that follow its floor.
LEMMA QueueFromBuffer ==
    ASSUME StreamInv, NEW s \in Subs, subs[s] # None,
           NEW i \in DOMAIN subs[s].queue, subs[s].queue[i].type = "change"
    PROVE  \E j \in DOMAIN log.buffer : log.buffer[j] = subs[s].queue[i]
<1> DEFINE e == log.epoch
           n == log.sequence
           floor == log.replayFloor
           q == subs[s].queue
<1>1. SubscriptionInv(log, subs[s]) /\ LogInv(log)
  BY DEF StreamInv
<1>2. /\ e \in 1..MaxEpochs /\ n \in 0..MaxSequence /\ n \in Nat /\ floor \in Nat
      /\ floor <= n /\ log.buffer = Run(e, floor + 1, n)
  BY <1>1, LogFacts, StreamAssumption DEF StreamAssumption, LogInv
<1>3. /\ DOMAIN log.buffer = 1..(n - floor)
      /\ \A j \in 1..(n - floor) : log.buffer[j] = Change(At(e, floor + j))
  <2>1. IsRange(floor + 1, n)
    BY <1>2 DEF IsRange
  <2>2. /\ log.buffer \in Seq(Frame) /\ Len(log.buffer) = n + 1 - (floor + 1)
        /\ \A j \in 1..(n + 1 - (floor + 1)) : log.buffer[j] = Change(At(e, floor + 1 + j - 1))
    BY <1>2, <2>1, RunFacts
  <2>3. n + 1 - (floor + 1) = n - floor /\ \A j \in 1..(n - floor) : floor + 1 + j - 1 = floor + j
    BY <1>2
  <2> QED
    BY <2>2, <2>3
<1>4. ASSUME NEW c \in (floor + 1)..n, q[i] = Change(At(e, c))
      PROVE  \E j \in DOMAIN log.buffer : log.buffer[j] = q[i]
  <2>1. c - floor \in 1..(n - floor) /\ floor + (c - floor) = c
    BY <1>2
  <2> QED
    BY <1>3, <1>4, <2>1
<1>5. CASE subs[s].snapshotBoundary # None
  <2>1. q = <<SnapshotRequired(subs[s].snapshotBoundary)>> \/ q = <<>>
    BY <1>1, <1>5 DEF SubscriptionInv, BoundaryInv
  <2>2. q[i].type = "snapshot_required"
    BY <2>1 DEF SnapshotRequired
  <2> QED
    BY <2>2
<1>6. CASE subs[s].snapshotBoundary = None
  <2>1. PICK m \in 1..(n + 1) : FlowsFrom(log, subs[s], m)
    BY <1>1, <1>6 DEF SubscriptionInv, FlowingInv
  <2>2. IsRange(m, n) /\ m \in Nat /\ floor < m
    BY <1>2, <2>1 DEF IsRange, FlowsFrom
  <2>3. /\ Run(e, m, n) \in Seq(Frame) /\ Len(Run(e, m, n)) = n + 1 - m
        /\ \A j \in 1..(n + 1 - m) : Run(e, m, n)[j] = Change(At(e, m + j - 1))
    BY <1>2, <2>2, RunFacts
  <2>4. CASE q = Run(e, m, n)
    <3>1. i \in 1..(n + 1 - m)
      BY <2>3, <2>4
    <3>2. q[i] = Change(At(e, m + i - 1)) /\ m + i - 1 \in (floor + 1)..n
      BY <1>2, <2>2, <2>3, <2>4, <3>1
    <3> QED
      BY <1>4, <3>2
  <2>5. CASE q = BoundaryRun(e, m, n)
    <3>1. /\ q \in Seq(Frame) /\ Len(q) = n + 2 - m /\ q[1] = SnapshotRequired(At(e, m - 1))
          /\ \A j \in 1..(n + 1 - m) : q[j + 1] = Run(e, m, n)[j]
      <4> DEFINE b == BoundaryRun(e, m, n)
      <4>1. IsRange(m, n) /\ e \in 1..MaxEpochs
        BY <1>2, <2>2
      <4>2. b \in Seq(Frame) /\ Len(b) = n + 2 - m
        BY <4>1, BoundaryRunFacts
      <4>3. b[1] = SnapshotRequired(At(e, m - 1))
        BY <4>1, BoundaryRunFacts
      <4>4. \A j \in 1..(n + 1 - m) : b[j + 1] = Run(e, m, n)[j]
        BY <4>1, BoundaryRunFacts
      <4> HIDE DEF b
      <4>5. q = b
        BY <2>5 DEF b
      <4> QED
        BY <4>2, <4>3, <4>4, <4>5
    <3>2. i \in 1..(n + 2 - m) /\ i # 1
      BY <3>1 DEF SnapshotRequired
    <3>3. i - 1 \in 1..(n + 1 - m) /\ (i - 1) + 1 = i
      BY <1>2, <2>2, <3>2
    <3>4. q[i] = Run(e, m, n)[i - 1]
      BY <3>1, <3>3
    <3>5. q[i] = Change(At(e, m + (i - 1) - 1))
      BY <2>3, <3>3, <3>4
    <3>6. m + (i - 1) - 1 \in (floor + 1)..n
      BY <1>2, <2>2, <3>2
    <3> QED
      BY <1>4, <3>5, <3>6
  <2> QED
    BY <2>1, <2>4, <2>5 DEF FlowsFrom
<1> QED
  BY <1>5, <1>6

\* However slow its sink is, a subscriber queues only changes that the replay buffer holds as well,
\* and at most one boundary frame besides.
THEOREM QueuesBounded == StreamSpec => []QueueIsBounded
<1>1. ASSUME StreamInv PROVE QueueIsBounded
  BY <1>1, QueueLength, QueueFromBuffer DEF QueueIsBounded
<1> QED
  BY <1>1, StreamInvariant, PTL

=============================================================================
