------------------------- MODULE RuntimeReviewProofs -------------------------
(* Theorems about RuntimeReview for every set of kinds, sessions and commands. *)
EXTENDS RuntimeReview, FiniteSetTheorems, TLAPS

-----------------------------------------------------------------------------
(* The operators that the model is built from *)

\* A partial function is a function from a set of kinds.
LEMMA PartialIntro ==
    ASSUME NEW S, NEW D \in SUBSET Kinds, NEW f \in [D -> S]
    PROVE f \in Partial(S)
BY DEF Partial

LEMMA PartialElim ==
    ASSUME NEW S, NEW f \in Partial(S)
    PROVE DOMAIN f \in SUBSET Kinds /\ f \in [DOMAIN f -> S]
BY DEF Partial

LEMMA NothingType ==
    ASSUME NEW S
    PROVE Nothing \in Partial(S) /\ DOMAIN Nothing = {}
<1>1. DOMAIN Nothing = {} /\ Nothing \in [{} -> S]
  BY DEF Nothing
<1> QED BY <1>1, PartialIntro

LEMMA ExtendType ==
    ASSUME NEW S, NEW f \in Partial(S), NEW k \in Kinds, NEW v \in S
    PROVE /\ Extend(f, k, v) \in Partial(S)
          /\ DOMAIN Extend(f, k, v) = DOMAIN f \cup {k}
          /\ \A j \in DOMAIN f \cup {k} : Extend(f, k, v)[j] = IF j = k THEN v ELSE f[j]
<1>1. DOMAIN f \in SUBSET Kinds /\ f \in [DOMAIN f -> S]
  BY PartialElim
<1>2. DOMAIN f \cup {k} \in SUBSET Kinds
  BY <1>1
<1>3. Extend(f, k, v) \in [DOMAIN f \cup {k} -> S]
  BY <1>1 DEF Extend
<1> QED BY <1>2, <1>3, PartialIntro DEF Extend

\* A settings plan has the kinds that the edits change, with the effect of each change.
LEMMA PlanSettingsType ==
    ASSUME NEW current \in [Kinds -> Setting], NEW edits \in Partial(Setting)
    PROVE /\ PlanSettingsChange(current, edits) \in Plans
          /\ DOMAIN PlanSettingsChange(current, edits)
               = {k \in DOMAIN edits : edits[k] # current[k]}
          /\ \A k \in DOMAIN edits : edits[k] # current[k] =>
                PlanSettingsChange(current, edits)[k] =
                    [effect |-> LifecycleEffectFor(current[k], edits[k]), setting |-> edits[k]]
<1>1. DOMAIN edits \in SUBSET Kinds /\ edits \in [DOMAIN edits -> Setting]
  BY PartialElim
<1> DEFINE changed == {k \in DOMAIN edits : edits[k] # current[k]}
<1>2. changed \in SUBSET Kinds
  BY <1>1
<1>3. \A k \in changed : LifecycleEffectFor(current[k], edits[k]) \in Effects
  BY DEF LifecycleEffectFor, Effects
<1>4. PlanSettingsChange(current, edits) \in [changed -> [effect : Effects, setting : Setting]]
  BY <1>1, <1>3 DEF PlanSettingsChange
<1>5. PlanSettingsChange(current, edits) \in Plans
  BY <1>2, <1>4, PartialIntro DEF Plans
<1> QED BY <1>5 DEF PlanSettingsChange

LEMMA PlanRestartType ==
    ASSUME NEW k \in Kinds, NEW setting \in Setting
    PROVE /\ PlanRestart(k, setting) \in Plans
          /\ DOMAIN PlanRestart(k, setting) = {k}
          /\ PlanRestart(k, setting)[k].effect \in {"restart", "stop"}
          /\ PlanRestart(k, setting)[k].setting = setting
<1>1. {k} \in SUBSET Kinds
  OBVIOUS
<1>2. PlanRestart(k, setting) \in [{k} -> [effect : Effects, setting : Setting]]
  BY DEF PlanRestart, Effects
<1> QED BY <1>1, <1>2, PartialIntro DEF PlanRestart, Plans

LEMMA LifecycleType ==
    ASSUME NEW plan \in Plans
    PROVE /\ LifecycleKinds(plan) \in SUBSET Kinds
          /\ LifecycleKinds(plan) \subseteq DOMAIN plan
          /\ \A k \in DOMAIN plan : plan[k] \in [effect : Effects, setting : Setting]
BY PartialElim DEF LifecycleKinds, Plans

LEMMA FinishedType == NoCommand \in CommandRecords
BY NothingType, ReviewAssumption DEF NoCommand, CommandRecords, Places, Uses, Plans, Ids, Seen,
   ReviewAssumption

\* What Become assigns.
LEMMA BecomeType ==
    ASSUME cmd \in [Commands -> CommandRecords], NEW c \in Commands,
           NEW record \in CommandRecords, Become(c, record)
    PROVE /\ cmd' \in [Commands -> CommandRecords]
          /\ cmd'[c] = record
          /\ \A d \in Commands \ {c} : cmd'[d] = cmd[d]
BY DEF Become

LEMMA FinishType ==
    ASSUME cmd \in [Commands -> CommandRecords],
           owner \in [Kinds -> Commands \cup {"none"}],
           slot \in [Kinds -> {"idle", "stopping", "starting", "done"}],
           NEW c \in Commands, Finish(c)
    PROVE /\ cmd' \in [Commands -> CommandRecords]
          /\ cmd'[c] = NoCommand
          /\ \A d \in Commands \ {c} : cmd'[d] = cmd[d]
          /\ owner' \in [Kinds -> Commands \cup {"none"}]
          /\ slot' \in [Kinds -> {"idle", "stopping", "starting", "done"}]
BY FinishedType, BecomeType DEF Finish

\* The store of confirmations stays within its limit, and keeps its reviews.
LEMMA IssueType ==
    ASSUME issued \in Nat, NEW review \in Reviews,
           \A t \in DOMAIN reviews : t \in 1 .. issued /\ reviews[t] \in Reviews
    PROVE LET store == AfterIssue(reviews, issued + 1, review) IN
          /\ \A t \in DOMAIN store : t \in 1 .. issued + 1 /\ store[t] \in Reviews
          /\ Cardinality(DOMAIN store) <= MaxReviews
          /\ IsFiniteSet(DOMAIN store)
<1> DEFINE all == DOMAIN reviews \cup {issued + 1}
           above(t) == {u \in all : u > t}
           kept == {t \in all : Cardinality(above(t)) < MaxReviews}
           rank == [t \in kept |-> Cardinality(above(t))]
<1> USE ReviewAssumption DEF ReviewAssumption
<1>1. DOMAIN AfterIssue(reviews, issued + 1, review) = kept
  BY DEF AfterIssue
<1>2. all \subseteq 1 .. issued + 1
  OBVIOUS
<1>3. IsFiniteSet(all)
  <2>1. IsFiniteSet(1 .. issued + 1)
    BY FS_Interval
  <2> QED BY <1>2, <2>1, FS_Subset
<1>4. \A t \in all : IsFiniteSet(above(t)) /\ Cardinality(above(t)) \in Nat
  BY <1>3, FS_Subset, FS_CardinalityType
<1>5. ASSUME NEW t \in all, NEW u \in all, t < u PROVE Cardinality(above(u)) < Cardinality(above(t))
  <2>1. above(u) \subseteq above(t) /\ u \in above(t) /\ u \notin above(u)
    BY <1>2, <1>5
  <2> HIDE DEF above
  <2>2. above(u) \in SUBSET above(t) /\ above(u) # above(t)
    BY <2>1
  <2>3. /\ Cardinality(above(u)) <= Cardinality(above(t))
        /\ Cardinality(above(u)) # Cardinality(above(t))
    BY <1>4, <2>2, FS_Subset
  <2> QED BY <1>4, <2>3
<1>6. rank \in Injection(kept, 0 .. MaxReviews - 1)
  <2>1. rank \in [kept -> 0 .. MaxReviews - 1]
    BY <1>4
  <2>2. ASSUME NEW t \in kept, NEW u \in kept, rank[t] = rank[u] PROVE t = u
    <3> DEFINE count(v) == Cardinality(above(v))
    <3>1. t \in Nat /\ u \in Nat /\ t \in all /\ u \in all
      BY <1>2
    <3>2. count(t) \in Nat /\ count(u) \in Nat /\ count(t) = count(u)
      BY <1>4, <2>2
    <3>3. (t < u => count(u) < count(t)) /\ (u < t => count(t) < count(u))
      BY <1>5, <3>1
    <3> HIDE DEF count
    <3> QED BY <3>1, <3>2, <3>3
  <2> QED BY <2>1, <2>2 DEF Injection, IsInjective
<1>7. IsFiniteSet(kept) /\ Cardinality(kept) <= MaxReviews
  <2>1. IsFiniteSet(0 .. MaxReviews - 1) /\ Cardinality(0 .. MaxReviews - 1) = MaxReviews
    BY FS_Interval
  <2>2. IsFiniteSet(kept)
    BY <1>3, FS_Subset
  <2> QED BY <1>6, <2>1, <2>2, FS_Injection
<1>8. \A t \in kept : AfterIssue(reviews, issued + 1, review)[t] \in Reviews
  BY <1>2 DEF AfterIssue
<1> QED BY <1>1, <1>2, <1>7, <1>8

-----------------------------------------------------------------------------
(* The inductive invariant *)

\* The kinds that a command has reserved: a restart its kind, a save those whose runtime changes.
Held(c) ==
    IF cmd[c].use = "restart" THEN DOMAIN cmd[c].edits
    ELSE IF cmd[c].use = "save" /\ cmd[c].at # "drafted" THEN LifecycleKinds(cmd[c].plan)
    ELSE {}

\* What the fields of a command say at each of its places.
ShapeOf(c) ==
    /\ cmd[c].at = "idle" <=> cmd[c].use = "none"
    /\ cmd[c].at \in {"drafted", "checked", "written"} => cmd[c].use = "save"
    /\ cmd[c].at = "reserved" => cmd[c].use = "restart"
    /\ cmd[c].at \in {"draining", "applying"} => cmd[c].use \in {"restart", "save"}
    /\ cmd[c].use = "restart" => \E k \in Kinds : DOMAIN cmd[c].edits = {k}
    /\ cmd[c].use = "restart" /\ cmd[c].at \notin {"draining", "reserved"} =>
         /\ DOMAIN cmd[c].plan = DOMAIN cmd[c].edits
         /\ \A k \in DOMAIN cmd[c].plan : cmd[c].plan[k].effect \in {"restart", "stop"}
    /\ cmd[c].use = "save" =>
         /\ cmd[c].draft \in [Kinds -> Setting]
         /\ cmd[c].plan = PlanSettingsChange(cmd[c].draft, cmd[c].edits)
    /\ cmd[c].at \in {"drafted", "draining", "reserved"} =>
         DOMAIN cmd[c].ids = {} /\ DOMAIN cmd[c].seen = {}
    /\ cmd[c].at \in {"reading", "listing"} =>
         /\ cmd[c].left \subseteq LifecycleKinds(cmd[c].plan)
         /\ DOMAIN cmd[c].ids = LifecycleKinds(cmd[c].plan) \ cmd[c].left
    /\ cmd[c].at = "listing" => cmd[c].listing \in DOMAIN cmd[c].ids
    /\ cmd[c].at \in {"reading", "listing"} =>
         \A k \in DOMAIN cmd[c].ids : StopsLiveWork(cmd[c].plan[k].effect) =>
             k \in DOMAIN cmd[c].seen \/ (cmd[c].at = "listing" /\ k = cmd[c].listing)

Holds == \A c \in Commands, k \in Kinds : owner[k] = c <=> k \in Held(c)

Shape == \A c \in Commands : ShapeOf(c)

\* A slot moves while its command applies; only a running runtime has turns.
SlotOf(k) ==
    /\ slot[k] # "idle" => owner[k] \in Commands /\ cmd[owner[k]].at = "applying"
    /\ slot[k] = "stopping" => runtime[k] # 0
    /\ slot[k] = "starting" => runtime[k] = 0 /\ Target(k).enabled
    /\ condition[k] = "disabled" => runtime[k] = 0
    /\ \A s \in Sessions :
          /\ work[k][s].running => runtime[k] # 0 /\ work[k][s].episode # 0
          /\ work[k][s].episode <= events[k][s]

Slots == \A k \in Kinds : SlotOf(k)

\* What the command saw of a session: no live session is new, and a running turn is the one that
\* it saw or one that the runtime began by itself since then.
Follows(c, k, s) ==
    LET listed == cmd[c].seen[k][s] IN
    /\ Listed(work[k][s]) => Listed(listed)
    /\ listed.episode <= events[k][s]
    /\ work[k][s].running =>
         \/ listed.running /\ listed.episode = work[k][s].episode
         \/ work[k][s].own /\ listed.episode < work[k][s].episode

\* An accepted review named what the command saw of a session.
Covered(c, k, s) ==
    LET listed == cmd[c].seen[k][s] IN
    Listed(listed) =>
        /\ confirmed[k][s] # {}
        /\ listed.running => listed.episode \in confirmed[k][s]

\* What a command read of a kind stays true until its slot moves: nobody else changes the runtime,
\* and no turn begins but those of the runtime itself.
ReadOf(c, k) ==
    /\ cmd[c].at \in {"reading", "listing"} =>
         /\ k \in DOMAIN cmd[c].ids => cmd[c].ids[k] = runtime[k]
         /\ k \in DOMAIN cmd[c].seen => \A s \in Sessions : Follows(c, k, s)
    /\ cmd[c].at \in {"checked", "written", "applying"} /\ slot[k] \in {"idle", "stopping"} =>
         /\ cmd[c].granted[k] = runtime[k]
         /\ StopsLiveWork(cmd[c].plan[k].effect) =>
              /\ k \in DOMAIN cmd[c].seen
              /\ \A s \in Sessions : Follows(c, k, s) /\ Covered(c, k, s)

Reads == \A c \in Commands : \A k \in Held(c) : ReadOf(c, k)

\* The same choice: the path of a disabled kind does not matter.
SameChoice(a, b) == a.enabled = b.enabled /\ (a.enabled => a.path = b.path)

Matches(k) ==
    /\ (runtime[k] # 0) = saved[k].enabled
    /\ saved[k].enabled => launched[k] = saved[k].path

\* The saved change of k is written by its command and its slot did not move yet.
Pending(k) ==
    /\ slot[k] = "idle" /\ owner[k] \in Commands
    /\ cmd[owner[k]].use = "save" /\ cmd[owner[k]].at \in {"written", "applying"}

\* The plan of a command that will apply it is the saved choice.
PlanIsSaved(k) ==
    owner[k] \in Commands =>
        LET r == cmd[owner[k]] IN
        \/ r.use = "restart" /\ r.at \notin {"draining", "reserved"}
        \/ r.use = "save" /\ r.at \in {"written", "applying"}
        => SameChoice(saved[k], r.plan[k].setting)

SavedOf(k) ==
    /\ PlanIsSaved(k)
    /\ k \notin unapplied /\ condition[k] # "error" =>
         Matches(k) \/ slot[k] \in {"stopping", "starting"} \/ Pending(k)
    /\ k \notin unapplied /\ Pending(k) /\ cmd[owner[k]].plan[k].effect = "start" =>
         condition[k] = "error" \/ runtime[k] = 0
    /\ k \notin unapplied /\ slot[k] = "stopping" /\ condition[k] # "error" =>
         StopsLiveWork(cmd[owner[k]].plan[k].effect)

Saves == \A k \in Kinds : SavedOf(k)

\* The commands that may still issue a confirmation: each issues at most one.
Unissued ==
    {c \in Commands : cmd[c].at \in {"drafted", "draining", "reserved", "reading", "listing"}}

TypeInv == TypeOK /\ IsFiniteSet(Unissued) /\ issued + Cardinality(Unissued) <= calls

-----------------------------------------------------------------------------
(* What the invariants say of a record *)

LEMMA RestartKind ==
    ASSUME Shape, NEW c \in Commands, cmd[c].use = "restart"
    PROVE Kind(c) \in Kinds /\ DOMAIN cmd[c].edits = {Kind(c)}
BY DEF Shape, ShapeOf, Kind

LEMMA HeldType ==
    ASSUME TypeInv, Shape, NEW c \in Commands
    PROVE /\ Held(c) \in SUBSET Kinds
          /\ cmd[c].at = "applying" => Held(c) = LifecycleKinds(cmd[c].plan)
          /\ cmd[c].at \in {"reading", "listing"} /\ ~IsPreview(c) =>
               Held(c) = LifecycleKinds(cmd[c].plan)
<1>1. cmd[c] \in CommandRecords
  BY DEF TypeInv, TypeOK
<1>2. cmd[c].plan \in Plans /\ cmd[c].edits \in Partial(Setting) /\ cmd[c].use \in Uses
  BY <1>1 DEF CommandRecords
<1>3. LifecycleKinds(cmd[c].plan) \in SUBSET Kinds /\ DOMAIN cmd[c].edits \in SUBSET Kinds
  BY <1>2, LifecycleType, PartialElim
<1>4. ASSUME cmd[c].use = "restart", cmd[c].at \notin {"draining", "reserved"}
      PROVE LifecycleKinds(cmd[c].plan) = DOMAIN cmd[c].edits
  BY <1>4 DEF Shape, ShapeOf, LifecycleKinds
<1> QED BY <1>2, <1>3, <1>4 DEF Held, Shape, ShapeOf, IsPreview, Uses

LEMMA TargetType ==
    ASSUME TypeInv, Shape, Holds, NEW k \in Kinds, owner[k] \in Commands,
           cmd[owner[k]].at = "applying"
    PROVE /\ k \in DOMAIN cmd[owner[k]].plan /\ k \in LifecycleKinds(cmd[owner[k]].plan)
          /\ k \in Held(owner[k])
          /\ Target(k) \in Setting
<1>1. k \in Held(owner[k]) /\ Held(owner[k]) = LifecycleKinds(cmd[owner[k]].plan)
  BY HeldType DEF Holds
<1>2. cmd[owner[k]].plan \in Plans
  BY DEF TypeInv, TypeOK, CommandRecords
<1> QED BY <1>1, <1>2, LifecycleType DEF Target

-----------------------------------------------------------------------------
(* Type correctness *)

LEMMA TypeInit == Init => TypeInv
<1> SUFFICES ASSUME Init PROVE TypeInv
    OBVIOUS
<1> USE ReviewAssumption DEF ReviewAssumption
<1>1. saved \in [Kinds -> Setting]
  BY SettingsAssumption DEF Init, SettingsAssumption
<1>2. cmd \in [Commands -> CommandRecords]
  BY FinishedType DEF Init
<1>3. Unissued = {}
  BY DEF Init, Unissued, NoCommand
<1>4. IsFiniteSet(Unissued) /\ Cardinality(Unissued) = 0
  BY <1>3, FS_EmptySet
<1>5. DOMAIN reviews = {} /\ Cardinality(DOMAIN reviews) = 0
  BY FS_EmptySet, NothingType DEF Init
<1>6. NoWork \in Work
  BY DEF NoWork, Work
<1>7. launched \in [Kinds -> Paths]
  BY <1>1 DEF Init, Setting
<1> QED BY <1>1, <1>2, <1>4, <1>5, <1>6, <1>7 DEF Init, TypeInv, TypeOK

\* How the number of commands that may still issue a confirmation changes.
LEMMA UnissuedStays ==
    ASSUME TypeInv, UNCHANGED <<issued, calls>>,
           NEW c \in Commands, \A d \in Commands \ {c} : cmd'[d] = cmd[d],
           c \in Unissued' => c \in Unissued
    PROVE IsFiniteSet(Unissued)' /\ (issued + Cardinality(Unissued) <= calls)'
<1>1. Unissued' \in SUBSET Unissued
  BY DEF Unissued
<1>2. IsFiniteSet(Unissued') /\ Cardinality(Unissued') <= Cardinality(Unissued)
  BY <1>1, FS_Subset DEF TypeInv
<1>3. Cardinality(Unissued') \in Nat /\ Cardinality(Unissued) \in Nat
  BY <1>2, FS_CardinalityType DEF TypeInv
<1> QED BY <1>2, <1>3, ReviewAssumption DEF TypeInv, TypeOK, ReviewAssumption

LEMMA UnissuedGrows ==
    ASSUME TypeInv, issued' = issued, calls' = calls + 1,
           NEW c \in Commands, \A d \in Commands \ {c} : cmd'[d] = cmd[d]
    PROVE IsFiniteSet(Unissued)' /\ (issued + Cardinality(Unissued) <= calls)'
<1>1. Unissued' \in SUBSET (Unissued \cup {c})
  BY DEF Unissued
<1>2. /\ IsFiniteSet(Unissued \cup {c})
      /\ Cardinality(Unissued \cup {c}) <= Cardinality(Unissued) + 1
      /\ Cardinality(Unissued) \in Nat
  <2>1. IsFiniteSet(Unissued) /\ Cardinality(Unissued) \in Nat
    BY FS_CardinalityType DEF TypeInv
  <2>2. /\ IsFiniteSet(Unissued \cup {c})
        /\ Cardinality(Unissued \cup {c})
             = IF c \in Unissued THEN Cardinality(Unissued) ELSE Cardinality(Unissued) + 1
    BY <2>1, FS_AddElement
  <2> QED BY <2>1, <2>2
<1>3. IsFiniteSet(Unissued') /\ Cardinality(Unissued') <= Cardinality(Unissued \cup {c})
  BY <1>1, <1>2, FS_Subset
<1>4. Cardinality(Unissued') \in Nat /\ Cardinality(Unissued \cup {c}) \in Nat
  BY <1>2, <1>3, FS_CardinalityType
<1> QED BY <1>2, <1>3, <1>4, ReviewAssumption DEF TypeInv, TypeOK, ReviewAssumption

LEMMA UnissuedShrinks ==
    ASSUME TypeInv, issued' = issued + 1, calls' = calls,
           NEW c \in Unissued, \A d \in Commands \ {c} : cmd'[d] = cmd[d], c \notin Unissued'
    PROVE /\ IsFiniteSet(Unissued)' /\ (issued + Cardinality(Unissued) <= calls)'
          /\ issued + 1 \in 0 .. MaxCalls
<1>1. Unissued' = Unissued \ {c}
  BY DEF Unissued
<1>2. /\ IsFiniteSet(Unissued \ {c})
      /\ Cardinality(Unissued \ {c}) = Cardinality(Unissued) - 1
      /\ Cardinality(Unissued) \in Nat
  BY FS_RemoveElement, FS_CardinalityType DEF TypeInv
<1>3. Cardinality(Unissued \ {c}) \in Nat
  BY <1>2, FS_CardinalityType
<1> QED BY <1>1, <1>2, <1>3, ReviewAssumption DEF TypeInv, TypeOK, ReviewAssumption

LEMMA TurnType ==
    ASSUME NEW w \in Work
    PROVE [w EXCEPT !.running = FALSE, !.pending = 0, !.own = FALSE] \in Work
<1>1. ASSUME NEW v \in Work PROVE [v EXCEPT !.running = FALSE] \in Work
  BY DEF Work
<1>2. ASSUME NEW v \in Work PROVE [v EXCEPT !.pending = 0] \in Work
  BY ReviewAssumption DEF ReviewAssumption, Work
<1>3. ASSUME NEW v \in Work PROVE [v EXCEPT !.own = FALSE] \in Work
  BY DEF Work
<1> QED BY <1>1, <1>2, <1>3

\* The steps of a live session.
TurnStep(k, s) == StartTurn(k, s) \/ OwnTurn(k, s) \/ AskInput(k, s) \/ EndTurn(k, s)

\* How such a step replaces the work of its session: a turn begins, a request comes, or the turn
\* or the session ends.
TurnTo(k, s, w) ==
    /\ work' = [work EXCEPT ![k] = [work[k] EXCEPT ![s] = w]]
    /\ \/ /\ w.running /\ w.episode = events[k][s] + 1
          /\ events' = [events EXCEPT ![k] = [events[k] EXCEPT ![s] = @ + 1]]
          /\ TurnMayStart(k) \/ (runtime[k] # 0 /\ w.own /\ Listed(work[k][s]))
       \/ /\ w.running = work[k][s].running /\ w.episode = work[k][s].episode
          /\ w.own = work[k][s].own
          /\ events' = [events EXCEPT ![k] = [events[k] EXCEPT ![s] = @ + 1]]
       \/ /\ w.running = FALSE /\ (w.episode = 0 \/ w.episode = work[k][s].episode)
          /\ events' = events

LEMMA TurnReplaces ==
    ASSUME TypeInv, NEW k \in Kinds, NEW s \in Sessions, TurnStep(k, s)
    PROVE /\ \E w \in Work : TurnTo(k, s, w)
          /\ events'[k][s] \in 0 .. MaxEvents
          /\ UNCHANGED <<settingVars, runtimeVars, owner, slot, reviewVars, confirmed, calls, cmd>>
<1> DEFINE TurnDone ==
        /\ \E w \in Work : TurnTo(k, s, w)
        /\ events'[k][s] \in 0 .. MaxEvents
        /\ UNCHANGED <<settingVars, runtimeVars, owner, slot, reviewVars, confirmed, calls, cmd>>
<1>1. /\ work \in [Kinds -> [Sessions -> Work]] /\ EventBound[k] \in 0 .. MaxEvents
      /\ events \in [Kinds -> [Sessions -> 0 .. MaxEvents]] /\ MaxEvents \in Nat
  BY ReviewAssumption DEF TypeInv, TypeOK, ReviewAssumption
<1>2. work[k][s] \in Work /\ events[k][s] \in 0 .. MaxEvents
  BY <1>1
<1>3. ASSUME NEW own \in BOOLEAN, BeginTurn(k, s, own),
             TurnMayStart(k) \/ (runtime[k] # 0 /\ own /\ Listed(work[k][s]))
      PROVE TurnDone
  <2> DEFINE w == [running |-> TRUE, episode |-> events[k][s] + 1, pending |-> 0, own |-> own]
  <2>1. events[k][s] + 1 \in 0 .. MaxEvents
    BY <1>1, <1>2, <1>3 DEF BeginTurn
  <2>2. w \in Work /\ w.running = TRUE /\ w.episode = events[k][s] + 1 /\ w.own = own
    BY <1>1, <2>1 DEF Work
  <2>3. /\ work' = [work EXCEPT ![k] = [work[k] EXCEPT ![s] = w]]
        /\ events' = [events EXCEPT ![k] = [events[k] EXCEPT ![s] = @ + 1]]
    BY <1>3 DEF BeginTurn
  <2>4. events'[k][s] = events[k][s] + 1
    BY <1>1, <2>3
  <2> HIDE DEF w
  <2> QED BY <1>3, <2>1, <2>2, <2>3, <2>4 DEF BeginTurn, TurnTo
<1>4. CASE StartTurn(k, s) \/ OwnTurn(k, s)
  BY <1>3, <1>4 DEF StartTurn, OwnTurn
<1>5. CASE AskInput(k, s)
  <2> DEFINE w == [work[k][s] EXCEPT !.pending = events'[k][s]]
  <2>1. events[k][s] + 1 \in 0 .. MaxEvents
    BY <1>1, <1>2, <1>5 DEF AskInput
  <2>2. /\ events' = [events EXCEPT ![k] = [events[k] EXCEPT ![s] = @ + 1]]
        /\ work' = [work EXCEPT ![k] = [work[k] EXCEPT ![s] = w]]
    BY <1>5 DEF AskInput
  <2>3. events'[k][s] = events[k][s] + 1
    BY <1>1, <2>2
  <2>4. events'[k][s] \in 0 .. MaxEvents
    BY <2>1, <2>3
  <2>5. /\ w \in Work /\ w.running = work[k][s].running /\ w.episode = work[k][s].episode
        /\ w.own = work[k][s].own
    <3>1. ASSUME NEW v \in Work, NEW p \in 0 .. MaxEvents
          PROVE LET u == [v EXCEPT !.pending = p] IN
                /\ u \in Work /\ u.running = v.running /\ u.episode = v.episode
                /\ u.own = v.own
      BY DEF Work
    <3> QED BY <1>2, <2>4, <3>1
  <2> HIDE DEF w
  <2> QED BY <1>5, <2>2, <2>4, <2>5 DEF AskInput, TurnTo
<1>6. CASE EndTurn(k, s)
  <2> DEFINE ended == [work[k][s] EXCEPT !.running = FALSE, !.pending = 0, !.own = FALSE]
  <2>1. /\ ended \in Work /\ ended.running = FALSE /\ ended.episode = work[k][s].episode
        /\ NoWork \in Work /\ NoWork.running = FALSE /\ NoWork.episode = 0
    BY <1>1, <1>2, TurnType DEF Work, NoWork
  <2>2. CASE work' = [work EXCEPT ![k][s].running = FALSE, ![k][s].pending = 0,
                                  ![k][s].own = FALSE]
    <3>1. work' = [work EXCEPT ![k] = [work[k] EXCEPT ![s] = ended]]
      BY <1>1, <2>2
    <3> HIDE DEF ended
    <3> QED BY <1>2, <1>6, <2>1, <3>1 DEF EndTurn, TurnTo
  <2>3. CASE work' = [work EXCEPT ![k][s] = NoWork]
    <3>1. work' = [work EXCEPT ![k] = [work[k] EXCEPT ![s] = NoWork]]
      BY <2>3
    <3> QED BY <1>2, <1>6, <2>1, <3>1 DEF EndTurn, TurnTo
  <2> QED BY <1>6, <2>2, <2>3 DEF EndTurn
<1> QED BY <1>4, <1>5, <1>6 DEF TurnStep

\* The live sessions.
LEMMA TypeLive ==
    ASSUME TypeInv, NEW k \in Kinds, NEW s \in Sessions, TurnStep(k, s)
    PROVE TypeInv'
<1>1. /\ work \in [Kinds -> [Sessions -> Work]]
      /\ events \in [Kinds -> [Sessions -> 0 .. MaxEvents]]
  BY DEF TypeInv, TypeOK
<1>2. PICK w \in Work : TurnTo(k, s, w)
  BY TurnReplaces
<1>3. work' \in [Kinds -> [Sessions -> Work]]
  BY <1>1, <1>2 DEF TurnTo
<1>4. events'[k][s] \in 0 .. MaxEvents
  BY TurnReplaces
<1>5. events' \in [Kinds -> [Sessions -> 0 .. MaxEvents]]
  <2>1. \/ events' = [events EXCEPT ![k] = [events[k] EXCEPT ![s] = @ + 1]]
        \/ events' = events
    BY <1>2 DEF TurnTo
  <2>2. events' = events \/ events[k][s] + 1 \in 0 .. MaxEvents
    BY <1>1, <1>4, <2>1
  <2>3. CASE events[k][s] + 1 \in 0 .. MaxEvents
    <3> DEFINE n == events[k][s] + 1
    <3>1. n \in 0 .. MaxEvents
      BY <2>3
    <3>2. \/ events' = [events EXCEPT ![k] = [events[k] EXCEPT ![s] = n]]
          \/ events' = events
      BY <2>1
    <3> HIDE DEF n
    <3> DEFINE g == [events[k] EXCEPT ![s] = n]
    <3>3. g \in [Sessions -> 0 .. MaxEvents]
      BY <1>1, <3>1
    <3>4. events' = [events EXCEPT ![k] = g] \/ events' = events
      BY <3>2
    <3> HIDE DEF g
    <3> QED BY <1>1, <3>3, <3>4
  <2> QED BY <1>1, <2>2, <2>3
<1>6. /\ UNCHANGED <<settingVars, runtimeVars, owner, slot, reviewVars, confirmed, calls, cmd>>
      /\ Unissued' = Unissued
  BY TurnReplaces DEF Unissued
<1> QED BY <1>3, <1>5, <1>6 DEF TypeInv, TypeOK, settingVars, runtimeVars, reviewVars

\* A command begins, or moves on without a slot.
LEMMA TypeRequest ==
    ASSUME TypeInv, NEW c \in Commands, Request(c)
    PROVE TypeInv'
<1> USE DEF settingVars, runtimeVars, liveVars, reviewVars
<1>1. TypeOK /\ ReviewAssumption
  BY ReviewAssumption DEF TypeInv
<1>2. ASSUME NEW use \in {"previewRestart", "previewSave"}, NEW plan \in Plans,
             Preview(c, use, plan)
      PROVE TypeInv'
  <2> DEFINE r == [NoCommand EXCEPT !.at = "reading", !.use = use, !.plan = plan,
                                    !.left = LifecycleKinds(plan)]
  <2>1. r \in CommandRecords
    BY FinishedType, LifecycleType DEF CommandRecords, Places, Uses
  <2>2. cmd' \in [Commands -> CommandRecords] /\ \A d \in Commands \ {c} : cmd'[d] = cmd[d]
    BY <1>1, <1>2, <2>1, BecomeType DEF Preview, TypeOK
  <2>3. IsFiniteSet(Unissued)' /\ (issued + Cardinality(Unissued) <= calls)'
    BY <1>2, <2>2, UnissuedGrows DEF Preview
  <2> QED BY <1>1, <1>2, <2>2, <2>3 DEF Preview, TypeInv, TypeOK, Idle, ReviewAssumption
<1>3. ASSUME NEW k \in Kinds, NEW token \in 1 .. issued, RequestRestart(c, k, token)
      PROVE TypeInv'
  <2> DEFINE r == [NoCommand EXCEPT !.at = "draining", !.use = "restart", !.token = token,
                                    !.edits = [j \in {k} |-> saved[k]]]
  <2>1. [j \in {k} |-> saved[k]] \in Partial(Setting) /\ token \in 0 .. MaxCalls
    <3>1. {k} \in SUBSET Kinds /\ [j \in {k} |-> saved[k]] \in [{k} -> Setting]
      BY <1>1 DEF TypeOK
    <3>2. token \in 0 .. MaxCalls
      BY <1>1 DEF TypeOK, ReviewAssumption
    <3> QED BY <3>1, <3>2, PartialIntro
  <2>2. r \in CommandRecords
    BY <2>1, FinishedType DEF CommandRecords, Places, Uses
  <2>3. cmd' \in [Commands -> CommandRecords] /\ \A d \in Commands \ {c} : cmd'[d] = cmd[d]
    BY <1>1, <1>3, <2>2, BecomeType DEF RequestRestart, TypeOK
  <2>4. IsFiniteSet(Unissued)' /\ (issued + Cardinality(Unissued) <= calls)'
    BY <1>3, <2>3, UnissuedGrows DEF RequestRestart
  <2> QED BY <1>1, <1>3, <2>3, <2>4
            DEF RequestRestart, Reserve, TypeInv, TypeOK, Idle, ReviewAssumption
<1>4. ASSUME NEW edits \in EditSets, NEW token \in 0 .. issued, RequestSave(c, edits, token)
      PROVE TypeInv'
  <2> DEFINE r == [NoCommand EXCEPT !.at = "drafted", !.use = "save", !.token = token,
                                    !.edits = edits, !.draft = saved,
                                    !.plan = PlanSettingsChange(saved, edits)]
  <2>1. /\ edits \in Partial(Setting) /\ saved \in Partial(Setting) /\ token \in 0 .. MaxCalls
        /\ PlanSettingsChange(saved, edits) \in Plans
    <3>1. Kinds \in SUBSET Kinds /\ saved \in [Kinds -> Setting]
      BY <1>1 DEF TypeOK
    <3>2. edits \in Partial(Setting)
      BY SettingsAssumption DEF SettingsAssumption
    <3>3. token \in 0 .. MaxCalls
      BY <1>1 DEF TypeOK, ReviewAssumption
    <3> QED BY <3>1, <3>2, <3>3, PartialIntro, PlanSettingsType
  <2>2. r \in CommandRecords
    BY <2>1, FinishedType DEF CommandRecords, Places, Uses
  <2>3. cmd' \in [Commands -> CommandRecords] /\ \A d \in Commands \ {c} : cmd'[d] = cmd[d]
    BY <1>1, <1>4, <2>2, BecomeType DEF RequestSave, TypeOK
  <2>4. IsFiniteSet(Unissued)' /\ (issued + Cardinality(Unissued) <= calls)'
    BY <1>4, <2>3, UnissuedGrows DEF RequestSave
  <2> QED BY <1>1, <1>4, <2>3, <2>4 DEF RequestSave, TypeInv, TypeOK, Idle, ReviewAssumption
<1>5. \A k \in Kinds : PlanRestart(k, saved[k]) \in Plans
  BY <1>1, PlanRestartType DEF TypeOK
<1>6. \A edits \in EditSets : PlanSettingsChange(saved, edits) \in Plans
  BY <1>1, PlanSettingsType, SettingsAssumption DEF TypeOK, SettingsAssumption
<1> QED BY <1>2, <1>3, <1>4, <1>5, <1>6 DEF Request

LEMMA TypeReserve ==
    ASSUME TypeInv, Shape, NEW c \in Commands,
           ReserveSave(c) \/ Drained(c) \/ ReadSaved(c) \/ CommandFails(c)
    PROVE TypeInv'
<1> USE DEF settingVars, runtimeVars, liveVars, reviewVars
<1>1. TypeOK /\ ReviewAssumption /\ cmd[c] \in CommandRecords
  BY ReviewAssumption DEF TypeInv, TypeOK
<1>2. CASE ReserveSave(c)
  <2>1. [cmd[c] EXCEPT !.at = "draining"] \in CommandRecords
    BY <1>1 DEF CommandRecords, Places
  <2>2. cmd' \in [Commands -> CommandRecords] /\ \A d \in Commands \ {c} : cmd'[d] = cmd[d]
    BY <1>1, <1>2, <2>1, BecomeType, FinishedType DEF ReserveSave, TypeOK
  <2>3. owner' \in [Kinds -> Commands \cup {"none"}]
    BY <1>1, <1>2 DEF ReserveSave, Reserve, TypeOK
  <2>4. c \in Unissued
    BY <1>2 DEF ReserveSave, Unissued
  <2>5. IsFiniteSet(Unissued)' /\ (issued + Cardinality(Unissued) <= calls)'
    BY <1>2, <2>2, <2>4, UnissuedStays DEF ReserveSave
  <2> QED BY <1>1, <1>2, <2>2, <2>3, <2>5 DEF ReserveSave, TypeInv, TypeOK
<1>3. CASE Drained(c)
  <2> DEFINE lifecycle == LifecycleKinds(cmd[c].plan)
  <2>1. /\ [cmd[c] EXCEPT !.at = "reserved"] \in CommandRecords
        /\ [cmd[c] EXCEPT !.at = "checked"] \in CommandRecords
        /\ [cmd[c] EXCEPT !.at = "reading", !.left = lifecycle] \in CommandRecords
    <3>1. cmd[c].plan \in Plans
      BY <1>1 DEF CommandRecords
    <3>2. lifecycle \in SUBSET Kinds
      BY <3>1, LifecycleType
    <3> HIDE DEF lifecycle
    <3> QED BY <1>1, <3>2 DEF CommandRecords, Places
  <2>2. cmd' \in [Commands -> CommandRecords] /\ \A d \in Commands \ {c} : cmd'[d] = cmd[d]
    BY <1>1, <1>3, <2>1, BecomeType DEF Drained, TypeOK
  <2>3. c \in Unissued
    BY <1>3 DEF Drained, Unissued
  <2>4. IsFiniteSet(Unissued)' /\ (issued + Cardinality(Unissued) <= calls)'
    BY <1>3, <2>2, <2>3, UnissuedStays DEF Drained
  <2> QED BY <1>1, <1>3, <2>2, <2>4 DEF Drained, TypeInv, TypeOK
<1>4. CASE ReadSaved(c)
  <2> DEFINE plan == PlanRestart(Kind(c), saved[Kind(c)])
  <2>1. plan \in Plans /\ DOMAIN plan \in SUBSET Kinds
    <3>1. Kind(c) \in Kinds
      BY <1>4, RestartKind DEF ReadSaved, Shape, ShapeOf
    <3>2. saved[Kind(c)] \in Setting
      BY <1>1, <3>1 DEF TypeOK
    <3>3. plan \in Plans /\ DOMAIN plan = {Kind(c)}
      BY <3>1, <3>2, PlanRestartType
    <3> QED BY <3>1, <3>3
  <2>2. [cmd[c] EXCEPT !.at = "reading", !.plan = plan, !.left = DOMAIN plan] \in CommandRecords
    <3> HIDE DEF plan
    <3> QED BY <1>1, <2>1 DEF CommandRecords, Places
  <2>3. cmd' \in [Commands -> CommandRecords] /\ \A d \in Commands \ {c} : cmd'[d] = cmd[d]
    BY <1>1, <1>4, <2>2, BecomeType DEF ReadSaved, TypeOK
  <2>4. c \in Unissued
    BY <1>4 DEF ReadSaved, Unissued
  <2>5. IsFiniteSet(Unissued)' /\ (issued + Cardinality(Unissued) <= calls)'
    BY <1>4, <2>3, <2>4, UnissuedStays DEF ReadSaved
  <2> QED BY <1>1, <1>4, <2>3, <2>5 DEF ReadSaved, TypeInv, TypeOK
<1>5. CASE CommandFails(c)
  <2>1. /\ cmd' \in [Commands -> CommandRecords] /\ \A d \in Commands \ {c} : cmd'[d] = cmd[d]
        /\ cmd'[c] = NoCommand
        /\ owner' \in [Kinds -> Commands \cup {"none"}]
        /\ slot' \in [Kinds -> {"idle", "stopping", "starting", "done"}]
    BY <1>1, <1>5, FinishType DEF CommandFails, TypeOK
  <2>2. c \notin Unissued'
    BY <2>1 DEF Unissued, NoCommand
  <2>3. IsFiniteSet(Unissued)' /\ (issued + Cardinality(Unissued) <= calls)'
    BY <1>5, <2>1, <2>2, UnissuedStays DEF CommandFails
  <2> QED BY <1>1, <1>5, <2>1, <2>3 DEF CommandFails, TypeInv, TypeOK
<1> QED BY <1>2, <1>3, <1>4, <1>5

\* readImpact and its decision.
LEMMA TypeImpact ==
    ASSUME TypeInv, Shape, NEW c \in Commands,
           (\E k \in Kinds : ReadStatus(c, k)) \/ ListSessions(c) \/ PreviewDone(c) \/ Check(c)
    PROVE TypeInv'
<1> USE DEF settingVars, runtimeVars, liveVars, reviewVars
<1>1. TypeOK /\ ReviewAssumption /\ cmd[c] \in CommandRecords
  BY ReviewAssumption DEF TypeInv, TypeOK
<1>2. /\ cmd[c].ids \in Ids /\ cmd[c].seen \in Seen /\ cmd[c].plan \in Plans
      /\ cmd[c].left \in SUBSET Kinds
  BY <1>1 DEF CommandRecords
<1>3. ASSUME NEW k \in Kinds, ReadStatus(c, k) PROVE TypeInv'
  <2> DEFINE ids == Extend(cmd[c].ids, k, runtime[k])
             at == IF StopsLiveWork(cmd[c].plan[k].effect) THEN "listing" ELSE cmd[c].at
             listing == IF StopsLiveWork(cmd[c].plan[k].effect) THEN k ELSE cmd[c].listing
             left == cmd[c].left \ {k}
             r == [cmd[c] EXCEPT !.left = left, !.ids = ids, !.at = at, !.listing = listing]
  <2>1. ids \in Ids /\ runtime[k] \in 0 .. MaxStarts
    BY <1>1, <1>2, ExtendType DEF Ids, TypeOK
  <2>2. at \in Places /\ listing \in Kinds \cup {"none"} /\ left \in SUBSET Kinds
    BY <1>1, <1>2 DEF CommandRecords, Places
  <2>3. r \in CommandRecords
    <3> HIDE DEF ids, at, listing, left
    <3> QED BY <1>1, <2>1, <2>2 DEF CommandRecords
  <2>4. cmd' = [cmd EXCEPT ![c] = r]
    BY <1>3 DEF ReadStatus, Become
  <2> HIDE DEF r
  <2>5. cmd' \in [Commands -> CommandRecords] /\ \A d \in Commands \ {c} : cmd'[d] = cmd[d]
    BY <1>1, <2>3, <2>4 DEF TypeOK
  <2>6. c \in Unissued
    BY <1>3 DEF ReadStatus, Unissued
  <2>7. IsFiniteSet(Unissued)' /\ (issued + Cardinality(Unissued) <= calls)'
    BY <1>3, <2>5, <2>6, UnissuedStays DEF ReadStatus
  <2> QED BY <1>1, <1>3, <2>5, <2>7 DEF ReadStatus, TypeInv, TypeOK
<1>4. CASE ListSessions(c)
  <2> DEFINE seen == Extend(cmd[c].seen, cmd[c].listing, work[cmd[c].listing])
             r == [cmd[c] EXCEPT !.at = "reading", !.listing = "none", !.seen = seen]
  <2>1. cmd[c].listing \in Kinds
    BY <1>2, <1>4, PartialElim DEF ListSessions, Shape, ShapeOf, Ids
  <2>2. seen \in Seen
    BY <1>1, <1>2, <2>1, ExtendType DEF Seen, TypeOK
  <2>3. r \in CommandRecords
    <3> HIDE DEF seen
    <3> QED BY <1>1, <2>2 DEF CommandRecords, Places
  <2>4. cmd' \in [Commands -> CommandRecords] /\ \A d \in Commands \ {c} : cmd'[d] = cmd[d]
    BY <1>1, <1>4, <2>3, BecomeType DEF ListSessions, TypeOK
  <2>5. c \in Unissued
    BY <1>4 DEF ListSessions, Unissued
  <2>6. IsFiniteSet(Unissued)' /\ (issued + Cardinality(Unissued) <= calls)'
    BY <1>4, <2>4, <2>5, UnissuedStays DEF ListSessions
  <2> QED BY <1>1, <1>4, <2>4, <2>6 DEF ListSessions, TypeInv, TypeOK
<1>5. Impact(c) \in Reviews
  BY <1>2, PartialElim, NothingType DEF Impact, ActionKey, Reviews, ActionKeys, Plans
<1>6. c \in Commands /\ issued \in Nat
  BY <1>1 DEF TypeOK
<1>7. CASE PreviewDone(c)
  <2>1. cmd' \in [Commands -> CommandRecords] /\ cmd'[c] = NoCommand
        /\ \A d \in Commands \ {c} : cmd'[d] = cmd[d]
    BY <1>1, <1>7, BecomeType, FinishedType DEF PreviewDone, TypeOK
  <2>2. c \in Unissued /\ c \notin Unissued'
    BY <1>7, <2>1 DEF PreviewDone, ReadDone, Unissued, NoCommand
  <2>3. /\ IsFiniteSet(Unissued)' /\ (issued + Cardinality(Unissued) <= calls)'
        /\ issued' \in 0 .. MaxCalls
    BY <1>7, <2>1, <2>2, UnissuedShrinks DEF PreviewDone
  <2>4. /\ \A t \in DOMAIN reviews' : t \in 1 .. issued' /\ reviews'[t] \in Reviews
        /\ Cardinality(DOMAIN reviews') <= MaxReviews
    BY <1>1, <1>5, <1>6, <1>7, IssueType DEF PreviewDone, TypeOK
  <2> QED BY <1>1, <1>7, <2>1, <2>3, <2>4 DEF PreviewDone, TypeInv, TypeOK
<1>8. CASE Check(c)
  <2> DEFINE impact == Impact(c)
             store == AfterIssue(reviews, issued + 1, impact)
             token == cmd[c].token
             needed == cmd[c].use = "restart" \/ HasSessions(c)
             accepted == token \in DOMAIN store /\ Accepts(store[token], impact)
             granted == IF needed THEN store[token].ids ELSE cmd[c].ids
             place == IF cmd[c].use = "save" THEN "checked" ELSE "applying"
             r == [cmd[c] EXCEPT !.at = place, !.granted = granted]
  <2>1. /\ \A t \in DOMAIN store : t \in 1 .. issued + 1 /\ store[t] \in Reviews
        /\ Cardinality(DOMAIN store) <= MaxReviews /\ IsFiniteSet(DOMAIN store)
    BY <1>1, <1>5, <1>6, IssueType DEF TypeOK
  <2> HIDE DEF store, impact
  <2>2. reviews' = IF needed THEN AfterAccept(store, token) ELSE store
    BY <1>8 DEF Check, store, impact
  <2>3. /\ \A t \in DOMAIN reviews' : t \in 1 .. issued + 1 /\ reviews'[t] \in Reviews
        /\ Cardinality(DOMAIN reviews') <= MaxReviews
    <3>1. DOMAIN AfterAccept(store, token) = DOMAIN store \ {token}
      BY DEF AfterAccept
    <3>2. DOMAIN store \ {token} \in SUBSET DOMAIN store
      OBVIOUS
    <3>3. Cardinality(DOMAIN store \ {token}) <= MaxReviews
      BY <1>1, <2>1, <3>2, FS_Subset, FS_CardinalityType DEF ReviewAssumption
    <3>4. \A t \in DOMAIN store \ {token} : AfterAccept(store, token)[t] = store[t]
      BY DEF AfterAccept
    <3> QED BY <2>1, <2>2, <3>1, <3>3, <3>4
  <2>4. confirmed' \in [Kinds -> [Sessions -> SUBSET (1 .. MaxEvents)]]
    <3>1. ASSUME NEW k \in Kinds, NEW s \in Sessions, token \in DOMAIN store,
                 k \in DOMAIN store[token].seen
          PROVE {store[token].seen[k][s].episode} \ {0} \in SUBSET (1 .. MaxEvents)
      <4>1. store[token].seen \in Seen
        BY <2>1, <3>1 DEF Reviews
      <4>2. store[token].seen[k][s] \in Work
        BY <3>1, <4>1, PartialElim DEF Seen
      <4>3. store[token].seen[k][s].episode \in 0 .. MaxEvents
        BY <4>2 DEF Work
      <4> QED BY <1>1, <4>3 DEF ReviewAssumption
    <3>2. confirmed' = [k \in Kinds |-> [s \in Sessions |->
             IF needed /\ accepted /\ k \in DOMAIN store[token].seen
             THEN confirmed[k][s] \cup ({store[token].seen[k][s].episode} \ {0})
             ELSE confirmed[k][s]]]
      BY <1>8 DEF Check, store, impact
    <3>3. \A k \in Kinds, s \in Sessions : confirmed[k][s] \in SUBSET (1 .. MaxEvents)
      BY <1>1 DEF TypeOK
    <3> HIDE DEF needed, token
    <3> QED BY <3>1, <3>2, <3>3
  <2>5. (needed => accepted) => r \in CommandRecords
    <3>1. (needed => accepted) => granted \in Ids
      BY <1>2, <2>1 DEF Reviews
    <3> HIDE DEF needed, token, accepted, granted
    <3>2. place \in Places
      BY DEF Places
    <3> HIDE DEF place
    <3> QED BY <1>1, <3>1, <3>2 DEF CommandRecords
  <2>6. IF needed => accepted THEN Become(c, r) /\ UNCHANGED <<owner, slot>> ELSE Finish(c)
    BY <1>8 DEF Check, store, impact
  <2> HIDE DEF needed, token, accepted, granted
  <2>7. /\ cmd' \in [Commands -> CommandRecords] /\ \A d \in Commands \ {c} : cmd'[d] = cmd[d]
        /\ cmd'[c] \in {r, NoCommand}
        /\ owner' \in [Kinds -> Commands \cup {"none"}]
        /\ slot' \in [Kinds -> {"idle", "stopping", "starting", "done"}]
    BY <1>1, <2>5, <2>6, BecomeType, FinishType DEF TypeOK
  <2>8. c \in Unissued /\ c \notin Unissued'
    <3>1. r.at # "idle" => r.at \in {"checked", "applying"}
      BY <1>1 DEF CommandRecords
    <3>2. NoCommand.at = "idle"
      BY DEF NoCommand
    <3> QED BY <1>8, <2>7, <3>1, <3>2 DEF Check, ReadDone, Unissued
  <2>9. /\ IsFiniteSet(Unissued)' /\ (issued + Cardinality(Unissued) <= calls)'
        /\ issued' = issued + 1 /\ issued' \in 0 .. MaxCalls
    BY <1>8, <2>7, <2>8, UnissuedShrinks DEF Check
  <2> QED BY <1>1, <1>8, <2>3, <2>4, <2>7, <2>9 DEF Check, TypeInv, TypeOK
<1> QED BY <1>3, <1>4, <1>7, <1>8

\* The settings write.
LEMMA TypeWrite ==
    ASSUME TypeInv, Shape, NEW c \in Commands, Write(c) \/ CatalogUnreadable(c) \/ Configure(c)
    PROVE TypeInv'
<1> USE DEF settingVars, runtimeVars, liveVars, reviewVars
<1>1. TypeOK /\ cmd[c] \in CommandRecords
  BY DEF TypeInv, TypeOK
<1>2. cmd[c].plan \in Plans /\ cmd[c].edits \in Partial(Setting)
  BY <1>1 DEF CommandRecords
<1>3. CASE Write(c)
  <2>1. [cmd[c] EXCEPT !.at = "written"] \in CommandRecords
    BY <1>1 DEF CommandRecords, Places
  <2>2. /\ cmd' \in [Commands -> CommandRecords] /\ \A d \in Commands \ {c} : cmd'[d] = cmd[d]
        /\ cmd'[c] \in {[cmd[c] EXCEPT !.at = "written"], NoCommand}
        /\ owner' \in [Kinds -> Commands \cup {"none"}]
        /\ slot' \in [Kinds -> {"idle", "stopping", "starting", "done"}]
    BY <1>1, <1>3, <2>1, BecomeType, FinishType DEF Write, TypeOK
  <2>3. saved' \in [Kinds -> Setting]
    <3>1. \A k \in DOMAIN cmd[c].edits : cmd[c].edits[k] \in Setting
      BY <1>2, PartialElim
    <3>2. saved' = saved \/ saved' = [k \in Kinds |->
             IF k \in DOMAIN cmd[c].edits THEN cmd[c].edits[k] ELSE saved[k]]
      BY <1>3 DEF Write
    <3> QED BY <1>1, <3>1, <3>2 DEF TypeOK
  <2>4. c \notin Unissued'
    BY <1>1, <2>2 DEF Unissued, NoCommand, CommandRecords
  <2>5. IsFiniteSet(Unissued)' /\ (issued + Cardinality(Unissued) <= calls)'
    BY <1>3, <2>2, <2>4, UnissuedStays DEF Write
  <2> QED BY <1>1, <1>3, <2>2, <2>3, <2>5 DEF Write, TypeInv, TypeOK
<1>4. CASE CatalogUnreadable(c)
  <2>1. /\ cmd' \in [Commands -> CommandRecords] /\ \A d \in Commands \ {c} : cmd'[d] = cmd[d]
        /\ cmd'[c] = NoCommand
        /\ owner' \in [Kinds -> Commands \cup {"none"}]
        /\ slot' \in [Kinds -> {"idle", "stopping", "starting", "done"}]
    BY <1>1, <1>4, FinishType DEF CatalogUnreadable, TypeOK
  <2>2. unapplied' \in SUBSET Kinds
    BY <1>1, <1>2, <1>4, PartialElim DEF CatalogUnreadable, TypeOK, Plans
  <2>3. c \notin Unissued'
    BY <2>1 DEF Unissued, NoCommand
  <2>4. IsFiniteSet(Unissued)' /\ (issued + Cardinality(Unissued) <= calls)'
    BY <1>4, <2>1, <2>3, UnissuedStays DEF CatalogUnreadable
  <2> QED BY <1>1, <1>4, <2>1, <2>2, <2>4 DEF CatalogUnreadable, TypeInv, TypeOK
<1>5. CASE Configure(c)
  <2>1. [cmd[c] EXCEPT !.at = "applying"] \in CommandRecords
    BY <1>1 DEF CommandRecords, Places
  <2>2. /\ cmd' \in [Commands -> CommandRecords] /\ \A d \in Commands \ {c} : cmd'[d] = cmd[d]
        /\ cmd'[c] = [cmd[c] EXCEPT !.at = "applying"]
    BY <1>1, <1>5, <2>1, BecomeType DEF Configure, TypeOK
  <2>3. shown' \in [Kinds -> Setting]
    BY <1>1, <1>2, <1>5, LifecycleType DEF Configure, TypeOK
  <2>4. c \notin Unissued'
    BY <1>1, <2>2 DEF Unissued, CommandRecords
  <2>5. IsFiniteSet(Unissued)' /\ (issued + Cardinality(Unissued) <= calls)'
    BY <1>5, <2>2, <2>4, UnissuedStays DEF Configure
  <2> QED BY <1>1, <1>5, <2>2, <2>3, <2>5 DEF Configure, TypeInv, TypeOK
<1> QED BY <1>3, <1>4, <1>5

\* A command applies its plan.
LEMMA TypeApply ==
    ASSUME TypeInv, Shape, Holds, NEW c \in Commands,
           (\E k \in Kinds : BeginApply(c, k)) \/ Applied(c)
    PROVE TypeInv'
<1> USE DEF settingVars, runtimeVars, liveVars, reviewVars
<1>1. TypeOK
  BY DEF TypeInv
<1>2. ASSUME NEW k \in Kinds, BeginApply(c, k) PROVE TypeInv'
  <2>1. Target(k) \in Setting
    BY <1>2, TargetType DEF BeginApply
  <2>2. Unissued' = Unissued
    BY <1>2 DEF BeginApply, Unissued
  <2> QED BY <1>1, <1>2, <2>1, <2>2 DEF BeginApply, TypeInv, TypeOK
<1>3. CASE Applied(c)
  <2>1. /\ cmd' \in [Commands -> CommandRecords] /\ \A d \in Commands \ {c} : cmd'[d] = cmd[d]
        /\ cmd'[c] = NoCommand
        /\ owner' \in [Kinds -> Commands \cup {"none"}]
        /\ slot' \in [Kinds -> {"idle", "stopping", "starting", "done"}]
    BY <1>1, <1>3, FinishType DEF Applied, TypeOK
  <2>2. c \notin Unissued'
    BY <2>1 DEF Unissued, NoCommand
  <2>3. IsFiniteSet(Unissued)' /\ (issued + Cardinality(Unissued) <= calls)'
    BY <1>3, <2>1, <2>2, UnissuedStays DEF Applied
  <2> QED BY <1>1, <1>3, <2>1, <2>3 DEF Applied, TypeInv, TypeOK
<1> QED BY <1>2, <1>3

\* A slot moves.
LEMMA TypeSlot ==
    ASSUME TypeInv, Shape, Holds, Slots, NEW k \in Kinds,
           StopRuntime(k) \/ StartRuntime(k) \/ ApplyFails(k)
    PROVE TypeInv'
<1> USE DEF settingVars, runtimeVars, liveVars, reviewVars
<1>1. TypeOK /\ Unissued' = Unissued
  BY DEF TypeInv, Unissued, StopRuntime, StartRuntime, ApplyFails
<1>2. CASE StopRuntime(k)
  <2>1. NoWork \in Work
    BY ReviewAssumption DEF NoWork, Work, ReviewAssumption
  <2>2. work' \in [Kinds -> [Sessions -> Work]]
    BY <1>1, <1>2, <2>1 DEF StopRuntime, TypeOK
  <2>3. runtime' \in [Kinds -> 0 .. MaxStarts]
    BY <1>1, <1>2, ReviewAssumption DEF StopRuntime, TypeOK, ReviewAssumption
  <2> QED BY <1>1, <1>2, <2>2, <2>3 DEF StopRuntime, TypeInv, TypeOK
<1>3. CASE StartRuntime(k)
  <2>1. owner[k] \in Commands /\ cmd[owner[k]].at = "applying"
    BY <1>3 DEF StartRuntime, Slots, SlotOf
  <2>2. Target(k).path \in Paths
    BY <2>1, TargetType DEF Setting
  <2>3. starts[k] + 1 \in 0 .. MaxStarts
    BY <1>1, <1>3, ReviewAssumption DEF StartRuntime, TypeOK, ReviewAssumption
  <2> QED BY <1>1, <1>3, <2>2, <2>3 DEF StartRuntime, TypeInv, TypeOK
<1>4. CASE ApplyFails(k)
  BY <1>1, <1>4 DEF ApplyFails, TypeInv, TypeOK
<1> QED BY <1>2, <1>3, <1>4

LEMMA TypeStep == TypeInv /\ Shape /\ Holds /\ Slots /\ [Next]_vars => TypeInv'
<1>1. CASE UNCHANGED vars
  BY <1>1 DEF vars, settingVars, runtimeVars, liveVars, reviewVars, TypeInv, TypeOK, Unissued
<1> QED BY <1>1, TypeLive, TypeRequest, TypeReserve, TypeImpact, TypeWrite, TypeApply, TypeSlot
      DEF TurnStep, Next, CommandStep

-----------------------------------------------------------------------------
(* The records of the commands *)

LEMMA ShapeInit == Init => Shape
BY DEF Init, Shape, ShapeOf, NoCommand

\* A step that changes one record only needs that record.
LEMMA ShapeFrame ==
    ASSUME Shape, NEW c \in Commands, \A d \in Commands \ {c} : cmd'[d] = cmd[d], ShapeOf(c)'
    PROVE Shape'
BY DEF Shape, ShapeOf

LEMMA ShapeFinish ==
    ASSUME Shape, NEW c \in Commands, \A d \in Commands \ {c} : cmd'[d] = cmd[d],
           cmd'[c] = NoCommand
    PROVE Shape'
<1>1. ShapeOf(c)'
  BY DEF ShapeOf, NoCommand
<1> QED BY <1>1, ShapeFrame

LEMMA ShapeRequest ==
    ASSUME TypeInv, Shape, NEW c \in Commands, Request(c)
    PROVE Shape'
<1>1. cmd \in [Commands -> CommandRecords] /\ saved \in [Kinds -> Setting]
  BY DEF TypeInv, TypeOK
<1>2. DOMAIN NoCommand.ids = {} /\ DOMAIN NoCommand.seen = {}
  BY NothingType DEF NoCommand
<1>3. ASSUME NEW use \in {"previewRestart", "previewSave"}, NEW plan, Preview(c, use, plan)
      PROVE Shape'
  <2>1. /\ cmd'[c] = [NoCommand EXCEPT !.at = "reading", !.use = use, !.plan = plan,
                                       !.left = LifecycleKinds(plan)]
        /\ \A d \in Commands \ {c} : cmd'[d] = cmd[d]
    BY <1>1, <1>3 DEF Preview, Become
  <2>2. ShapeOf(c)'
    BY <1>2, <2>1 DEF ShapeOf, NoCommand
  <2> QED BY <2>1, <2>2, ShapeFrame
<1>4. ASSUME NEW k \in Kinds, NEW token, RequestRestart(c, k, token) PROVE Shape'
  <2>1. /\ cmd'[c] = [NoCommand EXCEPT !.at = "draining", !.use = "restart", !.token = token,
                                       !.edits = [j \in {k} |-> saved[k]]]
        /\ \A d \in Commands \ {c} : cmd'[d] = cmd[d]
    BY <1>1, <1>4 DEF RequestRestart, Become
  <2>2. ShapeOf(c)'
    BY <1>2, <2>1 DEF ShapeOf, NoCommand
  <2> QED BY <2>1, <2>2, ShapeFrame
<1>5. ASSUME NEW edits \in EditSets, NEW token, RequestSave(c, edits, token) PROVE Shape'
  <2>1. /\ cmd'[c] = [NoCommand EXCEPT !.at = "drafted", !.use = "save", !.token = token,
                                       !.edits = edits, !.draft = saved,
                                       !.plan = PlanSettingsChange(saved, edits)]
        /\ \A d \in Commands \ {c} : cmd'[d] = cmd[d]
    BY <1>1, <1>5 DEF RequestSave, Become
  <2>2. ShapeOf(c)'
    BY <1>1, <1>2, <2>1 DEF ShapeOf, NoCommand
  <2> QED BY <2>1, <2>2, ShapeFrame
<1> QED BY <1>3, <1>4, <1>5 DEF Request

LEMMA ShapeReserve ==
    ASSUME TypeInv, Shape, NEW c \in Commands,
           ReserveSave(c) \/ Drained(c) \/ ReadSaved(c) \/ CommandFails(c)
    PROVE Shape'
<1>1. cmd \in [Commands -> CommandRecords] /\ cmd[c] \in CommandRecords
  BY DEF TypeInv, TypeOK
<1>2. ShapeOf(c)
  BY DEF Shape
<1>3. CASE cmd' = [cmd EXCEPT ![c] = NoCommand]
  BY <1>1, <1>3, ShapeFinish
<1>4. CASE ReserveSave(c) /\ cmd' = [cmd EXCEPT ![c] = [cmd[c] EXCEPT !.at = "draining"]]
  <2>1. ShapeOf(c)'
    BY <1>1, <1>2, <1>4 DEF ShapeOf, ReserveSave, CommandRecords
  <2> QED BY <1>1, <1>4, <2>1, ShapeFrame
<1>5. CASE Drained(c)
  <2> DEFINE lifecycle == LifecycleKinds(cmd[c].plan)
             r == IF cmd[c].use = "restart" THEN [cmd[c] EXCEPT !.at = "reserved"]
                  ELSE IF lifecycle = {}    THEN [cmd[c] EXCEPT !.at = "checked"]
                  ELSE [cmd[c] EXCEPT !.at = "reading", !.left = lifecycle]
  <2>1. cmd' = [cmd EXCEPT ![c] = r] /\ cmd[c].at = "draining"
    BY <1>5 DEF Drained, Become
  <2>2. ShapeOf(c)'
    BY <1>1, <1>2, <2>1 DEF ShapeOf, CommandRecords
  <2> QED BY <1>1, <2>1, <2>2, ShapeFrame
<1>6. CASE ReadSaved(c)
  <2> DEFINE plan == PlanRestart(Kind(c), saved[Kind(c)])
  <2>1. /\ cmd[c].at = "reserved" /\ cmd[c].use = "restart"
        /\ cmd' = [cmd EXCEPT ![c] = [cmd[c] EXCEPT !.at = "reading", !.plan = plan,
                                                    !.left = DOMAIN plan]]
    BY <1>2, <1>6 DEF ReadSaved, Become, ShapeOf
  <2>2. Kind(c) \in Kinds /\ DOMAIN cmd[c].edits = {Kind(c)}
    BY <2>1, RestartKind
  <2>3. DOMAIN plan = {Kind(c)} /\ plan[Kind(c)].effect \in {"restart", "stop"}
    BY DEF PlanRestart
  <2>4. LifecycleKinds(plan) = DOMAIN plan
    BY <2>3 DEF LifecycleKinds
  <2> HIDE DEF plan
  <2>5. ShapeOf(c)'
    BY <1>1, <1>2, <2>1, <2>2, <2>3, <2>4 DEF ShapeOf, CommandRecords
  <2> QED BY <1>1, <2>1, <2>5, ShapeFrame
<1> QED BY <1>3, <1>4, <1>5, <1>6 DEF ReserveSave, CommandFails, Finish, Become

LEMMA ShapeImpact ==
    ASSUME TypeInv, Shape, NEW c \in Commands,
           (\E k \in Kinds : ReadStatus(c, k)) \/ ListSessions(c) \/ PreviewDone(c) \/ Check(c)
    PROVE Shape'
<1>1. cmd \in [Commands -> CommandRecords] /\ cmd[c] \in CommandRecords
  BY DEF TypeInv, TypeOK
<1>2. ShapeOf(c)
  BY DEF Shape
<1>3. CASE cmd' = [cmd EXCEPT ![c] = NoCommand]
  BY <1>1, <1>3, ShapeFinish
<1>4. cmd[c].ids \in Ids /\ cmd[c].seen \in Seen /\ cmd[c].left \in SUBSET Kinds
  BY <1>1 DEF CommandRecords
<1>5. ASSUME NEW k \in Kinds, ReadStatus(c, k) PROVE Shape'
  <2> DEFINE ids == Extend(cmd[c].ids, k, runtime[k])
             at == IF StopsLiveWork(cmd[c].plan[k].effect) THEN "listing" ELSE cmd[c].at
             listing == IF StopsLiveWork(cmd[c].plan[k].effect) THEN k ELSE cmd[c].listing
             r == [cmd[c] EXCEPT !.left = cmd[c].left \ {k}, !.ids = ids, !.at = at,
                                 !.listing = listing]
  <2>1. cmd' = [cmd EXCEPT ![c] = r] /\ cmd[c].at = "reading" /\ k \in cmd[c].left
    BY <1>5 DEF ReadStatus, Become
  <2>2. DOMAIN ids = DOMAIN cmd[c].ids \cup {k}
    BY DEF Extend
  <2>3. cmd[c].left \subseteq LifecycleKinds(cmd[c].plan)
    BY <1>2, <2>1 DEF ShapeOf
  <2>4. at \in {"reading", "listing"} /\ (at = "reading" => ~StopsLiveWork(cmd[c].plan[k].effect))
    BY <2>1
  <2>5. at = "listing" => listing = k
    BY <2>1
  <2> HIDE DEF ids, at, listing
  <2>6. ShapeOf(c)'
    BY <1>1, <1>2, <2>1, <2>2, <2>3, <2>4, <2>5 DEF ShapeOf, CommandRecords
  <2> QED BY <1>1, <2>1, <2>6, ShapeFrame
<1>6. CASE ListSessions(c)
  <2> DEFINE seen == Extend(cmd[c].seen, cmd[c].listing, work[cmd[c].listing])
             r == [cmd[c] EXCEPT !.at = "reading", !.listing = "none", !.seen = seen]
  <2>1. cmd' = [cmd EXCEPT ![c] = r] /\ cmd[c].at = "listing"
    BY <1>6 DEF ListSessions, Become
  <2>2. DOMAIN seen = DOMAIN cmd[c].seen \cup {cmd[c].listing}
    BY DEF Extend
  <2> HIDE DEF seen
  <2>3. ShapeOf(c)'
    BY <1>1, <1>2, <2>1, <2>2 DEF ShapeOf, CommandRecords
  <2> QED BY <1>1, <2>1, <2>3, ShapeFrame
<1>7. CASE Check(c)
  <2>1. PICK granted : \/ cmd' = [cmd EXCEPT ![c] = NoCommand]
                       \/ cmd' = [cmd EXCEPT ![c] = [cmd[c] EXCEPT
                            !.at = IF cmd[c].use = "save" THEN "checked" ELSE "applying",
                            !.granted = granted]]
    BY <1>7 DEF Check, Become, Finish
  <2>2. CASE cmd' = [cmd EXCEPT ![c] = [cmd[c] EXCEPT
                        !.at = IF cmd[c].use = "save" THEN "checked" ELSE "applying",
                        !.granted = granted]]
    <3>1. cmd[c].at = "reading" /\ cmd[c].use \in {"restart", "save"}
      BY <1>1, <1>2, <1>7 DEF Check, ReadDone, IsPreview, ShapeOf, CommandRecords, Uses
    <3>2. ShapeOf(c)'
      BY <1>1, <1>2, <2>2, <3>1 DEF ShapeOf, CommandRecords
    <3> QED BY <1>1, <2>2, <3>2, ShapeFrame
  <2> QED BY <1>3, <2>1, <2>2
<1> QED BY <1>3, <1>5, <1>6, <1>7 DEF PreviewDone, Become

LEMMA ShapeWrite ==
    ASSUME TypeInv, Shape, NEW c \in Commands,
           \/ Write(c) \/ CatalogUnreadable(c) \/ Configure(c)
           \/ (\E k \in Kinds : BeginApply(c, k)) \/ Applied(c)
    PROVE Shape'
<1>1. cmd \in [Commands -> CommandRecords] /\ cmd[c] \in CommandRecords /\ ShapeOf(c)
  BY DEF TypeInv, TypeOK, Shape
<1>2. CASE cmd' = [cmd EXCEPT ![c] = NoCommand]
  BY <1>1, <1>2, ShapeFinish
<1>3. CASE cmd' = cmd
  BY <1>3 DEF Shape, ShapeOf
<1>4. CASE cmd[c].at = "checked" /\ cmd' = [cmd EXCEPT ![c] = [cmd[c] EXCEPT !.at = "written"]]
  <2>1. ShapeOf(c)'
    BY <1>1, <1>4 DEF ShapeOf, CommandRecords
  <2> QED BY <1>1, <1>4, <2>1, ShapeFrame
<1>5. CASE cmd[c].at = "written" /\ cmd' = [cmd EXCEPT ![c] = [cmd[c] EXCEPT !.at = "applying"]]
  <2>1. ShapeOf(c)'
    BY <1>1, <1>5 DEF ShapeOf, CommandRecords
  <2> QED BY <1>1, <1>5, <2>1, ShapeFrame
<1> QED BY <1>2, <1>3, <1>4, <1>5
      DEF Write, CatalogUnreadable, Configure, BeginApply, Applied, Finish, Become

LEMMA ShapeStep == TypeInv /\ Shape /\ [Next]_vars => Shape'
<1>1. CASE UNCHANGED cmd
  BY <1>1 DEF Shape, ShapeOf
<1> QED BY <1>1, ShapeRequest, ShapeReserve, ShapeImpact, ShapeWrite
      DEF Next, CommandStep, vars, StartTurn, OwnTurn, BeginTurn, AskInput, EndTurn, StopRuntime,
          StartRuntime,
          ApplyFails

-----------------------------------------------------------------------------
(* Reservations and slots *)

\* A step of a command, except the apply of a kind, leaves the others their kinds, slots and
\* records, and no runtime changes.
Frame(c) ==
    /\ \A d \in Commands \ {c} : cmd'[d] = cmd[d]
    /\ UNCHANGED <<runtime, launched, condition, work, events>>
    /\ \A k \in Kinds :
          /\ owner[k] \in Commands \ {c} => owner'[k] = owner[k] /\ slot'[k] = slot[k]
          /\ owner'[k] \in Commands \ {c} => owner'[k] = owner[k]
          /\ slot'[k] = slot[k] \/ (owner[k] = c /\ owner'[k] = "none" /\ slot'[k] = "idle")
          /\ owner[k] = c /\ cmd[c].at = "applying" => slot'[k] = "idle"

LEMMA FinishFrame ==
    ASSUME TypeInv, NEW c \in Commands, Finish(c), UNCHANGED <<runtimeVars, liveVars>>
    PROVE Frame(c) /\ cmd'[c] = NoCommand
<1>1. /\ cmd \in [Commands -> CommandRecords] /\ owner \in [Kinds -> Commands \cup {"none"}]
      /\ slot \in [Kinds -> {"idle", "stopping", "starting", "done"}]
  BY DEF TypeInv, TypeOK
<1>2. cmd'[c] = NoCommand /\ \A d \in Commands \ {c} : cmd'[d] = cmd[d]
  BY <1>1 DEF Finish, Become
<1>3. \A k \in Kinds : /\ owner'[k] = IF owner[k] = c THEN "none" ELSE owner[k]
                       /\ slot'[k] = IF owner[k] = c THEN "idle" ELSE slot[k]
  BY DEF Finish
<1> QED BY <1>1, <1>2, <1>3, ReviewAssumption DEF ReviewAssumption, Frame, runtimeVars, liveVars

\* A step that keeps the slots and reserves only free kinds.
LEMMA KeepFrame ==
    ASSUME TypeInv, NEW c \in Commands, NEW r, Become(c, r), cmd[c].at # "applying",
           UNCHANGED <<runtimeVars, slot, liveVars>>,
           \/ owner' = owner
           \/ \E kinds \in SUBSET Kinds : Reserve(c, kinds)
    PROVE Frame(c)
<1>1. cmd \in [Commands -> CommandRecords] /\ owner \in [Kinds -> Commands \cup {"none"}]
  BY DEF TypeInv, TypeOK
<1>2. \A k \in Kinds :
          /\ owner[k] \in Commands \ {c} => owner'[k] = owner[k]
          /\ owner'[k] \in Commands \ {c} => owner'[k] = owner[k]
  BY <1>1, ReviewAssumption DEF Reserve, ReviewAssumption
<1> QED BY <1>1, <1>2 DEF Become, Frame, runtimeVars, liveVars

LEMMA RequestFrame ==
    ASSUME TypeInv, NEW c \in Commands, Request(c)
    PROVE Frame(c)
<1>1. ASSUME NEW use, NEW plan, Preview(c, use, plan) PROVE Frame(c)
  BY <1>1, KeepFrame DEF Preview, Idle
<1>2. ASSUME NEW k \in Kinds, NEW token, RequestRestart(c, k, token) PROVE Frame(c)
  <2>1. {k} \in SUBSET Kinds
    OBVIOUS
  <2> QED BY <1>2, <2>1, KeepFrame DEF RequestRestart, Idle
<1>3. ASSUME NEW edits, NEW token, RequestSave(c, edits, token) PROVE Frame(c)
  BY <1>3, KeepFrame DEF RequestSave, Idle
<1> QED BY <1>1, <1>2, <1>3 DEF Request

\* The steps of a command that do not move a slot.
QuietStep(c) ==
    \/ ReserveSave(c) \/ Drained(c) \/ ReadSaved(c) \/ CommandFails(c)
    \/ (\E k \in Kinds : ReadStatus(c, k)) \/ ListSessions(c) \/ PreviewDone(c) \/ Check(c)
    \/ Write(c) \/ CatalogUnreadable(c) \/ Configure(c) \/ Applied(c)

LEMMA QuietFrame ==
    ASSUME TypeInv, NEW c \in Commands, QuietStep(c)
    PROVE Frame(c)
<1> USE DEF Idle
<1>1. LifecycleKinds(cmd[c].plan) \in SUBSET Kinds
  <2>1. cmd[c].plan \in Plans
    BY DEF TypeInv, TypeOK, CommandRecords
  <2> QED BY <2>1, LifecycleType
<1>2. CASE ReserveSave(c)
  BY <1>1, <1>2, KeepFrame DEF ReserveSave
<1>3. CASE Drained(c)
  BY <1>3, KeepFrame DEF Drained
<1>4. CASE ReadSaved(c)
  BY <1>4, KeepFrame DEF ReadSaved
<1>5. CASE CommandFails(c)
  BY <1>5, FinishFrame DEF CommandFails
<1>6. ASSUME NEW k \in Kinds, ReadStatus(c, k) PROVE Frame(c)
  BY <1>6, KeepFrame DEF ReadStatus
<1>7. CASE ListSessions(c)
  BY <1>7, KeepFrame DEF ListSessions
<1>8. CASE PreviewDone(c)
  BY <1>8, KeepFrame DEF PreviewDone, ReadDone
<1>9. CASE Check(c)
  BY <1>9, KeepFrame, FinishFrame DEF Check, ReadDone
<1>10. CASE Write(c)
  BY <1>10, KeepFrame, FinishFrame DEF Write
<1>11. CASE CatalogUnreadable(c)
  BY <1>11, FinishFrame DEF CatalogUnreadable
<1>12. CASE Configure(c)
  BY <1>12, KeepFrame DEF Configure
<1>13. CASE Applied(c)
  BY <1>13, FinishFrame DEF Applied
<1> QED BY <1>2, <1>3, <1>4, <1>5, <1>6, <1>7, <1>8, <1>9, <1>10, <1>11, <1>12, <1>13
      DEF QuietStep

LEMMA HoldsInit == Init => Holds
BY ReviewAssumption DEF Init, Holds, Held, NoCommand, ReviewAssumption

\* A step that keeps the reservations and what the records say of them.
LEMMA HoldsSame ==
    ASSUME Holds, owner' = owner, NEW c \in Commands,
           \A d \in Commands \ {c} : cmd'[d] = cmd[d], Held(c)' = Held(c)
    PROVE Holds'
BY DEF Holds, Held

LEMMA HoldsFinish ==
    ASSUME TypeInv, Holds, NEW c \in Commands, Finish(c)
    PROVE Holds'
<1>1. cmd'[c] = NoCommand /\ \A d \in Commands \ {c} : cmd'[d] = cmd[d]
  BY DEF Finish, Become, TypeInv, TypeOK
<1>2. Held(c)' = {}
  BY <1>1 DEF Held, NoCommand
<1>3. \A d \in Commands \ {c} : Held(d)' = Held(d)
  BY <1>1 DEF Held
<1>4. \A k \in Kinds : owner'[k] = IF owner[k] = c THEN "none" ELSE owner[k]
  BY DEF Finish
<1>5. "none" \notin Commands
  BY ReviewAssumption DEF ReviewAssumption
<1>6. \A k \in Kinds, d \in Commands : owner'[k] = d <=> d # c /\ owner[k] = d
  BY <1>4, <1>5
<1> QED BY <1>2, <1>3, <1>6 DEF Holds

\* A step by which a command without kinds reserves some.
LEMMA HoldsReserve ==
    ASSUME TypeInv, Holds, NEW c \in Commands, NEW kinds \in SUBSET Kinds, Reserve(c, kinds),
           \A d \in Commands \ {c} : cmd'[d] = cmd[d], Held(c) = {}, Held(c)' = kinds
    PROVE Holds'
<1>1. \A d \in Commands \ {c} : Held(d)' = Held(d)
  BY DEF Held
<1>2. \A k \in Kinds : owner'[k] = IF k \in kinds THEN c ELSE owner[k]
  BY DEF Reserve
<1>3. \A k \in Kinds, d \in Commands : k \in kinds => owner[k] # d
  BY ReviewAssumption DEF Reserve, ReviewAssumption
<1> QED BY <1>1, <1>2, <1>3 DEF Holds

LEMMA HoldsRequest ==
    ASSUME TypeInv, Shape, Holds, NEW c \in Commands, Request(c)
    PROVE Holds'
<1>1. /\ cmd \in [Commands -> CommandRecords] /\ \A d \in Commands \ {c} : cmd'[d] = cmd[d]
      /\ Held(c) = {}
  <2>1. cmd[c].at = "idle"
    BY DEF Request, Preview, RequestRestart, RequestSave, Idle
  <2>2. cmd[c].use = "none"
    BY <2>1 DEF Shape, ShapeOf
  <2> QED BY <2>2, RequestFrame DEF Frame, Held, TypeInv, TypeOK
<1>2. ASSUME NEW use \in {"previewRestart", "previewSave"}, NEW plan, Preview(c, use, plan)
      PROVE Holds'
  <2>1. cmd'[c].use = use
    BY <1>1, <1>2 DEF Preview, Become, NoCommand
  <2>2. Held(c)' = {}
    BY <2>1 DEF Held
  <2> QED BY <1>1, <1>2, <2>2, HoldsSame DEF Preview
<1>3. ASSUME NEW k \in Kinds, NEW token, RequestRestart(c, k, token) PROVE Holds'
  <2>1. cmd'[c].use = "restart" /\ cmd'[c].edits = [j \in {k} |-> saved[k]]
    BY <1>1, <1>3 DEF RequestRestart, Become, NoCommand
  <2>2. Held(c)' = {k} /\ {k} \in SUBSET Kinds
    BY <2>1 DEF Held
  <2> QED BY <1>1, <1>3, <2>2, HoldsReserve DEF RequestRestart
<1>4. ASSUME NEW edits, NEW token, RequestSave(c, edits, token) PROVE Holds'
  <2>1. cmd'[c].use = "save" /\ cmd'[c].at = "drafted"
    BY <1>1, <1>4 DEF RequestSave, Become, NoCommand
  <2>2. Held(c)' = {}
    BY <2>1 DEF Held
  <2> QED BY <1>1, <1>4, <2>2, HoldsSame DEF RequestSave
<1> QED BY <1>2, <1>3, <1>4 DEF Request

LEMMA HoldsQuiet ==
    ASSUME TypeInv, Shape, Holds, NEW c \in Commands, QuietStep(c)
    PROVE Holds'
<1>1. /\ cmd \in [Commands -> CommandRecords] /\ cmd[c] \in CommandRecords
      /\ \A d \in Commands \ {c} : cmd'[d] = cmd[d]
  BY QuietFrame DEF TypeInv, TypeOK, Frame
<1>2. ShapeOf(c)
  BY DEF Shape
<1>3. CASE Finish(c)
  BY <1>3, HoldsFinish
<1>4. CASE ReserveSave(c)
  <2>1. Held(c) = {} /\ cmd[c].use = "save"
    BY <1>2, <1>4 DEF ReserveSave, ShapeOf, Held
  <2>2. CASE Become(c, NoCommand) /\ owner' = owner
    <3>1. Held(c)' = {}
      BY <1>1, <2>2 DEF Become, Held, NoCommand
    <3> QED BY <1>1, <2>1, <2>2, <3>1, HoldsSame
  <2>3. CASE /\ Become(c, [cmd[c] EXCEPT !.at = "draining"])
             /\ Reserve(c, LifecycleKinds(cmd[c].plan))
    <3>1. Held(c)' = LifecycleKinds(cmd[c].plan)
      BY <1>1, <2>1, <2>3 DEF Become, Held, CommandRecords
    <3>2. LifecycleKinds(cmd[c].plan) \in SUBSET Kinds
      BY <1>1, LifecycleType DEF CommandRecords
    <3> QED BY <1>1, <2>1, <2>3, <3>1, <3>2, HoldsReserve
  <2> QED BY <1>4, <2>2, <2>3 DEF ReserveSave
<1>5. ASSUME owner' = owner, cmd'[c].use = cmd[c].use, cmd'[c].edits = cmd[c].edits,
             cmd'[c].plan = cmd[c].plan \/ cmd[c].use = "restart",
             cmd[c].at # "drafted", cmd'[c].at # "drafted"
      PROVE Holds'
  <2>1. Held(c)' = Held(c)
    BY <1>5 DEF Held
  <2> QED BY <1>1, <1>5, <2>1, HoldsSame
<1>6. CASE Drained(c)
  <2>1. cmd[c].at = "draining" /\ cmd'[c].at # "drafted"
    BY <1>1, <1>6 DEF Drained, Become, CommandRecords
  <2>2. /\ cmd'[c].use = cmd[c].use /\ cmd'[c].edits = cmd[c].edits
        /\ cmd'[c].plan = cmd[c].plan
    BY <1>1, <1>6 DEF Drained, Become, CommandRecords
  <2> QED BY <1>5, <1>6, <2>1, <2>2 DEF Drained
<1>7. CASE ReadSaved(c)
  <2>1. /\ cmd[c].at = "reserved" /\ cmd'[c].at = "reading" /\ cmd'[c].use = cmd[c].use
        /\ cmd'[c].edits = cmd[c].edits /\ cmd[c].use = "restart"
    BY <1>1, <1>2, <1>7 DEF ReadSaved, Become, CommandRecords, ShapeOf
  <2> QED BY <1>5, <1>7, <2>1 DEF ReadSaved
<1>8. ASSUME NEW k \in Kinds, ReadStatus(c, k) PROVE Holds'
  <2>1. /\ cmd[c].at = "reading" /\ cmd'[c].at \in {"reading", "listing"}
        /\ cmd'[c].use = cmd[c].use /\ cmd'[c].edits = cmd[c].edits
        /\ cmd'[c].plan = cmd[c].plan
    BY <1>1, <1>8 DEF ReadStatus, Become, CommandRecords
  <2> QED BY <1>5, <1>8, <2>1 DEF ReadStatus
<1>9. CASE ListSessions(c)
  <2>1. /\ cmd[c].at = "listing" /\ cmd'[c].at = "reading" /\ cmd'[c].use = cmd[c].use
        /\ cmd'[c].edits = cmd[c].edits /\ cmd'[c].plan = cmd[c].plan
    BY <1>1, <1>9 DEF ListSessions, Become, CommandRecords
  <2> QED BY <1>5, <1>9, <2>1 DEF ListSessions
<1>10. CASE PreviewDone(c)
  <2>1. Held(c) = {} /\ Held(c)' = {}
    BY <1>1, <1>10 DEF PreviewDone, IsPreview, Become, Held, NoCommand
  <2> QED BY <1>1, <1>10, <2>1, HoldsSame DEF PreviewDone
<1>11. CASE Check(c) /\ ~Finish(c)
  <2>1. PICK granted : cmd' = [cmd EXCEPT ![c] = [cmd[c] EXCEPT
                            !.at = IF cmd[c].use = "save" THEN "checked" ELSE "applying",
                            !.granted = granted]]
    BY <1>11 DEF Check, Become
  <2>2. /\ cmd[c].at = "reading" /\ cmd'[c].at \in {"checked", "applying"}
        /\ cmd'[c].use = cmd[c].use
        /\ cmd'[c].edits = cmd[c].edits /\ cmd'[c].plan = cmd[c].plan
    BY <1>1, <1>11, <2>1 DEF Check, ReadDone, CommandRecords
  <2> QED BY <1>5, <1>11, <2>2 DEF Check
<1>12. CASE Write(c) /\ ~Finish(c)
  <2>1. /\ cmd[c].at = "checked" /\ cmd'[c].at = "written" /\ cmd'[c].use = cmd[c].use
        /\ cmd'[c].edits = cmd[c].edits /\ cmd'[c].plan = cmd[c].plan
    BY <1>1, <1>12 DEF Write, Become, CommandRecords
  <2> QED BY <1>5, <1>12, <2>1 DEF Write
<1>13. CASE Configure(c)
  <2>1. /\ cmd[c].at = "written" /\ cmd'[c].at = "applying" /\ cmd'[c].use = cmd[c].use
        /\ cmd'[c].edits = cmd[c].edits /\ cmd'[c].plan = cmd[c].plan
    BY <1>1, <1>13 DEF Configure, Become, CommandRecords
  <2> QED BY <1>5, <1>13, <2>1 DEF Configure
<1> QED BY <1>3, <1>4, <1>6, <1>7, <1>8, <1>9, <1>10, <1>11, <1>12, <1>13
      DEF QuietStep, CommandFails, CatalogUnreadable, Applied

LEMMA HoldsStep == TypeInv /\ Shape /\ Holds /\ [Next]_vars => Holds'
<1>1. CASE UNCHANGED <<cmd, owner>>
  BY <1>1 DEF Holds, Held
<1> QED BY <1>1, HoldsRequest, HoldsQuiet
      DEF Next, CommandStep, QuietStep, BeginApply, vars, StartTurn, OwnTurn, BeginTurn, AskInput,
          EndTurn,
          StopRuntime, StartRuntime, ApplyFails

LEMMA SlotsInit == Init => Slots
BY DEF Init, Slots, SlotOf, NoWork

\* A step of a command that does not move a slot.
LEMMA SlotsFrame ==
    ASSUME TypeInv, Slots, NEW c \in Commands, Frame(c)
    PROVE Slots'
<1> SUFFICES ASSUME NEW k \in Kinds PROVE SlotOf(k)'
    BY DEF Slots
<1>1. SlotOf(k)
  BY DEF Slots
<1>2. CASE slot'[k] = "idle"
  BY <1>1, <1>2 DEF Frame, SlotOf
<1>3. CASE slot'[k] # "idle"
  <2>1. slot'[k] = slot[k] /\ owner[k] \in Commands /\ cmd[owner[k]].at = "applying"
    BY <1>1, <1>3 DEF Frame, SlotOf
  <2>2. owner[k] # c
    BY <1>3, <2>1 DEF Frame
  <2>3. owner'[k] = owner[k] /\ cmd'[owner[k]] = cmd[owner[k]]
    BY <2>1, <2>2 DEF Frame
  <2> QED BY <1>1, <2>1, <2>3 DEF Frame, SlotOf, Target
<1> QED BY <1>2, <1>3

LEMMA SlotsApply ==
    ASSUME TypeInv, Slots, NEW c \in Commands, NEW k \in Kinds, BeginApply(c, k)
    PROVE Slots'
<1> SUFFICES ASSUME NEW j \in Kinds PROVE SlotOf(j)'
    BY DEF Slots
<1>1. SlotOf(j)
  BY DEF Slots
<1>2. UNCHANGED <<runtime, work, events, owner, cmd>>
  BY DEF BeginApply, liveVars
<1>3. CASE j # k
  <2>1. slot'[j] = slot[j] /\ condition'[j] = condition[j]
    BY <1>3 DEF BeginApply, TypeInv, TypeOK
  <2> QED BY <1>1, <1>2, <2>1 DEF SlotOf, Target
<1>4. CASE j = k
  <2>1. /\ owner[k] = c /\ cmd[c].at = "applying"
        /\ slot'[k] = IF runtime[k] # 0 THEN "stopping"
                      ELSE IF Target(k).enabled THEN "starting" ELSE "done"
        /\ condition'[k] = IF runtime[k] = 0 /\ ~Target(k).enabled THEN "disabled" ELSE condition[k]
    BY DEF BeginApply, TypeInv, TypeOK
  <2> QED BY <1>1, <1>2, <1>4, <2>1 DEF SlotOf, Target
<1> QED BY <1>3, <1>4

LEMMA SlotsMove ==
    ASSUME TypeInv, Slots, NEW k \in Kinds, StopRuntime(k) \/ StartRuntime(k) \/ ApplyFails(k)
    PROVE Slots'
<1> SUFFICES ASSUME NEW j \in Kinds PROVE SlotOf(j)'
    BY DEF Slots
<1>1. SlotOf(j) /\ SlotOf(k)
  BY DEF Slots
<1>2. UNCHANGED <<owner, cmd, events>>
  BY DEF StopRuntime, StartRuntime, ApplyFails, liveVars
<1>3. /\ slot \in [Kinds -> {"idle", "stopping", "starting", "done"}]
      /\ runtime \in [Kinds -> 0 .. MaxStarts] /\ starts \in [Kinds -> 0 .. MaxStarts]
      /\ work \in [Kinds -> [Sessions -> Work]]
      /\ condition \in [Kinds -> {"ready", "disabled", "error"}]
      /\ \A s \in Sessions : 0 <= events[k][s]
  BY ReviewAssumption DEF TypeInv, TypeOK, ReviewAssumption
<1>4. CASE j # k
  <2>1. /\ slot'[j] = slot[j] /\ condition'[j] = condition[j] /\ runtime'[j] = runtime[j]
        /\ work'[j] = work[j]
    BY <1>3, <1>4 DEF StopRuntime, StartRuntime, ApplyFails, liveVars
  <2> QED BY <1>1, <1>2, <2>1 DEF SlotOf, Target
<1>5. CASE j = k /\ StopRuntime(k)
  <2>1. /\ slot'[k] = IF Target(k).enabled THEN "starting" ELSE "done"
        /\ runtime'[k] = 0 /\ slot[k] = "stopping"
        /\ \A s \in Sessions : work'[k][s] = NoWork
    BY <1>3, <1>5 DEF StopRuntime
  <2>2. \A s \in Sessions : work'[k][s].running = FALSE /\ work'[k][s].episode = 0
    BY <2>1 DEF NoWork
  <2> QED BY <1>1, <1>2, <1>3, <1>5, <2>1, <2>2 DEF SlotOf, Target
<1>6. CASE j = k /\ StartRuntime(k)
  <2>1. /\ slot'[k] = "done" /\ slot[k] = "starting" /\ condition'[k] = "ready"
        /\ runtime'[k] = starts[k] + 1 /\ work' = work
    BY <1>3, <1>6 DEF StartRuntime, liveVars
  <2>2. runtime'[k] # 0
    BY <1>3, <2>1, ReviewAssumption DEF ReviewAssumption
  <2> QED BY <1>1, <1>2, <1>6, <2>1, <2>2 DEF SlotOf, Target
<1>7. CASE j = k /\ ApplyFails(k)
  <2>1. /\ slot'[k] = "done" /\ slot[k] # "idle" /\ condition'[k] = "error"
        /\ runtime' = runtime /\ work' = work
    BY <1>3, <1>7 DEF ApplyFails, liveVars
  <2> QED BY <1>1, <1>2, <1>7, <2>1 DEF SlotOf, Target
<1> QED BY <1>4, <1>5, <1>6, <1>7

\* What a turn step does to each session: a turn begins under an admitted control, or by the
\* runtime itself in a live session and with a new episode.
LEMMA TurnEffect ==
    ASSUME TypeInv, Slots, NEW k \in Kinds, NEW s \in Sessions, TurnStep(k, s),
           NEW j \in Kinds, NEW t \in Sessions
    PROVE /\ events[j][t] <= events'[j][t]
          /\ work'[j][t].episode <= events'[j][t]
          /\ Listed(work'[j][t]) => Listed(work[j][t]) \/ TurnMayStart(j)
          /\ work'[j][t].running =>
                \/ /\ work[j][t].running /\ work'[j][t].episode = work[j][t].episode
                   /\ work'[j][t].own = work[j][t].own
                \/ TurnMayStart(j) /\ work'[j][t].episode # 0
                \/ /\ runtime[j] # 0 /\ work'[j][t].own /\ work'[j][t].episode # 0
                   /\ events[j][t] < work'[j][t].episode
<1>1. /\ work \in [Kinds -> [Sessions -> Work]]
      /\ events \in [Kinds -> [Sessions -> 0 .. MaxEvents]] /\ MaxEvents \in Nat
      /\ work[j][t].episode <= events[j][t]
  BY ReviewAssumption DEF TypeInv, TypeOK, ReviewAssumption, Slots, SlotOf
<1>2. /\ work[j][t] \in Work /\ work[j][t].episode \in Nat /\ work[j][t].running \in BOOLEAN
      /\ events[j][t] \in Nat
  <2>1. work[j][t] \in Work /\ events[j][t] \in 0 .. MaxEvents
    BY <1>1
  <2> QED BY <1>1, <2>1 DEF Work
<1>3. PICK w \in Work : TurnTo(k, s, w)
  BY TurnReplaces
<1>4. CASE j # k \/ t # s
  <2>1. work'[j][t] = work[j][t] /\ events'[j][t] = events[j][t]
    BY <1>1, <1>3, <1>4 DEF TurnTo
  <2> QED BY <1>1, <1>2, <2>1
<1>5. CASE j = k /\ t = s
  <2>1. work'[j][t] = w
    BY <1>1, <1>3, <1>5 DEF TurnTo
  <2>2. CASE events' = events
    BY <1>1, <1>2, <1>3, <1>5, <2>1, <2>2 DEF Listed, TurnTo
  <2>3. CASE events' = [events EXCEPT ![k] = [events[k] EXCEPT ![s] = @ + 1]]
    <3>1. events'[j][t] = events[j][t] + 1
      BY <1>1, <1>5, <2>3
    <3> QED BY <1>1, <1>2, <1>3, <1>5, <2>1, <3>1 DEF Listed, TurnTo
  <2> QED BY <1>3, <2>2, <2>3 DEF TurnTo
<1> QED BY <1>4, <1>5

LEMMA TurnKeeps ==
    ASSUME TypeInv, NEW k \in Kinds, NEW s \in Sessions, TurnStep(k, s)
    PROVE UNCHANGED <<settingVars, runtimeVars, owner, slot, confirmed, cmd>>
BY TurnReplaces

LEMMA SlotsTurn ==
    ASSUME TypeInv, Slots, NEW k \in Kinds, NEW s \in Sessions,
           TurnStep(k, s)
    PROVE Slots'
BY TurnEffect, TurnKeeps DEF Slots, SlotOf, Target, TurnMayStart, settingVars, runtimeVars

LEMMA SlotsStep == TypeInv /\ Slots /\ [Next]_vars => Slots'
<1>1. CASE UNCHANGED vars
  BY <1>1 DEF vars, runtimeVars, liveVars, Slots, SlotOf, Target
<1> QED BY <1>1, RequestFrame, QuietFrame, SlotsFrame, SlotsApply, SlotsMove, SlotsTurn
      DEF TurnStep, Next, CommandStep, QuietStep

-----------------------------------------------------------------------------
(* What a command read stays true *)

LEMMA ReadsInit == Init => Reads
BY DEF Init, Reads, ReadOf, Held, NoCommand

\* Reviews only name more turns.
LEMMA ConfirmedGrows ==
    ASSUME TypeInv, NEW c \in Commands, Request(c) \/ QuietStep(c)
    PROVE \A k \in Kinds, s \in Sessions : confirmed[k][s] \subseteq confirmed'[k][s]
<1>1. CASE Check(c)
  <2> DEFINE store == AfterIssue(reviews, issued + 1, Impact(c))
  <2>1. PICK accepts : confirmed' = [k \in Kinds |-> [s \in Sessions |->
            IF accepts /\ k \in DOMAIN store[cmd[c].token].seen
            THEN confirmed[k][s] \cup ({store[cmd[c].token].seen[k][s].episode} \ {0})
            ELSE confirmed[k][s]]]
    BY <1>1 DEF Check
  <2> HIDE DEF store
  <2> QED BY <2>1
<1>2. CASE ~Check(c)
  BY <1>2 DEF Request, Preview, RequestRestart, RequestSave, QuietStep, ReserveSave, Drained,
              ReadSaved, CommandFails, ReadStatus, ListSessions, PreviewDone, Write,
              CatalogUnreadable, Configure, Applied
<1> QED BY <1>1, <1>2

\* The other commands are not disturbed.
LEMMA ReadsFrame ==
    ASSUME TypeInv, Shape, Holds, Reads, NEW c \in Commands, Frame(c),
           \A k \in Kinds, s \in Sessions : confirmed[k][s] \subseteq confirmed'[k][s],
           \A k \in Held(c)' : ReadOf(c, k)'
    PROVE Reads'
<1> SUFFICES ASSUME NEW d \in Commands, d # c, NEW k \in Held(d)' PROVE ReadOf(d, k)'
    BY DEF Reads
<1>1. cmd'[d] = cmd[d] /\ k \in Held(d)
  BY DEF Frame, Held
<1>2. k \in Kinds /\ owner[k] = d
  BY <1>1, HeldType DEF Holds
<1>3. slot'[k] = slot[k] /\ UNCHANGED <<runtime, work>>
  BY <1>2 DEF Frame
<1>4. ReadOf(d, k) /\ events' = events
  BY <1>1 DEF Reads, Frame
<1>5. \A s \in Sessions : Follows(d, k, s) => Follows(d, k, s)'
  BY <1>1, <1>3, <1>4 DEF Follows
<1>6. \A s \in Sessions : Covered(d, k, s) => Covered(d, k, s)'
  BY <1>1, <1>2 DEF Covered
<1> QED BY <1>1, <1>3, <1>4, <1>5, <1>6 DEF ReadOf

LEMMA ReadsRequest ==
    ASSUME TypeInv, Shape, Holds, Reads, NEW c \in Commands, Request(c)
    PROVE Reads'
<1>1. cmd \in [Commands -> CommandRecords]
  BY DEF TypeInv, TypeOK
<1>2. \/ cmd'[c].use \in {"previewRestart", "previewSave"}
      \/ cmd'[c].at \in {"drafted", "draining"}
  <2>1. ASSUME NEW use \in {"previewRestart", "previewSave"}, NEW plan, Preview(c, use, plan)
        PROVE cmd'[c].use \in {"previewRestart", "previewSave"}
    BY <1>1, <2>1 DEF Preview, Become, NoCommand
  <2>2. ASSUME NEW k, NEW token, RequestRestart(c, k, token) PROVE cmd'[c].at = "draining"
    BY <1>1, <2>2 DEF RequestRestart, Become, NoCommand
  <2>3. ASSUME NEW edits, NEW token, RequestSave(c, edits, token) PROVE cmd'[c].at = "drafted"
    BY <1>1, <2>3 DEF RequestSave, Become, NoCommand
  <2> QED BY <2>1, <2>2, <2>3 DEF Request
<1>3. \A k \in Held(c)' : ReadOf(c, k)'
  BY <1>2 DEF Held, ReadOf
<1> QED BY <1>3, RequestFrame, ReadsFrame, ConfirmedGrows

\* A command whose confirmation covers what it read: the review named the runtimes that it stops
\* and the turns that it ends.
LEMMA ReadsCheck ==
    ASSUME TypeInv, Shape, Holds, Slots, Reads, NEW c \in Commands, Check(c), ~Finish(c),
           NEW k \in Held(c)'
    PROVE ReadOf(c, k)'
<1> DEFINE impact == Impact(c)
           store == AfterIssue(reviews, issued + 1, impact)
           token == cmd[c].token
           needed == cmd[c].use = "restart" \/ HasSessions(c)
           accepted == token \in DOMAIN store /\ Accepts(store[token], impact)
           granted == IF needed THEN store[token].ids ELSE cmd[c].ids
           place == IF cmd[c].use = "save" THEN "checked" ELSE "applying"
           r == [cmd[c] EXCEPT !.at = place, !.granted = granted]
<1>1. /\ cmd \in [Commands -> CommandRecords] /\ cmd[c] \in CommandRecords
      /\ ShapeOf(c) /\ cmd[c].seen \in Seen
      /\ work \in [Kinds -> [Sessions -> Work]]
      /\ confirmed \in [Kinds -> [Sessions -> SUBSET (1 .. MaxEvents)]]
  BY DEF TypeInv, TypeOK, Shape, CommandRecords
<1>2. cmd' = [cmd EXCEPT ![c] = r] /\ (needed => accepted)
  BY DEF Check, Become
<1>3. /\ cmd[c].at = "reading" /\ cmd[c].left = {} /\ ~IsPreview(c)
      /\ UNCHANGED <<runtime, work, events, owner, slot>>
  BY DEF Check, ReadDone, runtimeVars, liveVars
<1>4. confirmed' = [j \in Kinds |-> [s \in Sessions |->
         IF needed /\ accepted /\ j \in DOMAIN store[token].seen
         THEN confirmed[j][s] \cup ({store[token].seen[j][s].episode} \ {0})
         ELSE confirmed[j][s]]]
  BY DEF Check
<1>5. needed => /\ store[token].ids = cmd[c].ids
                /\ \A j \in DOMAIN cmd[c].seen : \A s \in Sessions :
                      Listed(cmd[c].seen[j][s]) =>
                          /\ j \in DOMAIN store[token].seen
                          /\ Listed(store[token].seen[j][s])
                          /\ WithinReview(cmd[c].seen[j][s], store[token].seen[j][s])
  <2>1. impact.ids = cmd[c].ids /\ impact.seen = cmd[c].seen
    BY DEF Impact
  <2> HIDE DEF impact, store
  <2> QED BY <1>2, <2>1 DEF Accepts
<1> HIDE DEF store, needed, accepted
<1>6. granted = cmd[c].ids
  BY <1>5
<1> HIDE DEF granted
<1>7. /\ cmd'[c].at \in {"checked", "applying"} /\ cmd'[c].granted = cmd[c].ids
      /\ cmd'[c].plan = cmd[c].plan /\ cmd'[c].use = cmd[c].use /\ cmd'[c].edits = cmd[c].edits
  BY <1>1, <1>2, <1>6 DEF CommandRecords
<1>8. k \in Held(c)
  BY <1>3, <1>7 DEF Held
<1>9. ReadOf(c, k) /\ k \in Kinds /\ k \in LifecycleKinds(cmd[c].plan)
  BY <1>3, <1>8, HeldType DEF Reads
<1>10. k \in DOMAIN cmd[c].ids /\ cmd[c].ids[k] = runtime[k]
  BY <1>1, <1>3, <1>9 DEF ShapeOf, ReadOf
<1>11. StopsLiveWork(cmd[c].plan[k].effect) => k \in DOMAIN cmd[c].seen
  BY <1>1, <1>3, <1>10 DEF ShapeOf
<1>12. ASSUME StopsLiveWork(cmd[c].plan[k].effect), NEW s \in Sessions
       PROVE Follows(c, k, s)' /\ Covered(c, k, s)'
  <2>1. k \in DOMAIN cmd[c].seen
    BY <1>12, <1>11
  <2>2. Follows(c, k, s)
    BY <1>3, <1>9, <1>12, <2>1 DEF ReadOf
  <2>3. cmd'[c].seen = cmd[c].seen
    BY <1>1, <1>2 DEF CommandRecords
  <2>4. Follows(c, k, s)'
    BY <1>3, <2>2, <2>3 DEF Follows
  <2>6. ASSUME Listed(cmd[c].seen[k][s])
        PROVE /\ confirmed'[k][s] # {}
              /\ cmd[c].seen[k][s].running => cmd[c].seen[k][s].episode \in confirmed'[k][s]
    <3>1. HasSessions(c)
      BY <2>1, <2>6 DEF HasSessions
    <3>2. needed
      BY <3>1 DEF needed
    <3>3. accepted
      BY <1>2, <3>2
    <3>4. /\ k \in DOMAIN store[token].seen /\ Listed(store[token].seen[k][s])
          /\ WithinReview(cmd[c].seen[k][s], store[token].seen[k][s])
      BY <1>5, <2>1, <2>6, <3>2
    <3>5. confirmed'[k][s] = confirmed[k][s] \cup ({store[token].seen[k][s].episode} \ {0})
      BY <1>4, <1>9, <3>2, <3>3, <3>4
    <3> QED BY <2>6, <3>4, <3>5 DEF WithinReview, Listed
  <2> QED BY <2>1, <2>3, <2>4, <2>6 DEF Covered
<1>13. cmd'[c].seen = cmd[c].seen
  BY <1>1, <1>2 DEF CommandRecords
<1> QED BY <1>3, <1>7, <1>10, <1>12, <1>13, <1>11 DEF ReadOf

LEMMA ReadsQuiet ==
    ASSUME TypeInv, Shape, Holds, Slots, Reads, NEW c \in Commands, QuietStep(c)
    PROVE Reads'
<1> SUFFICES ASSUME NEW k \in Held(c)' PROVE ReadOf(c, k)'
    BY QuietFrame, ReadsFrame, ConfirmedGrows
<1>1. /\ cmd \in [Commands -> CommandRecords] /\ cmd[c] \in CommandRecords
      /\ ShapeOf(c) /\ Frame(c)
      /\ work \in [Kinds -> [Sessions -> Work]] /\ runtime \in [Kinds -> 0 .. MaxStarts]
  BY QuietFrame DEF TypeInv, TypeOK, Shape
<1>2. UNCHANGED <<runtime, work, events>>
  BY <1>1 DEF Frame
<1>3. CASE cmd'[c] = NoCommand
  BY <1>3 DEF Held, NoCommand
<1>4. CASE cmd'[c].at \in {"draining", "reserved"}
  BY <1>4 DEF ReadOf
<1>5. ASSUME cmd'[c].use = cmd[c].use, cmd'[c].edits = cmd[c].edits,
             cmd'[c].plan = cmd[c].plan, cmd[c].at # "drafted"
      PROVE k \in Held(c) /\ ReadOf(c, k) /\ k \in Kinds
  <2>1. k \in Held(c)
    BY <1>5 DEF Held
  <2> QED BY <2>1, HeldType DEF Reads
<1>6. CASE ReserveSave(c)
  BY <1>1, <1>3, <1>4, <1>6 DEF ReserveSave, Become, CommandRecords
<1>7. CASE Drained(c)
  <2> DEFINE lifecycle == LifecycleKinds(cmd[c].plan)
  <2>1. CASE cmd[c].use = "restart"
    BY <1>1, <1>4, <1>7, <2>1 DEF Drained, Become, CommandRecords
  <2>2. CASE cmd[c].use # "restart" /\ lifecycle = {}
    <3>1. cmd'[c].use = cmd[c].use /\ cmd'[c].plan = cmd[c].plan
      BY <1>1, <1>7, <2>2 DEF Drained, Become, CommandRecords
    <3> QED BY <2>2, <3>1 DEF Held
  <2>3. CASE cmd[c].use # "restart" /\ lifecycle # {}
    <3>1. /\ cmd'[c].at = "reading" /\ cmd'[c].ids = cmd[c].ids /\ cmd'[c].seen = cmd[c].seen
          /\ cmd[c].at = "draining"
      BY <1>1, <1>7, <2>3 DEF Drained, Become, CommandRecords
    <3> QED BY <1>1, <3>1 DEF ReadOf, ShapeOf
  <2> QED BY <2>1, <2>2, <2>3
<1>8. CASE ReadSaved(c)
  <2>1. /\ cmd'[c].at = "reading" /\ cmd'[c].ids = cmd[c].ids /\ cmd'[c].seen = cmd[c].seen
        /\ cmd[c].at = "reserved"
    BY <1>1, <1>8 DEF ReadSaved, Become, CommandRecords
  <2> QED BY <1>1, <2>1 DEF ReadOf, ShapeOf
<1>9. ASSUME NEW j \in Kinds, ReadStatus(c, j) PROVE ReadOf(c, k)'
  <2>1. /\ cmd[c].at = "reading" /\ cmd'[c].at \in {"reading", "listing"}
        /\ cmd'[c].use = cmd[c].use /\ cmd'[c].edits = cmd[c].edits
        /\ cmd'[c].plan = cmd[c].plan /\ cmd'[c].seen = cmd[c].seen
        /\ cmd'[c].ids = Extend(cmd[c].ids, j, runtime[j])
    BY <1>1, <1>9 DEF ReadStatus, Become, CommandRecords
  <2>2. cmd[c].ids \in Ids /\ runtime[j] \in 0 .. MaxStarts
    BY <1>1 DEF CommandRecords
  <2>3. k \in DOMAIN cmd'[c].ids => (k = j \/ k \in DOMAIN cmd[c].ids)
    BY <2>1 DEF Extend
  <2>4. k \in DOMAIN cmd'[c].ids =>
            cmd'[c].ids[k] = IF k = j THEN runtime[j] ELSE cmd[c].ids[k]
    BY <2>1 DEF Extend
  <2>5. ReadOf(c, k)
    BY <1>5, <2>1
  <2> QED BY <1>2, <2>1, <2>3, <2>4, <2>5 DEF ReadOf, Follows
<1>10. CASE ListSessions(c)
  <2> DEFINE l == cmd[c].listing
  <2>1. /\ cmd[c].at = "listing" /\ cmd'[c].at = "reading"
        /\ cmd'[c].use = cmd[c].use /\ cmd'[c].edits = cmd[c].edits
        /\ cmd'[c].plan = cmd[c].plan /\ cmd'[c].ids = cmd[c].ids
        /\ cmd'[c].seen = Extend(cmd[c].seen, l, work[l])
    BY <1>1, <1>10 DEF ListSessions, Become, CommandRecords
  <2>2. k \in DOMAIN cmd'[c].seen => (k = l \/ k \in DOMAIN cmd[c].seen)
    BY <2>1 DEF Extend
  <2>3. k \in DOMAIN cmd'[c].seen =>
            cmd'[c].seen[k] = IF k = l THEN work[l] ELSE cmd[c].seen[k]
    BY <2>1 DEF Extend
  <2>4. ReadOf(c, k) /\ k \in Kinds /\ SlotOf(k)
    BY <1>5, <2>1 DEF Slots
  <2>5. CASE k = l
    <3>1. k \in DOMAIN cmd'[c].seen => cmd'[c].seen[k] = work[k]
      BY <2>3, <2>5
    <3>2. ASSUME NEW s \in Sessions, k \in DOMAIN cmd'[c].seen PROVE Follows(c, k, s)'
      BY <1>2, <2>4, <3>1, <3>2 DEF Follows, SlotOf
    <3> QED BY <1>2, <2>1, <2>4, <3>2 DEF ReadOf
  <2>6. CASE k # l
    <3>1. k \in DOMAIN cmd'[c].seen =>
              k \in DOMAIN cmd[c].seen /\ cmd'[c].seen[k] = cmd[c].seen[k]
      BY <2>2, <2>3, <2>6
    <3> QED BY <1>2, <2>1, <2>4, <3>1 DEF ReadOf, Follows
  <2> QED BY <2>5, <2>6
<1>11. CASE PreviewDone(c)
  BY <1>1, <1>3, <1>11 DEF PreviewDone, Become
<1>12. CASE Check(c) /\ ~Finish(c)
  BY <1>12, ReadsCheck
<1>13. ASSUME cmd' = [cmd EXCEPT ![c] = [cmd[c] EXCEPT !.at = "written"]], cmd[c].at = "checked",
              UNCHANGED <<slot, confirmed>>
       PROVE ReadOf(c, k)'
  <2>1. /\ cmd'[c].at = "written" /\ cmd'[c].use = cmd[c].use /\ cmd'[c].edits = cmd[c].edits
        /\ cmd'[c].plan = cmd[c].plan /\ cmd'[c].granted = cmd[c].granted
        /\ cmd'[c].seen = cmd[c].seen
    BY <1>1, <1>13 DEF CommandRecords
  <2>2. ReadOf(c, k)
    BY <1>5, <1>13, <2>1
  <2> QED BY <1>2, <1>13, <2>1, <2>2 DEF ReadOf, Follows, Covered
<1>14. CASE Write(c) /\ ~Finish(c)
  BY <1>13, <1>14 DEF Write, Become
<1>15. CASE Configure(c)
  <2>1. /\ cmd'[c].at = "applying" /\ cmd'[c].use = cmd[c].use /\ cmd'[c].edits = cmd[c].edits
        /\ cmd'[c].plan = cmd[c].plan /\ cmd'[c].granted = cmd[c].granted
        /\ cmd'[c].seen = cmd[c].seen
        /\ cmd[c].at = "written" /\ UNCHANGED <<slot, confirmed>>
    BY <1>1, <1>15 DEF Configure, Become, CommandRecords
  <2>2. ReadOf(c, k)
    BY <1>5, <2>1
  <2> QED BY <1>2, <2>1, <2>2 DEF ReadOf, Follows, Covered
<1>16. CASE Finish(c)
  BY <1>1, <1>3, <1>16 DEF Finish, Become
<1> QED BY <1>6, <1>7, <1>8, <1>9, <1>10, <1>11, <1>12, <1>14, <1>15, <1>16
      DEF QuietStep, CommandFails, CatalogUnreadable, Applied

LEMMA ReadsApply ==
    ASSUME TypeInv, Shape, Holds, Reads, NEW c \in Commands, NEW k \in Kinds, BeginApply(c, k)
    PROVE Reads'
<1> SUFFICES ASSUME NEW d \in Commands, NEW j \in Held(d)' PROVE ReadOf(d, j)'
    BY DEF Reads
<1>1. UNCHANGED <<cmd, runtime, work, events, confirmed>>
  BY DEF BeginApply, liveVars
<1>2. j \in Held(d) /\ j \in Kinds /\ ReadOf(d, j)
  <2>1. j \in Held(d)
    BY <1>1 DEF Held
  <2> QED BY <2>1, HeldType DEF Reads
<1>3. slot'[j] \in {"idle", "stopping"} => slot[j] \in {"idle", "stopping"}
  BY <1>2 DEF BeginApply, TypeInv, TypeOK
<1> QED BY <1>1, <1>2, <1>3 DEF ReadOf, Follows, Covered

LEMMA ReadsMove ==
    ASSUME TypeInv, Shape, Holds, Slots, Reads, NEW k \in Kinds,
           StopRuntime(k) \/ StartRuntime(k) \/ ApplyFails(k)
    PROVE Reads'
<1> SUFFICES ASSUME NEW d \in Commands, NEW j \in Held(d)' PROVE ReadOf(d, j)'
    BY DEF Reads
<1>1. UNCHANGED <<cmd, owner, confirmed>>
  BY DEF StopRuntime, StartRuntime, ApplyFails
<1>2. j \in Held(d) /\ j \in Kinds /\ ReadOf(d, j) /\ owner[j] = d
  <2>1. j \in Held(d)
    BY <1>1 DEF Held
  <2> QED BY <2>1, HeldType DEF Reads, Holds
<1>3. CASE j = k
  <2>1. slot'[k] \in {"starting", "done"} /\ slot[k] # "idle"
    BY DEF StopRuntime, StartRuntime, ApplyFails, TypeInv, TypeOK
  <2>2. cmd[d].at = "applying"
    BY <1>2, <1>3, <2>1 DEF Slots, SlotOf
  <2> QED BY <1>1, <1>3, <2>1, <2>2 DEF ReadOf
<1>4. CASE j # k
  <2>1. /\ slot'[j] = slot[j] /\ runtime'[j] = runtime[j] /\ work'[j] = work[j]
        /\ events' = events
    BY <1>2, <1>4 DEF StopRuntime, StartRuntime, ApplyFails, TypeInv, TypeOK, liveVars
  <2> QED BY <1>1, <1>2, <2>1 DEF ReadOf, Follows, Covered
<1> QED BY <1>3, <1>4

LEMMA ReadsTurn ==
    ASSUME TypeInv, Shape, Holds, Slots, Reads, NEW k \in Kinds, NEW s \in Sessions,
           TurnStep(k, s)
    PROVE Reads'
<1> SUFFICES ASSUME NEW d \in Commands, NEW j \in Held(d)' PROVE ReadOf(d, j)'
    BY DEF Reads
<1>1. UNCHANGED <<runtime, slot, confirmed, cmd>>
  BY TurnKeeps DEF runtimeVars
<1>2. j \in Held(d) /\ j \in Kinds /\ ReadOf(d, j) /\ owner[j] = d
  <2>1. j \in Held(d)
    BY <1>1 DEF Held
  <2> QED BY <2>1, HeldType DEF Reads, Holds
<1>3. CASE cmd[d].at = "draining"
  BY <1>1, <1>3 DEF ReadOf
<1>4. CASE cmd[d].at # "draining"
  <2>1. ~TurnMayStart(j)
    BY <1>2, <1>4, ReviewAssumption DEF TurnMayStart, ReviewAssumption
  <2>2. ASSUME NEW t \in Sessions, Follows(d, j, t), j \in DOMAIN cmd[d].seen
        PROVE Follows(d, j, t)'
    <3>1. cmd[d].seen \in Seen /\ j \in DOMAIN cmd[d].seen
      BY <2>2 DEF TypeInv, TypeOK, CommandRecords
    <3>2. cmd[d].seen[j][t] \in Work
      BY <3>1, PartialElim DEF Seen
    <3>3. cmd[d].seen[j][t].episode \in Nat
      BY <3>2, ReviewAssumption DEF Work, ReviewAssumption
    <3>4. events[j][t] \in Nat /\ events'[j][t] \in Nat /\ work'[j][t].episode \in Nat
      <4>1. TypeInv'
        BY TypeLive
      <4>2. /\ events[j][t] \in 0 .. MaxEvents /\ events'[j][t] \in 0 .. MaxEvents
            /\ work'[j][t] \in Work
        BY <1>2, <4>1 DEF TypeInv, TypeOK
      <4> QED BY <4>2, ReviewAssumption DEF Work, ReviewAssumption
    <3>5. /\ events[j][t] <= events'[j][t]
          /\ Listed(work'[j][t]) => Listed(work[j][t])
          /\ work'[j][t].running =>
                \/ /\ work[j][t].running /\ work'[j][t].episode = work[j][t].episode
                   /\ work'[j][t].own = work[j][t].own
                \/ work'[j][t].own /\ events[j][t] < work'[j][t].episode
      BY <1>2, <2>1, TurnEffect
    <3>6. cmd'[d].seen = cmd[d].seen
      BY <1>1
    <3> QED BY <2>2, <3>3, <3>4, <3>5, <3>6 DEF Follows
  <2> QED BY <1>1, <1>2, <2>2 DEF ReadOf, Covered
<1> QED BY <1>3, <1>4

LEMMA ReadsStep == TypeInv /\ Shape /\ Holds /\ Slots /\ Reads /\ [Next]_vars => Reads'
<1>1. CASE UNCHANGED vars
  BY <1>1 DEF vars, runtimeVars, liveVars, Reads, ReadOf, Held, Follows, Covered
<1> QED BY <1>1, ReadsRequest, ReadsQuiet, ReadsApply, ReadsMove, ReadsTurn
      DEF TurnStep, Next, CommandStep, QuietStep

-----------------------------------------------------------------------------
(* The saved settings and the runtimes *)

LEMMA SavesInit == Init => Saves
<1> SUFFICES ASSUME Init, NEW k \in Kinds PROVE SavedOf(k)
    BY DEF Saves
<1>1. owner[k] = "none" /\ "none" \notin Commands
  BY ReviewAssumption DEF Init, ReviewAssumption
<1>2. condition[k] # "error" /\ slot[k] = "idle"
  BY DEF Init
<1>3. Matches(k)
  <2>1. saved[k] \in Setting
    BY SettingsAssumption DEF Init, SettingsAssumption
  <2>2. runtime[k] = (IF saved[k].enabled THEN 1 ELSE 0) /\ launched[k] = saved[k].path
    BY DEF Init
  <2> QED BY <2>1, <2>2 DEF Matches, Setting
<1> QED BY <1>1, <1>2, <1>3 DEF SavedOf, PlanIsSaved, Pending

\* The kinds of the others, when the step writes nothing about k that they see.
LEMMA SavesOther ==
    ASSUME Saves, NEW c \in Commands, Frame(c), NEW k \in Kinds, owner[k] \in Commands \ {c},
           saved'[k] = saved[k] \/ (saved[k].enabled = FALSE /\ saved'[k].enabled = FALSE),
           unapplied \subseteq unapplied'
    PROVE SavedOf(k)'
<1>1. /\ owner'[k] = owner[k] /\ slot'[k] = slot[k] /\ cmd'[owner[k]] = cmd[owner[k]]
      /\ UNCHANGED <<runtime, launched, condition>>
  BY DEF Frame
<1>2. SavedOf(k)
  BY DEF Saves
<1>4. Matches(k) => Matches(k)'
  BY <1>1 DEF Matches
<1>5. PlanIsSaved(k)'
  BY <1>1, <1>2 DEF SavedOf, PlanIsSaved, SameChoice
<1>6. Pending(k)' = Pending(k)
  BY <1>1 DEF Pending
<1> QED BY <1>1, <1>2, <1>4, <1>5, <1>6 DEF SavedOf

\* A kind that the command does not hold after a step that saves nothing new of it.
LEMMA SavesFree ==
    ASSUME TypeInv, Saves, Slots, NEW c \in Commands, Frame(c), NEW k \in Kinds,
           owner'[k] = "none", unapplied \subseteq unapplied',
           \/ k \in unapplied'
           \/ /\ ~Pending(k) /\ slot[k] \notin {"stopping", "starting"}
              /\ saved'[k] = saved[k] \/ (saved[k].enabled = FALSE /\ saved'[k].enabled = FALSE)
    PROVE SavedOf(k)'
<1>1. UNCHANGED <<runtime, launched, condition>> /\ "none" \notin Commands
  BY ReviewAssumption DEF Frame, ReviewAssumption
<1>2. SavedOf(k)
  BY DEF Saves
<1>4. PlanIsSaved(k)' /\ ~Pending(k)'
  BY <1>1 DEF PlanIsSaved, Pending
<1>5. CASE k \in unapplied'
  BY <1>4, <1>5 DEF SavedOf
<1>6. CASE /\ ~Pending(k) /\ slot[k] \notin {"stopping", "starting"}
           /\ saved'[k] = saved[k] \/ (saved[k].enabled = FALSE /\ saved'[k].enabled = FALSE)
  <2>1. Matches(k) => Matches(k)'
    BY <1>1, <1>6 DEF Matches
  <2>2. slot'[k] \notin {"stopping", "starting"}
    BY <1>6 DEF Frame
  <2> QED BY <1>1, <1>2, <1>4, <1>6, <2>1, <2>2 DEF SavedOf
<1> QED BY <1>5, <1>6

\* A kind that the command holds and whose slot did not move, before or after its write.
LEMMA SavesHeld ==
    ASSUME TypeInv, Saves, Slots, NEW c \in Commands, Frame(c), NEW k \in Kinds,
           owner'[k] = c, slot[k] = "idle", saved'[k] = saved[k], unapplied' = unapplied,
           Pending(k)' => Pending(k) /\ owner[k] = c /\ cmd'[c].plan = cmd[c].plan,
           Pending(k) => Pending(k)',
           PlanIsSaved(k)'
    PROVE SavedOf(k)'
<1>1. UNCHANGED <<runtime, launched, condition>> /\ slot'[k] = "idle"
  BY ReviewAssumption DEF Frame, ReviewAssumption
<1>2. SavedOf(k)
  BY DEF Saves
<1>4. Matches(k) => Matches(k)'
  BY <1>1 DEF Matches
<1> QED BY <1>1, <1>2, <1>4 DEF SavedOf

LEMMA SavesRequest ==
    ASSUME TypeInv, Shape, Holds, Slots, Saves, NEW c \in Commands, Request(c)
    PROVE Saves'
<1> SUFFICES ASSUME NEW k \in Kinds PROVE SavedOf(k)'
    BY DEF Saves
<1>1. /\ cmd \in [Commands -> CommandRecords] /\ Frame(c)
      /\ owner \in [Kinds -> Commands \cup {"none"}]
      /\ "none" \notin Commands
  BY RequestFrame, ReviewAssumption DEF TypeInv, TypeOK, ReviewAssumption
<1>2. UNCHANGED <<saved, unapplied>>
  BY DEF Request, Preview, RequestRestart, RequestSave, settingVars
<1>3. cmd[c].at = "idle" /\ cmd'[c].at \in {"reading", "draining", "drafted"} /\ owner[k] # c
  <2>1. cmd[c].at = "idle"
    BY DEF Request, Preview, RequestRestart, RequestSave, Idle
  <2>2. Held(c) = {}
    BY <2>1 DEF Shape, ShapeOf, Held
  <2>3. ASSUME NEW use, NEW plan, Preview(c, use, plan) PROVE cmd'[c].at = "reading"
    BY <1>1, <2>3 DEF Preview, Become, NoCommand
  <2>4. ASSUME NEW j, NEW token, RequestRestart(c, j, token) PROVE cmd'[c].at = "draining"
    BY <1>1, <2>4 DEF RequestRestart, Become, NoCommand
  <2>5. ASSUME NEW edits, NEW token, RequestSave(c, edits, token) PROVE cmd'[c].at = "drafted"
    BY <1>1, <2>5 DEF RequestSave, Become, NoCommand
  <2> QED BY <2>1, <2>2, <2>3, <2>4, <2>5 DEF Request, Holds
<1>4. CASE owner[k] # "none"
  BY <1>1, <1>2, <1>3, <1>4, SavesOther
<1>5. CASE owner[k] = "none"
  <2>1. slot[k] = "idle" /\ ~Pending(k)
    BY <1>1, <1>5 DEF Slots, SlotOf, Pending
  <2>2. CASE owner'[k] = "none"
    BY <1>1, <1>2, <2>1, <2>2, SavesFree
  <2>3. CASE owner'[k] = c
    <3>1. cmd'[c].use = "restart" /\ cmd'[c].at = "draining"
      <4>1. PICK j \in Kinds, token \in 1 .. issued : RequestRestart(c, j, token)
        BY <1>1, <1>5, <2>3 DEF Request, Preview, RequestSave
      <4> QED BY <1>1, <4>1 DEF RequestRestart, Become, NoCommand
    <3>2. PlanIsSaved(k)' /\ ~Pending(k)'
      BY <2>3, <3>1 DEF PlanIsSaved, Pending
    <3> QED BY <1>1, <1>2, <2>1, <2>3, <3>2, SavesHeld
  <2>4. owner'[k] \in {c, "none"}
    BY <1>1, <1>5 DEF Request, Preview, RequestRestart, RequestSave, Reserve
  <2> QED BY <2>2, <2>3, <2>4
<1> QED BY <1>4, <1>5

\* A step of the command that changes no settings: its record moves on, and so do its kinds.
LEMMA SavesQuietKept ==
    ASSUME TypeInv, Shape, Holds, Slots, Saves, NEW c \in Commands, QuietStep(c), ~Finish(c),
           ~ReserveSave(c), ~Write(c), ~Applied(c), ~PreviewDone(c), ~CommandFails(c),
           ~CatalogUnreadable(c), NEW k \in Kinds
    PROVE SavedOf(k)'
<1>1. /\ cmd \in [Commands -> CommandRecords] /\ cmd[c] \in CommandRecords /\ Frame(c)
      /\ owner \in [Kinds -> Commands \cup {"none"}]
      /\ "none" \notin Commands /\ ShapeOf(c)
  BY QuietFrame, ReviewAssumption
    DEF TypeInv, TypeOK, Shape, ReviewAssumption
<1>2. UNCHANGED <<saved, unapplied, owner>>
  BY DEF QuietStep, Drained, ReadSaved, ReadStatus, ListSessions, Check, Configure, settingVars
<1>3. CASE owner[k] \in Commands \ {c}
  BY <1>1, <1>2, <1>3, SavesOther
<1>4. CASE owner[k] = "none"
  <2>1. slot[k] = "idle" /\ ~Pending(k)
    BY <1>1, <1>4 DEF Slots, SlotOf, Pending
  <2> QED BY <1>1, <1>2, <1>4, <2>1, SavesFree
<1>5. CASE owner[k] = c
  <2>1. k \in Held(c)
    BY <1>5 DEF Holds
  <2>2. cmd[c].at # "applying" /\ cmd'[c].use = cmd[c].use
    <3>1. cmd[c].at # "applying"
      BY DEF QuietStep, Drained, ReadSaved, ReadStatus, ListSessions, Check, Configure, ReadDone
    <3>2. CASE Drained(c)
      BY <1>1, <3>2 DEF Drained, Become, CommandRecords
    <3>3. CASE ReadSaved(c)
      BY <1>1, <3>3 DEF ReadSaved, Become, CommandRecords
    <3>4. ASSUME NEW j, ReadStatus(c, j) PROVE cmd'[c].use = cmd[c].use
      BY <1>1, <3>4 DEF ReadStatus, Become, CommandRecords
    <3>5. CASE ListSessions(c)
      BY <1>1, <3>5 DEF ListSessions, Become, CommandRecords
    <3>6. CASE Check(c)
      <4>1. PICK granted : cmd' = [cmd EXCEPT ![c] = [cmd[c] EXCEPT
                                !.at = IF cmd[c].use = "save" THEN "checked" ELSE "applying",
                                !.granted = granted]]
        BY <3>6 DEF Check, Become
      <4> QED BY <1>1, <3>1, <4>1 DEF CommandRecords
    <3>7. CASE Configure(c)
      BY <1>1, <3>7 DEF Configure, Become, CommandRecords
    <3> QED BY <3>1, <3>2, <3>3, <3>4, <3>5, <3>6, <3>7 DEF QuietStep
  <2>3. slot[k] = "idle" /\ slot'[k] = "idle"
    BY <1>1, <1>2, <1>5, <2>2 DEF Slots, SlotOf, Frame
  <2>4. CASE Drained(c)
    <3>1. cmd[c].at = "draining" /\ cmd'[c].at \in {"reserved", "checked", "reading"}
      BY <1>1, <2>4 DEF Drained, Become, CommandRecords
    <3>2. cmd[c].use = "restart" => cmd'[c].at = "reserved"
      BY <1>1, <2>4 DEF Drained, Become, CommandRecords
    <3>3. PlanIsSaved(k)' /\ ~Pending(k)' /\ ~Pending(k)
      BY <1>2, <1>5, <2>2, <3>1, <3>2 DEF PlanIsSaved, Pending
    <3> QED BY <1>1, <1>2, <1>5, <2>3, <3>3, SavesHeld
  <2>5. CASE ReadSaved(c)
    <3>1. cmd[c].at = "reserved" /\ cmd[c].use = "restart"
      BY <1>1, <2>5 DEF ReadSaved, ShapeOf
    <3>2. k = Kind(c)
      BY <2>1, <3>1, RestartKind DEF Held
    <3>3. /\ cmd'[c].at = "reading" /\ cmd'[c].plan = PlanRestart(Kind(c), saved[Kind(c)])
          /\ cmd'[c].plan[k].setting = saved[k]
      BY <1>1, <2>5, <3>2 DEF ReadSaved, Become, CommandRecords, PlanRestart
    <3>4. PlanIsSaved(k)' /\ ~Pending(k)' /\ ~Pending(k)
      BY <1>2, <1>5, <2>2, <3>1, <3>3 DEF PlanIsSaved, Pending, SameChoice
    <3> QED BY <1>1, <1>2, <1>5, <2>3, <3>4, SavesHeld
  <2>6. ASSUME cmd[c].at \in {"reading", "listing"},
               cmd'[c].at \in {"reading", "listing", "checked", "applying"},
               cmd'[c].at = "applying" => cmd[c].use # "save", cmd'[c].plan = cmd[c].plan
        PROVE SavedOf(k)'
    <3>1. ~Pending(k) /\ ~Pending(k)'
      BY <1>2, <1>5, <2>2, <2>6 DEF Pending
    <3>2. PlanIsSaved(k)
      BY DEF Saves, SavedOf
    <3>3. PlanIsSaved(k)'
      BY <1>2, <1>5, <2>2, <2>6, <3>2 DEF PlanIsSaved
    <3> QED BY <1>1, <1>2, <1>5, <2>3, <3>1, <3>3, SavesHeld
  <2>7. ASSUME NEW j \in Kinds, ReadStatus(c, j) PROVE SavedOf(k)'
    <3>1. /\ cmd[c].at = "reading" /\ cmd'[c].at \in {"reading", "listing"}
          /\ cmd'[c].plan = cmd[c].plan
      BY <1>1, <2>7 DEF ReadStatus, Become, CommandRecords
    <3> QED BY <2>6, <3>1
  <2>8. CASE ListSessions(c)
    <3>1. cmd[c].at = "listing" /\ cmd'[c].at = "reading" /\ cmd'[c].plan = cmd[c].plan
      BY <1>1, <2>8 DEF ListSessions, Become, CommandRecords
    <3> QED BY <2>6, <3>1
  <2>9. CASE Check(c)
    <3>1. PICK granted : cmd' = [cmd EXCEPT ![c] = [cmd[c] EXCEPT
                              !.at = IF cmd[c].use = "save" THEN "checked" ELSE "applying",
                              !.granted = granted]]
      BY <2>9 DEF Check, Become
    <3>2. /\ cmd[c].at = "reading" /\ cmd'[c].plan = cmd[c].plan
          /\ cmd'[c].at = IF cmd[c].use = "save" THEN "checked" ELSE "applying"
      BY <1>1, <2>9, <3>1 DEF Check, ReadDone, CommandRecords
    <3> QED BY <2>6, <3>2
  <2>10. CASE Configure(c)
    <3>1. /\ cmd[c].at = "written" /\ cmd'[c].at = "applying" /\ cmd'[c].plan = cmd[c].plan
          /\ cmd[c].use = "save"
      BY <1>1, <2>10 DEF Configure, Become, CommandRecords, ShapeOf
    <3>2. PlanIsSaved(k) /\ Pending(k) /\ Pending(k)'
      BY <1>2, <1>5, <2>2, <2>3, <3>1 DEF Saves, SavedOf, Pending
    <3>3. PlanIsSaved(k)'
      BY <1>2, <1>5, <2>2, <3>1, <3>2 DEF PlanIsSaved
    <3> QED BY <1>1, <1>2, <1>5, <2>3, <3>1, <3>2, <3>3, SavesHeld
  <2> QED BY <2>4, <2>5, <2>7, <2>8, <2>9, <2>10 DEF QuietStep
<1> QED BY <1>1, <1>3, <1>4, <1>5

\* The command ends: nothing of it was written, its change is known to be unapplied, or every
\* slot of it is done.
LEMMA SavesFinish ==
    ASSUME TypeInv, Shape, Holds, Slots, Saves, NEW c \in Commands, QuietStep(c), Finish(c),
           NEW k \in Kinds
    PROVE SavedOf(k)'
<1>1. /\ cmd \in [Commands -> CommandRecords] /\ cmd[c] \in CommandRecords /\ Frame(c)
      /\ owner \in [Kinds -> Commands \cup {"none"}]
      /\ "none" \notin Commands /\ ShapeOf(c)
  BY QuietFrame, ReviewAssumption
    DEF TypeInv, TypeOK, Shape, ReviewAssumption
<1>2. cmd'[c].at = "idle"
  BY <1>1 DEF Finish, Become, NoCommand
<1>3. /\ cmd[c].at = "applying" => Applied(c)
      /\ cmd[c].at = "written" => CatalogUnreadable(c)
      /\ saved' = saved /\ unapplied \subseteq unapplied'
  <2>1. CASE Write(c)
    <3>1. cmd'[c] # [cmd[c] EXCEPT !.at = "written"]
      BY <1>1, <1>2 DEF CommandRecords
    <3>2. Become(c, [cmd[c] EXCEPT !.at = "written"]) =>
              cmd'[c] = [cmd[c] EXCEPT !.at = "written"]
      BY <1>1 DEF Become
    <3> QED BY <2>1, <3>1, <3>2 DEF Write
  <2>2. CASE ~Write(c)
    <3>1. CASE Configure(c)
      BY <1>1, <1>2, <3>1 DEF Configure, Become, CommandRecords
    <3> QED BY <2>2, <3>1 DEF QuietStep, ReserveSave, Drained, ReadSaved, CommandFails, ReadStatus,
              ListSessions, PreviewDone, Check, ReadDone, CatalogUnreadable, Applied, settingVars
  <2> QED BY <2>1, <2>2
<1>4. CASE owner[k] \in Commands \ {c}
  BY <1>1, <1>3, <1>4, SavesOther
<1>5. CASE owner[k] = "none"
  <2>1. slot[k] = "idle" /\ ~Pending(k) /\ owner'[k] = "none"
    BY <1>1, <1>5 DEF Slots, SlotOf, Pending, Finish
  <2> QED BY <1>1, <1>3, <1>5, <2>1, SavesFree
<1>6. CASE owner[k] = c
  <2>1. owner'[k] = "none" /\ k \in Held(c)
    BY <1>6 DEF Finish, Holds
  <2>2. CASE cmd[c].at = "applying"
    <3>1. k \in LifecycleKinds(cmd[c].plan)
      BY <2>1, <2>2, HeldType
    <3>2. slot[k] = "done"
      BY <1>3, <2>2, <3>1 DEF Applied
    <3> QED BY <1>1, <1>3, <2>1, <3>2, SavesFree DEF Pending
  <2>3. CASE cmd[c].at = "written"
    <3>1. k \in DOMAIN cmd[c].plan
      BY <1>1, <2>1, <2>3 DEF ShapeOf, Held, LifecycleKinds
    <3>2. k \in unapplied'
      BY <1>3, <2>3, <3>1 DEF CatalogUnreadable
    <3> QED BY <1>1, <1>3, <2>1, <3>2, SavesFree
  <2>4. CASE cmd[c].at \notin {"applying", "written"}
    <3>1. slot[k] = "idle" /\ ~Pending(k)
      BY <1>1, <1>6, <2>4 DEF Slots, SlotOf, Pending
    <3> QED BY <1>1, <1>3, <2>1, <3>1, SavesFree
  <2> QED BY <2>2, <2>3, <2>4
<1> QED BY <1>1, <1>4, <1>5, <1>6

\* Reserve the kinds of a save, or refuse it.
LEMMA SavesReserve ==
    ASSUME TypeInv, Shape, Holds, Slots, Saves, NEW c \in Commands,
           ReserveSave(c) \/ PreviewDone(c), NEW k \in Kinds
    PROVE SavedOf(k)'
<1>1. /\ cmd \in [Commands -> CommandRecords] /\ cmd[c] \in CommandRecords /\ Frame(c)
      /\ owner \in [Kinds -> Commands \cup {"none"}]
      /\ "none" \notin Commands /\ ShapeOf(c)
  BY QuietFrame, ReviewAssumption
    DEF TypeInv, TypeOK, Shape, ReviewAssumption, QuietStep
<1>2. UNCHANGED <<saved, unapplied>>
  BY DEF ReserveSave, PreviewDone, settingVars
<1>3. owner[k] # c
  <2>1. Held(c) = {}
    BY <1>1 DEF ReserveSave, PreviewDone, IsPreview, ShapeOf, Held
  <2> QED BY <2>1 DEF Holds
<1>4. CASE owner[k] # "none"
  BY <1>1, <1>2, <1>3, <1>4, SavesOther
<1>5. CASE owner[k] = "none"
  <2>1. slot[k] = "idle" /\ ~Pending(k) /\ owner'[k] \in {c, "none"}
    BY <1>1, <1>5 DEF Slots, SlotOf, Pending, ReserveSave, PreviewDone, Reserve
  <2>2. CASE owner'[k] = "none"
    BY <1>1, <1>2, <2>1, <2>2, SavesFree
  <2>3. CASE owner'[k] = c
    <3>1. cmd'[c].use = "save" /\ cmd'[c].at = "draining"
      BY <1>1, <1>5, <2>3 DEF ReserveSave, PreviewDone, Become, ShapeOf, CommandRecords
    <3>2. PlanIsSaved(k)' /\ ~Pending(k)'
      BY <2>3, <3>1 DEF PlanIsSaved, Pending
    <3> QED BY <1>1, <1>2, <2>1, <2>3, <3>2, SavesHeld
  <2> QED BY <2>1, <2>2, <2>3
<1> QED BY <1>4, <1>5

\* What a write saves: nothing new of a kind that the command does not hold, but the path of a
\* disabled one; and of the kinds it holds, the choice of its plan.
LEMMA WriteEffect ==
    ASSUME TypeInv, Shape, NEW c \in Commands, Write(c), ~Finish(c), NEW k \in Kinds
    PROVE /\ cmd[c].use = "save" /\ cmd[c].at = "checked"
          /\ k \notin LifecycleKinds(cmd[c].plan) =>
                saved'[k] = saved[k] \/ (saved[k].enabled = FALSE /\ saved'[k].enabled = FALSE)
          /\ k \in LifecycleKinds(cmd[c].plan) =>
                /\ saved'[k] = cmd[c].plan[k].setting
                /\ cmd[c].plan[k].effect = "start" => saved[k].enabled = FALSE
<1> DEFINE edits == cmd[c].edits
           plan == cmd[c].plan
<1>1. /\ cmd[c] \in CommandRecords /\ ShapeOf(c) /\ saved \in [Kinds -> Setting]
      /\ edits \in Partial(Setting)
  BY DEF TypeInv, TypeOK, Shape, CommandRecords
<1>2. /\ cmd[c].at = "checked" /\ cmd[c].use = "save" /\ cmd[c].draft \in [Kinds -> Setting]
      /\ plan = PlanSettingsChange(cmd[c].draft, edits)
  BY <1>1 DEF Write, ShapeOf
<1>3. /\ \A j \in DOMAIN edits : saved[j] = cmd[c].draft[j]
      /\ saved'[k] = IF k \in DOMAIN edits THEN edits[k] ELSE saved[k]
  BY DEF Write
<1>4. /\ DOMAIN plan = {j \in DOMAIN edits : edits[j] # cmd[c].draft[j]}
      /\ \A j \in DOMAIN edits : edits[j] # cmd[c].draft[j] =>
            plan[j] = [effect |-> LifecycleEffectFor(cmd[c].draft[j], edits[j]),
                       setting |-> edits[j]]
  <2>1. /\ DOMAIN PlanSettingsChange(cmd[c].draft, edits)
             = {j \in DOMAIN edits : edits[j] # cmd[c].draft[j]}
        /\ \A j \in DOMAIN edits : edits[j] # cmd[c].draft[j] =>
              PlanSettingsChange(cmd[c].draft, edits)[j]
                = [effect |-> LifecycleEffectFor(cmd[c].draft[j], edits[j]),
                   setting |-> edits[j]]
    BY <1>1, <1>2, PlanSettingsType
  <2> QED BY <1>2, <2>1
<1> HIDE DEF edits, plan
<1>5. CASE k \notin DOMAIN plan
  BY <1>2, <1>3, <1>4, <1>5 DEF LifecycleKinds, plan
<1>6. CASE k \in DOMAIN plan
  <2>1. /\ k \in DOMAIN edits /\ edits[k] # saved[k]
        /\ plan[k] = [effect |-> LifecycleEffectFor(saved[k], edits[k]), setting |-> edits[k]]
    BY <1>3, <1>4, <1>6
  <2>2. edits[k] \in Setting /\ saved[k] \in Setting
    BY <1>1, <2>1, PartialElim
  <2>3. plan[k].setting = edits[k] /\ plan[k].effect = LifecycleEffectFor(saved[k], edits[k])
    BY <2>1
  <2>4. plan[k].effect = "none" => edits[k].enabled = FALSE /\ saved[k].enabled = FALSE
    <3>1. saved[k].path = edits[k].path /\ saved[k].enabled = edits[k].enabled
            => saved[k] = edits[k]
      BY <2>2 DEF Setting
    <3> QED BY <2>1, <2>2, <2>3, <3>1 DEF LifecycleEffectFor, Setting
  <2>5. plan[k].effect = "start" => saved[k].enabled = FALSE
    BY <2>2, <2>3 DEF LifecycleEffectFor, Setting
  <2> QED BY <1>2, <1>3, <1>6, <2>1, <2>3, <2>4, <2>5 DEF LifecycleKinds, plan
<1> QED BY <1>5, <1>6

LEMMA SavesWrite ==
    ASSUME TypeInv, Shape, Holds, Slots, Saves, NEW c \in Commands, Write(c), ~Finish(c),
           NEW k \in Kinds
    PROVE SavedOf(k)'
<1>1. /\ cmd \in [Commands -> CommandRecords] /\ cmd[c] \in CommandRecords /\ Frame(c)
      /\ owner \in [Kinds -> Commands \cup {"none"}]
      /\ "none" \notin Commands /\ ShapeOf(c)
  BY QuietFrame, ReviewAssumption
    DEF TypeInv, TypeOK, Shape, ReviewAssumption, QuietStep
<1>2. /\ UNCHANGED <<unapplied, owner, slot>> /\ cmd'[c].at = "written"
      /\ cmd'[c].use = cmd[c].use /\ cmd'[c].plan = cmd[c].plan
  BY <1>1 DEF Write, Become, CommandRecords
<1>3. /\ cmd[c].use = "save" /\ cmd[c].at = "checked"
      /\ owner[k] # c => k \notin LifecycleKinds(cmd[c].plan)
      /\ owner[k] = c => k \in LifecycleKinds(cmd[c].plan)
  BY WriteEffect DEF Holds, Held
<1>4. CASE owner[k] \in Commands \ {c}
  BY <1>1, <1>2, <1>3, <1>4, WriteEffect, SavesOther
<1>5. CASE owner[k] = "none"
  <2>1. slot[k] = "idle" /\ ~Pending(k)
    BY <1>1, <1>5 DEF Slots, SlotOf, Pending
  <2> QED BY <1>1, <1>2, <1>3, <1>5, <2>1, WriteEffect, SavesFree
<1>6. CASE owner[k] = c
  <2>1. slot[k] = "idle" /\ ~Pending(k)
    BY <1>3, <1>6 DEF Slots, SlotOf, Pending
  <2>2. /\ saved'[k] = cmd[c].plan[k].setting
        /\ cmd[c].plan[k].effect = "start" => saved[k].enabled = FALSE
    BY <1>3, <1>6, WriteEffect
  <2>3. PlanIsSaved(k)' /\ Pending(k)'
    BY <1>2, <1>3, <1>6, <2>1, <2>2 DEF PlanIsSaved, Pending, SameChoice
  <2>4. SavedOf(k) /\ UNCHANGED <<runtime, condition>>
    BY <1>1 DEF Saves, Frame
  <2>6. k \notin unapplied /\ cmd[c].plan[k].effect = "start" =>
            condition[k] = "error" \/ runtime[k] = 0
    BY <2>1, <2>2, <2>4 DEF SavedOf, Matches
  <2> QED BY <1>2, <1>6, <2>1, <2>3, <2>4, <2>6 DEF SavedOf
<1> QED BY <1>1, <1>4, <1>5, <1>6

LEMMA SavesQuiet ==
    ASSUME TypeInv, Shape, Holds, Slots, Saves, NEW c \in Commands, QuietStep(c)
    PROVE Saves'
<1> SUFFICES ASSUME NEW k \in Kinds PROVE SavedOf(k)'
    BY DEF Saves
<1> QED BY SavesQuietKept, SavesFinish, SavesReserve, SavesWrite
      DEF Applied, CommandFails, CatalogUnreadable

\* The apply of a kind begins. What it stops was listed, or failed to stop before.
LEMMA SavesApply ==
    ASSUME TypeInv, Shape, Holds, Slots, Saves, NEW c \in Commands, NEW j \in Kinds,
           BeginApply(c, j)
    PROVE Saves'
<1> SUFFICES ASSUME NEW k \in Kinds PROVE SavedOf(k)'
    BY DEF Saves
<1>1. /\ slot \in [Kinds -> {"idle", "stopping", "starting", "done"}]
      /\ condition \in [Kinds -> {"ready", "disabled", "error"}]
      /\ saved \in [Kinds -> Setting]
      /\ UNCHANGED <<saved, unapplied, runtime, launched, owner, cmd>>
      /\ SavedOf(k) /\ ShapeOf(c)
  BY DEF TypeInv, TypeOK, BeginApply, liveVars, Saves, Shape
<1>2. Matches(k)' = Matches(k) /\ PlanIsSaved(k)' = PlanIsSaved(k)
  BY <1>1 DEF Matches, PlanIsSaved
<1>3. CASE k # j
  <2>1. slot'[k] = slot[k] /\ condition'[k] = condition[k]
    BY <1>1, <1>3 DEF BeginApply
  <2> QED BY <1>1, <1>2, <2>1 DEF SavedOf, Pending
<1>4. CASE k = j
  <2>1. /\ owner[k] = c /\ cmd[c].at = "applying" /\ slot[k] = "idle"
        /\ slot'[k] = IF runtime[k] # 0 THEN "stopping"
                      ELSE IF Target(k).enabled THEN "starting" ELSE "done"
        /\ condition'[k] = IF runtime[k] = 0 /\ ~Target(k).enabled THEN "disabled" ELSE condition[k]
    BY <1>1, <1>4 DEF BeginApply
  <2>2. k \in Held(c) /\ k \in LifecycleKinds(cmd[c].plan) /\ Target(k) \in Setting
    BY <2>1, TargetType
  <2>3. SameChoice(saved[k], Target(k)) /\ cmd[c].use \in {"restart", "save"}
    BY <1>1, <2>1 DEF SavedOf, PlanIsSaved, Target, ShapeOf
  <2>5. \/ StopsLiveWork(cmd[c].plan[k].effect)
        \/ cmd[c].plan[k].effect = "start" /\ cmd[c].use = "save"
    <3>1. cmd[c].plan \in Plans
      BY DEF TypeInv, TypeOK, CommandRecords
    <3>2. cmd[c].plan[k].effect \in Effects \ {"none"}
      BY <2>2, <3>1, LifecycleType DEF LifecycleKinds
    <3>3. cmd[c].use = "restart" => cmd[c].plan[k].effect \in {"restart", "stop"}
      BY <1>1, <2>1, <2>2 DEF ShapeOf, LifecycleKinds
    <3> QED BY <2>3, <3>2, <3>3 DEF Effects, StopsLiveWork
  <2>6. runtime[k] # 0 /\ k \notin unapplied =>
            condition[k] = "error" \/ StopsLiveWork(cmd[c].plan[k].effect)
    BY <1>1, <2>1, <2>5 DEF SavedOf, Pending
  <2>7. runtime[k] = 0 /\ ~Target(k).enabled => Matches(k)
    BY <1>1, <2>2, <2>3 DEF Matches, SameChoice, Setting
  <2>8. slot'[k] # "idle" /\ ~Pending(k)'
    BY <2>1 DEF Pending
  <2> QED BY <1>1, <1>2, <2>1, <2>6, <2>7, <2>8 DEF SavedOf
<1> QED BY <1>3, <1>4

LEMMA SavesMove ==
    ASSUME TypeInv, Shape, Holds, Slots, Saves, NEW j \in Kinds,
           StopRuntime(j) \/ StartRuntime(j) \/ ApplyFails(j)
    PROVE Saves'
<1> SUFFICES ASSUME NEW k \in Kinds PROVE SavedOf(k)'
    BY DEF Saves
<1>1. /\ slot \in [Kinds -> {"idle", "stopping", "starting", "done"}]
      /\ condition \in [Kinds -> {"ready", "disabled", "error"}]
      /\ saved \in [Kinds -> Setting] /\ unapplied \in SUBSET Kinds
      /\ runtime \in [Kinds -> 0 .. MaxStarts] /\ starts \in [Kinds -> 0 .. MaxStarts]
      /\ launched \in [Kinds -> Paths] /\ work \in [Kinds -> [Sessions -> Work]]
      /\ UNCHANGED <<saved, owner, cmd>>
      /\ SavedOf(k) /\ SlotOf(k)
  BY DEF TypeInv, TypeOK, StopRuntime, StartRuntime, ApplyFails, settingVars, Saves, Slots
<1>2. PlanIsSaved(k)' = PlanIsSaved(k)
  BY <1>1 DEF PlanIsSaved
<1>3. CASE k # j
  <2>1. /\ slot'[k] = slot[k] /\ condition'[k] = condition[k] /\ runtime'[k] = runtime[k]
        /\ launched'[k] = launched[k] /\ work'[k] = work[k]
        /\ k \in unapplied' <=> k \in unapplied
    BY <1>1, <1>3 DEF StopRuntime, StartRuntime, ApplyFails, liveVars, settingVars
  <2> QED BY <1>1, <1>2, <2>1 DEF SavedOf, Pending, Matches
<1>4. CASE k = j
  <2>1. slot[k] \in {"stopping", "starting"} /\ slot'[k] \in {"starting", "done"}
    BY <1>1, <1>4 DEF StopRuntime, StartRuntime, ApplyFails
  <2>2. owner[k] \in Commands /\ cmd[owner[k]].at = "applying" /\ ~Pending(k)'
    BY <1>1, <2>1 DEF SlotOf, Pending
  <2>3. SameChoice(saved[k], Target(k)) /\ Target(k) \in Setting
    <3>1. cmd[owner[k]].use \in {"restart", "save"}
      BY <2>2 DEF Shape, ShapeOf
    <3> QED BY <1>1, <2>2, <3>1, TargetType DEF SavedOf, PlanIsSaved, Target
  <2>4. CASE StopRuntime(k)
    <3>1. /\ slot'[k] = IF Target(k).enabled THEN "starting" ELSE "done"
          /\ runtime'[k] = 0
          /\ \A s \in Sessions : work'[k][s] = NoWork
      BY <1>1, <2>4 DEF StopRuntime
    <3>3. Target(k).enabled = FALSE => Matches(k)'
      BY <1>1, <2>3, <3>1 DEF Matches, SameChoice
    <3>4. Target(k).enabled \in BOOLEAN
      BY <2>3 DEF Setting
    <3> QED BY <1>1, <1>2, <2>2, <3>1, <3>3, <3>4 DEF SavedOf
  <2>5. CASE StartRuntime(k)
    <3>1. /\ slot'[k] = "done" /\ slot[k] = "starting" /\ condition'[k] = "ready"
          /\ runtime'[k] = starts[k] + 1 /\ launched'[k] = Target(k).path
      BY <1>1, <2>5 DEF StartRuntime
    <3>2. runtime'[k] # 0
      BY <1>1, <3>1, ReviewAssumption DEF ReviewAssumption
    <3>3. saved[k].enabled = TRUE /\ saved[k].path = Target(k).path
      BY <1>1, <2>3, <3>1 DEF SlotOf, SameChoice, Setting
    <3>4. Matches(k)'
      BY <1>1, <3>1, <3>2, <3>3 DEF Matches
    <3> QED BY <1>1, <1>2, <2>2, <3>1, <3>4 DEF SavedOf
  <2>6. CASE ApplyFails(k)
    <3>1. /\ slot'[k] = "done" /\ condition'[k] = "error"
          /\ UNCHANGED <<runtime, work, unapplied>>
      BY <1>1, <2>6 DEF ApplyFails, liveVars, settingVars
    <3> QED BY <1>1, <1>2, <2>2, <3>1 DEF SavedOf
  <2> QED BY <1>4, <2>4, <2>5, <2>6
<1> QED BY <1>3, <1>4

LEMMA SavesTurn ==
    ASSUME TypeInv, Shape, Holds, Slots, Saves, NEW j \in Kinds, NEW s \in Sessions,
           TurnStep(j, s)
    PROVE Saves'
<1> SUFFICES ASSUME NEW k \in Kinds PROVE SavedOf(k)'
    BY DEF Saves
<1>1. /\ UNCHANGED <<saved, unapplied, runtime, launched, condition, owner, slot, cmd>>
      /\ SavedOf(k)
  BY TurnKeeps DEF settingVars, runtimeVars, Saves
<1>2. /\ Matches(k)' = Matches(k) /\ PlanIsSaved(k)' = PlanIsSaved(k)
      /\ Pending(k)' = Pending(k)
  BY <1>1 DEF Matches, PlanIsSaved, Pending
<1> QED BY <1>1, <1>2 DEF SavedOf

LEMMA SavesStep ==
    TypeInv /\ Shape /\ Holds /\ Slots /\ Saves /\ [Next]_vars => Saves'
<1>1. CASE UNCHANGED vars
  BY <1>1 DEF vars, settingVars, runtimeVars, liveVars, Saves, SavedOf, PlanIsSaved, Pending,
              Matches
<1> QED BY <1>1, SavesRequest, SavesQuiet, SavesApply, SavesMove, SavesTurn
      DEF TurnStep, Next, CommandStep, QuietStep

-----------------------------------------------------------------------------
(* The theorems *)

ReviewInv == TypeInv /\ Shape /\ Holds /\ Slots /\ Reads /\ Saves

LEMMA ReviewInvariant == Spec => []ReviewInv
<1>1. Init => ReviewInv
  BY TypeInit, ShapeInit, HoldsInit, SlotsInit, ReadsInit, SavesInit DEF ReviewInv
<1>2. ReviewInv /\ [Next]_vars => ReviewInv'
  BY TypeStep, ShapeStep, HoldsStep, SlotsStep, ReadsStep, SavesStep DEF ReviewInv
<1> QED BY <1>1, <1>2, PTL DEF Spec

\* Every reachable state is type-correct; in particular, no more than MaxReviews confirmations
\* are stored, however many previews and commands issue them.
THEOREM TypeCorrect == Spec => []TypeOK
<1>1. ReviewInv => TypeOK
  BY DEF ReviewInv, TypeInv
<1> QED BY <1>1, ReviewInvariant, PTL

\* A restart or a save cuts off the turns that its accepted review named, and beside them only
\* turns that the runtime began by itself, in a session of that review, after the command listed
\* it. An enabling stops a runtime only where the saved stop was not applied or failed.
THEOREM StoppedTurnsWereReviewed == Spec => []OnlyReviewedTurnsStop
<1>1. ReviewInv => OnlyReviewedTurnsStop
  <2> SUFFICES ASSUME ReviewInv, NEW k \in Kinds, slot[k] = "stopping"
               PROVE IF StopsLiveWork(cmd[owner[k]].plan[k].effect)
                     THEN \A s \in Sessions :
                             work[k][s].running => Reviewed(k, s) \/ OwnAfterListing(k, s)
                     ELSE k \in unapplied \/ condition[k] = "error"
      BY DEF OnlyReviewedTurnsStop
  <2>1. owner[k] \in Commands /\ cmd[owner[k]].at = "applying" /\ SlotOf(k) /\ SavedOf(k)
    BY DEF ReviewInv, Slots, SlotOf, Saves
  <2>2. ReadOf(owner[k], k)
    BY <2>1, TargetType DEF ReviewInv, Reads
  <2>3. ASSUME StopsLiveWork(cmd[owner[k]].plan[k].effect), NEW s \in Sessions,
               work[k][s].running
        PROVE Reviewed(k, s) \/ OwnAfterListing(k, s)
    <3>1. Follows(owner[k], k, s) /\ Covered(owner[k], k, s)
      BY <2>1, <2>2, <2>3 DEF ReadOf
    <3>2. Listed(work[k][s])
      BY <2>1, <2>3 DEF SlotOf, Listed
    <3> QED BY <2>3, <3>1, <3>2 DEF Follows, Covered, Reviewed, OwnAfterListing
  <2>4. CASE ~StopsLiveWork(cmd[owner[k]].plan[k].effect)
    BY <2>1, <2>4 DEF SavedOf
  <2> QED BY <2>3, <2>4
<1> QED BY <1>1, ReviewInvariant, PTL

\* The runtime that a command stops is the one that the accepted review named.
THEOREM StoppedRuntimesWereReviewed == Spec => []ReviewedRuntimeStops
<1>1. ReviewInv => ReviewedRuntimeStops
  <2> SUFFICES ASSUME ReviewInv, NEW k \in Kinds, slot[k] = "stopping"
               PROVE cmd[owner[k]].granted[k] = runtime[k]
      BY DEF ReviewedRuntimeStops
  <2>1. owner[k] \in Commands /\ cmd[owner[k]].at = "applying"
    BY DEF ReviewInv, Slots, SlotOf
  <2>2. k \in Held(owner[k])
    BY <2>1, TargetType DEF ReviewInv
  <2> QED BY <2>1, <2>2 DEF ReviewInv, Reads, ReadOf
<1> QED BY <1>1, ReviewInvariant, PTL

\* A free kind without an error and without an unapplied change runs exactly what is saved.
THEOREM RuntimesMatchSettings == Spec => []RunningMatchesSaved
<1>1. ReviewInv => RunningMatchesSaved
  BY ReviewAssumption
    DEF ReviewInv, Saves, SavedOf, Slots, SlotOf, Pending, Matches, RunningMatchesSaved,
        ReviewAssumption
<1> QED BY <1>1, ReviewInvariant, PTL

=============================================================================
