---------------------------- MODULE RuntimeReview ----------------------------
(***************************************************************************)
(* How users change the shared runtimes: restart and settings save, with a *)
(* review of the live sessions that the change stops                       *)
(* (runtime-orchestrator, runtime-impact-review, runtime-lifecycle-plan    *)
(* and the host's host-runtime-service).                                   *)
(*                                                                         *)
(* A preview reads the impact of a change and returns a single-use         *)
(* confirmation bound to what it read. The command reserves the kinds,     *)
(* reads the impact again, compares it with the confirmed one and only     *)
(* then writes the settings and stops or starts runtimes. Meanwhile turns  *)
(* run, ask for input and end, and other commands save other settings.     *)
(* A step is one synchronous block between two awaits. Slots are reduced   *)
(* to the outcome of each stop and start (RuntimeRegistry has the rest).   *)
(*                                                                         *)
(* A definition under a comment that begins with FAULT is a plausible bug  *)
(* of the definition that follows it.                                      *)
(***************************************************************************)
EXTENDS Naturals, FiniteSets

CONSTANTS
    Kinds,        \* the runtime kinds
    Paths,        \* executable paths
    Sessions,     \* sessions of each kind
    Commands,     \* concurrent callers of previews, restarts and saves
    MaxReviews,   \* MAX_REVIEWS of runtime-impact-review
    MaxCalls,     \* bound: commands and previews in one behaviour
    MaxStarts,    \* bound: runtime starts per kind
    MaxEvents,    \* bound: turns and input requests per session
    EventBound,   \* bound: the same per kind, at most MaxEvents
    Initial,      \* the settings that may be saved at first
    EditSets      \* the edits that a save may make

ASSUME ReviewAssumption ==
    /\ MaxReviews \in Nat \ {0}
    /\ MaxCalls \in Nat /\ MaxStarts \in Nat \ {0} /\ MaxEvents \in Nat
    /\ EventBound \in [Kinds -> 0 .. MaxEvents]
    /\ "none" \notin Commands

VARIABLES
    saved,      \* the saved settings of each kind
    shown,      \* the settings that the published status of each kind names
    runtime,    \* the runtime id that each kind runs, 0 for null
    launched,   \* the path that it was started with
    starts, condition, owner, slot,
    work,       \* the live sessions of each kind
    events,     \* turns and requests of each session so far
    reviews,    \* the confirmations that are not used or evicted, by token
    issued,     \* the number of tokens issued
    calls, cmd,
    \* History: kinds whose saved change was not applied, and of each session the turns, the
    \* last one of an idle session too, that an accepted review named.
    unapplied, confirmed

runtimeVars == <<runtime, launched, starts, condition>>
liveVars == <<work, events>>
reviewVars == <<reviews, issued>>
settingVars == <<saved, shown, unapplied>>
vars == <<settingVars, runtimeVars, owner, slot, liveVars, reviewVars, confirmed, calls, cmd>>

-----------------------------------------------------------------------------
(* Settings and plans *)

Setting == [enabled : BOOLEAN, path : Paths]
Partial(S) == UNION {[ks -> S] : ks \in SUBSET Kinds}
Nothing == [k \in {} |-> k]

ASSUME SettingsAssumption ==
    /\ Initial \subseteq [Kinds -> Setting]
    /\ EditSets \subseteq Partial(Setting) \ {Nothing}

Effects == {"none", "start", "stop", "replace", "restart"}
Plans == Partial([effect : Effects, setting : Setting])

\* lifecycleEffectFor: "none" when only a setting changes.
LifecycleEffectFor(before, after) ==
    CASE before.enabled /\ ~after.enabled -> "stop"
      [] ~before.enabled /\ after.enabled -> "start"
      [] before.enabled /\ after.enabled /\ before.path # after.path -> "replace"
      [] OTHER -> "none"

\* planSettingsChange: the kinds that the edits change.
PlanSettingsChange(current, edits) ==
    [k \in {j \in DOMAIN edits : edits[j] # current[j]} |->
        [effect |-> LifecycleEffectFor(current[k], edits[k]), setting |-> edits[k]]]

\* planRestart: a disabled kind can only finish a saved stop.
PlanRestart(k, setting) ==
    [j \in {k} |-> [effect |-> IF setting.enabled THEN "restart" ELSE "stop", setting |-> setting]]

LifecycleKinds(plan) == {k \in DOMAIN plan : plan[k].effect # "none"}
StopsLiveWork(effect) == effect \in {"stop", "replace", "restart"}

-----------------------------------------------------------------------------
(* Reviews *)

\* "own" is history: the runtime began the running turn by itself.
Work == [running : BOOLEAN, episode : 0 .. MaxEvents, pending : 0 .. MaxEvents, own : BOOLEAN]
NoWork == [running |-> FALSE, episode |-> 0, pending |-> 0, own |-> FALSE]   \* no live session
Listed(w) == w.episode # 0

\* The action keys: a restart is bound to its kind, a save to its exact plan.
ActionKeys == [type : {"restart", "save"}, kinds : SUBSET Kinds, plan : Plans]
ActionKey(type, plan) ==
    [type |-> type, kinds |-> DOMAIN plan, plan |-> IF type = "save" THEN plan ELSE Nothing]

Ids == Partial(0 .. MaxStarts)
Seen == Partial([Sessions -> Work])
Reviews == [key : ActionKeys, ids : Ids, seen : Seen]

\* FAULT: a new turn of a reviewed session counts as the reviewed one.
WithinReviewAnyTurn(current, reviewed) ==
    /\ current.running => reviewed.running
    /\ current.pending # 0 => current.pending = reviewed.pending

\* withinReview: the same running turn, and no new request for input.
WithinReview(current, reviewed) ==
    /\ current.running => reviewed.running /\ current.episode = reviewed.episode
    /\ current.pending # 0 => current.pending = reviewed.pending

\* FAULT: the runtime ids of the review are not compared.
AcceptsAnyRuntime(reviewed, current) ==
    /\ reviewed.key = current.key
    /\ \A k \in DOMAIN current.seen : \A s \in Sessions :
          Listed(current.seen[k][s]) =>
              /\ k \in DOMAIN reviewed.seen
              /\ Listed(reviewed.seen[k][s])
              /\ WithinReview(current.seen[k][s], reviewed.seen[k][s])

\* confirmations.accept: the same action, the same runtimes, no new session and no new work.
Accepts(reviewed, current) ==
    /\ reviewed.key = current.key
    /\ reviewed.ids = current.ids
    /\ \A k \in DOMAIN current.seen : \A s \in Sessions :
          Listed(current.seen[k][s]) =>
              /\ k \in DOMAIN reviewed.seen
              /\ Listed(reviewed.seen[k][s])
              /\ WithinReview(current.seen[k][s], reviewed.seen[k][s])

\* The stored reviews after accept(token): used up, also by an action that it does not match.
AfterAccept(store, token) == [t \in DOMAIN store \ {token} |-> store[t]]

\* FAULT: the store is not bounded.
AfterIssueUnbounded(store, token, review) ==
    [t \in DOMAIN store \cup {token} |-> IF t = token THEN review ELSE store[t]]

\* confirmations.issue: stores the review and forgets the oldest ones.
AfterIssue(store, token, review) ==
    LET all == DOMAIN store \cup {token}
        kept == {t \in all : Cardinality({u \in all : u > t}) < MaxReviews}
    IN  [t \in kept |-> IF t = token THEN review ELSE store[t]]

-----------------------------------------------------------------------------
(* State *)

Uses == {"none", "restart", "save", "previewRestart", "previewSave"}
Places == {"idle", "drafted", "draining", "reserved", "reading", "listing",
           "checked", "written", "applying"}

NoCommand == [at |-> "idle", use |-> "none", edits |-> Nothing, draft |-> Nothing,
              plan |-> Nothing, left |-> {}, listing |-> "none", ids |-> Nothing,
              seen |-> Nothing, token |-> 0, granted |-> Nothing]

CommandRecords ==
    [at : Places, use : Uses, edits : Partial(Setting), draft : Partial(Setting), plan : Plans,
     left : SUBSET Kinds, listing : Kinds \cup {"none"}, ids : Ids, seen : Seen,
     token : 0 .. MaxCalls,
     granted : Ids]    \* history: the runtimes of the review that let the command act

TypeOK ==
    /\ saved \in [Kinds -> Setting] /\ shown \in [Kinds -> Setting]
    /\ unapplied \in SUBSET Kinds
    /\ runtime \in [Kinds -> 0 .. MaxStarts] /\ launched \in [Kinds -> Paths]
    /\ starts \in [Kinds -> 0 .. MaxStarts]
    /\ condition \in [Kinds -> {"ready", "disabled", "error"}]
    /\ owner \in [Kinds -> Commands \cup {"none"}]
    /\ slot \in [Kinds -> {"idle", "stopping", "starting", "done"}]
    /\ work \in [Kinds -> [Sessions -> Work]]
    /\ events \in [Kinds -> [Sessions -> 0 .. MaxEvents]]
    /\ issued \in 0 .. MaxCalls
    /\ \A t \in DOMAIN reviews : t \in 1 .. issued /\ reviews[t] \in Reviews
    /\ Cardinality(DOMAIN reviews) <= MaxReviews
    /\ calls \in 0 .. MaxCalls
    /\ cmd \in [Commands -> CommandRecords]
    /\ confirmed \in [Kinds -> [Sessions -> SUBSET (1 .. MaxEvents)]]

\* An initialised host: each enabled kind runs the saved executable.
Init ==
    /\ saved \in Initial
    /\ shown = saved
    /\ runtime = [k \in Kinds |-> IF saved[k].enabled THEN 1 ELSE 0]
    /\ launched = [k \in Kinds |-> saved[k].path]
    /\ starts = runtime
    /\ condition = [k \in Kinds |-> IF saved[k].enabled THEN "ready" ELSE "disabled"]
    /\ owner = [k \in Kinds |-> "none"]
    /\ slot = [k \in Kinds |-> "idle"]
    /\ work = [k \in Kinds |-> [s \in Sessions |-> NoWork]]
    /\ events = [k \in Kinds |-> [s \in Sessions |-> 0]]
    /\ reviews = Nothing
    /\ issued = 0
    /\ calls = 0
    /\ cmd = [c \in Commands |-> NoCommand]
    /\ unapplied = {}
    /\ confirmed = [k \in Kinds |-> [s \in Sessions |-> {}]]

-----------------------------------------------------------------------------
(* Live sessions. Controls start turns; the runtime begins turns of its own in a live session, *)
(* asks for input and ends turns.                                                              *)

\* Controls are admitted while the kind is unreserved; admitted ones go on while it drains.
TurnMayStart(k) ==
    /\ runtime[k] # 0 /\ condition[k] = "ready"
    /\ IF owner[k] = "none" THEN TRUE ELSE cmd[owner[k]].at = "draining"

\* The next episode of a session.
BeginTurn(k, s, own) ==
    /\ ~work[k][s].running
    /\ events[k][s] < EventBound[k]
    /\ events' = [events EXCEPT ![k][s] = @ + 1]
    /\ work' = [work EXCEPT ![k][s] = [running |-> TRUE, episode |-> events[k][s] + 1,
                                        pending |-> 0, own |-> own]]
    /\ UNCHANGED <<settingVars, runtimeVars, owner, slot, reviewVars, confirmed, calls, cmd>>

\* A user's message starts a turn.
StartTurn(k, s) == TurnMayStart(k) /\ BeginTurn(k, s, FALSE)

\* The runtime begins a foreground turn by itself: no control, so no reservation holds it back.
OwnTurn(k, s) ==
    /\ runtime[k] # 0 /\ Listed(work[k][s])
    /\ BeginTurn(k, s, TRUE)

\* The runtime asks for an approval or an answer.
AskInput(k, s) ==
    /\ work[k][s].running /\ work[k][s].pending = 0
    /\ events[k][s] < EventBound[k]
    /\ events' = [events EXCEPT ![k][s] = @ + 1]
    /\ work' = [work EXCEPT ![k][s].pending = events'[k][s]]
    /\ UNCHANGED <<settingVars, runtimeVars, owner, slot, reviewVars, confirmed, calls, cmd>>

\* The turn ends, or the session closes.
EndTurn(k, s) ==
    /\ Listed(work[k][s])
    /\ \/ work' = [work EXCEPT ![k][s] = NoWork]
       \/ /\ work[k][s].running
          /\ work' = [work EXCEPT ![k][s].running = FALSE, ![k][s].pending = 0, ![k][s].own = FALSE]
    /\ UNCHANGED <<settingVars, runtimeVars, owner, slot, events, reviewVars, confirmed, calls, cmd>>

-----------------------------------------------------------------------------
(* Commands *)

Idle(c) == cmd[c].at = "idle" /\ calls < MaxCalls
Become(c, record) == cmd' = [cmd EXCEPT ![c] = record]
IsPreview(c) == cmd[c].use \in {"previewRestart", "previewSave"}
Kind(c) == CHOOSE k \in DOMAIN cmd[c].edits : TRUE     \* the kind of a restart

\* The command ends: release the kinds that it reserved.
Finish(c) ==
    /\ Become(c, NoCommand)
    /\ owner' = [k \in Kinds |-> IF owner[k] = c THEN "none" ELSE owner[k]]
    /\ slot' = [k \in Kinds |-> IF owner[k] = c THEN "idle" ELSE slot[k]]

Reserve(c, kinds) ==
    /\ \A k \in kinds : owner[k] = "none"
    /\ owner' = [k \in Kinds |-> IF k \in kinds THEN c ELSE owner[k]]

\* restartImpact and previewSettings: plan from the saved settings, then read the impact.
Preview(c, use, plan) ==
    /\ Idle(c)
    /\ LifecycleKinds(plan) # {}
    /\ calls' = calls + 1
    /\ Become(c, [NoCommand EXCEPT !.at = "reading", !.use = use, !.plan = plan,
                                   !.left = LifecycleKinds(plan)])
    /\ UNCHANGED <<settingVars, runtimeVars, owner, slot, liveVars, reviewVars, confirmed>>

\* restart: reserve the kind. A reserved kind refuses the command.
RequestRestart(c, k, token) ==
    /\ Idle(c)
    /\ Reserve(c, {k})
    /\ calls' = calls + 1
    /\ Become(c, [NoCommand EXCEPT !.at = "draining", !.use = "restart", !.token = token,
                                   !.edits = [j \in {k} |-> saved[k]]])
    /\ UNCHANGED <<settingVars, runtimeVars, slot, liveVars, reviewVars, confirmed>>

\* saveSettings: prepareSettingsSnapshot read the saved settings.
RequestSave(c, edits, token) ==
    /\ Idle(c)
    /\ calls' = calls + 1
    /\ Become(c, [NoCommand EXCEPT !.at = "drafted", !.use = "save", !.token = token,
                                   !.edits = edits, !.draft = saved,
                                   !.plan = PlanSettingsChange(saved, edits)])
    /\ UNCHANGED <<settingVars, runtimeVars, owner, slot, liveVars, reviewVars, confirmed>>

\* Reserve the kinds whose runtime changes: all of them, or the save is refused.
ReserveSave(c) ==
    /\ cmd[c].at = "drafted"
    /\ IF \A k \in LifecycleKinds(cmd[c].plan) : owner[k] = "none"
       THEN Reserve(c, LifecycleKinds(cmd[c].plan)) /\ Become(c, [cmd[c] EXCEPT !.at = "draining"])
       ELSE UNCHANGED owner /\ Become(c, NoCommand)
    /\ UNCHANGED <<settingVars, runtimeVars, slot, liveVars, reviewVars, confirmed, calls>>

\* The admitted controls ended. A save without a lifecycle change needs no check.
Drained(c) ==
    /\ cmd[c].at = "draining"
    /\ LET lifecycle == LifecycleKinds(cmd[c].plan) IN
       Become(c, IF cmd[c].use = "restart" THEN [cmd[c] EXCEPT !.at = "reserved"]
                 ELSE IF lifecycle = {}    THEN [cmd[c] EXCEPT !.at = "checked"]
                 ELSE [cmd[c] EXCEPT !.at = "reading", !.left = lifecycle])
    /\ UNCHANGED <<settingVars, runtimeVars, owner, slot, liveVars, reviewVars, confirmed, calls>>

\* restart reads the saved choice under the reservation.
ReadSaved(c) ==
    /\ cmd[c].at = "reserved"
    /\ LET plan == PlanRestart(Kind(c), saved[Kind(c)]) IN
       Become(c, [cmd[c] EXCEPT !.at = "reading", !.plan = plan, !.left = DOMAIN plan])
    /\ UNCHANGED <<settingVars, runtimeVars, owner, slot, liveVars, reviewVars, confirmed, calls>>

\* The command fails before it changes anything: an invalid executable, a failed read of the
\* settings, the sessions or the workspaces, or a failed write.
CommandFails(c) ==
    /\ cmd[c].at \in {"reserved", "reading", "listing", "checked"}
    /\ Finish(c)
    /\ UNCHANGED <<settingVars, runtimeVars, liveVars, reviewVars, confirmed, calls>>

-----------------------------------------------------------------------------
(* readImpact and its decision *)

\* f, with the value v at k.
Extend(f, k, v) == [j \in DOMAIN f \cup {k} |-> IF j = k THEN v ELSE f[j]]

\* The next kind: its runtime id, then (when the change stops live work) its sessions.
ReadStatus(c, k) ==
    /\ cmd[c].at = "reading" /\ k \in cmd[c].left
    /\ Become(c, [cmd[c] EXCEPT !.left = @ \ {k}, !.ids = Extend(@, k, runtime[k]),
                                !.at = IF StopsLiveWork(cmd[c].plan[k].effect) THEN "listing" ELSE @,
                                !.listing = IF StopsLiveWork(cmd[c].plan[k].effect) THEN k ELSE @])
    /\ UNCHANGED <<settingVars, runtimeVars, owner, slot, liveVars, reviewVars, confirmed, calls>>

ListSessions(c) ==
    /\ cmd[c].at = "listing"
    /\ Become(c, [cmd[c] EXCEPT !.at = "reading", !.listing = "none",
                                !.seen = Extend(@, cmd[c].listing, work[cmd[c].listing])])
    /\ UNCHANGED <<settingVars, runtimeVars, owner, slot, liveVars, reviewVars, confirmed, calls>>

ReadDone(c) == cmd[c].at = "reading" /\ cmd[c].left = {}
Impact(c) ==
    [key |-> ActionKey(IF cmd[c].use \in {"restart", "previewRestart"} THEN "restart" ELSE "save",
                       cmd[c].plan),
     ids |-> cmd[c].ids, seen |-> cmd[c].seen]

\* The change stops live sessions.
HasSessions(c) == \E k \in DOMAIN cmd[c].seen : \E s \in Sessions : Listed(cmd[c].seen[k][s])

\* A preview issues a confirmation of what it read.
PreviewDone(c) ==
    /\ ReadDone(c) /\ IsPreview(c)
    /\ issued' = issued + 1
    /\ reviews' = AfterIssue(reviews, issued + 1, Impact(c))
    /\ Become(c, NoCommand)
    /\ UNCHANGED <<settingVars, runtimeVars, owner, slot, liveVars, confirmed, calls>>

\* The check of a restart or a save. readImpact issues a new confirmation first. A save that
\* affects no session needs none; otherwise the given confirmation must cover the impact.
Check(c) ==
    LET impact == Impact(c)
        store == AfterIssue(reviews, issued + 1, impact)
        token == cmd[c].token
        needed == cmd[c].use = "restart" \/ HasSessions(c)
        accepted == token \in DOMAIN store /\ Accepts(store[token], impact)
    IN
    /\ ReadDone(c) /\ ~IsPreview(c)
    /\ issued' = issued + 1
    /\ reviews' = IF needed THEN AfterAccept(store, token) ELSE store
    /\ confirmed' = [k \in Kinds |-> [s \in Sessions |->
           IF needed /\ accepted /\ k \in DOMAIN store[token].seen
           THEN confirmed[k][s] \cup ({store[token].seen[k][s].episode} \ {0})
           ELSE confirmed[k][s]]]
    /\ IF needed => accepted
       THEN /\ Become(c, [cmd[c] EXCEPT !.at = IF cmd[c].use = "save" THEN "checked" ELSE "applying",
                                        !.granted = IF needed THEN store[token].ids ELSE cmd[c].ids])
            /\ UNCHANGED <<owner, slot>>
       ELSE Finish(c)
    /\ UNCHANGED <<settingVars, runtimeVars, liveVars, calls>>

-----------------------------------------------------------------------------
(* The settings write *)

\* FAULT: the write does not compare the saved settings with the draft.
WriteUnchecked(c) ==
    /\ cmd[c].at = "checked"
    /\ saved' = [k \in Kinds |-> IF k \in DOMAIN cmd[c].edits THEN cmd[c].edits[k] ELSE saved[k]]
    /\ Become(c, [cmd[c] EXCEPT !.at = "written"])
    /\ UNCHANGED <<shown, unapplied, runtimeVars, owner, slot, liveVars, reviewVars, confirmed, calls>>

\* The transaction: reject a kind that changed since the draft, or write the edits.
Write(c) ==
    /\ cmd[c].at = "checked"
    /\ IF \A k \in DOMAIN cmd[c].edits : saved[k] = cmd[c].draft[k]
       THEN /\ saved' = [k \in Kinds |-> IF k \in DOMAIN cmd[c].edits THEN cmd[c].edits[k]
                                                                        ELSE saved[k]]
            /\ Become(c, [cmd[c] EXCEPT !.at = "written"])
            /\ UNCHANGED <<owner, slot>>
       ELSE Finish(c) /\ UNCHANGED saved
    /\ UNCHANGED <<shown, unapplied, runtimeVars, liveVars, reviewVars, confirmed, calls>>

\* The workspace catalog cannot be read after the write: the save fails, nothing is applied.
CatalogUnreadable(c) ==
    /\ cmd[c].at = "written"
    /\ unapplied' = unapplied \cup DOMAIN cmd[c].plan
    /\ Finish(c)
    /\ UNCHANGED <<saved, shown, runtimeVars, liveVars, reviewVars, confirmed, calls>>

\* session.apply: configure the kinds without a lifecycle change, then apply the others.
Configure(c) ==
    LET quiet == DOMAIN cmd[c].plan \ LifecycleKinds(cmd[c].plan) IN
    /\ cmd[c].at = "written"
    /\ shown' = [k \in Kinds |-> IF k \in quiet THEN cmd[c].plan[k].setting ELSE shown[k]]
    /\ Become(c, [cmd[c] EXCEPT !.at = "applying"])
    /\ UNCHANGED <<saved, unapplied, runtimeVars, owner, slot, liveVars, reviewVars, confirmed, calls>>

-----------------------------------------------------------------------------
(* reservation.apply, for each kind of the plan *)

Target(k) == cmd[owner[k]].plan[k].setting

BeginApply(c, k) ==
    /\ cmd[c].at = "applying" /\ owner[k] = c /\ slot[k] = "idle"
    /\ shown' = [shown EXCEPT ![k] = Target(k)]
    /\ slot' = [slot EXCEPT ![k] = IF runtime[k] # 0 THEN "stopping"
                                   ELSE IF Target(k).enabled THEN "starting" ELSE "done"]
    /\ condition' = [condition EXCEPT ![k] =
           IF runtime[k] = 0 /\ ~Target(k).enabled THEN "disabled" ELSE @]
    /\ UNCHANGED <<saved, unapplied, runtime, launched, starts, owner, liveVars, reviewVars,
                   confirmed, calls, cmd>>

\* The runtime stops, and its sessions with it.
StopRuntime(k) ==
    /\ slot[k] = "stopping"
    /\ runtime' = [runtime EXCEPT ![k] = 0]
    /\ work' = [work EXCEPT ![k] = [s \in Sessions |-> NoWork]]
    /\ slot' = [slot EXCEPT ![k] = IF Target(k).enabled THEN "starting" ELSE "done"]
    /\ condition' = [condition EXCEPT ![k] = IF Target(k).enabled THEN @ ELSE "disabled"]
    /\ unapplied' = IF Target(k).enabled THEN unapplied ELSE unapplied \ {k}
    /\ UNCHANGED <<saved, shown, launched, starts, owner, events, reviewVars, confirmed, calls, cmd>>

StartRuntime(k) ==
    /\ slot[k] = "starting"
    /\ starts[k] < MaxStarts
    /\ starts' = [starts EXCEPT ![k] = @ + 1]
    /\ runtime' = [runtime EXCEPT ![k] = starts'[k]]
    /\ launched' = [launched EXCEPT ![k] = Target(k).path]
    /\ condition' = [condition EXCEPT ![k] = "ready"]
    /\ slot' = [slot EXCEPT ![k] = "done"]
    /\ unapplied' = unapplied \ {k}
    /\ UNCHANGED <<saved, shown, owner, liveVars, reviewVars, confirmed, calls, cmd>>

\* The stop or the start failed: the slot shows the error, the action ends.
ApplyFails(k) ==
    /\ slot[k] \in {"stopping", "starting"}
    /\ condition' = [condition EXCEPT ![k] = "error"]
    /\ slot' = [slot EXCEPT ![k] = "done"]
    /\ UNCHANGED <<settingVars, runtime, launched, starts, owner, liveVars, reviewVars, confirmed,
                   calls, cmd>>

\* Every kind was applied: the command returns and its reservation ends.
Applied(c) ==
    /\ cmd[c].at = "applying"
    /\ \A k \in LifecycleKinds(cmd[c].plan) : slot[k] = "done"
    /\ Finish(c)
    /\ UNCHANGED <<settingVars, runtimeVars, liveVars, reviewVars, confirmed, calls>>

-----------------------------------------------------------------------------
(* Specification *)

Request(c) ==
    \/ \E k \in Kinds :
          \/ Preview(c, "previewRestart", PlanRestart(k, saved[k]))
          \/ \E token \in 1 .. issued : RequestRestart(c, k, token)
    \/ \E edits \in EditSets :
          \/ Preview(c, "previewSave", PlanSettingsChange(saved, edits))
          \/ \E token \in 0 .. issued : RequestSave(c, edits, token)

CommandStep(c) ==
    \/ ReserveSave(c) \/ Drained(c) \/ ReadSaved(c) \/ CommandFails(c)
    \/ (\E k \in Kinds : ReadStatus(c, k)) \/ ListSessions(c) \/ PreviewDone(c) \/ Check(c)
    \/ Write(c) \/ CatalogUnreadable(c) \/ Configure(c)
    \/ (\E k \in Kinds : BeginApply(c, k)) \/ Applied(c)

Next ==
    \/ \E c \in Commands : Request(c) \/ CommandStep(c)
    \/ \E k \in Kinds : StopRuntime(k) \/ StartRuntime(k) \/ ApplyFails(k)
    \/ \E k \in Kinds, s \in Sessions :
          StartTurn(k, s) \/ OwnTurn(k, s) \/ AskInput(k, s) \/ EndTurn(k, s)

Spec == Init /\ [][Next]_vars

-----------------------------------------------------------------------------
(* Properties *)

\* A turn that the accepted review of the stopping command named.
Reviewed(k, s) == work[k][s].episode \in confirmed[k][s]

\* A turn that the runtime began by itself after the command listed the session, one that its
\* review named too.
OwnAfterListing(k, s) ==
    LET listed == cmd[owner[k]].seen[k][s] IN
    /\ work[k][s].own /\ confirmed[k][s] # {}
    /\ Listed(listed) /\ listed.episode < work[k][s].episode

\* What a restart or a save cuts off was reviewed (confirmations.accept and the reservation). When
\* a runtime is about to stop, each running turn is one that the accepted review named, or one
\* that the runtime began by itself, in a session of that review, after the last look at it: no
\* reservation can keep a runtime from that. Nothing was listed for the enabling of a kind, and
\* it stops a runtime only where the saved stop was never applied or failed.
OnlyReviewedTurnsStop ==
    \A k \in Kinds : slot[k] = "stopping" =>
        IF StopsLiveWork(cmd[owner[k]].plan[k].effect)
        THEN \A s \in Sessions :
                work[k][s].running => Reviewed(k, s) \/ OwnAfterListing(k, s)
        ELSE k \in unapplied \/ condition[k] = "error"

\* The runtime that a command stops is the one that the accepted review named, not one that
\* another command started in between.
ReviewedRuntimeStops ==
    \A k \in Kinds : slot[k] = "stopping" => cmd[owner[k]].granted[k] = runtime[k]

\* Saved settings and runtimes agree at rest: a free kind without an error runs exactly the saved
\* executable, or nothing when it is disabled, however saves and restarts interleaved.
RunningMatchesSaved ==
    \A k \in Kinds \ unapplied : owner[k] = "none" /\ condition[k] # "error" =>
        /\ (runtime[k] # 0) = saved[k].enabled
        /\ saved[k].enabled => launched[k] = saved[k].path

=============================================================================
