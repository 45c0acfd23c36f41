------------------------ MODULE RuntimeRegistryProofs ------------------------
(* Theorems about RuntimeRegistry for every set of kinds, commands and controls. *)
EXTENDS RuntimeRegistry, FiniteSetTheorems, TLAPS

-----------------------------------------------------------------------------
(* Type correctness *)

\* The bound on start attempts is never exceeded: a reservation is taken below it, and an
\* action starts its runtime at most once.
BelowBound(k) ==
    at[k] \in {"draining", "cancelling", "held", "cleaning", "stopping", "begin"} =>
        starts[k] < MaxStarts

\* A control that is not idle names its kind.
ControlHasKind(c) == control[c].at # "idle" => control[c].kind \in Kinds

TypeInv ==
    /\ TypeOK
    /\ \A k \in Kinds : BelowBound(k)
    /\ \A c \in Controls : ControlHasKind(c)

\* What Update, MoveTo, EndApply, CancelControls do to the types of the variables they assign.
LEMMA UpdateType ==
    ASSUME StatusOK, NEW k \in Kinds, NEW s \in States, NEW f \in FailureRecords,
           Update(k, s, f)
    PROVE StatusOK'
BY DEF StatusOK, Update, Accepting, ShuttingDown

LEMMA FailureType ==
    /\ NoFailure \in FailureRecords
    /\ \A p \in Phases : Failure(p) \in FailureRecords
    /\ \A k \in Kinds, g \in Attempts : ExitFailure(k, g) \in FailureRecords
BY DEF FailureRecords, NoFailure, Failure, ExitFailure, Phases

LEMMA CleanupType ==
    ASSUME NEW f \in FailureRecords
    PROVE [f EXCEPT !.cleanup = TRUE] \in FailureRecords
BY DEF FailureRecords

LEMMA MoveToType ==
    ASSUME ActionOK, NEW k \in Kinds, NEW l \in Locations, MoveTo(k, l)
    PROVE ActionOK' /\ at' = [at EXCEPT ![k] = l]
BY DEF ActionOK, MoveTo

LEMMA FlagType ==
    ASSUME NEW f \in [Kinds -> BOOLEAN], NEW k \in Kinds, NEW b \in BOOLEAN
    PROVE [f EXCEPT ![k] = b] \in [Kinds -> BOOLEAN]
OBVIOUS

LEMMA EndApplyType ==
    ASSUME ActionOK, NEW k \in Kinds, EndApply(k)
    PROVE ActionOK' /\ at' = [at EXCEPT ![k] = "applied"]
BY ConstantsAssumption DEF ConstantsAssumption, ActionOK, EndApply, Locations, Attempts

LEMMA CancelType ==
    ASSUME TypeOK, NEW k \in Kinds, CancelControls(k)
    PROVE /\ control' \in [Controls -> ControlRecords]
          /\ \A c \in Controls : /\ control'[c].at = control[c].at
                                 /\ control'[c].kind = control[c].kind
<1>1. ASSUME NEW c \in Controls
      PROVE /\ control'[c] \in ControlRecords
            /\ control'[c].at = control[c].at
            /\ control'[c].kind = control[c].kind
  BY DEF TypeOK, CancelControls, ControlRecords
<1> QED BY <1>1 DEF CancelControls

LEMMA RecordType ==
    ASSUME TypeOK, NEW c \in Controls
    PROVE /\ [control[c] EXCEPT !.at = "ended"] \in ControlRecords
          /\ \A g \in Attempts :
                [control[c] EXCEPT !.at = "calling", !.runtime = g] \in ControlRecords
          /\ control[c].kind \in Kinds => handle[control[c].kind] \in Attempts
BY DEF TypeOK, ControlRecords, ControlStates, ResourceOK

LEMMA TypeInit == Init => TypeInv
<1> SUFFICES ASSUME Init PROVE TypeInv
    OBVIOUS
<1>1. 0 \in Attempts
  BY ConstantsAssumption DEF ConstantsAssumption, Attempts
<1>2. control \in [Controls -> ControlRecords]
  BY <1>1 DEF Init, NoControl, ControlStates, ControlRecords
<1>3. StatusOK
  BY DEF Init, NoFailure, Phases, StatusOK, FailureRecords, States
<1>4. ActionOK
  BY <1>1 DEF Init, ActionOK, Locations
<1>5. ResourceOK /\ DriverOK /\ QuitOK
  BY <1>1 DEF Init, ResourceOK, DriverOK, QuitOK, QuitLocations
<1>6. ASSUME NEW k \in Kinds PROVE BelowBound(k)
  BY DEF Init, BelowBound
<1>7. ASSUME NEW c \in Controls PROVE ControlHasKind(c)
  BY DEF Init, ControlHasKind, NoControl
<1> QED BY <1>2, <1>3, <1>4, <1>5, <1>6, <1>7 DEF TypeInv, TypeOK, Init

LEMMA TypeStartup ==
    ASSUME TypeInv, StartupStep
    PROVE TypeInv'
<1> USE DEF TypeInv, TypeOK, StatusOK, ResourceOK, ActionOK, DriverOK, QuitOK, BelowBound,
            ControlHasKind, Attempts, States, Phases, Locations, ApplyLocations, Forked, Exited,
            QuitLocations, ControlStates, FailureRecords, ControlRecords, NoFailure, Failure,
            NoControl
<1>1. ASSUME NEW kinds \in SUBSET Kinds, Initialize(kinds) PROVE TypeInv'
  BY <1>1, ConstantsAssumption DEF Initialize, ShuttingDown, statusVars, resourceVars,
                                   actionVars, driverVars, quitVars
<1>2. ASSUME InitializeFails PROVE TypeInv'
  BY <1>2, ConstantsAssumption DEF InitializeFails, ShuttingDown, Accepting, resourceVars,
                                   actionVars, driverVars, quitVars
<1>3. ASSUME NEW k \in Kinds, StartKind(k) PROVE TypeInv'
  BY <1>3, ConstantsAssumption DEF StartKind, TakeReservation, ShuttingDown, Reserved,
                                   Accepting, resourceVars, driverVars, quitVars
<1>4. ASSUME NEW k \in Kinds, StartKindRefused(k) PROVE TypeInv'
  BY <1>4, ConstantsAssumption DEF StartKindRefused, ShuttingDown, Reserved, statusVars,
                                   resourceVars, actionVars, driverVars, quitVars
<1> QED BY <1>1, <1>2, <1>3, <1>4 DEF StartupStep

LEMMA TypeOp ==
    ASSUME TypeInv, NEW o \in Ops,
           (\E kinds \in SUBSET Kinds \ {{}} : Reserve(o, kinds)) \/ ReserveInterrupted(o)
    PROVE TypeInv'
<1> USE DEF TypeInv, TypeOK, StatusOK, ResourceOK, ActionOK, DriverOK, QuitOK, BelowBound,
            ControlHasKind, Attempts, States, Phases, Locations, ApplyLocations, Forked, Exited,
            QuitLocations, ControlStates, FailureRecords, ControlRecords, NoFailure, Failure,
            NoControl
<1>1. ASSUME NEW kinds \in SUBSET Kinds, Reserve(o, kinds) PROVE TypeInv'
  BY <1>1, ConstantsAssumption DEF Reserve, TakeReservation, ShuttingDown, Reserved, Accepting,
                                   resourceVars, driverVars, quitVars, startupVars
<1>2. ASSUME ReserveInterrupted(o) PROVE TypeInv'
  BY <1>2, ConstantsAssumption DEF ReserveInterrupted, ReleaseKinds, Accepting, ShuttingDown,
                                   resourceVars, driverVars, startupVars, quitVars
<1> QED BY <1>1, <1>2

LEMMA TypeReservation ==
    ASSUME TypeInv, NEW k0 \in Kinds, ReservationStep(k0)
    PROVE TypeInv'
<1> USE DEF TypeInv, TypeOK, StatusOK, ResourceOK, ActionOK, DriverOK, QuitOK, BelowBound,
            ControlHasKind, Attempts, States, Phases, Locations, ApplyLocations, Forked, Exited,
            QuitLocations, ControlStates, FailureRecords, ControlRecords, NoFailure, Failure,
            NoControl
<1>1. ASSUME NEW k \in Kinds, Drained(k) PROVE TypeInv'
  BY <1>1, ConstantsAssumption DEF Drained, ControlsOf, MoveTo, statusVars, resourceVars,
                                   driverVars, startupVars, quitVars
<1>2. ASSUME NEW k \in Kinds, GraceExpired(k) PROVE TypeInv'
  <2>1. control' \in [Controls -> ControlRecords] /\ \A c \in Controls : ControlHasKind(c)'
    BY <1>2, CancelType DEF GraceExpired
  <2> QED BY <1>2, <2>1
            DEF GraceExpired, MoveTo, statusVars, resourceVars, actionVars, driverVars,
                startupVars, quitVars
<1>3. ASSUME NEW k \in Kinds, CancelDone(k) PROVE TypeInv'
  BY <1>3, ConstantsAssumption DEF CancelDone, ControlsEnded, ControlsOf, MoveTo, statusVars,
                                   resourceVars, driverVars, startupVars, quitVars
<1>4. ASSUME NEW k \in Kinds, Release(k) PROVE TypeInv'
  BY <1>4, ConstantsAssumption DEF Release, Group, ReleaseKinds, Accepting, ShuttingDown,
                                   resourceVars, driverVars, startupVars, quitVars
<1> QED BY <1>1, <1>2, <1>3, <1>4 DEF ReservationStep

LEMMA TypeApply ==
    ASSUME TypeInv, NEW k0 \in Kinds,
           (\E e \in BOOLEAN : BeginApply(k0, e)) \/ StopStep(k0)
    PROVE TypeInv'
<1>1. ASSUME NEW k \in Kinds, NEW e \in BOOLEAN, BeginApply(k, e) PROVE TypeInv'
  <2>1. CASE orphan[k] # 0
      <3>1. StatusOK'
        BY <1>1, <2>1, UpdateType, FailureType
          DEF TypeInv, TypeOK, States, Phases, Progress, ResourceOK, BeginApply, statusVars,
              StatusOK
      <3>2. ActionOK'
        <4>1. /\ at' \in [Kinds -> Locations] /\ target' \in [Kinds -> Attempts]
              /\ owner' = owner /\ interrupted' = interrupted
          BY <1>1, <2>1, ConstantsAssumption
          DEF ConstantsAssumption, Attempts, Locations, ApplyLocations, ResourceOK, TypeInv,
              TypeOK, ActionOK, Progress, BeginApply, statusVars
        <4>2. enabled' \in [Kinds -> BOOLEAN]
          BY <1>1, <2>1, FlagType
            DEF TypeInv, TypeOK, ActionOK, Progress, ResourceOK, BeginApply, statusVars
        <4>3. replacing' \in [Kinds -> BOOLEAN]
          BY <1>1, <2>1, FlagType
            DEF TypeInv, TypeOK, ActionOK, Progress, ResourceOK, BeginApply, statusVars
        <4> QED BY <4>1, <4>2, <4>3 DEF TypeInv, TypeOK, ActionOK
      <3>3. ResourceOK' /\ DriverOK' /\ QuitOK'
        BY <1>1, <2>1, ConstantsAssumption
        DEF ConstantsAssumption, TypeInv, TypeOK, ResourceOK, DriverOK, QuitOK, Attempts,
            BeginApply,
            resourceVars, driverVars, quitVars
      <3>4. \A j \in Kinds : BelowBound(j)'
        BY <1>1, <2>1
          DEF TypeInv, TypeOK, ActionOK, BelowBound, EndApply, Progress, ResourceOK, BeginApply,
              resourceVars
      <3> QED BY <1>1, <2>1, <3>1, <3>2, <3>3, <3>4
                DEF TypeInv, TypeOK, ControlHasKind, BeginApply, startupVars
  <2>2. CASE orphan[k] = 0 /\ handle[k] # 0
      <3>1. StatusOK'
        BY <1>1, <2>2, UpdateType, FailureType
          DEF TypeInv, TypeOK, States, Phases, Progress, StopOwnHandle, ResourceOK, BeginApply,
              statusVars, StatusOK
      <3>2. ActionOK'
        <4>1. /\ at' \in [Kinds -> Locations] /\ target' \in [Kinds -> Attempts]
              /\ owner' = owner /\ interrupted' = interrupted
          BY <1>1, <2>2, ConstantsAssumption
          DEF ConstantsAssumption, Attempts, Locations, ApplyLocations, ResourceOK, TypeInv,
              TypeOK, ActionOK, Progress, StopOwnHandle, BeginApply, statusVars
        <4>2. enabled' \in [Kinds -> BOOLEAN]
          BY <1>1, <2>2, FlagType
            DEF TypeInv, TypeOK, ActionOK, Progress, StopOwnHandle, ResourceOK, BeginApply,
                statusVars
        <4>3. replacing' \in [Kinds -> BOOLEAN]
          BY <1>1, <2>2, FlagType
            DEF TypeInv, TypeOK, ActionOK, Progress, StopOwnHandle, ResourceOK, BeginApply,
                statusVars
        <4> QED BY <4>1, <4>2, <4>3 DEF TypeInv, TypeOK, ActionOK
      <3>3. ResourceOK' /\ DriverOK' /\ QuitOK'
        BY <1>1, <2>2, ConstantsAssumption
        DEF ConstantsAssumption, TypeInv, TypeOK, ResourceOK, DriverOK, QuitOK, Attempts,
            BeginApply,
            resourceVars, driverVars, quitVars
      <3>4. \A j \in Kinds : BelowBound(j)'
        BY <1>1, <2>2
          DEF TypeInv, TypeOK, ActionOK, BelowBound, EndApply, Progress, StopOwnHandle,
              ResourceOK, BeginApply, resourceVars
      <3> QED BY <1>1, <2>2, <3>1, <3>2, <3>3, <3>4
                DEF TypeInv, TypeOK, ControlHasKind, BeginApply, startupVars
  <2>3. CASE orphan[k] = 0 /\ handle[k] = 0 /\ e
      <3>1. StatusOK'
        BY <1>1, <2>3, UpdateType, FailureType
          DEF TypeInv, TypeOK, States, Phases, StopOwnHandle, Stopped, BeginApply, statusVars,
              StatusOK
      <3>2. ActionOK'
        <4>1. /\ at' \in [Kinds -> Locations] /\ target' \in [Kinds -> Attempts]
              /\ owner' = owner /\ interrupted' = interrupted
          BY <1>1, <2>3, ConstantsAssumption
          DEF ConstantsAssumption, Attempts, Locations, ApplyLocations, ResourceOK, TypeInv,
              TypeOK, ActionOK, StopOwnHandle, Stopped, BeginApply, statusVars
        <4>2. enabled' \in [Kinds -> BOOLEAN]
          BY <1>1, <2>3, FlagType
            DEF TypeInv, TypeOK, ActionOK, StopOwnHandle, Stopped, BeginApply, statusVars
        <4>3. replacing' \in [Kinds -> BOOLEAN]
          BY <1>1, <2>3, FlagType
            DEF TypeInv, TypeOK, ActionOK, StopOwnHandle, Stopped, BeginApply, statusVars
        <4> QED BY <4>1, <4>2, <4>3 DEF TypeInv, TypeOK, ActionOK
      <3>3. ResourceOK' /\ DriverOK' /\ QuitOK'
        BY <1>1, <2>3, ConstantsAssumption
        DEF ConstantsAssumption, TypeInv, TypeOK, ResourceOK, DriverOK, QuitOK, Attempts,
            BeginApply,
            resourceVars, driverVars, quitVars
      <3>4. \A j \in Kinds : BelowBound(j)'
        BY <1>1, <2>3
          DEF TypeInv, TypeOK, ActionOK, BelowBound, EndApply, StopOwnHandle, Stopped, BeginApply,
              resourceVars
      <3> QED BY <1>1, <2>3, <3>1, <3>2, <3>3, <3>4
                DEF TypeInv, TypeOK, ControlHasKind, BeginApply, startupVars
  <2>4. CASE orphan[k] = 0 /\ handle[k] = 0 /\ ~e
      <3>1. StatusOK'
        BY <1>1, <2>4, UpdateType, FailureType
          DEF TypeInv, TypeOK, States, Phases, StopOwnHandle, Stopped, BeginApply, statusVars,
              StatusOK
      <3>2. ActionOK'
        BY <1>1, <2>4, EndApplyType DEF TypeInv, TypeOK, StopOwnHandle, Stopped, BeginApply
      <3>3. ResourceOK' /\ DriverOK' /\ QuitOK'
        BY <1>1, <2>4, ConstantsAssumption
        DEF ConstantsAssumption, TypeInv, TypeOK, ResourceOK, DriverOK, QuitOK, Attempts,
            BeginApply,
            resourceVars, driverVars, quitVars
      <3>4. \A j \in Kinds : BelowBound(j)'
        BY <1>1, <2>4
          DEF TypeInv, TypeOK, ActionOK, BelowBound, EndApply, StopOwnHandle, Stopped, BeginApply,
              resourceVars
      <3> QED BY <1>1, <2>4, <3>1, <3>2, <3>3, <3>4
                DEF TypeInv, TypeOK, ControlHasKind, BeginApply, startupVars
  <2> QED BY <2>1, <2>2, <2>3, <2>4
<1>2. ASSUME NEW k \in Kinds, Cleaned(k) PROVE TypeInv'
  <2>1. CASE handle[k] # 0
      <3>1. StatusOK'
        BY <1>2, <2>1, UpdateType, FailureType
          DEF TypeInv, TypeOK, States, Phases, Progress, StopOwnHandle, ResourceOK, Cleaned,
              statusVars, StatusOK
      <3>2. ActionOK'
        <4>1. /\ at' \in [Kinds -> Locations] /\ target' \in [Kinds -> Attempts]
              /\ owner' = owner /\ interrupted' = interrupted
          BY <1>2, <2>1, ConstantsAssumption
          DEF ConstantsAssumption, Attempts, Locations, ApplyLocations, ResourceOK, TypeInv,
              TypeOK, ActionOK, Progress, StopOwnHandle, Cleaned, statusVars
        <4>2. enabled' \in [Kinds -> BOOLEAN]
          BY <1>2, <2>1, FlagType
            DEF TypeInv, TypeOK, ActionOK, Progress, StopOwnHandle, ResourceOK, Cleaned,
                statusVars
        <4>3. replacing' \in [Kinds -> BOOLEAN]
          BY <1>2, <2>1, FlagType
            DEF TypeInv, TypeOK, ActionOK, Progress, StopOwnHandle, ResourceOK, Cleaned,
                statusVars
        <4> QED BY <4>1, <4>2, <4>3 DEF TypeInv, TypeOK, ActionOK
      <3>3. ResourceOK' /\ DriverOK' /\ QuitOK'
        BY <1>2, <2>1, ConstantsAssumption
        DEF ConstantsAssumption, TypeInv, TypeOK, ResourceOK, DriverOK, QuitOK, Attempts, Cleaned,
            resourceVars, driverVars, quitVars
      <3>4. \A j \in Kinds : BelowBound(j)'
        BY <1>2, <2>1
          DEF TypeInv, TypeOK, ActionOK, BelowBound, EndApply, Progress, StopOwnHandle,
              ResourceOK, Cleaned, resourceVars
      <3> QED BY <1>2, <2>1, <3>1, <3>2, <3>3, <3>4
                DEF TypeInv, TypeOK, ControlHasKind, Cleaned, startupVars
  <2>2. CASE handle[k] = 0 /\ enabled[k]
      <3>1. StatusOK'
        BY <1>2, <2>2, UpdateType, FailureType
          DEF TypeInv, TypeOK, States, Phases, StopOwnHandle, Stopped, Cleaned, statusVars,
              StatusOK
      <3>2. ActionOK'
        <4>1. /\ at' \in [Kinds -> Locations] /\ target' \in [Kinds -> Attempts]
              /\ owner' = owner /\ interrupted' = interrupted
          BY <1>2, <2>2, ConstantsAssumption
          DEF ConstantsAssumption, Attempts, Locations, ApplyLocations, ResourceOK, TypeInv,
              TypeOK, ActionOK, StopOwnHandle, Stopped, Cleaned, statusVars
        <4>2. enabled' \in [Kinds -> BOOLEAN]
          BY <1>2, <2>2, FlagType
            DEF TypeInv, TypeOK, ActionOK, StopOwnHandle, Stopped, Cleaned, statusVars
        <4>3. replacing' \in [Kinds -> BOOLEAN]
          BY <1>2, <2>2, FlagType
            DEF TypeInv, TypeOK, ActionOK, StopOwnHandle, Stopped, Cleaned, statusVars
        <4> QED BY <4>1, <4>2, <4>3 DEF TypeInv, TypeOK, ActionOK
      <3>3. ResourceOK' /\ DriverOK' /\ QuitOK'
        BY <1>2, <2>2, ConstantsAssumption
        DEF ConstantsAssumption, TypeInv, TypeOK, ResourceOK, DriverOK, QuitOK, Attempts, Cleaned,
            resourceVars, driverVars, quitVars
      <3>4. \A j \in Kinds : BelowBound(j)'
        BY <1>2, <2>2
          DEF TypeInv, TypeOK, ActionOK, BelowBound, EndApply, StopOwnHandle, Stopped, Cleaned,
              resourceVars
      <3> QED BY <1>2, <2>2, <3>1, <3>2, <3>3, <3>4
                DEF TypeInv, TypeOK, ControlHasKind, Cleaned, startupVars
  <2>3. CASE handle[k] = 0 /\ ~enabled[k]
      <3>1. StatusOK'
        BY <1>2, <2>3, UpdateType, FailureType
          DEF TypeInv, TypeOK, States, Phases, StopOwnHandle, Stopped, Cleaned, statusVars,
              StatusOK
      <3>2. ActionOK'
        BY <1>2, <2>3, EndApplyType DEF TypeInv, TypeOK, StopOwnHandle, Stopped, Cleaned
      <3>3. ResourceOK' /\ DriverOK' /\ QuitOK'
        BY <1>2, <2>3, ConstantsAssumption
        DEF ConstantsAssumption, TypeInv, TypeOK, ResourceOK, DriverOK, QuitOK, Attempts, Cleaned,
            resourceVars, driverVars, quitVars
      <3>4. \A j \in Kinds : BelowBound(j)'
        BY <1>2, <2>3
          DEF TypeInv, TypeOK, ActionOK, BelowBound, EndApply, StopOwnHandle, Stopped, Cleaned,
              resourceVars
      <3> QED BY <1>2, <2>3, <3>1, <3>2, <3>3, <3>4
                DEF TypeInv, TypeOK, ControlHasKind, Cleaned, startupVars
  <2> QED BY <2>1, <2>2, <2>3
<1>3. ASSUME NEW k \in Kinds, StopFailed(k) PROVE TypeInv'
    <2>1. StatusOK'
      BY <1>3, UpdateType, FailureType
        DEF TypeInv, TypeOK, States, Phases, StopFailed, statusVars, StatusOK
    <2>2. ActionOK'
      BY <1>3, EndApplyType DEF TypeInv, TypeOK, StopFailed
    <2>3. ResourceOK' /\ DriverOK' /\ QuitOK'
      BY <1>3, ConstantsAssumption
      DEF ConstantsAssumption, TypeInv, TypeOK, ResourceOK, DriverOK, QuitOK, Attempts,
          StopFailed,
          resourceVars, driverVars, quitVars
    <2>4. \A j \in Kinds : BelowBound(j)'
      BY <1>3 DEF TypeInv, TypeOK, ActionOK, BelowBound, EndApply, StopFailed, resourceVars
    <2> QED BY <1>3, <2>1, <2>2, <2>3, <2>4
              DEF TypeInv, TypeOK, ControlHasKind, StopFailed, startupVars
<1>4. ASSUME NEW k \in Kinds, HandleStopped(k) PROVE TypeInv'
  <2>1. CASE enabled[k]
      <3>1. StatusOK'
        BY <1>4, <2>1, UpdateType, FailureType
          DEF TypeInv, TypeOK, States, Phases, Stopped, HandleStopped, statusVars, StatusOK
      <3>2. ActionOK'
        <4>1. /\ at' \in [Kinds -> Locations] /\ target' \in [Kinds -> Attempts]
              /\ owner' = owner /\ interrupted' = interrupted
          BY <1>4, <2>1, ConstantsAssumption
          DEF ConstantsAssumption, Attempts, Locations, ApplyLocations, ResourceOK, TypeInv,
              TypeOK, ActionOK, Stopped, HandleStopped, statusVars
        <4>2. enabled' \in [Kinds -> BOOLEAN]
          BY <1>4, <2>1, FlagType
            DEF TypeInv, TypeOK, ActionOK, Stopped, HandleStopped, statusVars
        <4>3. replacing' \in [Kinds -> BOOLEAN]
          BY <1>4, <2>1, FlagType
            DEF TypeInv, TypeOK, ActionOK, Stopped, HandleStopped, statusVars
        <4> QED BY <4>1, <4>2, <4>3 DEF TypeInv, TypeOK, ActionOK
      <3>3. ResourceOK' /\ DriverOK' /\ QuitOK'
        BY <1>4, <2>1, ConstantsAssumption
        DEF ConstantsAssumption, TypeInv, TypeOK, ResourceOK, DriverOK, QuitOK, Attempts,
            HandleStopped,
            resourceVars, driverVars, quitVars
      <3>4. \A j \in Kinds : BelowBound(j)'
        BY <1>4, <2>1
          DEF TypeInv, TypeOK, ActionOK, BelowBound, EndApply, Stopped, HandleStopped,
              resourceVars
      <3> QED BY <1>4, <2>1, <3>1, <3>2, <3>3, <3>4
                DEF TypeInv, TypeOK, ControlHasKind, HandleStopped, startupVars
  <2>2. CASE ~enabled[k]
      <3>1. StatusOK'
        BY <1>4, <2>2, UpdateType, FailureType
          DEF TypeInv, TypeOK, States, Phases, Stopped, HandleStopped, statusVars, StatusOK
      <3>2. ActionOK'
        BY <1>4, <2>2, EndApplyType DEF TypeInv, TypeOK, Stopped, HandleStopped
      <3>3. ResourceOK' /\ DriverOK' /\ QuitOK'
        BY <1>4, <2>2, ConstantsAssumption
        DEF ConstantsAssumption, TypeInv, TypeOK, ResourceOK, DriverOK, QuitOK, Attempts,
            HandleStopped,
            resourceVars, driverVars, quitVars
      <3>4. \A j \in Kinds : BelowBound(j)'
        BY <1>4, <2>2
          DEF TypeInv, TypeOK, ActionOK, BelowBound, EndApply, Stopped, HandleStopped,
              resourceVars
      <3> QED BY <1>4, <2>2, <3>1, <3>2, <3>3, <3>4
                DEF TypeInv, TypeOK, ControlHasKind, HandleStopped, startupVars
  <2> QED BY <2>1, <2>2
<1> QED BY <1>1, <1>2, <1>3, <1>4 DEF StopStep

LEMMA TypeStart ==
    ASSUME TypeInv, NEW k0 \in Kinds, StartStep(k0)
    PROVE TypeInv'
<1>1. ASSUME NEW k \in Kinds, StartRefused(k) PROVE TypeInv'
    <2>1. StatusOK'
      BY <1>1, UpdateType, FailureType
        DEF TypeInv, TypeOK, States, Phases, StartRefused, statusVars, StatusOK
    <2>2. ActionOK'
      BY <1>1, EndApplyType DEF TypeInv, TypeOK, StartRefused
    <2>3. ResourceOK' /\ DriverOK' /\ QuitOK'
      BY <1>1, ConstantsAssumption
      DEF ConstantsAssumption, TypeInv, TypeOK, ResourceOK, DriverOK, QuitOK, Attempts,
          StartRefused,
          resourceVars, driverVars, quitVars
    <2>4. \A j \in Kinds : BelowBound(j)'
      BY <1>1 DEF TypeInv, TypeOK, ActionOK, BelowBound, EndApply, StartRefused, resourceVars
    <2> QED BY <1>1, <2>1, <2>2, <2>3, <2>4
              DEF TypeInv, TypeOK, ControlHasKind, StartRefused, startupVars
<1>2. ASSUME NEW k \in Kinds, StartRegistered(k) PROVE TypeInv'
  <2>1. StatusOK'
    BY <1>2, UpdateType, FailureType DEF TypeInv, TypeOK, States, StartRegistered
  <2>2. ActionOK'
    BY <1>2, MoveToType
    DEF TypeInv, TypeOK, StartRegistered, Locations, ApplyLocations, Forked
  <2>3. ResourceOK'
    BY <1>2, ConstantsAssumption
    DEF ConstantsAssumption, TypeInv, TypeOK, ResourceOK, Attempts, BelowBound, StartRegistered
  <2>4. \A j \in Kinds : BelowBound(j)'
    BY <1>2 DEF TypeInv, TypeOK, ActionOK, ResourceOK, BelowBound, MoveTo, StartRegistered
  <2> QED BY <1>2, <2>1, <2>2, <2>3, <2>4
          DEF TypeInv, TypeOK, ControlHasKind, DriverOK, QuitOK, StartRegistered, driverVars,
              quitVars, startupVars
<1>3. ASSUME NEW k \in Kinds, StartFailed(k) PROVE TypeInv'
  <2>1. CASE orphan[k] # 0
      <3>1. StatusOK'
        BY <1>3, <2>1, UpdateType, FailureType
          DEF TypeInv, TypeOK, States, Phases, ResourceOK, StartFailed, statusVars, StatusOK
      <3>2. ActionOK'
        BY <1>3, <2>1, ConstantsAssumption
          DEF TypeInv, TypeOK, statusVars, ConstantsAssumption, ActionOK, Attempts, Locations,
              ApplyLocations, Forked, Exited, ResourceOK, StartFailed
      <3>3. ResourceOK' /\ DriverOK' /\ QuitOK'
        BY <1>3, <2>1, ConstantsAssumption
        DEF ConstantsAssumption, TypeInv, TypeOK, ResourceOK, DriverOK, QuitOK, Attempts,
            StartFailed,
            resourceVars, driverVars, quitVars
      <3>4. \A j \in Kinds : BelowBound(j)'
        BY <1>3, <2>1
          DEF TypeInv, TypeOK, ActionOK, BelowBound, EndApply, ResourceOK, StartFailed,
              resourceVars
      <3> QED BY <1>3, <2>1, <3>1, <3>2, <3>3, <3>4
                DEF TypeInv, TypeOK, ControlHasKind, StartFailed, startupVars
  <2>2. CASE orphan[k] = 0
      <3>1. StatusOK'
        BY <1>3, <2>2, UpdateType, FailureType
          DEF TypeInv, TypeOK, States, Phases, StartFailed, statusVars, StatusOK
      <3>2. ActionOK'
        BY <1>3, <2>2, EndApplyType DEF TypeInv, TypeOK, StartFailed
      <3>3. ResourceOK' /\ DriverOK' /\ QuitOK'
        BY <1>3, <2>2, ConstantsAssumption
        DEF ConstantsAssumption, TypeInv, TypeOK, ResourceOK, DriverOK, QuitOK, Attempts,
            StartFailed,
            resourceVars, driverVars, quitVars
      <3>4. \A j \in Kinds : BelowBound(j)'
        BY <1>3, <2>2
          DEF TypeInv, TypeOK, ActionOK, BelowBound, EndApply, StartFailed, resourceVars
      <3> QED BY <1>3, <2>2, <3>1, <3>2, <3>3, <3>4
                DEF TypeInv, TypeOK, ControlHasKind, StartFailed, startupVars
  <2> QED BY <2>1, <2>2
<1>4. ASSUME NEW k \in Kinds, StartCleaned(k) PROVE TypeInv'
    <2>1. StatusOK'
      BY <1>4, UpdateType, FailureType
        DEF TypeInv, TypeOK, States, Phases, StartCleaned, statusVars, StatusOK
    <2>2. ActionOK'
      BY <1>4, EndApplyType DEF TypeInv, TypeOK, StartCleaned
    <2>3. ResourceOK' /\ DriverOK' /\ QuitOK'
      BY <1>4, ConstantsAssumption
      DEF ConstantsAssumption, TypeInv, TypeOK, ResourceOK, DriverOK, QuitOK, Attempts,
          StartCleaned,
          resourceVars, driverVars, quitVars
    <2>4. \A j \in Kinds : BelowBound(j)'
      BY <1>4 DEF TypeInv, TypeOK, ActionOK, BelowBound, EndApply, StartCleaned, resourceVars
    <2> QED BY <1>4, <2>1, <2>2, <2>3, <2>4
              DEF TypeInv, TypeOK, ControlHasKind, StartCleaned, startupVars
<1>5. ASSUME NEW k \in Kinds, StartCleanupFailed(k) PROVE TypeInv'
    <2>1. StatusOK'
      BY <1>5, UpdateType, FailureType
        DEF TypeInv, TypeOK, States, Phases, StartCleanupFailed, statusVars, StatusOK
    <2>2. ActionOK'
      BY <1>5, EndApplyType DEF TypeInv, TypeOK, StartCleanupFailed
    <2>3. ResourceOK' /\ DriverOK' /\ QuitOK'
      BY <1>5, ConstantsAssumption
      DEF ConstantsAssumption, TypeInv, TypeOK, ResourceOK, DriverOK, QuitOK, Attempts,
          StartCleanupFailed,
          resourceVars, driverVars, quitVars
    <2>4. \A j \in Kinds : BelowBound(j)'
      BY <1>5
        DEF TypeInv, TypeOK, ActionOK, BelowBound, EndApply, StartCleanupFailed, resourceVars
    <2> QED BY <1>5, <2>1, <2>2, <2>3, <2>4
              DEF TypeInv, TypeOK, ControlHasKind, StartCleanupFailed, startupVars
<1>6. ASSUME NEW k \in Kinds, ProbeVersion(k) PROVE TypeInv'
  BY <1>6, MoveToType
  DEF TypeInv, TypeOK, StatusOK, ResourceOK, ActionOK, DriverOK, QuitOK, BelowBound,
      ControlHasKind, Locations,
      ApplyLocations, MoveTo, ProbeVersion, statusVars, resourceVars, actionVars, driverVars,
      startupVars, quitVars
<1>7. ASSUME NEW k \in Kinds, InvalidSummary(k) PROVE TypeInv'
    <2>1. StatusOK'
      BY <1>7, UpdateType, FailureType
        DEF TypeInv, TypeOK, States, Phases, ResourceOK, InvalidSummary, statusVars, StatusOK
    <2>2. ActionOK'
      BY <1>7, ConstantsAssumption
        DEF TypeInv, TypeOK, statusVars, ConstantsAssumption, ActionOK, Attempts, Locations,
            ApplyLocations, Forked, Exited, ResourceOK, InvalidSummary
    <2>3. ResourceOK' /\ DriverOK' /\ QuitOK'
      BY <1>7, ConstantsAssumption
      DEF ConstantsAssumption, TypeInv, TypeOK, ResourceOK, DriverOK, QuitOK, Attempts,
          InvalidSummary,
          resourceVars, driverVars, quitVars
    <2>4. \A j \in Kinds : BelowBound(j)'
      BY <1>7
        DEF TypeInv, TypeOK, ActionOK, BelowBound, EndApply, ResourceOK, InvalidSummary,
            resourceVars
    <2> QED BY <1>7, <2>1, <2>2, <2>3, <2>4
              DEF TypeInv, TypeOK, ControlHasKind, InvalidSummary, startupVars
<1>8. ASSUME NEW k \in Kinds, Discarded(k) PROVE TypeInv'
    <2>1. StatusOK'
      BY <1>8, UpdateType, FailureType
        DEF TypeInv, TypeOK, States, Phases, Discarded, statusVars, StatusOK
    <2>2. ActionOK'
      BY <1>8, EndApplyType DEF TypeInv, TypeOK, Discarded
    <2>3. ResourceOK' /\ DriverOK' /\ QuitOK'
      BY <1>8, ConstantsAssumption
      DEF ConstantsAssumption, TypeInv, TypeOK, ResourceOK, DriverOK, QuitOK, Attempts, Discarded,
          resourceVars, driverVars, quitVars
    <2>4. \A j \in Kinds : BelowBound(j)'
      BY <1>8 DEF TypeInv, TypeOK, ActionOK, BelowBound, EndApply, Discarded, resourceVars
    <2> QED BY <1>8, <2>1, <2>2, <2>3, <2>4
              DEF TypeInv, TypeOK, ControlHasKind, Discarded, startupVars
<1>9. ASSUME NEW k \in Kinds, DiscardFailed(k) PROVE TypeInv'
    <2>1. StatusOK'
      BY <1>9, UpdateType, FailureType
        DEF TypeInv, TypeOK, States, Phases, DiscardFailed, statusVars, StatusOK
    <2>2. ActionOK'
      BY <1>9, EndApplyType DEF TypeInv, TypeOK, DiscardFailed
    <2>3. ResourceOK' /\ DriverOK' /\ QuitOK'
      BY <1>9, ConstantsAssumption
      DEF ConstantsAssumption, TypeInv, TypeOK, ResourceOK, DriverOK, QuitOK, Attempts,
          DiscardFailed,
          resourceVars, driverVars, quitVars
    <2>4. \A j \in Kinds : BelowBound(j)'
      BY <1>9 DEF TypeInv, TypeOK, ActionOK, BelowBound, EndApply, DiscardFailed, resourceVars
    <2> QED BY <1>9, <2>1, <2>2, <2>3, <2>4
              DEF TypeInv, TypeOK, ControlHasKind, DiscardFailed, startupVars
<1>10. ASSUME NEW k \in Kinds, BecomeReady(k) PROVE TypeInv'
  <2>1. StatusOK'
    <3>1. CASE UNCHANGED statusVars
      BY <3>1 DEF statusVars, StatusOK, TypeInv, TypeOK
    <3>2. CASE Update(k, "error", ExitFailure(k, starts[k])) \/ Update(k, "ready", NoFailure)
      BY <3>2, UpdateType, FailureType DEF TypeInv, TypeOK, States, ResourceOK
    <3> QED BY <1>10, <3>1, <3>2 DEF BecomeReady
  <2>2. ActionOK'
      BY <1>10, EndApplyType DEF TypeInv, TypeOK, BecomeReady
    <2>3. ResourceOK' /\ DriverOK' /\ QuitOK'
      BY <1>10, ConstantsAssumption
      DEF ConstantsAssumption, TypeInv, TypeOK, ResourceOK, DriverOK, QuitOK, Attempts,
          BecomeReady,
          resourceVars, driverVars, quitVars
    <2>4. \A j \in Kinds : BelowBound(j)'
      BY <1>10 DEF TypeInv, TypeOK, ActionOK, BelowBound, EndApply, BecomeReady, resourceVars
    <2> QED BY <1>10, <2>1, <2>2, <2>3, <2>4
              DEF TypeInv, TypeOK, ControlHasKind, BecomeReady, startupVars
<1> QED BY <1>1, <1>2, <1>3, <1>4, <1>5, <1>6, <1>7, <1>8, <1>9, <1>10 DEF StartStep

LEMMA TypeDriver ==
    ASSUME TypeInv, NEW k0 \in Kinds, DriverStep(k0)
    PROVE TypeInv'
<1> USE DEF TypeInv, TypeOK, StatusOK, ResourceOK, ActionOK, DriverOK, QuitOK, BelowBound,
            ControlHasKind, Attempts, States, Phases, Locations, ApplyLocations, Forked, Exited,
            QuitLocations, ControlStates, FailureRecords, ControlRecords, NoFailure, Failure,
            NoControl
<1>1. ASSUME NEW k \in Kinds, DriverAcquires(k) PROVE TypeInv'
  BY <1>1, ConstantsAssumption DEF DriverAcquires, MoveTo, statusVars, startupVars, quitVars
<1>2. ASSUME NEW k \in Kinds, DriverFails(k) PROVE TypeInv'
  BY <1>2, ConstantsAssumption DEF DriverFails, MoveTo, statusVars, resourceVars, driverVars,
                                   startupVars, quitVars
<1>3. ASSUME NEW k \in Kinds, DriverInterrupted(k) PROVE TypeInv'
  BY <1>3, ConstantsAssumption DEF DriverInterrupted, MoveTo, statusVars, resourceVars,
                                   driverVars, startupVars, quitVars
<1>4. ASSUME NEW k \in Kinds, NEW exit \in {"started", "interrupted"}, DriverReturns(k, exit)
      PROVE TypeInv'
  BY <1>4, ConstantsAssumption DEF DriverReturns, MoveTo, statusVars, driverVars, startupVars,
                                   quitVars
<1>5. ASSUME NEW k \in Kinds, NEW g \in Attempts, Crash(k, g) PROVE TypeInv'
  BY <1>5, ConstantsAssumption DEF Crash, statusVars, resourceVars, actionVars, startupVars,
                                   quitVars
<1>6. ASSUME NEW k \in Kinds, NEW g \in Attempts, ReportExit(k, g) PROVE TypeInv'
  <2>1. StatusOK'
    <3>1. CASE UNCHANGED statusVars
      BY <3>1 DEF statusVars
    <3>2. CASE Update(k, "error", ExitFailure(k, g))
      BY <3>2, UpdateType, FailureType
    <3> QED BY <1>6, <3>1, <3>2 DEF ReportExit
  <2> QED BY <1>6, <2>1
            DEF ReportExit, statusVars, resourceVars, actionVars, driverVars, startupVars,
                quitVars
<1>7. ASSUME NEW k \in Kinds, NEW g \in Attempts, ReportCleanupFailure(k, g) PROVE TypeInv'
  <2>1. StatusOK'
    <3>1. CASE UNCHANGED statusVars
      BY <3>1 DEF statusVars
    <3>2. CASE Update(k, state[k], [failure[k] EXCEPT !.cleanup = TRUE])
      <4>1. failure[k] \in FailureRecords /\ state[k] \in States
        OBVIOUS
      <4>2. [failure[k] EXCEPT !.cleanup = TRUE] \in FailureRecords
        BY ONLY <4>1, CleanupType
      <4> QED BY <3>2, <4>1, <4>2, UpdateType
    <3> QED BY <1>7, <3>1, <3>2 DEF ReportCleanupFailure
  <2> QED BY <1>7, <2>1
            DEF ReportCleanupFailure, statusVars, resourceVars, actionVars, driverVars,
                startupVars, quitVars
<1> QED BY <1>1, <1>2, <1>3, <1>4, <1>5, <1>6, <1>7 DEF DriverStep

LEMMA TypeControl ==
    ASSUME TypeInv, NEW c0 \in Controls, ControlStep(c0)
    PROVE TypeInv'
<1> USE DEF TypeInv, TypeOK, StatusOK, ResourceOK, ActionOK, DriverOK, QuitOK, BelowBound,
            ControlHasKind, Attempts, States, Phases, Locations, ApplyLocations, Forked, Exited,
            QuitLocations, ControlStates, FailureRecords, ControlRecords, NoFailure, Failure,
            NoControl
<1>1. ASSUME NEW c \in Controls, NEW k \in Kinds, Admit(c, k) PROVE TypeInv'
  BY <1>1, ConstantsAssumption DEF Admit, statusVars, resourceVars, actionVars, driverVars,
                                   startupVars, quitVars
<1>2. ASSUME NEW c \in Controls, RequireReady(c) PROVE TypeInv'
  <2>1. control' \in [Controls -> ControlRecords]
    BY <1>2, RecordType DEF RequireReady
  <2> QED BY <1>2, <2>1
            DEF RequireReady, statusVars, resourceVars, actionVars, driverVars, startupVars,
                quitVars
<1>3. ASSUME NEW c \in Controls, ControlEnds(c) PROVE TypeInv'
  <2>1. control' \in [Controls -> ControlRecords]
    BY <1>3, RecordType DEF ControlEnds
  <2> QED BY <1>3, <2>1
            DEF ControlEnds, statusVars, resourceVars, actionVars, driverVars, startupVars,
                quitVars
<1>4. ASSUME NEW c \in Controls, Leave(c) PROVE TypeInv'
  BY <1>4, ConstantsAssumption DEF Leave, statusVars, resourceVars, actionVars, driverVars,
                                   startupVars, quitVars
<1> QED BY <1>1, <1>2, <1>3, <1>4 DEF ControlStep

LEMMA TypeQuit ==
    ASSUME TypeInv, StopAll \/ QuitStep
    PROVE TypeInv'
<1> USE DEF TypeInv, TypeOK, StatusOK, ResourceOK, ActionOK, DriverOK, QuitOK, BelowBound,
            ControlHasKind, Attempts, States, Phases, Locations, ApplyLocations, Forked, Exited,
            QuitLocations, ControlStates, FailureRecords, ControlRecords, NoFailure, Failure,
            NoControl
<1>1. ASSUME StopAll PROVE TypeInv'
  BY <1>1, ConstantsAssumption DEF StopAll, resourceVars, driverVars, startupVars
<1>2. ASSUME StartsInterrupted PROVE TypeInv'
  BY <1>2, ConstantsAssumption DEF StartsInterrupted, Applying, statusVars, resourceVars,
                                   actionVars, driverVars, startupVars
<1>3. ASSUME ActionsAwaited PROVE TypeInv'
  BY <1>3, ConstantsAssumption DEF ActionsAwaited, Applying, statusVars, resourceVars,
                                   actionVars, driverVars, startupVars
<1>4. ASSUME StopLoop PROVE TypeInv'
  BY <1>4, ConstantsAssumption DEF StopLoop, statusVars, resourceVars, actionVars, driverVars,
                                   startupVars
<1>5. ASSUME StopAllReturns PROVE TypeInv'
  BY <1>5, ConstantsAssumption DEF StopAllReturns, statusVars, resourceVars, actionVars,
                                   driverVars, startupVars
<1> QED BY <1>1, <1>2, <1>3, <1>4, <1>5 DEF QuitStep

LEMMA TypeQuitKind ==
    ASSUME TypeInv, NEW k0 \in Kinds, QuitKindStep(k0)
    PROVE TypeInv'
<1> USE DEF TypeInv, TypeOK, StatusOK, ResourceOK, ActionOK, DriverOK, QuitOK, BelowBound,
            ControlHasKind, Attempts, States, Phases, Locations, ApplyLocations, Forked, Exited,
            QuitLocations, ControlStates, FailureRecords, ControlRecords, NoFailure, Failure,
            NoControl
<1>1. ASSUME NEW k \in Kinds, QuitDrained(k) PROVE TypeInv'
  BY <1>1, ConstantsAssumption DEF QuitDrained, ControlsOf, statusVars, resourceVars,
                                   actionVars, driverVars, startupVars
<1>2. ASSUME NEW k \in Kinds, QuitGraceExpired(k) PROVE TypeInv'
  <2>1. control' \in [Controls -> ControlRecords] /\ \A c \in Controls : ControlHasKind(c)'
    BY <1>2, CancelType DEF QuitGraceExpired
  <2> QED BY <1>2, <2>1
            DEF QuitGraceExpired, statusVars, resourceVars, actionVars, driverVars, startupVars,
                quitVars
<1>3. ASSUME NEW k \in Kinds, QuitCancelDone(k) PROVE TypeInv'
  BY <1>3, ConstantsAssumption DEF QuitCancelDone, ControlsEnded, ControlsOf, statusVars,
                                   resourceVars, actionVars, driverVars, startupVars
<1>4. ASSUME NEW k \in Kinds, QuitSkips(k) PROVE TypeInv'
  BY <1>4, ConstantsAssumption DEF QuitSkips, statusVars, resourceVars, actionVars, driverVars,
                                   startupVars
<1>5. ASSUME NEW k \in Kinds, QuitStops(k) PROVE TypeInv'
  BY <1>5, ConstantsAssumption DEF QuitStops, Update, Accepting, ShuttingDown, resourceVars,
                                   actionVars, driverVars, startupVars
<1>6. ASSUME NEW k \in Kinds, QuitCleaned(k) PROVE TypeInv'
  <2>1. StatusOK'
    BY <1>6, UpdateType DEF QuitCleaned
  <2>2. alive' \in [Kinds -> SUBSET (0 .. MaxStarts)] /\ orphan' \in [Kinds -> 0 .. MaxStarts]
    BY <1>6, ConstantsAssumption DEF ConstantsAssumption, QuitCleaned
  <2>3. QuitOK'
    BY <1>6, ConstantsAssumption DEF ConstantsAssumption, QuitCleaned, QuitNext
  <2> QED BY <1>6, <2>1, <2>2, <2>3
            DEF QuitCleaned, statusVars, resourceVars, actionVars, driverVars, startupVars,
                quitVars
<1>7. ASSUME NEW k \in Kinds, QuitStopped(k) PROVE TypeInv'
  BY <1>7, ConstantsAssumption DEF QuitStopped, Update, Accepting, ShuttingDown, QuitNext,
                                   actionVars, startupVars
<1>8. ASSUME NEW k \in Kinds, QuitStopFailed(k) PROVE TypeInv'
  BY <1>8, ConstantsAssumption DEF QuitStopFailed, Update, Accepting, ShuttingDown, QuitNext,
                                   resourceVars, actionVars, driverVars, startupVars
<1> QED BY <1>1, <1>2, <1>3, <1>4, <1>5, <1>6, <1>7, <1>8 DEF QuitKindStep

LEMMA TypeStep == TypeInv /\ [Next]_vars => TypeInv'
<1>1. CASE UNCHANGED vars
  BY <1>1 DEF vars, statusVars, resourceVars, actionVars, driverVars, startupVars, quitVars,
              TypeInv, TypeOK, StatusOK, ResourceOK, ActionOK, DriverOK, QuitOK, BelowBound,
              ControlHasKind
<1> QED BY <1>1, TypeStartup, TypeOp, TypeReservation, TypeApply, TypeStart, TypeDriver,
           TypeControl, TypeQuit, TypeQuitKind DEF Next

\* Every reachable state is type-correct: no slot, gate or shutdown field leaves its domain.
THEOREM TypeCorrect == Spec => []TypeOK
<1>1. Spec => []TypeInv
  BY TypeInit, TypeStep, PTL DEF Spec
<1> QED BY <1>1, PTL DEF TypeInv

-----------------------------------------------------------------------------
(* Ownership: no process is lost, and at most one lives per kind *)

LEMMA OwnershipInit == Init => Ownership
BY DEF Init, Ownership, OwnershipOf, ShuttingDown

LEMMA OwnershipStartup ==
    ASSUME TypeInv, Ownership, StartupStep
    PROVE Ownership'
<1> USE ConstantsAssumption DEF TypeInv, TypeOK, ResourceOK, ActionOK, DriverOK, QuitOK,
                                Ownership, OwnershipOf, ShuttingDown, Forked, Exited, Attempts,
                                ConstantsAssumption
<1>1. ASSUME NEW kinds \in SUBSET Kinds, Initialize(kinds) PROVE Ownership'
  BY <1>1 DEF Initialize, resourceVars, actionVars, driverVars, quitVars
<1>2. ASSUME InitializeFails PROVE Ownership'
  BY <1>2 DEF InitializeFails, resourceVars, actionVars, driverVars, quitVars
<1>3. ASSUME NEW k \in Kinds, StartKind(k) PROVE Ownership'
  BY <1>3 DEF StartKind, TakeReservation, Reserved, resourceVars, driverVars, quitVars
<1>4. ASSUME NEW k \in Kinds, StartKindRefused(k) PROVE Ownership'
  BY <1>4 DEF StartKindRefused, Reserved, resourceVars, actionVars, driverVars, quitVars
<1> QED BY <1>1, <1>2, <1>3, <1>4 DEF StartupStep

LEMMA OwnershipOp ==
    ASSUME TypeInv, Ownership, NEW o0 \in Ops,
           (\E kinds \in SUBSET Kinds \ {{}} : Reserve(o0, kinds)) \/ ReserveInterrupted(o0)
    PROVE Ownership'
<1> USE ConstantsAssumption DEF TypeInv, TypeOK, ResourceOK, ActionOK, DriverOK, QuitOK,
                                Ownership, OwnershipOf, ShuttingDown, Forked, Exited, Attempts,
                                ConstantsAssumption
<1>1. ASSUME NEW o \in Ops, NEW kinds \in SUBSET Kinds, Reserve(o, kinds) PROVE Ownership'
  BY <1>1 DEF Reserve, TakeReservation, Reserved, resourceVars, driverVars, quitVars,
              startupVars
<1>2. ASSUME NEW o \in Ops, ReserveInterrupted(o) PROVE Ownership'
  BY <1>2 DEF ReserveInterrupted, ReleaseKinds, resourceVars, driverVars, startupVars, quitVars
<1> QED BY <1>1, <1>2

LEMMA OwnershipReservation ==
    ASSUME TypeInv, Ownership, NEW k0 \in Kinds, ReservationStep(k0)
    PROVE Ownership'
<1> USE ConstantsAssumption DEF TypeInv, TypeOK, ResourceOK, ActionOK, DriverOK, QuitOK,
                                Ownership, OwnershipOf, ShuttingDown, Forked, Exited, Attempts,
                                ConstantsAssumption
<1>1. ASSUME NEW k \in Kinds, Drained(k) PROVE Ownership'
  BY <1>1 DEF Drained, MoveTo, resourceVars, driverVars, startupVars, quitVars
<1>2. ASSUME NEW k \in Kinds, GraceExpired(k) PROVE Ownership'
  BY <1>2 DEF GraceExpired, MoveTo, resourceVars, driverVars, startupVars, quitVars
<1>3. ASSUME NEW k \in Kinds, CancelDone(k) PROVE Ownership'
  BY <1>3 DEF CancelDone, MoveTo, resourceVars, driverVars, startupVars, quitVars
<1>4. ASSUME NEW k \in Kinds, Release(k) PROVE Ownership'
  BY <1>4 DEF Release, Group, ReleaseKinds, resourceVars, driverVars, startupVars, quitVars
<1> QED BY <1>1, <1>2, <1>3, <1>4 DEF ReservationStep

LEMMA OwnershipApply ==
    ASSUME TypeInv, Ownership, NEW k0 \in Kinds,
           (\E e \in BOOLEAN : BeginApply(k0, e)) \/ StopStep(k0)
    PROVE Ownership'
<1> USE ConstantsAssumption DEF TypeInv, TypeOK, ResourceOK, ActionOK, DriverOK, QuitOK,
                                Ownership, OwnershipOf, ShuttingDown, Forked, Exited, Attempts,
                                ConstantsAssumption
<1>1. ASSUME NEW k \in Kinds, NEW e \in BOOLEAN, BeginApply(k, e) PROVE Ownership'
  BY <1>1 DEF BeginApply, Group, StopOwnHandle, Stopped, EndApply, resourceVars, driverVars,
              startupVars, quitVars
<1>2. ASSUME NEW k \in Kinds, Cleaned(k) PROVE Ownership'
  BY <1>2 DEF Cleaned, StopOwnHandle, Stopped, EndApply, startupVars, quitVars
<1>3. ASSUME NEW k \in Kinds, StopFailed(k) PROVE Ownership'
  BY <1>3 DEF StopFailed, EndApply, resourceVars, driverVars, startupVars, quitVars
<1>4. ASSUME NEW k \in Kinds, HandleStopped(k) PROVE Ownership'
  BY <1>4 DEF HandleStopped, Stopped, EndApply, startupVars, quitVars
<1> QED BY <1>1, <1>2, <1>3, <1>4 DEF StopStep

LEMMA OwnershipStart ==
    ASSUME TypeInv, Ownership, NEW k0 \in Kinds, StartStep(k0)
    PROVE Ownership'
<1> USE ConstantsAssumption DEF TypeInv, TypeOK, ResourceOK, ActionOK, DriverOK, QuitOK,
                                Ownership, OwnershipOf, ShuttingDown, Forked, Exited, Attempts,
                                ConstantsAssumption
<1>1. ASSUME NEW k \in Kinds, StartRefused(k) PROVE Ownership'
  BY <1>1 DEF StartRefused, EndApply, resourceVars, driverVars, startupVars, quitVars
<1>2. ASSUME NEW k \in Kinds, StartRegistered(k) PROVE Ownership'
  BY <1>2 DEF StartRegistered, MoveTo, driverVars, startupVars, quitVars
<1>3. ASSUME NEW k \in Kinds, StartFailed(k) PROVE Ownership'
  BY <1>3 DEF StartFailed, EndApply, driverVars, startupVars, quitVars
<1>4. ASSUME NEW k \in Kinds, StartCleaned(k) PROVE Ownership'
  BY <1>4 DEF StartCleaned, EndApply, startupVars, quitVars
<1>5. ASSUME NEW k \in Kinds, StartCleanupFailed(k) PROVE Ownership'
  BY <1>5 DEF StartCleanupFailed, EndApply, resourceVars, driverVars, startupVars, quitVars
<1>6. ASSUME NEW k \in Kinds, ProbeVersion(k) PROVE Ownership'
  BY <1>6 DEF ProbeVersion, MoveTo, resourceVars, driverVars, startupVars, quitVars
<1>7. ASSUME NEW k \in Kinds, InvalidSummary(k) PROVE Ownership'
  BY <1>7 DEF InvalidSummary, resourceVars, driverVars, startupVars, quitVars
<1>8. ASSUME NEW k \in Kinds, Discarded(k) PROVE Ownership'
  BY <1>8 DEF Discarded, EndApply, startupVars, quitVars
<1>9. ASSUME NEW k \in Kinds, DiscardFailed(k) PROVE Ownership'
  BY <1>9 DEF DiscardFailed, EndApply, resourceVars, driverVars, startupVars, quitVars
<1>10. ASSUME NEW k \in Kinds, BecomeReady(k) PROVE Ownership'
  BY <1>10 DEF BecomeReady, EndApply, resourceVars, driverVars, startupVars, quitVars
<1> QED BY <1>1, <1>2, <1>3, <1>4, <1>5, <1>6, <1>7, <1>8, <1>9, <1>10 DEF StartStep

LEMMA OwnershipDriver ==
    ASSUME TypeInv, Ownership, NEW k0 \in Kinds, DriverStep(k0)
    PROVE Ownership'
<1> USE ConstantsAssumption DEF TypeInv, TypeOK, ResourceOK, ActionOK, DriverOK, QuitOK,
                                Ownership, OwnershipOf, ShuttingDown, Forked, Exited, Attempts,
                                ConstantsAssumption
<1>1. ASSUME NEW k \in Kinds, DriverAcquires(k) PROVE Ownership'
  BY <1>1 DEF DriverAcquires, MoveTo, startupVars, quitVars
<1>2. ASSUME NEW k \in Kinds, DriverFails(k) PROVE Ownership'
  BY <1>2 DEF DriverFails, MoveTo, resourceVars, driverVars, startupVars, quitVars
<1>3. ASSUME NEW k \in Kinds, DriverInterrupted(k) PROVE Ownership'
  BY <1>3 DEF DriverInterrupted, MoveTo, resourceVars, driverVars, startupVars, quitVars
<1>4. ASSUME NEW k \in Kinds, NEW exit \in {"started", "interrupted"}, DriverReturns(k, exit)
      PROVE Ownership'
  BY <1>4 DEF DriverReturns, MoveTo, driverVars, startupVars, quitVars
<1>5. ASSUME NEW k \in Kinds, NEW g \in Attempts, Crash(k, g) PROVE Ownership'
  BY <1>5 DEF Crash, resourceVars, actionVars, startupVars, quitVars
<1>6. ASSUME NEW k \in Kinds, NEW g \in Attempts, ReportExit(k, g) PROVE Ownership'
  BY <1>6 DEF ReportExit, resourceVars, actionVars, startupVars, quitVars
<1>7. ASSUME NEW k \in Kinds, NEW g \in Attempts, ReportCleanupFailure(k, g) PROVE Ownership'
  BY <1>7 DEF ReportCleanupFailure, resourceVars, actionVars, startupVars, quitVars
<1> QED BY <1>1, <1>2, <1>3, <1>4, <1>5, <1>6, <1>7 DEF DriverStep

LEMMA OwnershipControl ==
    ASSUME TypeInv, Ownership, NEW c0 \in Controls, ControlStep(c0)
    PROVE Ownership'
<1> USE ConstantsAssumption DEF TypeInv, TypeOK, ResourceOK, ActionOK, DriverOK, QuitOK,
                                Ownership, OwnershipOf, ShuttingDown, Forked, Exited, Attempts,
                                ConstantsAssumption
<1>1. ASSUME NEW c \in Controls, NEW k \in Kinds, Admit(c, k) PROVE Ownership'
  BY <1>1 DEF Admit, resourceVars, actionVars, driverVars, startupVars, quitVars
<1>2. ASSUME NEW c \in Controls, RequireReady(c) PROVE Ownership'
  BY <1>2 DEF RequireReady, resourceVars, actionVars, driverVars, startupVars, quitVars
<1>3. ASSUME NEW c \in Controls, ControlEnds(c) PROVE Ownership'
  BY <1>3 DEF ControlEnds, resourceVars, actionVars, driverVars, startupVars, quitVars
<1>4. ASSUME NEW c \in Controls, Leave(c) PROVE Ownership'
  BY <1>4 DEF Leave, resourceVars, actionVars, driverVars, startupVars, quitVars
<1> QED BY <1>1, <1>2, <1>3, <1>4 DEF ControlStep

LEMMA OwnershipQuit ==
    ASSUME TypeInv, Ownership, StopAll \/ QuitStep
    PROVE Ownership'
<1> USE ConstantsAssumption DEF TypeInv, TypeOK, ResourceOK, ActionOK, DriverOK, QuitOK,
                                Ownership, OwnershipOf, ShuttingDown, Forked, Exited, Attempts,
                                ConstantsAssumption
<1>1. ASSUME StopAll PROVE Ownership'
  BY <1>1 DEF StopAll, resourceVars, driverVars, startupVars
<1>2. ASSUME StartsInterrupted PROVE Ownership'
  BY <1>2 DEF StartsInterrupted, Applying, resourceVars, actionVars, driverVars, startupVars
<1>3. ASSUME ActionsAwaited PROVE Ownership'
  BY <1>3 DEF ActionsAwaited, Applying, resourceVars, actionVars, driverVars, startupVars
<1>4. ASSUME StopLoop PROVE Ownership'
  BY <1>4 DEF StopLoop, resourceVars, actionVars, driverVars, startupVars
<1>5. ASSUME StopAllReturns PROVE Ownership'
  BY <1>5 DEF StopAllReturns, resourceVars, actionVars, driverVars, startupVars
<1> QED BY <1>1, <1>2, <1>3, <1>4, <1>5 DEF QuitStep

LEMMA OwnershipQuitKind ==
    ASSUME TypeInv, Ownership, NEW k0 \in Kinds, QuitKindStep(k0)
    PROVE Ownership'
<1> USE ConstantsAssumption DEF TypeInv, TypeOK, ResourceOK, ActionOK, DriverOK, QuitOK,
                                Ownership, OwnershipOf, ShuttingDown, Forked, Exited, Attempts,
                                ConstantsAssumption
<1>1. ASSUME NEW k \in Kinds, QuitDrained(k) PROVE Ownership'
  BY <1>1 DEF QuitDrained, resourceVars, actionVars, driverVars, startupVars
<1>2. ASSUME NEW k \in Kinds, QuitGraceExpired(k) PROVE Ownership'
  BY <1>2 DEF QuitGraceExpired, resourceVars, actionVars, driverVars, startupVars
<1>3. ASSUME NEW k \in Kinds, QuitCancelDone(k) PROVE Ownership'
  BY <1>3 DEF QuitCancelDone, resourceVars, actionVars, driverVars, startupVars
<1>4. ASSUME NEW k \in Kinds, QuitSkips(k) PROVE Ownership'
  BY <1>4 DEF QuitSkips, resourceVars, actionVars, driverVars, startupVars
<1>5. ASSUME NEW k \in Kinds, QuitStops(k) PROVE Ownership'
  BY <1>5 DEF QuitStops, resourceVars, actionVars, driverVars, startupVars
<1>6. ASSUME NEW k \in Kinds, QuitCleaned(k) PROVE Ownership'
  BY <1>6 DEF QuitCleaned, QuitNext, actionVars, startupVars
<1>7. ASSUME NEW k \in Kinds, QuitStopped(k) PROVE Ownership'
  BY <1>7 DEF QuitStopped, QuitNext, actionVars, startupVars
<1>8. ASSUME NEW k \in Kinds, QuitStopFailed(k) PROVE Ownership'
  BY <1>8 DEF QuitStopFailed, QuitNext, resourceVars, actionVars, driverVars, startupVars
<1> QED BY <1>1, <1>2, <1>3, <1>4, <1>5, <1>6, <1>7, <1>8 DEF QuitKindStep

LEMMA OwnershipStep == TypeInv /\ Ownership /\ [Next]_vars => Ownership'
<1>1. CASE UNCHANGED vars
  BY <1>1 DEF vars, statusVars, resourceVars, actionVars, driverVars, startupVars, quitVars,
              Ownership, OwnershipOf, ShuttingDown
<1> QED BY <1>1, OwnershipStartup, OwnershipOp, OwnershipReservation, OwnershipApply,
           OwnershipStart, OwnershipDriver, OwnershipControl, OwnershipQuit, OwnershipQuitKind
        DEF Next

\* The inductive invariant holds in every reachable state.
THEOREM OwnershipHolds == Spec => []Ownership
BY TypeInit, TypeStep, OwnershipInit, OwnershipStep, PTL DEF Spec

\* A live process is always the handle or the owned orphan of its slot.
THEOREM NoRuntimeIsLost == Spec => []NoLostRuntime
<1>1. Ownership => NoLostRuntime
  BY DEF Ownership, OwnershipOf, NoLostRuntime
<1> QED BY <1>1, OwnershipHolds, PTL

\* At most one process of a kind lives, for any number of kinds, commands and start attempts.
THEOREM AtMostOneRuntime == Spec => []OneRuntimePerKind
<1>1. ASSUME Ownership, NEW k \in Kinds PROVE Cardinality(alive[k]) <= 1
  <2>1. alive[k] = {} \/ alive[k] = {starts[k]}
    BY <1>1 DEF Ownership, OwnershipOf
  <2>2. Cardinality({}) = 0 /\ Cardinality({starts[k]}) = 1
    BY FS_EmptySet, FS_Singleton
  <2> QED BY <2>1, <2>2
<1>2. Ownership => OneRuntimePerKind
  BY <1>1 DEF OneRuntimePerKind
<1> QED BY <1>2, OwnershipHolds, PTL

-----------------------------------------------------------------------------
(* The admission gate *)

LEMMA GateInit == Init => GateMatchesStatus
BY DEF Init, GateMatchesStatus, Accepting, ShuttingDown

LEMMA GateStartup ==
    ASSUME TypeInv, GateMatchesStatus, StartupStep
    PROVE GateMatchesStatus'
<1> USE DEF TypeInv, TypeOK, StatusOK, ActionOK, GateMatchesStatus, Accepting, ShuttingDown
<1>1. ASSUME NEW kinds \in SUBSET Kinds, Initialize(kinds) PROVE GateMatchesStatus'
  BY <1>1 DEF Initialize, statusVars, resourceVars, actionVars, driverVars, quitVars
<1>2. ASSUME InitializeFails PROVE GateMatchesStatus'
  BY <1>2 DEF InitializeFails, resourceVars, actionVars, driverVars, quitVars
<1>3. ASSUME NEW k \in Kinds, StartKind(k) PROVE GateMatchesStatus'
  BY <1>3 DEF StartKind, TakeReservation, Reserved, resourceVars, driverVars, quitVars
<1>4. ASSUME NEW k \in Kinds, StartKindRefused(k) PROVE GateMatchesStatus'
  BY <1>4 DEF StartKindRefused, Reserved, statusVars, resourceVars, actionVars, driverVars,
              quitVars
<1> QED BY <1>1, <1>2, <1>3, <1>4 DEF StartupStep

LEMMA GateOp ==
    ASSUME TypeInv, GateMatchesStatus, NEW o0 \in Ops,
           (\E kinds \in SUBSET Kinds \ {{}} : Reserve(o0, kinds)) \/ ReserveInterrupted(o0)
    PROVE GateMatchesStatus'
<1> USE DEF TypeInv, TypeOK, StatusOK, ActionOK, GateMatchesStatus, Accepting, ShuttingDown
<1>1. ASSUME NEW o \in Ops, NEW kinds \in SUBSET Kinds, Reserve(o, kinds) PROVE GateMatchesStatus'
  BY <1>1 DEF Reserve, TakeReservation, Reserved, resourceVars, driverVars, quitVars,
              startupVars
<1>2. ASSUME NEW o \in Ops, ReserveInterrupted(o) PROVE GateMatchesStatus'
  BY <1>2 DEF ReserveInterrupted, ReleaseKinds, resourceVars, driverVars, startupVars, quitVars
<1> QED BY <1>1, <1>2

LEMMA GateReservation ==
    ASSUME TypeInv, GateMatchesStatus, NEW k0 \in Kinds, ReservationStep(k0)
    PROVE GateMatchesStatus'
<1> USE DEF TypeInv, TypeOK, StatusOK, ActionOK, GateMatchesStatus, Accepting, ShuttingDown
<1>1. ASSUME NEW k \in Kinds, Drained(k) PROVE GateMatchesStatus'
  BY <1>1 DEF Drained, MoveTo, statusVars, resourceVars, driverVars, startupVars, quitVars
<1>2. ASSUME NEW k \in Kinds, GraceExpired(k) PROVE GateMatchesStatus'
  BY <1>2 DEF GraceExpired, MoveTo, statusVars, resourceVars, driverVars, startupVars, quitVars
<1>3. ASSUME NEW k \in Kinds, CancelDone(k) PROVE GateMatchesStatus'
  BY <1>3 DEF CancelDone, MoveTo, statusVars, resourceVars, driverVars, startupVars, quitVars
<1>4. ASSUME NEW k \in Kinds, Release(k) PROVE GateMatchesStatus'
  BY <1>4 DEF Release, Group, ReleaseKinds, resourceVars, driverVars, startupVars, quitVars
<1> QED BY <1>1, <1>2, <1>3, <1>4 DEF ReservationStep

LEMMA GateApply ==
    ASSUME TypeInv, GateMatchesStatus, NEW k0 \in Kinds,
           (\E e \in BOOLEAN : BeginApply(k0, e)) \/ StopStep(k0)
    PROVE GateMatchesStatus'
<1> USE DEF TypeInv, TypeOK, StatusOK, ActionOK, GateMatchesStatus, Accepting, ShuttingDown
<1>1. ASSUME NEW k \in Kinds, NEW e \in BOOLEAN, BeginApply(k, e) PROVE GateMatchesStatus'
  BY <1>1 DEF BeginApply, Group, Update, StopOwnHandle, Stopped, statusVars, EndApply,
              resourceVars, driverVars, startupVars, quitVars
<1>2. ASSUME NEW k \in Kinds, Cleaned(k) PROVE GateMatchesStatus'
  BY <1>2 DEF Cleaned, StopOwnHandle, Stopped, statusVars, Update, EndApply, startupVars,
              quitVars
<1>3. ASSUME NEW k \in Kinds, StopFailed(k) PROVE GateMatchesStatus'
  BY <1>3 DEF StopFailed, Update, EndApply, resourceVars, driverVars, startupVars, quitVars
<1>4. ASSUME NEW k \in Kinds, HandleStopped(k) PROVE GateMatchesStatus'
  BY <1>4 DEF HandleStopped, Stopped, statusVars, Update, EndApply, startupVars, quitVars
<1> QED BY <1>1, <1>2, <1>3, <1>4 DEF StopStep

LEMMA GateStart ==
    ASSUME TypeInv, GateMatchesStatus, NEW k0 \in Kinds, StartStep(k0)
    PROVE GateMatchesStatus'
<1> USE DEF TypeInv, TypeOK, StatusOK, ActionOK, GateMatchesStatus, Accepting, ShuttingDown
<1>1. ASSUME NEW k \in Kinds, StartRefused(k) PROVE GateMatchesStatus'
  BY <1>1 DEF StartRefused, Update, EndApply, resourceVars, driverVars, startupVars, quitVars
<1>2. ASSUME NEW k \in Kinds, StartRegistered(k) PROVE GateMatchesStatus'
  BY <1>2 DEF StartRegistered, Update, MoveTo, driverVars, startupVars, quitVars
<1>3. ASSUME NEW k \in Kinds, StartFailed(k) PROVE GateMatchesStatus'
  BY <1>3 DEF StartFailed, statusVars, Update, EndApply, driverVars, startupVars, quitVars
<1>4. ASSUME NEW k \in Kinds, StartCleaned(k) PROVE GateMatchesStatus'
  BY <1>4 DEF StartCleaned, Update, EndApply, startupVars, quitVars
<1>5. ASSUME NEW k \in Kinds, StartCleanupFailed(k) PROVE GateMatchesStatus'
  BY <1>5 DEF StartCleanupFailed, Update, EndApply, resourceVars, driverVars, startupVars,
              quitVars
<1>6. ASSUME NEW k \in Kinds, ProbeVersion(k) PROVE GateMatchesStatus'
  BY <1>6 DEF ProbeVersion, MoveTo, statusVars, resourceVars, driverVars, startupVars, quitVars
<1>7. ASSUME NEW k \in Kinds, InvalidSummary(k) PROVE GateMatchesStatus'
  BY <1>7 DEF InvalidSummary, Update, resourceVars, driverVars, startupVars, quitVars
<1>8. ASSUME NEW k \in Kinds, Discarded(k) PROVE GateMatchesStatus'
  BY <1>8 DEF Discarded, Update, EndApply, startupVars, quitVars
<1>9. ASSUME NEW k \in Kinds, DiscardFailed(k) PROVE GateMatchesStatus'
  BY <1>9 DEF DiscardFailed, Update, EndApply, resourceVars, driverVars, startupVars, quitVars
<1>10. ASSUME NEW k \in Kinds, BecomeReady(k) PROVE GateMatchesStatus'
  BY <1>10 DEF BecomeReady, statusVars, Update, EndApply, resourceVars, driverVars, startupVars,
               quitVars
<1> QED BY <1>1, <1>2, <1>3, <1>4, <1>5, <1>6, <1>7, <1>8, <1>9, <1>10 DEF StartStep

LEMMA GateDriver ==
    ASSUME TypeInv, GateMatchesStatus, NEW k0 \in Kinds, DriverStep(k0)
    PROVE GateMatchesStatus'
<1> USE DEF TypeInv, TypeOK, StatusOK, ActionOK, GateMatchesStatus, Accepting, ShuttingDown
<1>1. ASSUME NEW k \in Kinds, DriverAcquires(k) PROVE GateMatchesStatus'
  BY <1>1 DEF DriverAcquires, MoveTo, statusVars, startupVars, quitVars
<1>2. ASSUME NEW k \in Kinds, DriverFails(k) PROVE GateMatchesStatus'
  BY <1>2 DEF DriverFails, MoveTo, statusVars, resourceVars, driverVars, startupVars, quitVars
<1>3. ASSUME NEW k \in Kinds, DriverInterrupted(k) PROVE GateMatchesStatus'
  BY <1>3 DEF DriverInterrupted, MoveTo, statusVars, resourceVars, driverVars, startupVars,
              quitVars
<1>4. ASSUME NEW k \in Kinds, NEW exit \in {"started", "interrupted"}, DriverReturns(k, exit)
      PROVE GateMatchesStatus'
  BY <1>4 DEF DriverReturns, MoveTo, statusVars, driverVars, startupVars, quitVars
<1>5. ASSUME NEW k \in Kinds, NEW g \in Attempts, Crash(k, g) PROVE GateMatchesStatus'
  BY <1>5 DEF Crash, statusVars, resourceVars, actionVars, startupVars, quitVars
<1>6. ASSUME NEW k \in Kinds, NEW g \in Attempts, ReportExit(k, g) PROVE GateMatchesStatus'
  BY <1>6 DEF ReportExit, Update, statusVars, resourceVars, actionVars, startupVars, quitVars
<1>7. ASSUME NEW k \in Kinds, NEW g \in Attempts, ReportCleanupFailure(k, g)
      PROVE GateMatchesStatus'
  BY <1>7 DEF ReportCleanupFailure, Update, statusVars, resourceVars, actionVars, startupVars,
              quitVars
<1> QED BY <1>1, <1>2, <1>3, <1>4, <1>5, <1>6, <1>7 DEF DriverStep

LEMMA GateControl ==
    ASSUME TypeInv, GateMatchesStatus, NEW c0 \in Controls, ControlStep(c0)
    PROVE GateMatchesStatus'
<1> USE DEF TypeInv, TypeOK, StatusOK, ActionOK, GateMatchesStatus, Accepting, ShuttingDown
<1>1. ASSUME NEW c \in Controls, NEW k \in Kinds, Admit(c, k) PROVE GateMatchesStatus'
  BY <1>1 DEF Admit, statusVars, resourceVars, actionVars, driverVars, startupVars, quitVars
<1>2. ASSUME NEW c \in Controls, RequireReady(c) PROVE GateMatchesStatus'
  BY <1>2 DEF RequireReady, statusVars, resourceVars, actionVars, driverVars, startupVars,
              quitVars
<1>3. ASSUME NEW c \in Controls, ControlEnds(c) PROVE GateMatchesStatus'
  BY <1>3 DEF ControlEnds, statusVars, resourceVars, actionVars, driverVars, startupVars,
              quitVars
<1>4. ASSUME NEW c \in Controls, Leave(c) PROVE GateMatchesStatus'
  BY <1>4 DEF Leave, statusVars, resourceVars, actionVars, driverVars, startupVars, quitVars
<1> QED BY <1>1, <1>2, <1>3, <1>4 DEF ControlStep

LEMMA GateQuit ==
    ASSUME TypeInv, GateMatchesStatus, StopAll \/ QuitStep
    PROVE GateMatchesStatus'
<1> USE DEF TypeInv, TypeOK, StatusOK, ActionOK, GateMatchesStatus, Accepting, ShuttingDown
<1>1. ASSUME StopAll PROVE GateMatchesStatus'
  BY <1>1 DEF StopAll, resourceVars, driverVars, startupVars
<1>2. ASSUME StartsInterrupted PROVE GateMatchesStatus'
  BY <1>2 DEF StartsInterrupted, statusVars, resourceVars, actionVars, driverVars, startupVars
<1>3. ASSUME ActionsAwaited PROVE GateMatchesStatus'
  BY <1>3 DEF ActionsAwaited, statusVars, resourceVars, actionVars, driverVars, startupVars
<1>4. ASSUME StopLoop PROVE GateMatchesStatus'
  BY <1>4 DEF StopLoop, statusVars, resourceVars, actionVars, driverVars, startupVars
<1>5. ASSUME StopAllReturns PROVE GateMatchesStatus'
  BY <1>5 DEF StopAllReturns, statusVars, resourceVars, actionVars, driverVars, startupVars
<1> QED BY <1>1, <1>2, <1>3, <1>4, <1>5 DEF QuitStep

LEMMA GateQuitKind ==
    ASSUME TypeInv, GateMatchesStatus, NEW k0 \in Kinds, QuitKindStep(k0)
    PROVE GateMatchesStatus'
<1> USE DEF TypeInv, TypeOK, StatusOK, ActionOK, GateMatchesStatus, Accepting, ShuttingDown
<1>1. ASSUME NEW k \in Kinds, QuitDrained(k) PROVE GateMatchesStatus'
  BY <1>1 DEF QuitDrained, statusVars, resourceVars, actionVars, driverVars, startupVars
<1>2. ASSUME NEW k \in Kinds, QuitGraceExpired(k) PROVE GateMatchesStatus'
  BY <1>2 DEF QuitGraceExpired, statusVars, resourceVars, actionVars, driverVars, startupVars
<1>3. ASSUME NEW k \in Kinds, QuitCancelDone(k) PROVE GateMatchesStatus'
  BY <1>3 DEF QuitCancelDone, statusVars, resourceVars, actionVars, driverVars, startupVars
<1>4. ASSUME NEW k \in Kinds, QuitSkips(k) PROVE GateMatchesStatus'
  BY <1>4 DEF QuitSkips, statusVars, resourceVars, actionVars, driverVars, startupVars
<1>5. ASSUME NEW k \in Kinds, QuitStops(k) PROVE GateMatchesStatus'
  BY <1>5 DEF QuitStops, Update, resourceVars, actionVars, driverVars, startupVars
<1>6. ASSUME NEW k \in Kinds, QuitCleaned(k) PROVE GateMatchesStatus'
  BY <1>6 DEF QuitCleaned, Update, QuitNext, actionVars, startupVars
<1>7. ASSUME NEW k \in Kinds, QuitStopped(k) PROVE GateMatchesStatus'
  BY <1>7 DEF QuitStopped, Update, QuitNext, actionVars, startupVars
<1>8. ASSUME NEW k \in Kinds, QuitStopFailed(k) PROVE GateMatchesStatus'
  BY <1>8 DEF QuitStopFailed, Update, QuitNext, resourceVars, actionVars, driverVars,
              startupVars
<1> QED BY <1>1, <1>2, <1>3, <1>4, <1>5, <1>6, <1>7, <1>8 DEF QuitKindStep

LEMMA GateStep == TypeInv /\ GateMatchesStatus /\ [Next]_vars => GateMatchesStatus'
<1>1. CASE UNCHANGED vars
  BY <1>1 DEF vars, statusVars, resourceVars, actionVars, driverVars, startupVars, quitVars,
              GateMatchesStatus, Accepting, ShuttingDown
<1> QED BY <1>1, GateStartup, GateOp, GateReservation, GateApply, GateStart, GateDriver,
           GateControl, GateQuit, GateQuitKind DEF Next

\* In every reachable state the gate is open exactly for a ready, unreserved kind before shutdown.
THEOREM GateCorrect == Spec => []GateMatchesStatus
BY TypeInit, TypeStep, GateInit, GateStep, PTL DEF Spec

-----------------------------------------------------------------------------
(* Shutdown *)

\* The step property of NothingStartsAfterShutdown.
AfterShutdown ==
    ShuttingDown => /\ starts' = starts
                    /\ \A k \in Kinds : state'[k] = "ready" => state[k] = "ready"

LEMMA ShutdownStartup ==
    ASSUME TypeInv, StartupStep
    PROVE AfterShutdown
<1> USE DEF TypeInv, TypeOK, StatusOK, AfterShutdown, ShuttingDown
<1>1. ASSUME NEW kinds \in SUBSET Kinds, Initialize(kinds) PROVE AfterShutdown
  BY <1>1 DEF Initialize, statusVars, resourceVars, actionVars, driverVars, quitVars
<1>2. ASSUME InitializeFails PROVE AfterShutdown
  BY <1>2 DEF InitializeFails, Failure, resourceVars, actionVars, driverVars, quitVars
<1>3. ASSUME NEW k \in Kinds, StartKind(k) PROVE AfterShutdown
  BY <1>3 DEF StartKind, TakeReservation, Reserved, resourceVars, driverVars, quitVars
<1>4. ASSUME NEW k \in Kinds, StartKindRefused(k) PROVE AfterShutdown
  BY <1>4 DEF StartKindRefused, Reserved, statusVars, resourceVars, actionVars, driverVars,
              quitVars
<1> QED BY <1>1, <1>2, <1>3, <1>4 DEF StartupStep

LEMMA ShutdownOp ==
    ASSUME TypeInv, NEW o0 \in Ops,
           (\E kinds \in SUBSET Kinds \ {{}} : Reserve(o0, kinds)) \/ ReserveInterrupted(o0)
    PROVE AfterShutdown
<1> USE DEF TypeInv, TypeOK, StatusOK, AfterShutdown, ShuttingDown
<1>1. ASSUME NEW o \in Ops, NEW kinds \in SUBSET Kinds, Reserve(o, kinds) PROVE AfterShutdown
  BY <1>1 DEF Reserve, TakeReservation, Reserved, resourceVars, driverVars, quitVars,
              startupVars
<1>2. ASSUME NEW o \in Ops, ReserveInterrupted(o) PROVE AfterShutdown
  BY <1>2 DEF ReserveInterrupted, ReleaseKinds, resourceVars, driverVars, startupVars, quitVars
<1> QED BY <1>1, <1>2

LEMMA ShutdownReservation ==
    ASSUME TypeInv, NEW k0 \in Kinds, ReservationStep(k0)
    PROVE AfterShutdown
<1> USE DEF TypeInv, TypeOK, StatusOK, AfterShutdown, ShuttingDown
<1>1. ASSUME NEW k \in Kinds, Drained(k) PROVE AfterShutdown
  BY <1>1 DEF Drained, MoveTo, statusVars, resourceVars, driverVars, startupVars, quitVars
<1>2. ASSUME NEW k \in Kinds, GraceExpired(k) PROVE AfterShutdown
  BY <1>2 DEF GraceExpired, MoveTo, statusVars, resourceVars, driverVars, startupVars, quitVars
<1>3. ASSUME NEW k \in Kinds, CancelDone(k) PROVE AfterShutdown
  BY <1>3 DEF CancelDone, MoveTo, statusVars, resourceVars, driverVars, startupVars, quitVars
<1>4. ASSUME NEW k \in Kinds, Release(k) PROVE AfterShutdown
  BY <1>4 DEF Release, Group, ReleaseKinds, resourceVars, driverVars, startupVars, quitVars
<1> QED BY <1>1, <1>2, <1>3, <1>4 DEF ReservationStep

LEMMA ShutdownApply ==
    ASSUME TypeInv, NEW k0 \in Kinds,
           (\E e \in BOOLEAN : BeginApply(k0, e)) \/ StopStep(k0)
    PROVE AfterShutdown
<1> USE DEF TypeInv, TypeOK, StatusOK, AfterShutdown, ShuttingDown
<1>1. ASSUME NEW k \in Kinds, NEW e \in BOOLEAN, BeginApply(k, e) PROVE AfterShutdown
  BY <1>1 DEF BeginApply, Group, Update, Progress, StopOwnHandle, Stopped, statusVars,
              NoFailure, EndApply, resourceVars, driverVars, startupVars, quitVars
<1>2. ASSUME NEW k \in Kinds, Cleaned(k) PROVE AfterShutdown
  BY <1>2 DEF Cleaned, StopOwnHandle, Stopped, statusVars, Update, NoFailure, EndApply,
              Progress, startupVars, quitVars
<1>3. ASSUME NEW k \in Kinds, StopFailed(k) PROVE AfterShutdown
  BY <1>3 DEF StopFailed, Update, Failure, EndApply, resourceVars, driverVars, startupVars,
              quitVars
<1>4. ASSUME NEW k \in Kinds, HandleStopped(k) PROVE AfterShutdown
  BY <1>4 DEF HandleStopped, Stopped, statusVars, Update, NoFailure, EndApply, startupVars,
              quitVars
<1> QED BY <1>1, <1>2, <1>3, <1>4 DEF StopStep

LEMMA ShutdownStart ==
    ASSUME TypeInv, NEW k0 \in Kinds, StartStep(k0)
    PROVE AfterShutdown
<1> USE DEF TypeInv, TypeOK, StatusOK, AfterShutdown, ShuttingDown
<1>1. ASSUME NEW k \in Kinds, StartRefused(k) PROVE AfterShutdown
  BY <1>1 DEF StartRefused, Update, NoFailure, EndApply, resourceVars, driverVars, startupVars,
              quitVars
<1>2. ASSUME NEW k \in Kinds, StartRegistered(k) PROVE AfterShutdown
  BY <1>2 DEF StartRegistered, Update, NoFailure, MoveTo, driverVars, startupVars, quitVars
<1>3. ASSUME NEW k \in Kinds, StartFailed(k) PROVE AfterShutdown
  BY <1>3 DEF StartFailed, statusVars, Update, Failure, NoFailure, EndApply, driverVars,
              startupVars, quitVars
<1>4. ASSUME NEW k \in Kinds, StartCleaned(k) PROVE AfterShutdown
  BY <1>4 DEF StartCleaned, Update, NoFailure, Failure, EndApply, startupVars, quitVars
<1>5. ASSUME NEW k \in Kinds, StartCleanupFailed(k) PROVE AfterShutdown
  BY <1>5 DEF StartCleanupFailed, Update, Failure, EndApply, resourceVars, driverVars,
              startupVars, quitVars
<1>6. ASSUME NEW k \in Kinds, ProbeVersion(k) PROVE AfterShutdown
  BY <1>6 DEF ProbeVersion, MoveTo, statusVars, resourceVars, driverVars, startupVars, quitVars
<1>7. ASSUME NEW k \in Kinds, InvalidSummary(k) PROVE AfterShutdown
  BY <1>7 DEF InvalidSummary, Update, resourceVars, driverVars, startupVars, quitVars
<1>8. ASSUME NEW k \in Kinds, Discarded(k) PROVE AfterShutdown
  BY <1>8 DEF Discarded, Update, Failure, EndApply, startupVars, quitVars
<1>9. ASSUME NEW k \in Kinds, DiscardFailed(k) PROVE AfterShutdown
  BY <1>9 DEF DiscardFailed, Update, Failure, EndApply, resourceVars, driverVars, startupVars,
              quitVars
<1>10. ASSUME NEW k \in Kinds, BecomeReady(k) PROVE AfterShutdown
  BY <1>10 DEF BecomeReady, statusVars, Update, NoFailure, EndApply, resourceVars, driverVars,
               startupVars, quitVars
<1> QED BY <1>1, <1>2, <1>3, <1>4, <1>5, <1>6, <1>7, <1>8, <1>9, <1>10 DEF StartStep

LEMMA ShutdownDriver ==
    ASSUME TypeInv, NEW k0 \in Kinds, DriverStep(k0)
    PROVE AfterShutdown
<1> USE DEF TypeInv, TypeOK, StatusOK, AfterShutdown, ShuttingDown
<1>1. ASSUME NEW k \in Kinds, DriverAcquires(k) PROVE AfterShutdown
  BY <1>1 DEF DriverAcquires, MoveTo, statusVars, startupVars, quitVars
<1>2. ASSUME NEW k \in Kinds, DriverFails(k) PROVE AfterShutdown
  BY <1>2 DEF DriverFails, MoveTo, statusVars, resourceVars, driverVars, startupVars, quitVars
<1>3. ASSUME NEW k \in Kinds, DriverInterrupted(k) PROVE AfterShutdown
  BY <1>3 DEF DriverInterrupted, MoveTo, statusVars, resourceVars, driverVars, startupVars,
              quitVars
<1>4. ASSUME NEW k \in Kinds, NEW exit \in {"started", "interrupted"}, DriverReturns(k, exit)
      PROVE AfterShutdown
  BY <1>4 DEF DriverReturns, MoveTo, statusVars, driverVars, startupVars, quitVars
<1>5. ASSUME NEW k \in Kinds, NEW g \in Attempts, Crash(k, g) PROVE AfterShutdown
  BY <1>5 DEF Crash, statusVars, resourceVars, actionVars, startupVars, quitVars
<1>6. ASSUME NEW k \in Kinds, NEW g \in Attempts, ReportExit(k, g) PROVE AfterShutdown
  BY <1>6 DEF ReportExit, Update, statusVars, resourceVars, actionVars, startupVars, quitVars
<1>7. ASSUME NEW k \in Kinds, NEW g \in Attempts, ReportCleanupFailure(k, g) PROVE AfterShutdown
  BY <1>7 DEF ReportCleanupFailure, Update, statusVars, resourceVars, actionVars, startupVars,
              quitVars
<1> QED BY <1>1, <1>2, <1>3, <1>4, <1>5, <1>6, <1>7 DEF DriverStep

LEMMA ShutdownControl ==
    ASSUME TypeInv, NEW c0 \in Controls, ControlStep(c0)
    PROVE AfterShutdown
<1> USE DEF TypeInv, TypeOK, StatusOK, AfterShutdown, ShuttingDown
<1>1. ASSUME NEW c \in Controls, NEW k \in Kinds, Admit(c, k) PROVE AfterShutdown
  BY <1>1 DEF Admit, statusVars, resourceVars, actionVars, driverVars, startupVars, quitVars
<1>2. ASSUME NEW c \in Controls, RequireReady(c) PROVE AfterShutdown
  BY <1>2 DEF RequireReady, statusVars, resourceVars, actionVars, driverVars, startupVars,
              quitVars
<1>3. ASSUME NEW c \in Controls, ControlEnds(c) PROVE AfterShutdown
  BY <1>3 DEF ControlEnds, statusVars, resourceVars, actionVars, driverVars, startupVars,
              quitVars
<1>4. ASSUME NEW c \in Controls, Leave(c) PROVE AfterShutdown
  BY <1>4 DEF Leave, statusVars, resourceVars, actionVars, driverVars, startupVars, quitVars
<1> QED BY <1>1, <1>2, <1>3, <1>4 DEF ControlStep

LEMMA ShutdownQuit ==
    ASSUME TypeInv, StopAll \/ QuitStep
    PROVE AfterShutdown
<1> USE DEF TypeInv, TypeOK, StatusOK, AfterShutdown, ShuttingDown
<1>1. ASSUME StopAll PROVE AfterShutdown
  BY <1>1 DEF StopAll, resourceVars, driverVars, startupVars
<1>2. ASSUME StartsInterrupted PROVE AfterShutdown
  BY <1>2 DEF StartsInterrupted, statusVars, resourceVars, actionVars, driverVars, startupVars
<1>3. ASSUME ActionsAwaited PROVE AfterShutdown
  BY <1>3 DEF ActionsAwaited, statusVars, resourceVars, actionVars, driverVars, startupVars
<1>4. ASSUME StopLoop PROVE AfterShutdown
  BY <1>4 DEF StopLoop, statusVars, resourceVars, actionVars, driverVars, startupVars
<1>5. ASSUME StopAllReturns PROVE AfterShutdown
  BY <1>5 DEF StopAllReturns, statusVars, resourceVars, actionVars, driverVars, startupVars
<1> QED BY <1>1, <1>2, <1>3, <1>4, <1>5 DEF QuitStep

LEMMA ShutdownQuitKind ==
    ASSUME TypeInv, NEW k0 \in Kinds, QuitKindStep(k0)
    PROVE AfterShutdown
<1> USE DEF TypeInv, TypeOK, StatusOK, AfterShutdown, ShuttingDown
<1>1. ASSUME NEW k \in Kinds, QuitDrained(k) PROVE AfterShutdown
  BY <1>1 DEF QuitDrained, statusVars, resourceVars, actionVars, driverVars, startupVars
<1>2. ASSUME NEW k \in Kinds, QuitGraceExpired(k) PROVE AfterShutdown
  BY <1>2 DEF QuitGraceExpired, statusVars, resourceVars, actionVars, driverVars, startupVars
<1>3. ASSUME NEW k \in Kinds, QuitCancelDone(k) PROVE AfterShutdown
  BY <1>3 DEF QuitCancelDone, statusVars, resourceVars, actionVars, driverVars, startupVars
<1>4. ASSUME NEW k \in Kinds, QuitSkips(k) PROVE AfterShutdown
  BY <1>4 DEF QuitSkips, statusVars, resourceVars, actionVars, driverVars, startupVars
<1>5. ASSUME NEW k \in Kinds, QuitStops(k) PROVE AfterShutdown
  BY <1>5 DEF QuitStops, Update, resourceVars, actionVars, driverVars, startupVars
<1>6. ASSUME NEW k \in Kinds, QuitCleaned(k) PROVE AfterShutdown
  BY <1>6 DEF QuitCleaned, Update, NoFailure, QuitNext, actionVars, startupVars
<1>7. ASSUME NEW k \in Kinds, QuitStopped(k) PROVE AfterShutdown
  BY <1>7 DEF QuitStopped, Update, NoFailure, QuitNext, actionVars, startupVars
<1>8. ASSUME NEW k \in Kinds, QuitStopFailed(k) PROVE AfterShutdown
  BY <1>8 DEF QuitStopFailed, Update, Failure, QuitNext, resourceVars, actionVars, driverVars,
              startupVars
<1> QED BY <1>1, <1>2, <1>3, <1>4, <1>5, <1>6, <1>7, <1>8 DEF QuitKindStep

LEMMA ShutdownStep == TypeInv /\ [Next]_vars => [AfterShutdown]_vars
<1> SUFFICES ASSUME TypeInv, Next PROVE AfterShutdown
    OBVIOUS
<1> QED BY ShutdownStartup, ShutdownOp, ShutdownReservation, ShutdownApply, ShutdownStart,
           ShutdownDriver, ShutdownControl, ShutdownQuit, ShutdownQuitKind DEF Next

\* After stopAll began no start registers and no kind becomes ready, whatever was in progress.
THEOREM ShutdownIsFinal == Spec => NothingStartsAfterShutdown
<1>1. TypeInv /\ [Next]_vars => [AfterShutdown]_vars
  BY ShutdownStep
<1>2. Spec => []TypeInv
  BY TypeInit, TypeStep, PTL DEF Spec
<1>3. Spec => [][AfterShutdown]_vars
  BY <1>1, <1>2, PTL DEF Spec
<1> QED BY <1>3 DEF NothingStartsAfterShutdown, AfterShutdown

-----------------------------------------------------------------------------
(* Drains and shutdown *)

AfterFork == Exited \cup {"probing", "discarding", "recovering", "aborting"}

\* The stop loop of shutdown runs or is over.
InLoop == shutdown \in {"next", "cleaning", "stopping", "done"}

QuietKind(k) ==
    \A c \in Controls : control[c].kind = k => control[c].at \in {"idle", "ended"}

\* Why nothing stops under a control and shutdown finds everything: a kind is quiet from the end of
\* its drain on, the starts that shutdown waits for are the only ones that still settle, and the
\* loop leaves nothing in the kinds it has passed.
DrainOf(k) ==
    /\ at[k] = "free" <=> owner[k] = "none"
    /\ at[k] \notin {"free", "draining", "cancelling"} => QuietKind(k)
    /\ shutdown = "draining" /\ quitDrain[k] = "done" => QuietKind(k)
    /\ InLoop => quitDrain[k] = "done" /\ QuietKind(k)
    /\ shutdown \notin {"open", "interrupting"} /\ at[k] \in AfterFork =>
         shutdown = "awaiting" /\ k \in awaited
    /\ InLoop /\ k \notin quitFailed \cup quitLeft \cup {quitKind} =>
         handle[k] = 0 /\ orphan[k] = 0
    /\ shutdown = "stopping" /\ quitKind = k => orphan[k] = 0

DrainInv ==
    /\ shutdown \notin {"cleaning", "stopping"} => quitKind = "none"
    /\ shutdown = "done" => quitLeft = {}
    /\ \A k \in Kinds : DrainOf(k)

LEMMA DrainStartup ==
    ASSUME TypeInv, Ownership, GateMatchesStatus, DrainInv, StartupStep
    PROVE DrainInv'
<1> USE ConstantsAssumption DEF ConstantsAssumption, TypeInv, TypeOK, ResourceOK, ActionOK,
                                QuitOK, Ownership, OwnershipOf, GateMatchesStatus, Accepting,
                                ShuttingDown, DrainInv, DrainOf, InLoop, QuietKind, AfterFork,
                                Applying, ApplyLocations, Forked, Exited, Attempts
<1>1. ASSUME NEW kinds \in SUBSET Kinds, Initialize(kinds) PROVE DrainInv'
  BY <1>1 DEF Initialize, statusVars, resourceVars, actionVars, driverVars, quitVars
<1>2. ASSUME InitializeFails PROVE DrainInv'
  BY <1>2 DEF InitializeFails, resourceVars, actionVars, driverVars, quitVars
<1>3. ASSUME NEW k \in Kinds, StartKind(k) PROVE DrainInv'
  BY <1>3 DEF StartKind, TakeReservation, Reserved, resourceVars, driverVars, quitVars
<1>4. ASSUME NEW k \in Kinds, StartKindRefused(k) PROVE DrainInv'
  BY <1>4 DEF StartKindRefused, Reserved, statusVars, resourceVars, actionVars, driverVars,
              quitVars
<1> QED BY <1>1, <1>2, <1>3, <1>4 DEF StartupStep

LEMMA DrainOp ==
    ASSUME TypeInv, Ownership, GateMatchesStatus, DrainInv, NEW o0 \in Ops,
           (\E kinds \in SUBSET Kinds \ {{}} : Reserve(o0, kinds)) \/ ReserveInterrupted(o0)
    PROVE DrainInv'
<1> USE ConstantsAssumption DEF ConstantsAssumption, TypeInv, TypeOK, ResourceOK, ActionOK,
                                QuitOK, Ownership, OwnershipOf, GateMatchesStatus, Accepting,
                                ShuttingDown, DrainInv, DrainOf, InLoop, QuietKind, AfterFork,
                                Applying, ApplyLocations, Forked, Exited, Attempts
<1>1. ASSUME NEW o \in Ops, NEW kinds \in SUBSET Kinds, Reserve(o, kinds) PROVE DrainInv'
  BY <1>1 DEF Reserve, TakeReservation, startupVars, Reserved, resourceVars, driverVars, quitVars
<1>2. ASSUME NEW o \in Ops, ReserveInterrupted(o) PROVE DrainInv'
  BY <1>2 DEF ReserveInterrupted, ReleaseKinds, resourceVars, driverVars, startupVars, quitVars
<1> QED BY <1>1, <1>2

LEMMA DrainReservation ==
    ASSUME TypeInv, Ownership, GateMatchesStatus, DrainInv, NEW k0 \in Kinds, ReservationStep(k0)
    PROVE DrainInv'
<1> USE ConstantsAssumption DEF ConstantsAssumption, TypeInv, TypeOK, ResourceOK, ActionOK,
                                QuitOK, Ownership, OwnershipOf, GateMatchesStatus, Accepting,
                                ShuttingDown, DrainInv, DrainOf, InLoop, QuietKind, AfterFork,
                                Applying, ApplyLocations, Forked, Exited, Attempts
<1>1. ASSUME NEW k \in Kinds, Drained(k) PROVE DrainInv'
  BY <1>1 DEF Drained, ControlsOf, MoveTo, statusVars, resourceVars, driverVars, startupVars,
              quitVars
<1>2. ASSUME NEW k \in Kinds, GraceExpired(k) PROVE DrainInv'
  BY <1>2 DEF GraceExpired, MoveTo, CancelControls, statusVars, resourceVars, driverVars,
              startupVars, quitVars, ControlsOf
<1>3. ASSUME NEW k \in Kinds, CancelDone(k) PROVE DrainInv'
  BY <1>3 DEF CancelDone, ControlsEnded, MoveTo, statusVars, resourceVars, driverVars,
              startupVars, quitVars, ControlsOf
<1>4. ASSUME NEW k \in Kinds, Release(k) PROVE DrainInv'
  BY <1>4 DEF Release, Group, ReleaseKinds, resourceVars, driverVars, startupVars, quitVars
<1> QED BY <1>1, <1>2, <1>3, <1>4 DEF ReservationStep

LEMMA DrainApply ==
    ASSUME TypeInv, Ownership, GateMatchesStatus, DrainInv, NEW k0 \in Kinds,
           (\E e \in BOOLEAN : BeginApply(k0, e)) \/ StopStep(k0)
    PROVE DrainInv'
<1> USE ConstantsAssumption DEF ConstantsAssumption, TypeInv, TypeOK, ResourceOK, ActionOK,
                                QuitOK, Ownership, OwnershipOf, GateMatchesStatus, Accepting,
                                ShuttingDown, DrainInv, DrainOf, InLoop, QuietKind, AfterFork,
                                Applying, ApplyLocations, Forked, Exited, Attempts
<1>1. ASSUME NEW k \in Kinds, NEW e \in BOOLEAN, BeginApply(k, e) PROVE DrainInv'
  BY <1>1 DEF BeginApply, Group, Update, Progress, StopOwnHandle, resourceVars, driverVars,
              startupVars, quitVars, Stopped, statusVars, EndApply
<1>2. ASSUME NEW k \in Kinds, Cleaned(k) PROVE DrainInv'
  BY <1>2 DEF Cleaned, StopOwnHandle, startupVars, quitVars, Stopped, Update, Progress,
              statusVars, EndApply
<1>3. ASSUME NEW k \in Kinds, StopFailed(k) PROVE DrainInv'
  BY <1>3 DEF StopFailed, Update, EndApply, resourceVars, driverVars, startupVars, quitVars
<1>4. ASSUME NEW k \in Kinds, HandleStopped(k) PROVE DrainInv'
  BY <1>4 DEF HandleStopped, Stopped, startupVars, quitVars, statusVars, Update, EndApply
<1> QED BY <1>1, <1>2, <1>3, <1>4 DEF StopStep

LEMMA DrainStart ==
    ASSUME TypeInv, Ownership, GateMatchesStatus, DrainInv, NEW k0 \in Kinds, StartStep(k0)
    PROVE DrainInv'
<1> USE ConstantsAssumption DEF ConstantsAssumption, TypeInv, TypeOK, ResourceOK, ActionOK,
                                QuitOK, Ownership, OwnershipOf, GateMatchesStatus, Accepting,
                                ShuttingDown, DrainInv, DrainOf, InLoop, QuietKind, AfterFork,
                                Applying, ApplyLocations, Forked, Exited, Attempts
<1>1. ASSUME NEW k \in Kinds, StartRefused(k) PROVE DrainInv'
  BY <1>1 DEF StartRefused, Update, EndApply, resourceVars, driverVars, startupVars, quitVars
<1>2. ASSUME NEW k \in Kinds, StartRegistered(k) PROVE DrainInv'
  BY <1>2 DEF StartRegistered, Update, MoveTo, driverVars, startupVars, quitVars
<1>3. ASSUME NEW k \in Kinds, StartFailed(k) PROVE DrainInv'
  BY <1>3 DEF StartFailed, statusVars, Update, EndApply, driverVars, startupVars, quitVars
<1>4. ASSUME NEW k \in Kinds, StartCleaned(k) PROVE DrainInv'
  BY <1>4 DEF StartCleaned, Update, EndApply, startupVars, quitVars
<1>5. ASSUME NEW k \in Kinds, StartCleanupFailed(k) PROVE DrainInv'
  BY <1>5 DEF StartCleanupFailed, Update, EndApply, resourceVars, driverVars, startupVars,
              quitVars
<1>6. ASSUME NEW k \in Kinds, ProbeVersion(k) PROVE DrainInv'
  BY <1>6 DEF ProbeVersion, MoveTo, statusVars, resourceVars, driverVars, startupVars, quitVars
<1>7. ASSUME NEW k \in Kinds, InvalidSummary(k) PROVE DrainInv'
  BY <1>7 DEF InvalidSummary, Update, resourceVars, driverVars, startupVars, quitVars
<1>8. ASSUME NEW k \in Kinds, Discarded(k) PROVE DrainInv'
  BY <1>8 DEF Discarded, Update, EndApply, startupVars, quitVars
<1>9. ASSUME NEW k \in Kinds, DiscardFailed(k) PROVE DrainInv'
  BY <1>9 DEF DiscardFailed, Update, EndApply, resourceVars, driverVars, startupVars, quitVars
<1>10. ASSUME NEW k \in Kinds, BecomeReady(k) PROVE DrainInv'
  BY <1>10 DEF BecomeReady, statusVars, Update, EndApply, resourceVars, driverVars, startupVars,
               quitVars
<1> QED BY <1>1, <1>2, <1>3, <1>4, <1>5, <1>6, <1>7, <1>8, <1>9, <1>10 DEF StartStep

LEMMA DrainDriver ==
    ASSUME TypeInv, Ownership, GateMatchesStatus, DrainInv, NEW k0 \in Kinds, DriverStep(k0)
    PROVE DrainInv'
<1> USE ConstantsAssumption DEF ConstantsAssumption, TypeInv, TypeOK, ResourceOK, ActionOK,
                                QuitOK, Ownership, OwnershipOf, GateMatchesStatus, Accepting,
                                ShuttingDown, DrainInv, DrainOf, InLoop, QuietKind, AfterFork,
                                Applying, ApplyLocations, Forked, Exited, Attempts
<1>1. ASSUME NEW k \in Kinds, DriverAcquires(k) PROVE DrainInv'
  BY <1>1 DEF DriverAcquires, MoveTo, statusVars, startupVars, quitVars
<1>2. ASSUME NEW k \in Kinds, DriverFails(k) PROVE DrainInv'
  BY <1>2 DEF DriverFails, MoveTo, statusVars, resourceVars, driverVars, startupVars, quitVars
<1>3. ASSUME NEW k \in Kinds, DriverInterrupted(k) PROVE DrainInv'
  BY <1>3 DEF DriverInterrupted, MoveTo, statusVars, resourceVars, driverVars, startupVars,
              quitVars
<1>4. ASSUME NEW k \in Kinds, NEW exit \in {"started", "interrupted"}, DriverReturns(k, exit)
      PROVE DrainInv'
  BY <1>4 DEF DriverReturns, MoveTo, statusVars, driverVars, startupVars, quitVars
<1>5. ASSUME NEW k \in Kinds, NEW g \in Attempts, Crash(k, g) PROVE DrainInv'
  BY <1>5 DEF Crash, statusVars, resourceVars, actionVars, startupVars, quitVars
<1>6. ASSUME NEW k \in Kinds, NEW g \in Attempts, ReportExit(k, g) PROVE DrainInv'
  BY <1>6 DEF ReportExit, Update, statusVars, resourceVars, actionVars, startupVars, quitVars
<1>7. ASSUME NEW k \in Kinds, NEW g \in Attempts, ReportCleanupFailure(k, g) PROVE DrainInv'
  BY <1>7 DEF ReportCleanupFailure, Update, statusVars, resourceVars, actionVars, startupVars,
              quitVars
<1> QED BY <1>1, <1>2, <1>3, <1>4, <1>5, <1>6, <1>7 DEF DriverStep

LEMMA DrainControl ==
    ASSUME TypeInv, Ownership, GateMatchesStatus, DrainInv, NEW c0 \in Controls, ControlStep(c0)
    PROVE DrainInv'
<1> USE ConstantsAssumption DEF ConstantsAssumption, TypeInv, TypeOK, ResourceOK, ActionOK,
                                QuitOK, Ownership, OwnershipOf, GateMatchesStatus, Accepting,
                                ShuttingDown, DrainInv, DrainOf, InLoop, QuietKind, AfterFork,
                                Applying, ApplyLocations, Forked, Exited, Attempts
<1>1. ASSUME NEW c \in Controls, NEW k \in Kinds, Admit(c, k) PROVE DrainInv'
  <2>1. owner[k] = "none" /\ shutdown = "open" /\ at[k] = "free"
    BY <1>1 DEF Admit
  <2>2. ASSUME NEW j \in Kinds PROVE DrainOf(j)'
    <3>1. CASE j = k
      BY <1>1, <2>1, <3>1 DEF Admit, actionVars, resourceVars, quitVars
    <3>2. CASE j # k
      <4>1. QuietKind(j) => QuietKind(j)'
        BY <1>1, <3>2 DEF Admit
      <4> QED BY <1>1, <2>1, <4>1 DEF Admit, actionVars, resourceVars, quitVars
    <3> QED BY <3>1, <3>2
  <2> QED BY <1>1, <2>2 DEF Admit, quitVars
<1>2. ASSUME NEW c \in Controls, RequireReady(c) PROVE DrainInv'
  BY <1>2 DEF RequireReady, statusVars, resourceVars, actionVars, driverVars, startupVars,
              quitVars
<1>3. ASSUME NEW c \in Controls, ControlEnds(c) PROVE DrainInv'
  BY <1>3 DEF ControlEnds, statusVars, resourceVars, actionVars, driverVars, startupVars, quitVars
<1>4. ASSUME NEW c \in Controls, Leave(c) PROVE DrainInv'
  BY <1>4 DEF Leave, NoControl, statusVars, resourceVars, actionVars, driverVars, startupVars,
              quitVars
<1> QED BY <1>1, <1>2, <1>3, <1>4 DEF ControlStep

LEMMA DrainQuit ==
    ASSUME TypeInv, Ownership, GateMatchesStatus, DrainInv, StopAll \/ QuitStep
    PROVE DrainInv'
<1> USE ConstantsAssumption DEF ConstantsAssumption, TypeInv, TypeOK, ResourceOK, ActionOK,
                                QuitOK, Ownership, OwnershipOf, GateMatchesStatus, Accepting,
                                ShuttingDown, DrainInv, DrainOf, InLoop, QuietKind, AfterFork,
                                Applying, ApplyLocations, Forked, Exited, Attempts
<1>1. ASSUME StopAll PROVE DrainInv'
  BY <1>1 DEF StopAll, resourceVars, driverVars, startupVars
<1>2. ASSUME StartsInterrupted PROVE DrainInv'
  BY <1>2 DEF StartsInterrupted, statusVars, resourceVars, actionVars, driverVars, startupVars
<1>3. ASSUME ActionsAwaited PROVE DrainInv'
  BY <1>3 DEF ActionsAwaited, statusVars, resourceVars, actionVars, driverVars, startupVars
<1>4. ASSUME StopLoop PROVE DrainInv'
  BY <1>4 DEF StopLoop, statusVars, resourceVars, actionVars, driverVars, startupVars
<1>5. ASSUME StopAllReturns PROVE DrainInv'
  BY <1>5 DEF StopAllReturns, statusVars, resourceVars, actionVars, driverVars, startupVars
<1> QED BY <1>1, <1>2, <1>3, <1>4, <1>5 DEF QuitStep

LEMMA DrainQuitKind ==
    ASSUME TypeInv, Ownership, GateMatchesStatus, DrainInv, NEW k0 \in Kinds, QuitKindStep(k0)
    PROVE DrainInv'
<1> USE ConstantsAssumption DEF ConstantsAssumption, TypeInv, TypeOK, ResourceOK, ActionOK,
                                QuitOK, Ownership, OwnershipOf, GateMatchesStatus, Accepting,
                                ShuttingDown, DrainInv, DrainOf, InLoop, QuietKind, AfterFork,
                                Applying, ApplyLocations, Forked, Exited, Attempts
<1>1. ASSUME NEW k \in Kinds, QuitDrained(k) PROVE DrainInv'
  BY <1>1 DEF QuitDrained, ControlsOf, statusVars, resourceVars, actionVars, driverVars,
              startupVars
<1>2. ASSUME NEW k \in Kinds, QuitGraceExpired(k) PROVE DrainInv'
  BY <1>2 DEF QuitGraceExpired, CancelControls, statusVars, resourceVars, actionVars, driverVars,
              startupVars, ControlsOf
<1>3. ASSUME NEW k \in Kinds, QuitCancelDone(k) PROVE DrainInv'
  BY <1>3 DEF QuitCancelDone, ControlsEnded, statusVars, resourceVars, actionVars, driverVars,
              startupVars, ControlsOf
<1>4. ASSUME NEW k \in Kinds, QuitSkips(k) PROVE DrainInv'
  BY <1>4 DEF QuitSkips, statusVars, resourceVars, actionVars, driverVars, startupVars
<1>5. ASSUME NEW k \in Kinds, QuitStops(k) PROVE DrainInv'
  BY <1>5 DEF QuitStops, Update, resourceVars, actionVars, driverVars, startupVars
<1>6. ASSUME NEW k \in Kinds, QuitCleaned(k) PROVE DrainInv'
  BY <1>6 DEF QuitCleaned, Update, QuitNext, actionVars, startupVars
<1>7. ASSUME NEW k \in Kinds, QuitStopped(k) PROVE DrainInv'
  BY <1>7 DEF QuitStopped, Update, QuitNext, actionVars, startupVars
<1>8. ASSUME NEW k \in Kinds, QuitStopFailed(k) PROVE DrainInv'
  BY <1>8 DEF QuitStopFailed, Update, QuitNext, resourceVars, actionVars, driverVars, startupVars
<1> QED BY <1>1, <1>2, <1>3, <1>4, <1>5, <1>6, <1>7, <1>8 DEF QuitKindStep

LEMMA DrainInit == Init => DrainInv
BY ConstantsAssumption
   DEF ConstantsAssumption, Init, DrainInv, DrainOf, InLoop, QuietKind, AfterFork, Exited, NoControl

LEMMA DrainStep ==
    TypeInv /\ Ownership /\ GateMatchesStatus /\ DrainInv /\ [Next]_vars => DrainInv'
<1>1. CASE UNCHANGED vars
  BY <1>1 DEF vars, statusVars, resourceVars, actionVars, driverVars, startupVars, quitVars,
              DrainInv, DrainOf, InLoop, QuietKind, AfterFork, Exited
<1> QED BY <1>1, DrainStartup, DrainOp, DrainReservation, DrainApply, DrainStart, DrainDriver,
           DrainControl, DrainQuit, DrainQuitKind DEF Next

\* The drains and the stop loop of shutdown keep their invariant in every reachable state.
THEOREM DrainHolds == Spec => []DrainInv
BY TypeInit, TypeStep, OwnershipInit, OwnershipStep, GateInit, GateStep, DrainInit, DrainStep,
   PTL DEF Spec

\* In no reachable state does a step stop or clean up a runtime that a control still uses.
THEOREM NothingStopsUnderControl == Spec => []NoStopUnderControl
<1>1. DrainInv => NoStopUnderControl
  BY ConstantsAssumption
    DEF ConstantsAssumption, DrainInv, DrainOf, InLoop, QuietKind, NoStopUnderControl, Stopping
<1> QED BY <1>1, DrainHolds, PTL

\* When stopAll ends, a kind whose failure it does not report owns no process and no start of it
\* is under way, in every reachable state.
THEOREM ShutdownLeavesNothing == Spec => []ShutdownStopsEveryKind
<1>1. Ownership /\ DrainInv => ShutdownStopsEveryKind
  BY ConstantsAssumption
    DEF ConstantsAssumption, Ownership, OwnershipOf, DrainInv, DrainOf, InLoop, AfterFork,
        ShutdownStopsEveryKind
<1> QED BY <1>1, OwnershipHolds, DrainHolds, PTL

-----------------------------------------------------------------------------
(* Callbacks *)

\* Why the callbacks of a runtime are about the runtime that the slot has: no runtime is shown as
\* ready while an action works on it, and from its registration to its end a start has the
\* generation of the latest attempt.
CallbackOf(k) ==
    /\ state[k] = "ready" =>
         handle[k] # 0 /\ generation[k] = handle[k] /\ generation[k] \notin exited[k]
    /\ failure[k].phase = "run" /\ generation[k] # 0 =>
         /\ generation[k] \in exited[k]
         /\ failure[k].cleanup = (generation[k] \in cleanupFailed[k])
    /\ Applying(k) => state[k] # "ready"
    /\ at[k] \in Forked \cup {"started", "probing"} => generation[k] = starts[k] /\ starts[k] # 0

CallbackInv == \A k \in Kinds : CallbackOf(k)

LEMMA CallbackStartup ==
    ASSUME TypeInv, Ownership, DrainInv, CallbackInv, StartupStep
    PROVE CallbackInv'
<1> USE DEF TypeInv, TypeOK, StatusOK, FailureRecords, ResourceOK, ActionOK, DriverOK, DrainInv,
            DrainOf, InLoop, AfterFork, CallbackInv, CallbackOf, Applying, ApplyLocations, Forked,
            Exited, Attempts
<1>1. ASSUME NEW kinds \in SUBSET Kinds, Initialize(kinds) PROVE CallbackInv'
  BY <1>1 DEF Initialize, statusVars, resourceVars, actionVars, driverVars, quitVars
<1>2. ASSUME InitializeFails PROVE CallbackInv'
  BY <1>2 DEF InitializeFails, Failure, resourceVars, actionVars, driverVars, quitVars
<1>3. ASSUME NEW k \in Kinds, StartKind(k) PROVE CallbackInv'
  BY <1>3 DEF StartKind, TakeReservation, resourceVars, driverVars, quitVars
<1>4. ASSUME NEW k \in Kinds, StartKindRefused(k) PROVE CallbackInv'
  BY <1>4 DEF StartKindRefused, statusVars, resourceVars, actionVars, driverVars, quitVars
<1> QED BY <1>1, <1>2, <1>3, <1>4 DEF StartupStep

LEMMA CallbackOp ==
    ASSUME TypeInv, Ownership, DrainInv, CallbackInv, NEW o0 \in Ops,
           (\E kinds \in SUBSET Kinds \ {{}} : Reserve(o0, kinds)) \/ ReserveInterrupted(o0)
    PROVE CallbackInv'
<1> USE DEF TypeInv, TypeOK, StatusOK, FailureRecords, ResourceOK, ActionOK, DriverOK, DrainInv,
            DrainOf, InLoop, AfterFork, CallbackInv, CallbackOf, Applying, ApplyLocations, Forked,
            Exited, Attempts
<1>1. ASSUME NEW o \in Ops, NEW kinds \in SUBSET Kinds, Reserve(o, kinds) PROVE CallbackInv'
  BY <1>1 DEF Reserve, TakeReservation, startupVars, resourceVars, driverVars, quitVars
<1>2. ASSUME NEW o \in Ops, ReserveInterrupted(o) PROVE CallbackInv'
  BY <1>2 DEF ReserveInterrupted, ReleaseKinds, resourceVars, driverVars, startupVars, quitVars
<1> QED BY <1>1, <1>2

LEMMA CallbackReservation ==
    ASSUME TypeInv, Ownership, DrainInv, CallbackInv, NEW k0 \in Kinds, ReservationStep(k0)
    PROVE CallbackInv'
<1> USE DEF TypeInv, TypeOK, StatusOK, FailureRecords, ResourceOK, ActionOK, DriverOK, DrainInv,
            DrainOf, InLoop, AfterFork, CallbackInv, CallbackOf, Applying, ApplyLocations, Forked,
            Exited, Attempts
<1>1. ASSUME NEW k \in Kinds, Drained(k) PROVE CallbackInv'
  BY <1>1 DEF Drained, MoveTo, statusVars, resourceVars, driverVars, startupVars, quitVars
<1>2. ASSUME NEW k \in Kinds, GraceExpired(k) PROVE CallbackInv'
  BY <1>2 DEF GraceExpired, MoveTo, statusVars, resourceVars, driverVars, startupVars, quitVars
<1>3. ASSUME NEW k \in Kinds, CancelDone(k) PROVE CallbackInv'
  BY <1>3 DEF CancelDone, MoveTo, statusVars, resourceVars, driverVars, startupVars, quitVars
<1>4. ASSUME NEW k \in Kinds, Release(k) PROVE CallbackInv'
  BY <1>4 DEF Release, ReleaseKinds, resourceVars, driverVars, startupVars, quitVars
<1> QED BY <1>1, <1>2, <1>3, <1>4 DEF ReservationStep

LEMMA CallbackApply ==
    ASSUME TypeInv, Ownership, DrainInv, CallbackInv, NEW k0 \in Kinds,
           (\E e \in BOOLEAN : BeginApply(k0, e)) \/ StopStep(k0)
    PROVE CallbackInv'
<1> USE DEF TypeInv, TypeOK, StatusOK, FailureRecords, ResourceOK, ActionOK, DriverOK, DrainInv,
            DrainOf, InLoop, AfterFork, CallbackInv, CallbackOf, Applying, ApplyLocations, Forked,
            Exited, Attempts
<1>1. ASSUME NEW k \in Kinds, NEW e \in BOOLEAN, BeginApply(k, e) PROVE CallbackInv'
  BY <1>1 DEF BeginApply, Update, Progress, StopOwnHandle, resourceVars, driverVars, startupVars,
              quitVars, Stopped, statusVars, NoFailure, EndApply
<1>2. ASSUME NEW k \in Kinds, Cleaned(k) PROVE CallbackInv'
  BY <1>2 DEF Cleaned, StopOwnHandle, startupVars, quitVars, Stopped, Update, Progress,
              statusVars, NoFailure, EndApply
<1>3. ASSUME NEW k \in Kinds, StopFailed(k) PROVE CallbackInv'
  BY <1>3 DEF StopFailed, Update, Failure, EndApply, resourceVars, driverVars, startupVars,
              quitVars
<1>4. ASSUME NEW k \in Kinds, HandleStopped(k) PROVE CallbackInv'
  BY <1>4 DEF HandleStopped, Stopped, startupVars, quitVars, statusVars, Update, NoFailure,
              EndApply
<1> QED BY <1>1, <1>2, <1>3, <1>4 DEF StopStep

LEMMA CallbackStart ==
    ASSUME TypeInv, Ownership, DrainInv, CallbackInv, NEW k0 \in Kinds, StartStep(k0)
    PROVE CallbackInv'
<1> USE DEF TypeInv, TypeOK, StatusOK, FailureRecords, ResourceOK, ActionOK, DriverOK, DrainInv,
            DrainOf, InLoop, AfterFork, CallbackInv, CallbackOf, Applying, ApplyLocations, Forked,
            Exited, Attempts
<1>1. ASSUME NEW k \in Kinds, StartRefused(k) PROVE CallbackInv'
  BY <1>1 DEF StartRefused, Update, NoFailure, EndApply, resourceVars, driverVars, startupVars,
              quitVars
<1>2. ASSUME NEW k \in Kinds, StartRegistered(k) PROVE CallbackInv'
  BY <1>2 DEF StartRegistered, Update, NoFailure, MoveTo, driverVars, startupVars, quitVars
<1>3. ASSUME NEW k \in Kinds, StartFailed(k) PROVE CallbackInv'
  BY <1>3 DEF StartFailed, statusVars, Update, Failure, NoFailure, EndApply, driverVars,
              startupVars, quitVars
<1>4. ASSUME NEW k \in Kinds, StartCleaned(k) PROVE CallbackInv'
  BY <1>4 DEF StartCleaned, Update, NoFailure, Failure, EndApply, startupVars, quitVars
<1>5. ASSUME NEW k \in Kinds, StartCleanupFailed(k) PROVE CallbackInv'
  BY <1>5 DEF StartCleanupFailed, Update, Failure, EndApply, resourceVars, driverVars,
              startupVars, quitVars
<1>6. ASSUME NEW k \in Kinds, ProbeVersion(k) PROVE CallbackInv'
  BY <1>6 DEF ProbeVersion, MoveTo, statusVars, resourceVars, driverVars, startupVars, quitVars
<1>7. ASSUME NEW k \in Kinds, InvalidSummary(k) PROVE CallbackInv'
  BY <1>7 DEF InvalidSummary, Update, resourceVars, driverVars, startupVars, quitVars
<1>8. ASSUME NEW k \in Kinds, Discarded(k) PROVE CallbackInv'
  BY <1>8 DEF Discarded, Update, Failure, EndApply, startupVars, quitVars
<1>9. ASSUME NEW k \in Kinds, DiscardFailed(k) PROVE CallbackInv'
  BY <1>9 DEF DiscardFailed, Update, Failure, EndApply, resourceVars, driverVars, startupVars,
              quitVars
<1>10. ASSUME NEW k \in Kinds, BecomeReady(k) PROVE CallbackInv'
  BY <1>10 DEF BecomeReady, statusVars, Update, ExitFailure, NoFailure, EndApply, resourceVars,
               driverVars, startupVars, quitVars
<1> QED BY <1>1, <1>2, <1>3, <1>4, <1>5, <1>6, <1>7, <1>8, <1>9, <1>10 DEF StartStep

LEMMA CallbackDriver ==
    ASSUME TypeInv, Ownership, DrainInv, CallbackInv, NEW k0 \in Kinds, DriverStep(k0)
    PROVE CallbackInv'
<1> USE DEF TypeInv, TypeOK, StatusOK, FailureRecords, ResourceOK, ActionOK, DriverOK, DrainInv,
            DrainOf, InLoop, AfterFork, CallbackInv, CallbackOf, Applying, ApplyLocations, Forked,
            Exited, Attempts
<1>1. ASSUME NEW k \in Kinds, DriverAcquires(k) PROVE CallbackInv'
  BY <1>1 DEF DriverAcquires, MoveTo, statusVars, startupVars, quitVars
<1>2. ASSUME NEW k \in Kinds, DriverFails(k) PROVE CallbackInv'
  BY <1>2 DEF DriverFails, MoveTo, statusVars, resourceVars, driverVars, startupVars, quitVars
<1>3. ASSUME NEW k \in Kinds, DriverInterrupted(k) PROVE CallbackInv'
  BY <1>3 DEF DriverInterrupted, MoveTo, statusVars, resourceVars, driverVars, startupVars,
              quitVars
<1>4. ASSUME NEW k \in Kinds, NEW exit \in {"started", "interrupted"}, DriverReturns(k, exit)
      PROVE CallbackInv'
  BY <1>4 DEF DriverReturns, MoveTo, statusVars, driverVars, startupVars, quitVars
<1>5. ASSUME NEW k \in Kinds, NEW g \in Attempts, Crash(k, g) PROVE CallbackInv'
  BY <1>5 DEF Crash, statusVars, resourceVars, actionVars, startupVars, quitVars
<1>6. ASSUME NEW k \in Kinds, NEW g \in Attempts, ReportExit(k, g) PROVE CallbackInv'
  BY <1>6 DEF ReportExit, Update, ExitFailure, statusVars, resourceVars, actionVars, startupVars,
              quitVars
<1>7. ASSUME NEW k \in Kinds, NEW g \in Attempts, ReportCleanupFailure(k, g) PROVE CallbackInv'
  <2>1. CASE generation[k] = g /\ failure[k].phase = "run"
    <3> DEFINE named == [failure[k] EXCEPT !.cleanup = TRUE]
    <3>1. failure[k] \in FailureRecords
      OBVIOUS
    <3>2. named.phase = "run" /\ named.cleanup = TRUE
      BY <2>1, <3>1
    <3> HIDE DEF named
    <3>3. /\ state' = [state EXCEPT ![k] = state[k]]
          /\ failure' = [failure EXCEPT ![k] = named]
      BY <1>7, <2>1 DEF ReportCleanupFailure, Update, named
    <3> QED BY <1>7, <2>1, <3>2, <3>3 DEF ReportCleanupFailure, resourceVars, actionVars, quitVars
  <2>2. CASE ~(generation[k] = g /\ failure[k].phase = "run")
    BY <1>7, <2>2 DEF ReportCleanupFailure, statusVars, resourceVars, actionVars
  <2> QED BY <2>1, <2>2
<1> QED BY <1>1, <1>2, <1>3, <1>4, <1>5, <1>6, <1>7 DEF DriverStep

LEMMA CallbackControl ==
    ASSUME TypeInv, Ownership, DrainInv, CallbackInv, NEW c0 \in Controls, ControlStep(c0)
    PROVE CallbackInv'
<1> USE DEF TypeInv, TypeOK, StatusOK, FailureRecords, ResourceOK, ActionOK, DriverOK, DrainInv,
            DrainOf, InLoop, AfterFork, CallbackInv, CallbackOf, Applying, ApplyLocations, Forked,
            Exited, Attempts
<1>1. ASSUME NEW c \in Controls, NEW k \in Kinds, Admit(c, k) PROVE CallbackInv'
  BY <1>1 DEF Admit, statusVars, resourceVars, actionVars, driverVars, startupVars, quitVars
<1>2. ASSUME NEW c \in Controls, RequireReady(c) PROVE CallbackInv'
  BY <1>2 DEF RequireReady, statusVars, resourceVars, actionVars, driverVars, startupVars,
              quitVars
<1>3. ASSUME NEW c \in Controls, ControlEnds(c) PROVE CallbackInv'
  BY <1>3 DEF ControlEnds, statusVars, resourceVars, actionVars, driverVars, startupVars, quitVars
<1>4. ASSUME NEW c \in Controls, Leave(c) PROVE CallbackInv'
  BY <1>4 DEF Leave, statusVars, resourceVars, actionVars, driverVars, startupVars, quitVars
<1> QED BY <1>1, <1>2, <1>3, <1>4 DEF ControlStep

LEMMA CallbackQuit ==
    ASSUME TypeInv, Ownership, DrainInv, CallbackInv, StopAll \/ QuitStep
    PROVE CallbackInv'
<1> USE DEF TypeInv, TypeOK, StatusOK, FailureRecords, ResourceOK, ActionOK, DriverOK, DrainInv,
            DrainOf, InLoop, AfterFork, CallbackInv, CallbackOf, Applying, ApplyLocations, Forked,
            Exited, Attempts
<1>1. ASSUME StopAll PROVE CallbackInv'
  BY <1>1 DEF StopAll, resourceVars, driverVars, startupVars
<1>2. ASSUME StartsInterrupted PROVE CallbackInv'
  BY <1>2 DEF StartsInterrupted, statusVars, resourceVars, actionVars, driverVars, startupVars
<1>3. ASSUME ActionsAwaited PROVE CallbackInv'
  BY <1>3 DEF ActionsAwaited, statusVars, resourceVars, actionVars, driverVars, startupVars
<1>4. ASSUME StopLoop PROVE CallbackInv'
  BY <1>4 DEF StopLoop, statusVars, resourceVars, actionVars, driverVars, startupVars
<1>5. ASSUME StopAllReturns PROVE CallbackInv'
  BY <1>5 DEF StopAllReturns, statusVars, resourceVars, actionVars, driverVars, startupVars
<1> QED BY <1>1, <1>2, <1>3, <1>4, <1>5 DEF QuitStep

LEMMA CallbackQuitKind ==
    ASSUME TypeInv, Ownership, DrainInv, CallbackInv, NEW k0 \in Kinds, QuitKindStep(k0)
    PROVE CallbackInv'
<1> USE DEF TypeInv, TypeOK, StatusOK, FailureRecords, ResourceOK, ActionOK, DriverOK, DrainInv,
            DrainOf, InLoop, AfterFork, CallbackInv, CallbackOf, Applying, ApplyLocations, Forked,
            Exited, Attempts
<1>1. ASSUME NEW k \in Kinds, QuitDrained(k) PROVE CallbackInv'
  BY <1>1 DEF QuitDrained, statusVars, resourceVars, actionVars, driverVars, startupVars
<1>2. ASSUME NEW k \in Kinds, QuitGraceExpired(k) PROVE CallbackInv'
  BY <1>2 DEF QuitGraceExpired, statusVars, resourceVars, actionVars, driverVars, startupVars
<1>3. ASSUME NEW k \in Kinds, QuitCancelDone(k) PROVE CallbackInv'
  BY <1>3 DEF QuitCancelDone, statusVars, resourceVars, actionVars, driverVars, startupVars
<1>4. ASSUME NEW k \in Kinds, QuitSkips(k) PROVE CallbackInv'
  BY <1>4 DEF QuitSkips, statusVars, resourceVars, actionVars, driverVars, startupVars
<1>5. ASSUME NEW k \in Kinds, QuitStops(k) PROVE CallbackInv'
  BY <1>5 DEF QuitStops, Update, resourceVars, actionVars, driverVars, startupVars
<1>6. ASSUME NEW k \in Kinds, QuitCleaned(k) PROVE CallbackInv'
  BY <1>6 DEF QuitCleaned, Update, NoFailure, QuitNext, actionVars, startupVars
<1>7. ASSUME NEW k \in Kinds, QuitStopped(k) PROVE CallbackInv'
  BY <1>7 DEF QuitStopped, Update, NoFailure, QuitNext, Ownership, OwnershipOf, actionVars,
              startupVars
<1>8. ASSUME NEW k \in Kinds, QuitStopFailed(k) PROVE CallbackInv'
  BY <1>8 DEF QuitStopFailed, Update, Failure, QuitNext, resourceVars, actionVars, driverVars,
              startupVars
<1> QED BY <1>1, <1>2, <1>3, <1>4, <1>5, <1>6, <1>7, <1>8 DEF QuitKindStep

LEMMA CallbackInit == Init => CallbackInv
BY DEF Init, CallbackInv, CallbackOf, Applying, ApplyLocations, Forked, NoFailure

LEMMA CallbackStep ==
    TypeInv /\ Ownership /\ DrainInv /\ CallbackInv /\ [Next]_vars => CallbackInv'
<1>1. CASE UNCHANGED vars
  BY <1>1 DEF vars, statusVars, resourceVars, actionVars, driverVars, CallbackInv, CallbackOf,
              Applying
<1> QED BY <1>1, CallbackStartup, CallbackOp, CallbackReservation, CallbackApply, CallbackStart,
           CallbackDriver, CallbackControl, CallbackQuit, CallbackQuitKind DEF Next

\* However late a callback comes, what a slot shows of a runtime is about its current generation.
THEOREM CallbacksStayCurrent == Spec => []CallbacksAreCurrent
<1>1. Spec => []CallbackInv
  BY TypeInit, TypeStep, OwnershipHolds, DrainHolds, CallbackInit, CallbackStep, PTL DEF Spec
<1>2. CallbackInv => CallbacksAreCurrent
  BY DEF CallbackInv, CallbackOf, CallbacksAreCurrent
<1> QED BY <1>1, <1>2, PTL

-----------------------------------------------------------------------------
(* The registry implements SharedRuntimes *)

SharedStep == Shared!Next \/ UNCHANGED Shared!vars

Serving(k) == IF open[k] THEN handle[k] ELSE 0

\* No attempt begins, the phase of shutdown stays, and callers are served as before.
SameService ==
    /\ starts' = starts
    /\ QuitPhase' = QuitPhase
    /\ \A k \in Kinds : Serving(k)' = Serving(k)

LEMMA SharedStutters ==
    ASSUME SameService, alive' = alive
    PROVE SharedStep
BY DEF SameService, Serving, SharedStep, Shared!vars

\* A step that removes one attempt from the live processes of a kind ends its process, if any.
LEMMA SharedDies ==
    ASSUME TypeInv, Ownership, SameService, NEW k \in Kinds, NEW g,
           alive' = [alive EXCEPT ![k] = @ \ {g}]
    PROVE SharedStep
<1>1. alive[k] \subseteq {starts[k]} /\ alive \in [Kinds -> SUBSET Attempts]
  BY DEF Ownership, OwnershipOf, TypeInv, TypeOK, DriverOK
<1>2. CASE g \in alive[k]
  <2>1. alive' = [alive EXCEPT ![k] = {}] /\ alive[k] # {}
    BY <1>1, <1>2
  <2>2. UNCHANGED <<starts, [j \in Kinds |-> IF open[j] THEN handle[j] ELSE 0], QuitPhase>>
    BY DEF SameService, Serving
  <2>3. Shared!Die(k)
    BY <2>1, <2>2 DEF Shared!Die
  <2> QED BY <2>3 DEF SharedStep, Shared!Next
<1>3. CASE g \notin alive[k]
  BY <1>1, <1>3, SharedStutters
<1> QED BY <1>2, <1>3

\* The kinds that stop being served.
LEMMA SharedWithdraws ==
    ASSUME NEW kinds \in SUBSET Kinds, UNCHANGED <<starts, alive, QuitPhase>>,
           \A k \in Kinds : Serving(k)' = IF k \in kinds THEN 0 ELSE Serving(k)
    PROVE SharedStep
<1>1. Shared!Withdraw(kinds)
  BY DEF Shared!Withdraw, Serving
<1> QED BY <1>1 DEF SharedStep, Shared!Next

LEMMA SharedWithdrawsOne ==
    ASSUME NEW k \in Kinds, UNCHANGED <<starts, alive, QuitPhase>>,
           \A j \in Kinds : Serving(j)' = IF j = k THEN 0 ELSE Serving(j)
    PROVE SharedStep
<1>1. {k} \in SUBSET Kinds
  OBVIOUS
<1>2. \A j \in Kinds : Serving(j)' = IF j \in {k} THEN 0 ELSE Serving(j)
  OBVIOUS
<1> QED BY <1>1, <1>2, SharedWithdraws

\* A released reservation serves the runtimes that are ready, unless shutdown began.
LEMMA SharedServes ==
    ASSUME TypeInv, Ownership, GateMatchesStatus, NEW kinds \in SUBSET Kinds, ReleaseKinds(kinds),
           \A k \in kinds : Reserved(k)
    PROVE SharedStep
<1>1. UNCHANGED <<starts, alive, QuitPhase>> /\ handle' = handle
  BY DEF ReleaseKinds, resourceVars, driverVars, quitVars, QuitPhase
<1>2. \A k \in kinds : Serving(k) = 0
  BY DEF GateMatchesStatus, Accepting, Reserved, Serving
<1>3. \A k \in Kinds \ kinds : Serving(k)' = Serving(k)
  BY <1>1 DEF ReleaseKinds, Serving
<1>4. \A k \in kinds : Serving(k)' # 0 => Serving(k)' = starts[k] /\ starts[k] # 0
  BY <1>1 DEF Serving, Ownership, OwnershipOf
<1>5. PICK served \in SUBSET kinds : \A k \in kinds : k \in served <=> Serving(k)' # 0
  <2>1. \E served \in SUBSET kinds : \A k \in kinds : k \in served <=> open'[k] /\ handle[k] # 0
    <3>1. {k \in kinds : open'[k] /\ handle[k] # 0} \in SUBSET kinds
      OBVIOUS
    <3> QED BY <3>1
  <2> QED BY <1>1, <2>1 DEF Serving
<1>6. CASE served = {}
  BY <1>1, <1>2, <1>3, <1>5, <1>6, SharedStutters DEF SameService
<1>7. CASE served # {}
  <2>1. QuitPhase = "up"
    BY <1>5, <1>7 DEF Serving, ReleaseKinds, Accepting, ShuttingDown, QuitPhase
  <2>2. \A k \in Kinds : Serving(k)' = IF k \in served THEN starts[k] ELSE Serving(k)
    BY <1>2, <1>3, <1>4, <1>5
  <2>3. \A k \in served : Serving(k) = 0 /\ starts[k] # 0
    BY <1>2, <1>4, <1>5
  <2>4. Shared!Serve(served)
    BY <1>1, <2>1, <2>2, <2>3 DEF Shared!Serve, Serving
  <2> QED BY <2>4 DEF SharedStep, Shared!Next
<1> QED BY <1>6, <1>7

LEMMA SharedStartup ==
    ASSUME TypeInv, Ownership, GateMatchesStatus, DrainInv, StartupStep
    PROVE SharedStep
<1> USE DEF SameService, Serving, QuitPhase, TypeInv, TypeOK, StatusOK, ResourceOK, ActionOK,
            GateMatchesStatus, Accepting, ShuttingDown, DrainInv, DrainOf
<1>1. ASSUME NEW kinds \in SUBSET Kinds, Initialize(kinds) PROVE SharedStep
  BY <1>1, SharedStutters DEF Initialize, statusVars, resourceVars, actionVars, driverVars,
                              quitVars
<1>2. ASSUME InitializeFails PROVE SharedStep
  <2>1. \A k \in Kinds : Serving(k)' = IF k \in Kinds THEN 0 ELSE Serving(k)
    BY <1>2 DEF InitializeFails
  <2> QED BY <1>2, <2>1, SharedWithdraws DEF InitializeFails, resourceVars, driverVars, quitVars
<1>3. ASSUME NEW k \in Kinds, StartKind(k) PROVE SharedStep
  <2>1. \A j \in Kinds : Serving(j)' = IF j = k THEN 0 ELSE Serving(j)
    BY <1>3 DEF StartKind, TakeReservation, resourceVars
  <2> QED BY <1>3, <2>1, SharedWithdrawsOne
            DEF StartKind, TakeReservation, resourceVars, driverVars, quitVars
<1>4. ASSUME NEW k \in Kinds, StartKindRefused(k) PROVE SharedStep
  BY <1>4, SharedStutters DEF StartKindRefused, Reserved, statusVars, resourceVars, actionVars,
                              driverVars, quitVars
<1> QED BY <1>1, <1>2, <1>3, <1>4 DEF StartupStep

LEMMA SharedOp ==
    ASSUME TypeInv, Ownership, GateMatchesStatus, DrainInv, NEW o0 \in Ops,
           (\E kinds \in SUBSET Kinds \ {{}} : Reserve(o0, kinds)) \/ ReserveInterrupted(o0)
    PROVE SharedStep
<1> USE DEF SameService, Serving, QuitPhase, TypeInv, TypeOK, StatusOK, ResourceOK, ActionOK,
            GateMatchesStatus, Accepting, ShuttingDown, DrainInv, DrainOf
<1>1. ASSUME NEW o \in Ops, NEW kinds \in SUBSET Kinds, Reserve(o, kinds) PROVE SharedStep
  <2>1. \A j \in Kinds : Serving(j)' = IF j \in kinds THEN 0 ELSE Serving(j)
    BY <1>1, ConstantsAssumption DEF ConstantsAssumption, Reserve, TakeReservation, resourceVars
  <2> QED BY <1>1, <2>1, SharedWithdraws
            DEF Reserve, TakeReservation, resourceVars, driverVars, quitVars
<1>2. ASSUME NEW o \in Ops, ReserveInterrupted(o) PROVE SharedStep
  <2>1. \A k \in Kinds : owner[k] = o => Reserved(k)
    BY ConstantsAssumption DEF ConstantsAssumption, Reserved
  <2> QED BY <1>2, <2>1, SharedServes DEF ReserveInterrupted
<1> QED BY <1>1, <1>2

LEMMA SharedReservation ==
    ASSUME TypeInv, Ownership, GateMatchesStatus, DrainInv, NEW k0 \in Kinds, ReservationStep(k0)
    PROVE SharedStep
<1> USE DEF SameService, Serving, QuitPhase, TypeInv, TypeOK, StatusOK, ResourceOK, ActionOK,
            GateMatchesStatus, Accepting, ShuttingDown, DrainInv, DrainOf
<1>1. ASSUME NEW k \in Kinds, Drained(k) PROVE SharedStep
  BY <1>1, SharedStutters DEF Drained, MoveTo, statusVars, resourceVars, driverVars, startupVars,
                              quitVars
<1>2. ASSUME NEW k \in Kinds, GraceExpired(k) PROVE SharedStep
  BY <1>2, SharedStutters DEF GraceExpired, MoveTo, statusVars, resourceVars, driverVars,
                              startupVars, quitVars
<1>3. ASSUME NEW k \in Kinds, CancelDone(k) PROVE SharedStep
  BY <1>3, SharedStutters DEF CancelDone, MoveTo, statusVars, resourceVars, driverVars,
                              startupVars, quitVars
<1>4. ASSUME NEW k \in Kinds, Release(k) PROVE SharedStep
  <2>1. Group(k) \in SUBSET Kinds /\ \A j \in Group(k) : Reserved(j)
    BY <1>4, ConstantsAssumption DEF ConstantsAssumption, Release, Group, Reserved
  <2> QED BY <1>4, <2>1, SharedServes DEF Release
<1> QED BY <1>1, <1>2, <1>3, <1>4 DEF ReservationStep

LEMMA SharedApply ==
    ASSUME TypeInv, Ownership, GateMatchesStatus, DrainInv, NEW k0 \in Kinds,
           (\E e \in BOOLEAN : BeginApply(k0, e)) \/ StopStep(k0)
    PROVE SharedStep
<1> USE DEF SameService, Serving, QuitPhase, TypeInv, TypeOK, StatusOK, ResourceOK, ActionOK,
            GateMatchesStatus, Accepting, ShuttingDown, DrainInv, DrainOf
<1>1. ASSUME NEW k \in Kinds, NEW e \in BOOLEAN, BeginApply(k, e) PROVE SharedStep
  BY <1>1, SharedStutters DEF BeginApply, Group, Update, Progress, StopOwnHandle, resourceVars,
                              driverVars, startupVars, quitVars, Stopped, statusVars, EndApply
<1>2. ASSUME NEW k \in Kinds, Cleaned(k) PROVE SharedStep
  BY <1>2, SharedDies DEF Cleaned, StopOwnHandle, startupVars, quitVars, Stopped, Update,
                          Progress, statusVars, EndApply
<1>3. ASSUME NEW k \in Kinds, StopFailed(k) PROVE SharedStep
  BY <1>3, SharedStutters DEF StopFailed, Update, EndApply, resourceVars, driverVars, startupVars,
                              quitVars
<1>4. ASSUME NEW k \in Kinds, HandleStopped(k) PROVE SharedStep
  BY <1>4, SharedDies DEF HandleStopped, Stopped, startupVars, quitVars, statusVars, Update,
                          EndApply
<1> QED BY <1>1, <1>2, <1>3, <1>4 DEF StopStep

LEMMA SharedStart ==
    ASSUME TypeInv, Ownership, GateMatchesStatus, DrainInv, NEW k0 \in Kinds, StartStep(k0)
    PROVE SharedStep
<1> USE DEF SameService, Serving, QuitPhase, TypeInv, TypeOK, StatusOK, ResourceOK, ActionOK,
            GateMatchesStatus, Accepting, ShuttingDown, DrainInv, DrainOf
<1>1. ASSUME NEW k \in Kinds, StartRefused(k) PROVE SharedStep
  BY <1>1, SharedStutters DEF StartRefused, Update, EndApply, resourceVars, driverVars,
                              startupVars, quitVars
<1>2. ASSUME NEW k \in Kinds, StartRegistered(k) PROVE SharedStep
  <2>1. /\ QuitPhase = "up" /\ QuitPhase' = QuitPhase
        /\ starts[k] < MaxStarts
        /\ starts' = [starts EXCEPT ![k] = starts[k] + 1]
    BY <1>2 DEF StartRegistered, BelowBound, quitVars
  <2>2. alive' = alive /\ alive[k] = {}
    BY <1>2 DEF StartRegistered, driverVars, Ownership, OwnershipOf
  <2>3. Serving(k) = 0 /\ \A j \in Kinds : Serving(j)' = Serving(j)
    BY <1>2 DEF StartRegistered, Update, MoveTo, quitVars
  <2>4. Shared!Begin(k)
    BY <2>1, <2>2, <2>3 DEF Shared!Begin
  <2> QED BY <2>4 DEF SharedStep, Shared!Next
<1>3. ASSUME NEW k \in Kinds, StartFailed(k) PROVE SharedStep
  BY <1>3, SharedStutters DEF StartFailed, statusVars, Update, EndApply, driverVars, startupVars,
                              quitVars
<1>4. ASSUME NEW k \in Kinds, StartCleaned(k) PROVE SharedStep
  BY <1>4, SharedDies DEF StartCleaned, Update, EndApply, startupVars, quitVars
<1>5. ASSUME NEW k \in Kinds, StartCleanupFailed(k) PROVE SharedStep
  BY <1>5, SharedStutters DEF StartCleanupFailed, Update, EndApply, resourceVars, driverVars,
                              startupVars, quitVars
<1>6. ASSUME NEW k \in Kinds, ProbeVersion(k) PROVE SharedStep
  BY <1>6, SharedStutters DEF ProbeVersion, MoveTo, statusVars, resourceVars, driverVars,
                              startupVars, quitVars
<1>7. ASSUME NEW k \in Kinds, InvalidSummary(k) PROVE SharedStep
  BY <1>7, SharedStutters DEF InvalidSummary, Update, resourceVars, driverVars, startupVars,
                              quitVars
<1>8. ASSUME NEW k \in Kinds, Discarded(k) PROVE SharedStep
  BY <1>8, SharedDies DEF Discarded, Update, EndApply, startupVars, quitVars
<1>9. ASSUME NEW k \in Kinds, DiscardFailed(k) PROVE SharedStep
  BY <1>9, SharedStutters DEF DiscardFailed, Update, EndApply, resourceVars, driverVars,
                              startupVars, quitVars
<1>10. ASSUME NEW k \in Kinds, BecomeReady(k) PROVE SharedStep
  BY <1>10, SharedStutters DEF BecomeReady, statusVars, Update, EndApply, resourceVars,
                               driverVars, startupVars, quitVars
<1> QED BY <1>1, <1>2, <1>3, <1>4, <1>5, <1>6, <1>7, <1>8, <1>9, <1>10 DEF StartStep

LEMMA SharedDriver ==
    ASSUME TypeInv, Ownership, GateMatchesStatus, DrainInv, NEW k0 \in Kinds, DriverStep(k0)
    PROVE SharedStep
<1> USE DEF SameService, Serving, QuitPhase, TypeInv, TypeOK, StatusOK, ResourceOK, ActionOK,
            GateMatchesStatus, Accepting, ShuttingDown, DrainInv, DrainOf
<1>1. ASSUME NEW k \in Kinds, DriverAcquires(k) PROVE SharedStep
  <2>1. QuitPhase \in {"up", "quitting"} /\ QuitPhase' = QuitPhase
    BY <1>1 DEF DriverAcquires, Ownership, OwnershipOf, Forked, QuitOK, QuitLocations, quitVars
  <2>2. /\ alive[k] = {} /\ starts[k] # 0 /\ starts' = starts
        /\ alive' = [alive EXCEPT ![k] = {starts[k]}]
    BY <1>1 DEF DriverAcquires, Ownership, OwnershipOf
  <2>3. Serving(k) = 0 /\ \A j \in Kinds : Serving(j)' = Serving(j)
    BY <1>1 DEF DriverAcquires, statusVars
  <2>4. Shared!Spawn(k)
    BY <2>1, <2>2, <2>3 DEF Shared!Spawn
  <2> QED BY <2>4 DEF SharedStep, Shared!Next
<1>2. ASSUME NEW k \in Kinds, DriverFails(k) PROVE SharedStep
  BY <1>2, SharedStutters DEF DriverFails, MoveTo, statusVars, resourceVars, driverVars,
                              startupVars, quitVars
<1>3. ASSUME NEW k \in Kinds, DriverInterrupted(k) PROVE SharedStep
  BY <1>3, SharedStutters DEF DriverInterrupted, MoveTo, statusVars, resourceVars, driverVars,
                              startupVars, quitVars
<1>4. ASSUME NEW k \in Kinds, NEW exit \in {"started", "interrupted"}, DriverReturns(k, exit)
      PROVE SharedStep
  BY <1>4, SharedStutters DEF DriverReturns, MoveTo, statusVars, driverVars, startupVars, quitVars
<1>5. ASSUME NEW k \in Kinds, NEW g \in Attempts, Crash(k, g) PROVE SharedStep
  BY <1>5, SharedDies DEF Crash, statusVars, resourceVars, actionVars, startupVars, quitVars
<1>6. ASSUME NEW k \in Kinds, NEW g \in Attempts, ReportExit(k, g) PROVE SharedStep
  <2>1. UNCHANGED <<starts, alive, handle, QuitPhase>>
    BY <1>6 DEF ReportExit, resourceVars, quitVars
  <2>2. CASE generation[k] = g /\ state[k] = "ready"
    <3>1. \A j \in Kinds : Serving(j)' = IF j = k THEN 0 ELSE Serving(j)
      BY <1>6, <2>1, <2>2 DEF ReportExit, Update, actionVars
    <3> QED BY <2>1, <3>1, SharedWithdrawsOne
  <2>3. CASE ~(generation[k] = g /\ state[k] = "ready")
    BY <1>6, <2>1, <2>3, SharedStutters DEF ReportExit, statusVars
  <2> QED BY <2>2, <2>3
<1>7. ASSUME NEW k \in Kinds, NEW g \in Attempts, ReportCleanupFailure(k, g) PROVE SharedStep
  BY <1>7, SharedStutters DEF ReportCleanupFailure, Update, statusVars, resourceVars, actionVars,
                              startupVars, quitVars
<1> QED BY <1>1, <1>2, <1>3, <1>4, <1>5, <1>6, <1>7 DEF DriverStep

LEMMA SharedControl ==
    ASSUME TypeInv, Ownership, GateMatchesStatus, DrainInv, NEW c0 \in Controls, ControlStep(c0)
    PROVE SharedStep
<1> USE DEF SameService, Serving, QuitPhase, TypeInv, TypeOK, StatusOK, ResourceOK, ActionOK,
            GateMatchesStatus, Accepting, ShuttingDown, DrainInv, DrainOf
<1>1. ASSUME NEW c \in Controls, NEW k \in Kinds, Admit(c, k) PROVE SharedStep
  BY <1>1, SharedStutters DEF Admit, statusVars, resourceVars, actionVars, driverVars,
                              startupVars, quitVars
<1>2. ASSUME NEW c \in Controls, RequireReady(c) PROVE SharedStep
  BY <1>2, SharedStutters DEF RequireReady, statusVars, resourceVars, actionVars, driverVars,
                              startupVars, quitVars
<1>3. ASSUME NEW c \in Controls, ControlEnds(c) PROVE SharedStep
  BY <1>3, SharedStutters DEF ControlEnds, statusVars, resourceVars, actionVars, driverVars,
                              startupVars, quitVars
<1>4. ASSUME NEW c \in Controls, Leave(c) PROVE SharedStep
  BY <1>4, SharedStutters DEF Leave, statusVars, resourceVars, actionVars, driverVars,
                              startupVars, quitVars
<1> QED BY <1>1, <1>2, <1>3, <1>4 DEF ControlStep

LEMMA SharedQuit ==
    ASSUME TypeInv, Ownership, GateMatchesStatus, DrainInv, StopAll \/ QuitStep
    PROVE SharedStep
<1> USE DEF SameService, Serving, QuitPhase, TypeInv, TypeOK, StatusOK, ResourceOK, ActionOK,
            GateMatchesStatus, Accepting, ShuttingDown, DrainInv, DrainOf
<1>1. ASSUME StopAll PROVE SharedStep
  <2>1. QuitPhase \in {"up", "ended", "failed"} /\ QuitPhase' = "quitting"
    BY <1>1 DEF StopAll
  <2>2. UNCHANGED <<starts, alive>> /\ \A j \in Kinds : Serving(j)' = 0
    BY <1>1 DEF StopAll, resourceVars, driverVars
  <2>3. Shared!Quit
    BY <2>1, <2>2 DEF Shared!Quit
  <2> QED BY <2>3 DEF SharedStep, Shared!Next
<1>2. ASSUME StartsInterrupted PROVE SharedStep
  <2>1. QuitPhase = "quitting" /\ QuitPhase' = "sealed"
    BY <1>2 DEF StartsInterrupted
  <2>2. UNCHANGED <<starts, alive, open, handle>>
    BY <1>2 DEF StartsInterrupted, statusVars, resourceVars, driverVars
  <2>3. Shared!Seal
    BY <2>1, <2>2 DEF Shared!Seal
  <2> QED BY <2>3 DEF SharedStep, Shared!Next
<1>3. ASSUME ActionsAwaited PROVE SharedStep
  BY <1>3, SharedStutters DEF ActionsAwaited, statusVars, resourceVars, actionVars, driverVars,
                              startupVars
<1>4. ASSUME StopLoop PROVE SharedStep
  BY <1>4, SharedStutters DEF StopLoop, statusVars, resourceVars, actionVars, driverVars,
                              startupVars
<1>5. ASSUME StopAllReturns PROVE SharedStep
  <2>1. /\ QuitPhase = "sealed"
        /\ QuitPhase' = IF quitFailed = {} THEN "ended" ELSE "failed"
    BY <1>5 DEF StopAllReturns
  <2>2. UNCHANGED <<starts, alive, open, handle>>
    BY <1>5 DEF StopAllReturns, statusVars, resourceVars, driverVars
  <2>3. quitFailed = {} => \A k \in Kinds : alive[k] = {}
    BY <1>5, ConstantsAssumption
      DEF ConstantsAssumption, StopAllReturns, InLoop, Ownership, OwnershipOf
  <2>4. Shared!End
    BY <2>1, <2>2, <2>3 DEF Shared!End
  <2> QED BY <2>4 DEF SharedStep, Shared!Next
<1> QED BY <1>1, <1>2, <1>3, <1>4, <1>5 DEF QuitStep

LEMMA SharedQuitKind ==
    ASSUME TypeInv, Ownership, GateMatchesStatus, DrainInv, NEW k0 \in Kinds, QuitKindStep(k0)
    PROVE SharedStep
<1> USE DEF SameService, Serving, QuitPhase, TypeInv, TypeOK, StatusOK, ResourceOK, ActionOK,
            GateMatchesStatus, Accepting, ShuttingDown, DrainInv, DrainOf
<1>1. ASSUME NEW k \in Kinds, QuitDrained(k) PROVE SharedStep
  BY <1>1, SharedStutters DEF QuitDrained, statusVars, resourceVars, actionVars, driverVars,
                              startupVars
<1>2. ASSUME NEW k \in Kinds, QuitGraceExpired(k) PROVE SharedStep
  BY <1>2, SharedStutters DEF QuitGraceExpired, statusVars, resourceVars, actionVars, driverVars,
                              startupVars
<1>3. ASSUME NEW k \in Kinds, QuitCancelDone(k) PROVE SharedStep
  BY <1>3, SharedStutters DEF QuitCancelDone, statusVars, resourceVars, actionVars, driverVars,
                              startupVars
<1>4. ASSUME NEW k \in Kinds, QuitSkips(k) PROVE SharedStep
  BY <1>4, SharedStutters DEF QuitSkips, statusVars, resourceVars, actionVars, driverVars,
                              startupVars
<1>5. ASSUME NEW k \in Kinds, QuitStops(k) PROVE SharedStep
  BY <1>5, SharedStutters DEF QuitStops, Update, resourceVars, actionVars, driverVars, startupVars
<1>6. ASSUME NEW k \in Kinds, QuitCleaned(k) PROVE SharedStep
  BY <1>6, SharedDies DEF QuitCleaned, Update, QuitNext, actionVars, startupVars
<1>7. ASSUME NEW k \in Kinds, QuitStopped(k) PROVE SharedStep
  BY <1>7, SharedDies DEF QuitStopped, Update, QuitNext, actionVars, startupVars
<1>8. ASSUME NEW k \in Kinds, QuitStopFailed(k) PROVE SharedStep
  BY <1>8, SharedStutters DEF QuitStopFailed, Update, QuitNext, resourceVars, actionVars,
                              driverVars, startupVars
<1> QED BY <1>1, <1>2, <1>3, <1>4, <1>5, <1>6, <1>7, <1>8 DEF QuitKindStep

LEMMA SharedRefines ==
    TypeInv /\ Ownership /\ GateMatchesStatus /\ DrainInv /\ [Next]_vars
        => [Shared!Next]_(Shared!vars)
<1> SUFFICES ASSUME TypeInv, Ownership, GateMatchesStatus, DrainInv, [Next]_vars
             PROVE SharedStep
    BY DEF SharedStep
<1>1. CASE UNCHANGED vars
  BY <1>1, SharedStutters
    DEF vars, statusVars, resourceVars, driverVars, quitVars, SameService, Serving, QuitPhase
<1> QED BY <1>1, SharedStartup, SharedOp, SharedReservation, SharedApply, SharedStart,
           SharedDriver, SharedControl, SharedQuit, SharedQuitKind DEF Next

LEMMA SharedInit == Init => Shared!Init
BY DEF Init, Shared!Init, QuitPhase

\* Every behaviour of the registry is one of SharedRuntimes: callers are only served the latest
\* attempt, attempts of a kind never overlap, and nothing begins or is served once the host quits.
THEOREM RefinesSharedRuntimes == Spec => ImplementsSharedRuntimes
<1>1. Spec => [](TypeInv /\ Ownership /\ GateMatchesStatus /\ DrainInv)
  BY TypeInit, TypeStep, OwnershipHolds, GateCorrect, DrainHolds, PTL DEF Spec
<1> QED BY <1>1, SharedInit, SharedRefines, PTL DEF Spec, ImplementsSharedRuntimes, Shared!Spec

=============================================================================
