---------------------------- MODULE EntryProofs -----------------------------
(***************************************************************************)
(* Theorems about one config entry, for every set of destinations,         *)
(* credentials and options, every choice of failures and every bound.      *)
(*                                                                         *)
(* The inductive invariant is EntryInv.  To the properties it adds where   *)
(* the entry manager is: when there is a current runtime, when it was told *)
(* to stop, when a monitor runs, and what a setup and a flow in flight     *)
(* still agree with.                                                       *)
(***************************************************************************)
EXTENDS Entry, FiniteSetTheorems, TLAPS

Detached == {"not_loaded", "setup_retry", "setup_error"}

\* A runtime belongs to the entry from the start of a setup to the end of an
\* unload.
CurrentAttached == IF phase \in Detached THEN cur = 0 ELSE cur \in Slots

\* Whoever waits for a service to end has told it to stop.
StopAnnounced ==
    phase \in {"clean_retry", "clean_error", "undo", "unloading"} => worker[cur].stop

\* The monitor was cancelled before the phases in which an issue is deleted.
MonitorAttached == monitor => phase \in {"forwarding", "loaded"}

\* A setup under way was made of the stored options, or has missed a change.
SetupUpToDate == InSetUp => built.options = options \/ missed

\* The update listener is registered by the time the entry is loaded.
LoadedIsWatched == phase = "loaded" => watched

\* What is left of OptionsReload: a loaded entry with other options than those
\* of its runtime is about to be reloaded, or they were saved in its setup.
MissedOnlyInSetup ==
    phase = "loaded" /\ built.options # options => reload \/ missed

\* A reauthentication at its probe has the destination of the entry, unless a
\* reconfiguration was stored in the meantime.
ReauthAgrees ==
    flow["reauth"].step = "probe" /\ ~flow["reauth"].stale
        => flow["reauth"].data.dest = data.dest

\* What is left of RepairMovesNothing: the identity of the entry is the
\* destination it writes to, or a reauthentication was stored over something
\* that came in between.
MovedOnlyByOvertaking == uid = data.dest \/ overtaken

\* A probe is one of a connection that was entered.
ProbeHasData == \A f \in Flows : flow[f].step = "probe" => flow[f].data \in Data

EntryInv ==
    /\ EntryTypeOK /\ ProbeHasData
    /\ CurrentAttached /\ StopAnnounced /\ OneOwner
    /\ MonitorAttached /\ IssueHasRuntime
    /\ SetupUpToDate /\ LoadedIsWatched /\ MissedOnlyInSetup
    /\ ReauthAgrees /\ MovedOnlyByOvertaking /\ UniqueIds

-----------------------------------------------------------------------------
(* Services and flows.                                                     *)

FlowState == [step : {"closed", "form", "probe"}, data : Data \cup {NoData}, stale : BOOLEAN]

\* A service that is made, told to stop, or over is a service.
LEMMA ServiceForms ==
  /\ Off \in Service /\ NewRuntime \in Service
  /\ Off.thread = "off" /\ ~Off.listening
  /\ NewRuntime.thread = "opening" /\ ~NewRuntime.stop
  BY DEF Off, NewRuntime, Service

\* The threads that are alive, and those that are up.
LEMMA AliveThreads ==
  ASSUME NEW g
  PROVE  /\ Alive(g) <=> worker[g].thread \in {"opening", "gate", "rejected", "delivering",
                                              "refused"}
         /\ Up(g) <=> worker[g].thread \in {"gate", "rejected", "delivering", "refused"}
  BY DEF Alive, Up

\* What telling a worker service to stop, or ending its thread, does to the
\* services: one changes, the others stay.
LEMMA ServiceUpdates ==
  ASSUME worker \in [Slots -> Service], NEW g \in Slots
  PROVE  /\ \A u \in BOOLEAN :
              /\ ToldToStop(g, u) \in [Slots -> Service]
              /\ ToldToStop(g, u)[g].stop
              /\ ToldToStop(g, u)[g].thread = worker[g].thread
              /\ \A h \in Slots \ {g} : ToldToStop(g, u)[h] = worker[h]
         /\ Ended(g) \in Service /\ Ended(g).thread \in {"off", "dead"}
         /\ g = cur => Ended(g).stop = worker[g].stop
         /\ Released(g) \in [Slots -> Service]
         /\ \A h \in Slots \ {g} : Released(g)[h] = worker[h]
         /\ Released(g)[g] \in {worker[g], Off}
  <1>1. worker[g] \in Service
    OBVIOUS
  <1>2. ASSUME NEW u \in BOOLEAN
        PROVE  /\ ToldToStop(g, u) \in [Slots -> Service]
               /\ ToldToStop(g, u)[g].stop
               /\ ToldToStop(g, u)[g].thread = worker[g].thread
               /\ \A h \in Slots \ {g} : ToldToStop(g, u)[h] = worker[h]
    <2> DEFINE w == [worker[g] EXCEPT !.stop = TRUE, !.shows = "other",
                                      !.listening = worker[g].listening /\ ~u]
    <2>1. w \in Service /\ w.stop /\ w.thread = worker[g].thread
      BY <1>1 DEF Service
    <2>2. ToldToStop(g, u) = [worker EXCEPT ![g] = w]
      BY <1>1 DEF ToldToStop, Service
    <2> QED
      BY <2>1, <2>2
  <1>3. /\ Ended(g) \in Service /\ Ended(g).thread \in {"off", "dead"}
        /\ g = cur => Ended(g).stop = worker[g].stop
    BY <1>1, ServiceForms DEF Ended, Service
  <1>4. /\ Released(g) \in [Slots -> Service]
        /\ \A h \in Slots \ {g} : Released(g)[h] = worker[h]
        /\ Released(g)[g] \in {worker[g], Off}
    BY ServiceForms DEF Released
  <1> QED
    BY <1>2, <1>3, <1>4

\* A reauthentication that is asked for is a flow, and starts at its form.
LEMMA FlowUpdates ==
  ASSUME flow \in [Flows -> FlowState]
  PROVE  /\ Closed \in FlowState /\ [Closed EXCEPT !.step = "form"] \in FlowState
         /\ \A f \in Flows : [flow[f] EXCEPT !.step = "form"] \in FlowState
         /\ ReauthStarted \in [Flows -> FlowState]
         /\ \A f \in Flows : ReauthStarted[f].step = "probe" => ReauthStarted[f] = flow[f]
  <1>1. "reauth" \in Flows
    BY DEF Flows
  <1>2. Closed \in FlowState /\ [Closed EXCEPT !.step = "form"] \in FlowState
    BY DEF Closed, FlowState
  <1>3. ASSUME NEW f \in Flows
        PROVE  /\ [flow[f] EXCEPT !.step = "form"] \in FlowState
               /\ [flow[f] EXCEPT !.step = "form"].step = "form"
    BY DEF FlowState
  <1> DEFINE started == [flow EXCEPT !["reauth"].step = "form"]
  <1>4. started = [flow EXCEPT !["reauth"] = [flow["reauth"] EXCEPT !.step = "form"]]
    OBVIOUS
  <1>5. /\ started \in [Flows -> FlowState]
        /\ \A f \in Flows : started[f].step = "probe" => started[f] = flow[f]
    BY <1>1, <1>3, <1>4
  <1>6. ReauthStarted \in {flow, started}
    BY DEF ReauthStarted
  <1> HIDE DEF started
  <1> QED
    BY <1>2, <1>3, <1>5, <1>6

-----------------------------------------------------------------------------
(* Types.                                                                  *)

\* The type invariant by groups of variables.
StoredTypes ==
    /\ data \in Data /\ uid \in Destinations /\ options \in Options
    /\ others \in SUBSET Destinations

ManagerTypes ==
    /\ phase \in Phases /\ cur \in Slots \cup {0}
    /\ reload \in BOOLEAN /\ platforms \in BOOLEAN /\ watched \in BOOLEAN

RuntimeTypes ==
    /\ worker \in [Slots -> Service]
    /\ built \in [data : Data, options : Options] \cup {Unbuilt}

ReportTypes == monitor \in BOOLEAN /\ asked \in BOOLEAN /\ issue \in BOOLEAN

FlowTypes == flow \in [Flows -> FlowState]

WorldTypes ==
    /\ secret \in [Destinations -> Secrets]
    /\ faults \in Nat /\ rotations \in Nat /\ acts \in Nat

HistoryTypes ==
    /\ inherited \in BOOLEAN /\ missed \in BOOLEAN /\ overtaken \in BOOLEAN
    /\ abandoned \in SUBSET Slots

\* The type invariant, in groups of variables that change together.
LEMMA TypesGrouped ==
  /\ EntryTypeOK <=> /\ StoredTypes /\ ManagerTypes /\ RuntimeTypes /\ ReportTypes
                     /\ FlowTypes /\ WorldTypes /\ HistoryTypes
  /\ EntryTypeOK' <=> /\ StoredTypes' /\ ManagerTypes' /\ RuntimeTypes' /\ ReportTypes'
                      /\ FlowTypes' /\ WorldTypes' /\ HistoryTypes'
  BY DEF EntryTypeOK, StoredTypes, ManagerTypes, RuntimeTypes, ReportTypes, FlowTypes,
         FlowState, WorldTypes, HistoryTypes

\* A Home Assistant without the integration has the types.
LEMMA TypesInit == Init => EntryTypeOK
  <1> SUFFICES ASSUME Init PROVE EntryTypeOK
    OBVIOUS
  <1>1. StoredTypes
    BY DEF Init, StoredTypes, Data, Options
  <1>2. ManagerTypes /\ ReportTypes /\ HistoryTypes
    BY DEF Init, ManagerTypes, ReportTypes, HistoryTypes, Phases
  <1>3. RuntimeTypes
    BY ServiceForms DEF Init, RuntimeTypes
  <1>4. FlowTypes
    BY DEF Init, FlowTypes, FlowState, Closed
  <1>5. WorldTypes
    BY DEF Init, WorldTypes
  <1> QED
    BY <1>1, <1>2, <1>3, <1>4, <1>5, TypesGrouped

\* A group whose variables a step leaves alone keeps its types.
LEMMA TypesFramed ==
  /\ StoredTypes /\ UNCHANGED stored => StoredTypes'
  /\ ManagerTypes /\ UNCHANGED manager => ManagerTypes'
  /\ RuntimeTypes /\ UNCHANGED runtimes => RuntimeTypes'
  /\ ReportTypes /\ UNCHANGED report => ReportTypes'
  /\ FlowTypes /\ UNCHANGED flow => FlowTypes'
  /\ WorldTypes /\ UNCHANGED world => WorldTypes'
  /\ HistoryTypes /\ UNCHANGED history => HistoryTypes'
  BY DEF StoredTypes, ManagerTypes, RuntimeTypes, ReportTypes, FlowTypes, WorldTypes,
         HistoryTypes, stored, manager, runtimes, report, world, history

\* Faults are counted up.
LEMMA FaultCounted ==
  ASSUME NEW kind, Fault(kind), faults \in Nat PROVE faults' \in Nat
  BY DEF Fault

\* The steps of a service keep the types.
LEMMA ServiceTypes ==
  ASSUME EntryTypeOK, NEW g \in Slots,
         ServiceStep(g) \/ PauseHides(g) \/ ServiceFails(g)
  PROVE  EntryTypeOK'
  <1> USE TypesGrouped, TypesFramed
  <1>1. worker \in [Slots -> Service] /\ worker[g] \in Service /\ faults \in Nat
    BY DEF RuntimeTypes, WorldTypes
  <1>2. ASSUME UNCHANGED <<stored, built, manager, report, flow, calm>>,
               worker' \in [Slots -> Service], faults' \in Nat,
               HistoryTypes'
        PROVE  EntryTypeOK'
    <2>1. StoredTypes' /\ ManagerTypes' /\ ReportTypes' /\ FlowTypes'
      BY <1>2
    <2>2. RuntimeTypes' /\ WorldTypes'
      BY <1>2 DEF RuntimeTypes, WorldTypes, calm
    <2> QED
      BY <1>2, <2>1, <2>2
  <1>3. \A t \in {"gate", "dead", "delivering", "rejected", "refused"} :
           [worker EXCEPT ![g].thread = t] \in [Slots -> Service]
    BY <1>1 DEF Service
  <1>4. CASE ServiceOpens(g)
    <2>1. worker' \in [Slots -> Service] /\ faults' \in Nat
      BY <1>1, <1>3, <1>4, FaultCounted DEF ServiceOpens
    <2> QED
      BY <1>2, <1>4, <2>1 DEF ServiceOpens
  <1>5. CASE GateAnswers(g)
    <2>1. worker' \in [Slots -> Service]
      BY <1>3, <1>5 DEF GateAnswers
    <2> QED
      BY <1>1, <1>2, <1>5, <2>1 DEF GateAnswers, world, calm
  <1>6. CASE SendRejected(g)
    <2>1. worker' \in [Slots -> Service]
      BY <1>1, <1>6 DEF SendRejected, Service
    <2> QED
      BY <1>1, <1>2, <1>6, <2>1 DEF SendRejected, world, calm
  <1>7. CASE PauseHides(g)
    <2>1. worker' \in [Slots -> Service]
      BY <1>1, <1>7 DEF PauseHides, Service
    <2> QED
      BY <1>1, <1>2, <1>7, <2>1, FaultCounted DEF PauseHides
  <1>8. CASE ServiceStops(g)
    <2>1. worker' \in [Slots -> Service]
      BY <1>1, <1>8, ServiceUpdates DEF ServiceStops
    <2>2. HistoryTypes'
      BY <1>8 DEF ServiceStops, HistoryTypes
    <2> QED
      BY <1>1, <1>2, <1>8, <2>1, <2>2 DEF ServiceStops, world, calm
  <1>9. CASE ServiceFails(g)
    <2>1. worker' \in [Slots -> Service]
      BY <1>1, <1>9, ServiceUpdates DEF ServiceFails
    <2>2. HistoryTypes'
      BY <1>9 DEF ServiceFails, HistoryTypes
    <2> QED
      BY <1>1, <1>2, <1>9, <2>1, <2>2, FaultCounted DEF ServiceFails
  <1> QED
    BY <1>4, <1>5, <1>6, <1>7, <1>8, <1>9 DEF ServiceStep

\* The steps of a setup, and of the monitor, keep the types.
LEMMA SetupTypes ==
  ASSUME EntryTypeOK, CurrentAttached,
         \/ SetUp \/ StartReturns \/ StartRaises \/ StartTimesOut \/ RegisterFails
         \/ CleanedUp \/ PlatformsForwarded \/ ForwardFails \/ ForwardRefused
         \/ ForwardUndone \/ MonitorTick
  PROVE  EntryTypeOK'
  <1> USE TypesGrouped, TypesFramed
  <1>1. /\ worker \in [Slots -> Service] /\ faults \in Nat /\ FlowTypes
        /\ abandoned \in SUBSET Slots /\ cur \in Slots \cup {0}
    BY DEF RuntimeTypes, WorldTypes, HistoryTypes, ManagerTypes
  <1>2. ASSUME UNCHANGED calm, faults' \in Nat
        PROVE  WorldTypes'
    BY <1>2 DEF WorldTypes, calm
  <1>3. ASSUME NEW g, SyncAuthIssue(g), UNCHANGED <<abandoned, missed, overtaken>>
        PROVE  FlowTypes' /\ issue' \in BOOLEAN /\ asked' \in BOOLEAN /\ HistoryTypes'
    <2>1. flow' \in {flow, ReauthStarted}
      BY <1>3 DEF SyncAuthIssue
    <2>2. FlowTypes'
      BY <1>1, <2>1, FlowUpdates DEF FlowTypes
    <2> QED
      BY <1>3, <2>2 DEF SyncAuthIssue, HistoryTypes
  <1>4. ASSUME cur \in Slots, LetGo
        PROVE  /\ RuntimeTypes' /\ cur' = 0 /\ abandoned' \in SUBSET Slots
    <2>1. worker' \in [Slots -> Service]
      BY <1>1, <1>4, ServiceUpdates DEF LetGo
    <2> QED
      BY <1>1, <1>4, <2>1 DEF LetGo, RuntimeTypes
  <1>5. ASSUME cur \in Slots, NEW u \in BOOLEAN, BeginStop(u)
        PROVE  worker' \in [Slots -> Service] /\ monitor' \in BOOLEAN
    BY <1>1, <1>5, ServiceUpdates DEF BeginStop
  <1>6. phase \notin Detached => cur \in Slots
    BY DEF CurrentAttached
  <1>7. CASE SetUp
    <2>1. StoredTypes' /\ FlowTypes' /\ WorldTypes'
      BY <1>7 DEF SetUp
    <2>2. HistoryTypes' /\ ReportTypes'
      BY <1>7 DEF SetUp, HistoryTypes, ReportTypes
    <2>3. CASE phase' = "setup_error" /\ UNCHANGED <<runtimes, cur>>
      BY <1>7, <2>1, <2>2, <2>3 DEF SetUp, ManagerTypes, Phases
    <2>4. CASE /\ \E g \in Slots : worker[g] = Off
               /\ cur' = CHOOSE g \in Slots : worker[g] = Off
               /\ worker' = [worker EXCEPT ![cur'] = NewRuntime]
               /\ built' = Configuration
               /\ phase' = "starting"
      <3>1. cur' \in Slots
        BY <2>4
      <3>2. RuntimeTypes'
        BY <1>1, <2>4, <3>1, ServiceForms DEF RuntimeTypes, Configuration, StoredTypes
      <3>3. ManagerTypes'
        BY <1>7, <2>4, <3>1 DEF SetUp, ManagerTypes, Phases
      <3> QED
        BY <2>1, <2>2, <3>2, <3>3
    <2> QED
      BY <1>7, <2>3, <2>4 DEF SetUp
  <1>8. CASE StartReturns
    <2>1. cur \in Slots
      BY <1>6, <1>8 DEF StartReturns, Detached
    <2>2. RuntimeTypes'
      BY <1>1, <1>8, <2>1 DEF StartReturns, RuntimeTypes, Service
    <2>3. FlowTypes' /\ HistoryTypes' /\ ReportTypes'
      BY <1>3, <1>8 DEF StartReturns, ReportTypes
    <2> QED
      BY <1>8, <2>2, <2>3 DEF StartReturns, ManagerTypes, Phases
  <1>9. CASE StartRaises
    <2>1. RuntimeTypes' /\ cur' = 0 /\ abandoned' \in SUBSET Slots
      BY <1>4, <1>6, <1>9 DEF StartRaises, Detached
    <2> QED
      BY <1>9, <2>1 DEF StartRaises, ManagerTypes, Phases, HistoryTypes
  <1>10. CASE StartTimesOut
    <2>1. cur \in Slots
      BY <1>6, <1>10 DEF StartTimesOut, Detached
    <2>2. RuntimeTypes'
      BY <1>1, <1>10, <2>1, ServiceUpdates DEF StartTimesOut, RuntimeTypes
    <2> QED
      BY <1>1, <1>2, <1>10, <2>2, FaultCounted DEF StartTimesOut, ManagerTypes, Phases
  <1>11. CASE RegisterFails
    <2>1. cur \in Slots
      BY <1>6, <1>11 DEF RegisterFails, Detached
    <2>2. ToldToStop(cur, FALSE) \in [Slots -> Service]
      BY <1>1, <2>1, ServiceUpdates
    <2>3. ASSUME NEW w \in [Slots -> Service], NEW r \in BOOLEAN
          PROVE  [w EXCEPT ![cur].listening = r] \in [Slots -> Service]
      BY <2>1 DEF Service
    <2>4. PICK registered \in BOOLEAN :
            worker' = [ToldToStop(cur, FALSE) EXCEPT ![cur].listening = registered]
      BY <1>11 DEF RegisterFails
    <2>5. worker' \in [Slots -> Service]
      BY <2>2, <2>3, <2>4
    <2>6. RuntimeTypes'
      BY <1>11, <2>5 DEF RegisterFails, RuntimeTypes
    <2> QED
      BY <1>1, <1>2, <1>11, <2>6, FaultCounted DEF RegisterFails, ManagerTypes, Phases
  <1>12. ASSUME NEW joined, Joined(joined)
         PROVE  faults' \in Nat
    BY <1>1, <1>12, FaultCounted DEF Joined
  <1>13. CASE CleanedUp
    <2>1. RuntimeTypes' /\ cur' = 0 /\ abandoned' \in SUBSET Slots
      BY <1>4, <1>6, <1>13 DEF CleanedUp, Detached
    <2>2. WorldTypes'
      BY <1>2, <1>12, <1>13 DEF CleanedUp
    <2> QED
      BY <1>13, <2>1, <2>2 DEF CleanedUp, ManagerTypes, Phases, HistoryTypes
  <1>14. CASE PlatformsForwarded
    BY <1>14 DEF PlatformsForwarded, ManagerTypes, Phases
  <1>15. CASE ForwardFails
    <2>1. cur \in Slots
      BY <1>6, <1>15 DEF ForwardFails, Detached
    <2>2. worker' \in [Slots -> Service] /\ monitor' \in BOOLEAN
      BY <1>5, <1>15, <2>1 DEF ForwardFails, StopAfterForwardFailed
    <2>3. RuntimeTypes' /\ ReportTypes'
      BY <1>15, <2>2 DEF ForwardFails, RuntimeTypes, ReportTypes
    <2> QED
      BY <1>1, <1>2, <1>15, <2>3, FaultCounted DEF ForwardFails, ManagerTypes, Phases
  <1>16. CASE ForwardRefused
    <2>1. cur \in Slots
      BY <1>6, <1>16 DEF ForwardRefused, Detached
    <2>2. worker' \in [Slots -> Service] /\ monitor' \in BOOLEAN
      BY <1>5, <1>16, <2>1 DEF ForwardRefused, StopAfterForwardFailed
    <2>3. RuntimeTypes' /\ ReportTypes'
      BY <1>16, <2>2 DEF ForwardRefused, RuntimeTypes, ReportTypes
    <2> QED
      BY <1>16, <2>3 DEF ForwardRefused, ManagerTypes, Phases
  <1>17. CASE ForwardUndone
    <2>1. RuntimeTypes' /\ cur' = 0 /\ abandoned' \in SUBSET Slots
      BY <1>4, <1>6, <1>17 DEF ForwardUndone, Detached
    <2>2. WorldTypes'
      BY <1>2, <1>12, <1>17 DEF ForwardUndone
    <2>3. ReportTypes' /\ HistoryTypes'
      BY <1>17, <2>1 DEF ForwardUndone, IssueDeleted, ReportTypes, HistoryTypes
    <2>4. ManagerTypes'
      BY <1>17, <2>1 DEF ForwardUndone, ManagerTypes, Phases
    <2> QED
      BY <1>17, <2>1, <2>2, <2>3, <2>4 DEF ForwardUndone
  <1>18. CASE MonitorTick
    <2>1. FlowTypes' /\ HistoryTypes' /\ ReportTypes'
      BY <1>3, <1>18 DEF MonitorTick, ReportTypes
    <2> QED
      BY <1>18, <2>1 DEF MonitorTick
  <1> QED
    BY <1>7, <1>8, <1>9, <1>10, <1>11, <1>13, <1>14, <1>15, <1>16, <1>17, <1>18

\* The steps of an unload, of the flows and of the environment keep the types.
LEMMA FlowStepTypes ==
  ASSUME EntryTypeOK, CurrentAttached, ProbeHasData,
         \/ Reload \/ Unloaded \/ UserReloads \/ SaveFilters \/ SaveAdvanced
         \/ OpenReconfigure \/ OthersChange \/ Rotate \/ Restart
         \/ \E f \in Flows : FlowStep(f)
  PROVE  EntryTypeOK'
  <1> USE TypesGrouped, TypesFramed
  <1>1. /\ worker \in [Slots -> Service] /\ flow \in [Flows -> FlowState]
        /\ faults \in Nat /\ rotations \in Nat /\ acts \in Nat
        /\ secret \in [Destinations -> Secrets]
        /\ data \in Data /\ uid \in Destinations /\ options \in Options
        /\ others \in SUBSET Destinations /\ cur \in Slots \cup {0}
    BY DEF RuntimeTypes, FlowTypes, WorldTypes, StoredTypes, ManagerTypes
  <1>2. Act => acts' \in Nat
    BY <1>1 DEF Act
  <1>3. CASE Reload
    <2>1. phase = "loaded" => cur \in Slots
      BY DEF CurrentAttached, Detached
    <2>2. faults' \in Nat /\ worker' \in [Slots -> Service] /\ monitor' \in BOOLEAN
      <3>1. CASE phase = "loaded"
        <4>1. ASSUME NEW u \in BOOLEAN, BeginStop(u)
              PROVE  worker' \in [Slots -> Service] /\ monitor' \in BOOLEAN
          <5>1. ToldToStop(cur, u) \in [Slots -> Service]
            BY <1>1, <2>1, <3>1, ServiceUpdates
          <5> QED
            BY <4>1, <5>1 DEF BeginStop
        <4>2. \/ BeginStop(TRUE) /\ UNCHANGED faults
              \/ Fault("unsubscribe") /\ BeginStop(FALSE)
          BY <1>3, <3>1 DEF Reload
        <4>3. \E u \in BOOLEAN : BeginStop(u)
          BY <4>2
        <4>4. faults' \in Nat
          BY <1>1, <4>2, FaultCounted
        <4> QED
          BY <4>1, <4>3, <4>4
      <3>2. CASE phase # "loaded"
        BY <1>1, <1>3, <3>2 DEF Reload, ReportTypes
      <3> QED
        BY <3>1, <3>2
    <2>3. ManagerTypes'
      BY <1>3 DEF Reload, ManagerTypes, Phases
    <2>4. RuntimeTypes' /\ ReportTypes' /\ WorldTypes'
      BY <1>3, <2>2 DEF Reload, RuntimeTypes, ReportTypes, WorldTypes, calm
    <2> QED
      BY <1>3, <2>3, <2>4 DEF Reload
  <1>4. CASE Unloaded
    <2>1. cur \in Slots
      BY <1>4 DEF Unloaded, CurrentAttached, Detached
    <2>2. /\ UnloadedEntry => /\ RuntimeTypes' /\ cur' = 0 /\ watched' = FALSE
                              /\ phase' = "not_loaded"
          /\ UnloadFailed => /\ RuntimeTypes' /\ cur' = cur /\ watched' = watched
                             /\ phase' = "failed_unload"
      BY <1>1, <2>1, ServiceUpdates DEF UnloadedEntry, UnloadFailed, RuntimeTypes, runtimes
    <2>3. UnloadedEntry \/ UnloadFailed
      BY <1>4 DEF Unloaded
    <2>4. faults' \in Nat /\ platforms' \in BOOLEAN
      BY <1>1, <1>4, FaultCounted DEF Unloaded, Joined, ManagerTypes
    <2>5. ManagerTypes'
      BY <1>4, <2>2, <2>3, <2>4 DEF Unloaded, ManagerTypes, Phases
    <2>6. ReportTypes' /\ HistoryTypes'
      BY <1>4 DEF Unloaded, IssueDeleted, ReportTypes, HistoryTypes
    <2>7. WorldTypes'
      BY <1>4, <2>4 DEF Unloaded, WorldTypes, calm
    <2> QED
      BY <1>4, <2>2, <2>3, <2>5, <2>6, <2>7 DEF Unloaded
  <1>5. CASE UserReloads
    BY <1>2, <1>5 DEF UserReloads, ManagerTypes, WorldTypes
  <1>6. ASSUME OptionsSaved, options' \in Options
        PROVE  EntryTypeOK'
    <2>1. StoredTypes'
      BY <1>6 DEF OptionsSaved, StoredTypes
    <2>2. ManagerTypes'
      BY <1>6 DEF OptionsSaved, ReloadAfterSave, ManagerTypes
    <2>3. WorldTypes'
      BY <1>2, <1>6 DEF OptionsSaved, WorldTypes
    <2>4. HistoryTypes'
      BY <1>6 DEF OptionsSaved, InSetUp, HistoryTypes
    <2> QED
      BY <1>6, <2>1, <2>2, <2>3, <2>4 DEF OptionsSaved
  <1>7. CASE SaveFilters
    BY <1>1, <1>6, <1>7 DEF SaveFilters, Options
  <1>8. CASE SaveAdvanced
    BY <1>6, <1>8 DEF SaveAdvanced
  <1>9. CASE OpenReconfigure
    <2>1. flow' \in [Flows -> FlowState]
      BY <1>1, <1>9, FlowUpdates DEF OpenReconfigure, Flows, FlowState
    <2> QED
      BY <1>2, <1>9, <2>1 DEF OpenReconfigure, FlowTypes, WorldTypes
  <1>10. ASSUME NEW f \in Flows, FlowStep(f)
         PROVE  EntryTypeOK'
    <2>1. CASE Dismiss(f)
      <3>1. flow' \in [Flows -> FlowState]
        BY <1>1, <2>1, FlowUpdates DEF Dismiss
      <3> QED
        BY <2>1, <3>1 DEF Dismiss, FlowTypes
    <2>2. CASE Submit(f)
      <3>1. FormDestinations(f) \subseteq Destinations
        BY <1>1 DEF FormDestinations, Data
      <3>2. flow' \in [Flows -> FlowState]
        BY <1>1, <2>2, <3>1 DEF Submit, FlowState, Data
      <3> QED
        BY <1>2, <2>2, <3>2 DEF Submit, FlowTypes, WorldTypes
    <2>3. CASE ProbeFails(f)
      <3>1. flow' \in [Flows -> FlowState]
        BY <1>1, <2>3, FlowUpdates DEF ProbeFails
      <3>2. faults' \in Nat
        BY <1>1, <2>3, FaultCounted DEF ProbeFails
      <3> QED
        BY <2>3, <3>1, <3>2 DEF ProbeFails, FlowTypes, WorldTypes, calm
    <2>4. CASE ProbeSucceeds(f)
      <3>1. flow[f].data \in Data /\ flow[f].data.dest \in Destinations
        BY <1>10, <2>4 DEF ProbeSucceeds, ProbeHasData, Data
      <3>2. ASSUME NEW id \in Destinations, Store(f, id)
            PROVE  /\ data' \in Data /\ uid' \in Destinations
                   /\ overtaken' \in BOOLEAN /\ reload' = TRUE
                   /\ flow' \in [Flows -> FlowState]
        <4>1. \A g \in Flows : [flow[g] EXCEPT !.stale = TRUE] \in FlowState
          BY <1>1 DEF FlowState
        <4>2. ASSUME NEW g \in Flows
              PROVE  flow'[g] \in FlowState
          <5>1. CASE g = f
            BY <3>2, <5>1, FlowUpdates, <1>1 DEF Store
          <5>2. CASE g # f /\ flow[g].step = "probe"
            BY <3>2, <4>1, <5>2 DEF Store
          <5>3. CASE g # f /\ flow[g].step # "probe"
            BY <1>1, <3>2, <5>3 DEF Store
          <5> QED
            BY <5>1, <5>2, <5>3
        <4>3. flow' \in [Flows -> FlowState]
          BY <3>2, <4>2 DEF Store
        <4>4. flow[f].stale \in BOOLEAN /\ overtaken \in BOOLEAN
          BY <1>1 DEF FlowState, HistoryTypes
        <4> QED
          BY <3>1, <3>2, <4>3, <4>4 DEF Store, ReloadAfterStore
      <3>3. /\ data' \in Data /\ uid' \in Destinations
            /\ overtaken' \in BOOLEAN /\ reload' \in BOOLEAN
            /\ flow' \in [Flows -> FlowState]
        <4>1. CASE \E id \in Destinations : Store(f, id)
          BY <3>2, <4>1
        <4>2. CASE /\ flow' = [flow EXCEPT ![f] = Closed]
                   /\ UNCHANGED <<data, uid, reload, overtaken>>
          BY <1>1, <4>2, FlowUpdates DEF ManagerTypes, HistoryTypes
        <4> QED
          BY <1>1, <2>4, <3>1, <4>1, <4>2 DEF ProbeSucceeds, KeptId
      <3> QED
        BY <2>4, <3>3 DEF ProbeSucceeds, StoredTypes, ManagerTypes, FlowTypes, HistoryTypes
    <2> QED
      BY <1>10, <2>1, <2>2, <2>3, <2>4 DEF FlowStep
  <1>11. CASE OthersChange
    BY <1>1, <1>2, <1>11 DEF OthersChange, StoredTypes, WorldTypes
  <1>12. CASE Rotate
    <2>1. secret' \in [Destinations -> Secrets] /\ rotations' \in Nat
      BY <1>1, <1>12 DEF Rotate
    <2> QED
      BY <1>12, <2>1 DEF Rotate, WorldTypes
  <1>13. CASE Restart
    <2>1. WorldTypes'
      BY <1>1, <1>13, FaultCounted DEF Restart, WorldTypes, calm
    <2>2. RuntimeTypes' /\ FlowTypes'
      BY <1>13, ServiceForms, FlowUpdates, <1>1 DEF Restart, RuntimeTypes, FlowTypes
    <2>3. ManagerTypes' /\ ReportTypes' /\ HistoryTypes'
      BY <1>13 DEF Restart, ManagerTypes, ReportTypes, HistoryTypes, Phases
    <2> QED
      BY <1>13, <2>1, <2>2, <2>3 DEF Restart
  <1> QED
    BY <1>3, <1>4, <1>5, <1>7, <1>8, <1>9, <1>10, <1>11, <1>12, <1>13

-----------------------------------------------------------------------------
(* Who owns the spool.                                                     *)

Ownership == CurrentAttached /\ StopAnnounced /\ OneOwner

\* A step of a service thread leaves the others alone and its own order to stop
\* as it was; an abandoned thread is forgotten when it ends.
LEMMA ServiceOwnership ==
  ASSUME EntryTypeOK, Ownership, NEW g \in Slots,
         ServiceStep(g) \/ PauseHides(g) \/ ServiceFails(g)
  PROVE  Ownership'
  <1>1. worker \in [Slots -> Service] /\ worker[g] \in Service
    BY DEF EntryTypeOK
  <1>2. phase' = phase /\ cur' = cur
    BY DEF ServiceStep, ServiceOpens, GateAnswers, SendRejected, ServiceStops, PauseHides,
           ServiceFails, manager
  <1>3. \/ /\ Alive(g)' => Alive(g)
           /\ abandoned' = abandoned
           /\ worker'[g].stop = worker[g].stop
           /\ \A h \in Slots \ {g} : worker'[h] = worker[h]
        \/ /\ worker' = [worker EXCEPT ![g] = Ended(g)]
           /\ abandoned' = abandoned \ {g}
    <2>1. CASE ServiceOpens(g)
      BY <1>1, <2>1 DEF ServiceOpens, Alive, history, Service
    <2>2. CASE GateAnswers(g)
      BY <1>1, <2>2 DEF GateAnswers, Alive, Up, history, Service
    <2>3. CASE SendRejected(g)
      BY <1>1, <2>3 DEF SendRejected, Alive, Up, history, Service
    <2>4. CASE PauseHides(g)
      BY <1>1, <2>4 DEF PauseHides, Alive, Up, history, Service
    <2>5. CASE ServiceStops(g)
      BY <2>5 DEF ServiceStops
    <2>6. CASE ServiceFails(g)
      BY <2>6 DEF ServiceFails
    <2> QED
      BY <2>1, <2>2, <2>3, <2>4, <2>5, <2>6 DEF ServiceStep
  <1>4. CASE /\ Alive(g)' => Alive(g)
             /\ abandoned' = abandoned
             /\ worker'[g].stop = worker[g].stop
             /\ \A h \in Slots \ {g} : worker'[h] = worker[h]
    <2>1. \A h \in Slots : /\ Alive(h)' => Alive(h)
                           /\ worker'[h].stop = worker[h].stop
      BY <1>4 DEF Alive, Up
    <2> QED
      BY <1>2, <1>4, <2>1 DEF Ownership, CurrentAttached, StopAnnounced, OneOwner, Detached
  <1>5. CASE /\ worker' = [worker EXCEPT ![g] = Ended(g)]
             /\ abandoned' = abandoned \ {g}
    <2>1. ~Alive(g)'
      BY <1>1, <1>5, ServiceUpdates DEF Alive, Up
    <2>2. \A h \in Slots \ {g} : worker'[h] = worker[h]
      BY <1>1, <1>5
    <2>3. g = cur => worker'[g].stop = worker[g].stop
      BY <1>1, <1>5, ServiceUpdates
    <2>4. OneOwner'
      BY <1>2, <1>5, <2>1, <2>2 DEF Ownership, OneOwner, Alive, Up
    <2>5. StopAnnounced'
      BY <1>2, <2>2, <2>3 DEF Ownership, StopAnnounced, CurrentAttached, Detached
    <2> QED
      BY <1>2, <2>4, <2>5 DEF Ownership, CurrentAttached
  <1> QED
    BY <1>3, <1>4, <1>5

\* Letting a runtime go that was told to stop, or whose thread has ended.
LEMMA LetGoOwnership ==
  ASSUME EntryTypeOK, Ownership, NEW g \in Slots, g = cur, Alive(g) => worker[g].stop,
         worker' = Released(g), cur' = 0,
         abandoned' = IF Alive(g) THEN abandoned \cup {g} ELSE abandoned
  PROVE  OneOwner'
  <1>1. worker \in [Slots -> Service] /\ 0 \notin Slots
    BY EntryAssumption DEF EntryTypeOK
  <1>2. \A h \in Slots \ {g} : worker'[h] = worker[h]
    BY <1>1, ServiceUpdates
  <1>3. worker'[g] = worker[g] \/ worker'[g] = Off
    BY <1>1, ServiceUpdates
  <1>4. \A h \in Slots \ {g} : Alive(h)' => h \in abandoned' /\ worker'[h].stop
    BY <1>2 DEF Ownership, OneOwner, Alive, Up
  <1>5. Alive(g)' => Alive(g) /\ worker'[g] = worker[g]
    BY <1>3, ServiceForms DEF Alive, Up
  <1> QED
    BY <1>4, <1>5 DEF OneOwner

\* Whatever the loop does, every thread besides that of the current runtime was
\* told to stop by a setup that gave up waiting for it.
LEMMA OwnershipStep ==
  ASSUME EntryTypeOK, Ownership, [Next]_vars
  PROVE  Ownership'
  <1>1. /\ worker \in [Slots -> Service] /\ 0 \notin Slots /\ phase \in Phases
        /\ phase \notin Detached => cur \in Slots
        /\ phase \in Detached => cur = 0
    BY EntryAssumption DEF EntryTypeOK, Ownership, CurrentAttached
  <1>2. ASSUME UNCHANGED <<phase, cur, worker, abandoned>>
        PROVE  Ownership'
    BY <1>2 DEF Ownership, CurrentAttached, StopAnnounced, OneOwner, Alive, Up
  \* The current runtime alone changes: told to stop, or heard from.
  <1>3. ASSUME cur \in Slots, cur' = cur, phase' \in Phases \ Detached,
               abandoned' = abandoned,
               \A h \in Slots \ {cur} : worker'[h] = worker[h],
               StopAnnounced'
        PROVE  Ownership'
    <2>1. OneOwner'
      BY <1>3 DEF Ownership, OneOwner, Alive, Up
    <2> QED
      BY <1>3, <2>1 DEF Ownership, CurrentAttached
  <1>4. ASSUME LetGo, cur \in Slots, Alive(cur) => worker[cur].stop, phase' \in Detached
        PROVE  Ownership'
    <2>1. OneOwner'
      BY <1>4, LetGoOwnership DEF LetGo
    <2>2. phase' \notin {"clean_retry", "clean_error", "undo", "unloading"}
      BY <1>4 DEF Detached
    <2> QED
      BY <1>4, <2>1, <2>2 DEF Ownership, CurrentAttached, StopAnnounced, LetGo
  <1>5. CASE SetUp
    <2>1. cur = 0 /\ abandoned' = abandoned
      BY <1>1, <1>5 DEF SetUp, Detached
    <2>2. CASE phase' = "setup_error" /\ UNCHANGED <<runtimes, cur>>
      BY <1>1, <2>1, <2>2 DEF Ownership, CurrentAttached, StopAnnounced, OneOwner, Detached,
         Alive, Up, runtimes
    <2>3. CASE /\ \E g \in Slots : worker[g] = Off
               /\ cur' = CHOOSE g \in Slots : worker[g] = Off
               /\ worker' = [worker EXCEPT ![cur'] = NewRuntime]
               /\ phase' = "starting"
      <3>1. cur' \in Slots
        BY <2>3
      <3>2. \A h \in Slots : h # cur' => worker'[h] = worker[h] /\ h # cur
        BY <1>1, <2>1, <2>3
      <3>3. OneOwner'
        BY <2>1, <3>2 DEF Ownership, OneOwner, Alive, Up
      <3> QED
        BY <2>3, <3>1, <3>3 DEF Ownership, CurrentAttached, StopAnnounced, Detached
    <2> QED
      BY <1>5, <2>2, <2>3 DEF SetUp
  <1>6. CASE StartReturns
    <2>1. /\ cur \in Slots /\ cur' = cur /\ phase' = "forwarding" /\ abandoned' = abandoned
          /\ \A h \in Slots \ {cur} : worker'[h] = worker[h]
      BY <1>1, <1>6 DEF StartReturns, Detached
    <2> QED
      BY <1>3, <2>1 DEF StopAnnounced, Phases, Detached
  <1>7. CASE StartRaises
    BY <1>1, <1>4, <1>7 DEF StartRaises, Detached
  \* An order to stop, or the failed registration of a listener.
  <1>8. ASSUME cur \in Slots, NEW u \in BOOLEAN, worker' = ToldToStop(cur, u),
               cur' = cur, abandoned' = abandoned, phase' \in Phases \ Detached
        PROVE  Ownership'
    <2>1. /\ worker'[cur].stop
          /\ \A h \in Slots \ {cur} : worker'[h] = worker[h]
      BY <1>1, <1>8, ServiceUpdates
    <2> QED
      BY <1>3, <1>8, <2>1 DEF StopAnnounced
  <1>9. CASE StartTimesOut
    <2>1. /\ cur \in Slots /\ cur' = cur /\ abandoned' = abandoned
          /\ worker' = ToldToStop(cur, FALSE) /\ phase' = "clean_retry"
      BY <1>1, <1>9 DEF StartTimesOut, Detached, history
    <2> QED
      BY <1>8, <2>1 DEF Phases, Detached
  <1>10. CASE RegisterFails
    <2>1. /\ cur \in Slots /\ cur' = cur /\ abandoned' = abandoned
          /\ phase' = "clean_error"
      BY <1>1, <1>10 DEF RegisterFails, Detached, history
    <2>2. PICK registered \in BOOLEAN :
            worker' = [ToldToStop(cur, FALSE) EXCEPT ![cur].listening = registered]
      BY <1>10 DEF RegisterFails
    <2>3. /\ ToldToStop(cur, FALSE) \in [Slots -> Service]
          /\ ToldToStop(cur, FALSE)[cur].stop
          /\ \A h \in Slots \ {cur} : ToldToStop(cur, FALSE)[h] = worker[h]
      BY <1>1, <2>1, ServiceUpdates
    <2>4. /\ worker'[cur].stop
          /\ \A h \in Slots \ {cur} : worker'[h] = worker[h]
      BY <2>1, <2>2, <2>3 DEF Service
    <2> QED
      BY <1>3, <2>1, <2>4 DEF StopAnnounced, Phases, Detached
  <1>11. CASE CleanedUp
    <2>1. /\ LetGo /\ cur \in Slots /\ worker[cur].stop
          /\ phase' \in {"setup_retry", "setup_error"}
      BY <1>1, <1>11 DEF CleanedUp, Detached, Ownership, StopAnnounced
    <2> QED
      BY <1>4, <2>1 DEF Detached
  <1>12. CASE PlatformsForwarded
    <2>1. /\ cur \in Slots /\ cur' = cur /\ abandoned' = abandoned /\ worker' = worker
          /\ phase' = "loaded"
      BY <1>1, <1>12 DEF PlatformsForwarded, Detached, history, runtimes
    <2> QED
      BY <1>3, <2>1 DEF StopAnnounced, Phases, Detached
  <1>13. CASE ForwardFails
    <2>1. /\ cur \in Slots /\ cur' = cur /\ abandoned' = abandoned /\ phase' = "undo"
      BY <1>1, <1>13 DEF ForwardFails, Detached, history
    <2>2. \E u \in BOOLEAN : worker' = ToldToStop(cur, u)
      BY <1>13 DEF ForwardFails, StopAfterForwardFailed, BeginStop
    <2> QED
      BY <1>8, <2>1, <2>2 DEF Phases, Detached
  <1>14. CASE ForwardRefused
    <2>1. /\ cur \in Slots /\ cur' = cur /\ abandoned' = abandoned /\ phase' = "undo"
          /\ worker' = ToldToStop(cur, TRUE)
      BY <1>1, <1>14 DEF ForwardRefused, StopAfterForwardFailed, BeginStop, Detached, history
    <2> QED
      BY <1>8, <2>1 DEF Phases, Detached
  <1>15. CASE ForwardUndone
    <2>1. /\ LetGo /\ cur \in Slots /\ worker[cur].stop
          /\ phase' \in {"setup_retry", "setup_error"}
      BY <1>1, <1>15 DEF ForwardUndone, Detached, Ownership, StopAnnounced
    <2> QED
      BY <1>4, <2>1 DEF Detached
  <1>16. CASE Reload
    <2>1. cur' = cur /\ abandoned' = abandoned
      BY <1>16 DEF Reload, history
    <2>2. CASE phase = "loaded"
      <3>1. cur \in Slots /\ phase' = "unloading"
        BY <1>1, <1>16, <2>2 DEF Reload, Detached
      <3>2. BeginStop(TRUE) \/ BeginStop(FALSE)
        BY <1>16, <2>2 DEF Reload
      <3>3. \E u \in BOOLEAN : worker' = ToldToStop(cur, u)
        BY <3>2 DEF BeginStop
      <3> QED
        BY <1>8, <2>1, <3>1, <3>3 DEF Phases, Detached
    <2>3. CASE phase \in {"setup_retry", "setup_error"}
      <3>1. phase' = "not_loaded" /\ worker' = worker
        BY <1>16, <2>3 DEF Reload
      <3> QED
        BY <1>1, <2>1, <2>3, <3>1 DEF Ownership, CurrentAttached, StopAnnounced, OneOwner,
           Detached, Alive, Up
    <2>4. CASE phase = "failed_unload"
      <3>1. phase' = phase /\ worker' = worker
        BY <1>16, <2>4 DEF Reload
      <3> QED
        BY <1>2, <2>1, <3>1
    <2> QED
      BY <1>16, <2>2, <2>3, <2>4 DEF Reload
  <1>17. CASE Unloaded
    <2>1. cur \in Slots /\ abandoned' = abandoned
      BY <1>1, <1>17 DEF Unloaded, Detached
    <2>2. CASE UnloadedEntry /\ ~Alive(cur)
      <3>1. /\ worker' = Released(cur) /\ cur' = 0 /\ phase' = "not_loaded"
            /\ abandoned' = IF Alive(cur) THEN abandoned \cup {cur} ELSE abandoned
        BY <2>1, <2>2 DEF UnloadedEntry
      <3>2. OneOwner'
        BY <2>1, <2>2, <3>1, LetGoOwnership
      <3> QED
        BY <3>1, <3>2 DEF Ownership, CurrentAttached, StopAnnounced, Detached
    <2>3. CASE UnloadFailed
      <3>1. phase' = "failed_unload" /\ cur' = cur /\ worker' = worker
        BY <2>3 DEF UnloadFailed, runtimes
      <3> QED
        BY <1>3, <2>1, <3>1 DEF StopAnnounced, Phases, Detached
    <2>4. UnloadedEntry => ~Alive(cur)
      BY <1>17 DEF Unloaded, UnloadedEntry, UnloadFailed, UnloadOk, Joined
    <2> QED
      BY <1>17, <2>2, <2>3, <2>4 DEF Unloaded
  <1>18. CASE Restart
    <2>1. OneOwner'
      BY <1>18, ServiceForms DEF Restart, OneOwner, Alive, Up
    <2> QED
      BY <1>18, <2>1 DEF Restart, Ownership, CurrentAttached, StopAnnounced, Detached
  <1>19. CASE \E g \in Slots : ServiceStep(g) \/ PauseHides(g) \/ ServiceFails(g)
    BY <1>19, ServiceOwnership
  <1>20. CASE \/ MonitorTick \/ UserReloads \/ SaveFilters \/ SaveAdvanced
              \/ OpenReconfigure \/ OthersChange \/ Rotate
    BY <1>2, <1>20 DEF MonitorTick, UserReloads, SaveFilters, SaveAdvanced, OptionsSaved,
       OpenReconfigure, OthersChange, Rotate, manager, runtimes, history
  <1>21. CASE \E f \in Flows : FlowStep(f)
    BY <1>2, <1>21 DEF FlowStep, Dismiss, Submit, ProbeFails, ProbeSucceeds, manager,
       runtimes, history
  <1>22. CASE UNCHANGED vars
    BY <1>2, <1>22 DEF vars, manager, runtimes, history
  <1> QED
    BY <1>5, <1>6, <1>7, <1>9, <1>10, <1>11, <1>12, <1>13, <1>14, <1>15, <1>16, <1>17, <1>18,
       <1>19, <1>20, <1>21, <1>22 DEF Next, ManagerStep

-----------------------------------------------------------------------------
(* The report of rejected credentials.                                     *)

Reporting == MonitorAttached /\ IssueHasRuntime

\* The issue appears while a monitor may look at the service, and an unload or
\* an undone setup deletes it after the monitor has been cancelled.
LEMMA ReportingStep ==
  ASSUME Reporting, [Next]_vars
  PROVE  Reporting'
  <1> USE DEF Reporting, MonitorAttached, IssueHasRuntime
  <1>1. ASSUME UNCHANGED <<report, inherited, phase>>
        PROVE  Reporting'
    BY <1>1 DEF report
  <1>2. ASSUME phase' \notin {"forwarding", "undo", "loaded", "unloading"},
               phase \notin {"forwarding", "undo", "loaded", "unloading"},
               UNCHANGED <<report, inherited>>
        PROVE  Reporting'
    BY <1>2 DEF report
  <1>3. CASE SetUp
    BY <1>2, <1>3 DEF SetUp, report
  <1>4. CASE StartReturns
    BY <1>4 DEF StartReturns
  <1>5. CASE StartRaises \/ StartTimesOut \/ RegisterFails \/ CleanedUp
    BY <1>2, <1>5 DEF StartRaises, StartTimesOut, RegisterFails, CleanedUp, history
  <1>6. CASE PlatformsForwarded
    BY <1>6 DEF PlatformsForwarded, report, history
  <1>7. CASE ForwardFails \/ ForwardRefused
    <2>1. /\ phase = "forwarding" /\ phase' = "undo" /\ monitor' = FALSE
          /\ UNCHANGED <<issue, inherited>>
      BY <1>7 DEF ForwardFails, ForwardRefused, StopAfterForwardFailed, BeginStop, history
    <2> QED
      BY <2>1
  <1>8. CASE ForwardUndone
    <2>1. issue' = FALSE /\ phase = "undo" /\ monitor' = monitor
      BY <1>8 DEF ForwardUndone, IssueDeleted
    <2> QED
      BY <2>1
  <1>9. CASE Reload
    <2>1. UNCHANGED <<issue, inherited>>
      BY <1>9 DEF Reload, history
    <2>2. CASE phase = "loaded"
      <3>1. phase' = "unloading" /\ monitor' = FALSE
        BY <1>9, <2>2 DEF Reload, BeginStop
      <3> QED
        BY <2>1, <2>2, <3>1
    <2>3. CASE phase # "loaded"
      <3>1. /\ monitor' = monitor
            /\ phase \in {"setup_retry", "setup_error", "failed_unload"}
            /\ phase' \in {"not_loaded", "failed_unload"}
        BY <1>9, <2>3 DEF Reload
      <3> QED
        BY <2>1, <3>1
    <2> QED
      BY <2>2, <2>3
  <1>10. CASE Unloaded
    <2>1. issue' = FALSE /\ phase = "unloading" /\ monitor' = monitor
      BY <1>10 DEF Unloaded, IssueDeleted
    <2> QED
      BY <2>1
  <1>11. CASE MonitorTick
    <2>1. monitor /\ UNCHANGED <<monitor, phase>>
      BY <1>11 DEF MonitorTick, manager
    <2> QED
      BY <2>1
  <1>12. CASE Restart
    BY <1>12 DEF Restart
  <1>13. CASE \E g \in Slots : ServiceStep(g) \/ PauseHides(g) \/ ServiceFails(g)
    BY <1>1, <1>13 DEF ServiceStep, ServiceOpens, GateAnswers, SendRejected, ServiceStops,
       PauseHides, ServiceFails, manager, history
  <1>14. CASE UserReloads \/ SaveFilters \/ SaveAdvanced \/ OpenReconfigure
    BY <1>1, <1>14 DEF UserReloads, SaveFilters, SaveAdvanced, OptionsSaved, OpenReconfigure,
       manager, history
  <1>15. CASE OthersChange \/ Rotate
    BY <1>1, <1>15 DEF OthersChange, Rotate, manager, history
  <1>16. CASE \E f \in Flows : FlowStep(f)
    BY <1>1, <1>16 DEF FlowStep, Dismiss, Submit, ProbeFails, ProbeSucceeds, manager, history
  <1>17. CASE UNCHANGED vars
    BY <1>1, <1>17 DEF vars, manager, history
  <1> QED
    BY <1>3, <1>4, <1>5, <1>6, <1>7, <1>8, <1>9, <1>10, <1>11, <1>12, <1>13, <1>14, <1>15,
       <1>16, <1>17 DEF Next, ManagerStep

-----------------------------------------------------------------------------
(* Whether a runtime was made of the stored options.                       *)

UpToDate == SetupUpToDate /\ LoadedIsWatched /\ MissedOnlyInSetup

\* Options saved while a setup is under way are noted as missed; once the entry
\* is loaded, saving asks for a reload.
LEMMA UpToDateStep ==
  ASSUME UpToDate, [Next]_vars
  PROVE  UpToDate'
  <1> USE DEF UpToDate, SetupUpToDate, LoadedIsWatched, MissedOnlyInSetup, InSetUp
  <1>1. ASSUME UNCHANGED <<built, options, missed, phase, watched, reload>>
        PROVE  UpToDate'
    BY <1>1
  <1>2. ASSUME phase' \notin {"starting", "forwarding", "loaded"}
        PROVE  UpToDate'
    BY <1>2
  <1>3. CASE SetUp
    <2>1. \/ phase' = "setup_error"
          \/ phase' = "starting" /\ built' = Configuration /\ options' = options
      BY <1>3 DEF SetUp, stored
    <2> QED
      BY <2>1 DEF Configuration
  <1>4. CASE StartReturns
    BY <1>4 DEF StartReturns, stored
  <1>5. CASE StartRaises \/ StartTimesOut \/ RegisterFails \/ CleanedUp
    BY <1>2, <1>5 DEF StartRaises, StartTimesOut, RegisterFails, CleanedUp
  <1>6. CASE PlatformsForwarded
    BY <1>6 DEF PlatformsForwarded, stored, runtimes, history
  <1>7. CASE ForwardFails \/ ForwardRefused \/ ForwardUndone
    BY <1>2, <1>7 DEF ForwardFails, ForwardRefused, ForwardUndone
  <1>8. CASE Reload
    BY <1>2, <1>8 DEF Reload
  <1>9. CASE Unloaded
    BY <1>2, <1>9 DEF Unloaded, UnloadedEntry, UnloadFailed
  <1>10. CASE UserReloads
    BY <1>10 DEF UserReloads, stored, runtimes, history
  <1>11. CASE SaveFilters \/ SaveAdvanced
    <2>1. OptionsSaved
      BY <1>11 DEF SaveFilters, SaveAdvanced
    <2>2. /\ phase' = phase /\ watched' = watched /\ built' = built
          /\ reload' = (reload \/ watched) /\ missed' = (missed \/ InSetUp)
      BY <2>1 DEF OptionsSaved, ReloadAfterSave, runtimes
    <2> QED
      BY <2>2
  <1>12. CASE \E f \in Flows : ProbeSucceeds(f)
    <2>1. UNCHANGED <<built, options, missed, phase, watched>>
      BY <1>12 DEF ProbeSucceeds, runtimes
    <2>2. reload' = reload \/ reload' = TRUE
      BY <1>12 DEF ProbeSucceeds, Store, ReloadAfterStore
    <2> QED
      BY <2>1, <2>2
  <1>13. CASE \E f \in Flows : Dismiss(f) \/ Submit(f) \/ ProbeFails(f)
    BY <1>1, <1>13 DEF Dismiss, Submit, ProbeFails, stored, manager, runtimes, history
  <1>14. CASE MonitorTick \/ OpenReconfigure \/ OthersChange \/ Rotate
    BY <1>1, <1>14 DEF MonitorTick, OpenReconfigure, OthersChange, Rotate, stored, manager,
       runtimes, history
  <1>15. CASE Restart
    BY <1>2, <1>15 DEF Restart
  <1>16. CASE \E g \in Slots : ServiceStep(g) \/ PauseHides(g) \/ ServiceFails(g)
    BY <1>1, <1>16 DEF ServiceStep, ServiceOpens, GateAnswers, SendRejected, ServiceStops,
       PauseHides, ServiceFails, stored, manager, history
  <1>17. CASE UNCHANGED vars
    BY <1>1, <1>17 DEF vars, stored, manager, runtimes, history
  <1> QED
    BY <1>3, <1>4, <1>5, <1>6, <1>7, <1>8, <1>9, <1>10, <1>11, <1>12, <1>13, <1>14, <1>15,
       <1>16, <1>17 DEF Next, ManagerStep, FlowStep

-----------------------------------------------------------------------------
(* Which destination the entry stands for.                                 *)

Identity == ProbeHasData /\ ReauthAgrees /\ MovedOnlyByOvertaking /\ UniqueIds

\* A reconfiguration makes its destination the identity after looking at the
\* other entries, and a reauthentication writes back the destination that it
\* had read, which is the entry's unless one was stored in the meantime.
LEMMA IdentityStep ==
  ASSUME EntryTypeOK, Identity, [Next]_vars
  PROVE  Identity'
  <1> USE DEF Identity, ProbeHasData, ReauthAgrees, MovedOnlyByOvertaking, UniqueIds
  <1>1. /\ flow \in [Flows -> FlowState] /\ data \in Data
        /\ Flows = {"reauth", "reconfigure"}
    BY TypesGrouped DEF FlowTypes, StoredTypes, Flows
  <1>2. ASSUME UNCHANGED <<data, uid, others, flow, overtaken>>
        PROVE  Identity'
    BY <1>2
  \* A flow that is closed or shows its form has nothing to agree with.
  <1>3. ASSUME UNCHANGED <<data, uid, others, overtaken>>,
               \A f \in Flows : flow'[f].step = "probe" => flow'[f] = flow[f]
        PROVE  Identity'
    BY <1>1, <1>3
  <1>4. CASE StartReturns \/ MonitorTick
    <2>1. /\ UNCHANGED <<data, uid, others, overtaken>>
          /\ flow' \in {flow, ReauthStarted}
      BY <1>4 DEF StartReturns, MonitorTick, SyncAuthIssue, stored
    <2>2. \A f \in Flows : flow'[f].step = "probe" => flow'[f] = flow[f]
      BY <1>1, <2>1, FlowUpdates
    <2> QED
      BY <1>3, <2>1, <2>2
  <1>5. CASE OpenReconfigure
    <2>1. UNCHANGED <<data, uid, others, overtaken>>
      BY <1>5 DEF OpenReconfigure, stored, history
    <2>2. \A f \in Flows : flow'[f].step = "probe" => flow'[f] = flow[f]
      BY <1>1, <1>5 DEF OpenReconfigure, FlowState
    <2> QED
      BY <1>3, <2>1, <2>2
  <1>6. CASE Restart
    <2>1. UNCHANGED <<data, uid, others, overtaken>>
      BY <1>6 DEF Restart, stored
    <2>2. \A f \in Flows : flow'[f].step # "probe"
      BY <1>6 DEF Restart, Closed
    <2> QED
      BY <1>3, <2>1, <2>2
  <1>7. ASSUME NEW f \in Flows, Dismiss(f) \/ ProbeFails(f)
        PROVE  Identity'
    <2>1. UNCHANGED <<data, uid, others, overtaken>>
      BY <1>7 DEF Dismiss, ProbeFails, stored, history
    <2>2. \A g \in Flows : flow'[g].step = "probe" => flow'[g] = flow[g]
      BY <1>1, <1>7 DEF Dismiss, ProbeFails, Closed
    <2> QED
      BY <1>3, <2>1, <2>2
  <1>8. ASSUME NEW f \in Flows, Submit(f)
        PROVE  Identity'
    <2>1. UNCHANGED <<data, uid, others, overtaken>>
      BY <1>8 DEF Submit, stored, history
    <2>2. PICK dest \in FormDestinations(f), entered \in Secrets :
            flow' = [flow EXCEPT ![f] =
              [step |-> "probe", stale |-> FALSE,
               data |-> [dest |-> dest,
                         secret |-> IF entered = None THEN data.secret ELSE entered]]]
      BY <1>8 DEF Submit
    <2>3. dest \in Destinations /\ (f = "reauth" => dest = data.dest)
      BY <1>1, <2>2 DEF FormDestinations, Data
    <2>4. flow'[f].data \in Data /\ flow'[f].data.dest = dest
      BY <1>1, <2>2, <2>3 DEF Data
    <2>5. \A g \in Flows \ {f} : flow'[g] = flow[g]
      BY <1>1, <2>2
    <2> QED
      BY <1>1, <1>8, <2>1, <2>3, <2>4, <2>5
  <1>9. ASSUME NEW f \in Flows, ProbeSucceeds(f)
        PROVE  Identity'
    <2>1. /\ flow[f].step = "probe" /\ flow[f].data \in Data /\ others' = others
      BY <1>9 DEF ProbeSucceeds
    \* What a stored connection does to the other flow.
    <2>2. ASSUME NEW id, Store(f, id)
          PROVE  /\ ProbeHasData' /\ ReauthAgrees'
                 /\ data' = flow[f].data /\ uid' = id
                 /\ overtaken' = (f = "reauth" /\ (flow[f].stale \/ overtaken))
      <3>1. /\ flow'[f] = Closed /\ Closed.step = "closed"
            /\ \A g \in Flows \ {f} :
                  flow'[g].step = "probe" =>
                      flow[g].step = "probe" /\ flow'[g] = [flow[g] EXCEPT !.stale = TRUE]
        BY <1>1, <2>2 DEF Store, Closed
      <3>2. \A g \in Flows \ {f} :
               flow'[g].step = "probe" => flow'[g].stale /\ flow'[g].data = flow[g].data
        <4>1. \A g \in Flows : [flow[g] EXCEPT !.stale = TRUE].stale
                                 /\ [flow[g] EXCEPT !.stale = TRUE].data = flow[g].data
          BY <1>1 DEF FlowState
        <4> QED
          BY <3>1, <4>1
      <3> QED
        BY <1>1, <2>2, <3>1, <3>2 DEF Store
    <2>3. CASE f = "reauth" /\ Store(f, KeptId)
      BY <2>1, <2>2, <2>3 DEF KeptId
    <2>4. CASE f = "reconfigure" /\ flow[f].data.dest = uid /\ Store(f, KeptId)
      BY <2>1, <2>2, <2>4 DEF KeptId
    <2>5. CASE f = "reconfigure" /\ ~Claimed(flow[f].data.dest)
                 /\ Store(f, flow[f].data.dest)
      BY <2>1, <2>2, <2>5 DEF Claimed
    <2>6. CASE flow' = [flow EXCEPT ![f] = Closed] /\ UNCHANGED <<data, uid, overtaken>>
      <3>1. \A g \in Flows : flow'[g].step = "probe" => flow'[g] = flow[g]
        BY <1>1, <2>6 DEF Closed
      <3> QED
        BY <1>3, <2>1, <2>6, <3>1
    <2> QED
      BY <1>9, <2>3, <2>4, <2>5, <2>6 DEF ProbeSucceeds
  <1>10. CASE OthersChange
    BY <1>10 DEF OthersChange, history
  <1>11. CASE SetUp \/ StartRaises \/ StartTimesOut \/ RegisterFails \/ CleanedUp
              \/ PlatformsForwarded
    BY <1>2, <1>11 DEF SetUp, StartRaises, StartTimesOut, RegisterFails, CleanedUp,
       PlatformsForwarded, stored, history
  <1>12. CASE ForwardFails \/ ForwardRefused \/ ForwardUndone \/ Reload \/ Unloaded
    BY <1>2, <1>12 DEF ForwardFails, ForwardRefused, ForwardUndone, Reload, Unloaded, stored,
       history
  <1>13. CASE UserReloads \/ SaveFilters \/ SaveAdvanced \/ Rotate
    BY <1>2, <1>13 DEF UserReloads, SaveFilters, SaveAdvanced, OptionsSaved, Rotate, stored,
       history
  <1>14. CASE \E g \in Slots : ServiceStep(g) \/ PauseHides(g) \/ ServiceFails(g)
    BY <1>2, <1>14 DEF ServiceStep, ServiceOpens, GateAnswers, SendRejected, ServiceStops,
       PauseHides, ServiceFails, stored, history
  <1>15. CASE UNCHANGED vars
    BY <1>2, <1>15 DEF vars, stored, history
  <1> QED
    BY <1>4, <1>5, <1>6, <1>7, <1>8, <1>9, <1>10, <1>11, <1>12, <1>13, <1>14, <1>15
       DEF Next, ManagerStep, FlowStep

-----------------------------------------------------------------------------
(* The invariant, and what follows from it.                                *)

\* A Home Assistant without the integration satisfies the invariant.
LEMMA EntryInvInit == Init => EntryInv
  <1> SUFFICES ASSUME Init PROVE EntryInv
    OBVIOUS
  <1>1. EntryTypeOK
    BY TypesInit
  <1>2. CurrentAttached /\ StopAnnounced
    BY DEF Init, CurrentAttached, StopAnnounced, Detached
  <1>3. OneOwner
    BY ServiceForms DEF Init, OneOwner, Alive, Up
  <1>4. MonitorAttached /\ IssueHasRuntime
    BY DEF Init, MonitorAttached, IssueHasRuntime
  <1>5. SetupUpToDate /\ LoadedIsWatched /\ MissedOnlyInSetup
    BY DEF Init, SetupUpToDate, LoadedIsWatched, MissedOnlyInSetup, InSetUp
  <1>6. ProbeHasData /\ ReauthAgrees
    BY DEF Init, ProbeHasData, ReauthAgrees, Closed, Flows
  <1>7. MovedOnlyByOvertaking /\ UniqueIds
    BY DEF Init, MovedOnlyByOvertaking, UniqueIds
  <1> QED
    BY <1>1, <1>2, <1>3, <1>4, <1>5, <1>6, <1>7 DEF EntryInv

\* Every step of the entry manager, the flows, the runtimes and their threads
\* keeps the invariant.
LEMMA EntryInvStep == EntryInv /\ [Next]_vars => EntryInv'
  <1> SUFFICES ASSUME EntryInv, [Next]_vars PROVE EntryInv'
    OBVIOUS
  <1>1. EntryTypeOK /\ CurrentAttached /\ ProbeHasData
    BY DEF EntryInv
  <1>2. EntryTypeOK'
    <2>1. CASE UNCHANGED vars
      BY <1>1, <2>1, TypesGrouped, TypesFramed DEF vars
    <2>2. CASE Next
      BY <1>1, <2>2, ServiceTypes, SetupTypes, FlowStepTypes DEF Next, ManagerStep
    <2> QED
      BY <2>1, <2>2
  <1>3. Ownership' /\ Reporting' /\ UpToDate' /\ Identity'
    BY <1>1, OwnershipStep, ReportingStep, UpToDateStep, IdentityStep
       DEF EntryInv, Ownership, Reporting, UpToDate, Identity
  <1> QED
    BY <1>2, <1>3 DEF EntryInv, Ownership, Reporting, UpToDate, Identity

\* The invariant holds of every reachable state.
LEMMA EntryInvariant == Spec => []EntryInv
  BY EntryInvInit, EntryInvStep, PTL DEF Spec

\* Entry, runtimes, flows and report keep their types.
THEOREM EntryTypeCorrect == Spec => []EntryTypeOK
  <1>1. EntryInv => EntryTypeOK
    BY DEF EntryInv
  <1> QED
    BY <1>1, EntryInvariant, PTL

\* A spool file has one owner: any thread besides that of the current runtime
\* was told to stop by a failed setup that gave up waiting (async_setup_entry
\* and async_start log it and go on).
THEOREM SpoolHasOneOwner == Spec => []OneOwner
  <1>1. EntryInv => OneOwner
    BY DEF EntryInv
  <1> QED
    BY <1>1, EntryInvariant, PTL

\* At most one listener hands a state change to a service that takes it,
\* whatever setups failed and whatever listener could not be removed:
\* submit() refuses where the service was told to stop.
THEOREM StateRecordedOnce == Spec => []RecordedOnce
  <1>1. EntryInv => RecordedOnce
    <2> SUFFICES ASSUME EntryInv PROVE RecordedOnce
      OBVIOUS
    <2>1. \A g \in Slots : Alive(g) /\ g # cur => worker[g].stop
      BY DEF EntryInv, OneOwner
    <2>2. Recorders \subseteq {cur}
      BY <2>1 DEF Recorders, Accepting, Alive
    <2>3. IsFiniteSet({cur}) /\ Cardinality({cur}) = 1
      BY FS_Singleton
    <2>4. Cardinality(Recorders) <= Cardinality({cur})
      BY <2>2, <2>3, FS_Subset
    <2> QED
      BY <2>3, <2>4 DEF RecordedOnce
  <1> QED
    BY <1>1, EntryInvariant, PTL

\* The credentials issue ends with its runtime: whoever stops one that has
\* looked at the credentials deletes the issue, after the monitor is cancelled.
THEOREM IssueEndsWithRuntime == Spec => []IssueHasRuntime
  <1>1. EntryInv => IssueHasRuntime
    BY DEF EntryInv
  <1> QED
    BY <1>1, EntryInvariant, PTL

\* There is no other way to the trace that violates OptionsReload: options that
\* a loaded entry does not follow were saved between the construction of the
\* runtime and the registration of the update listener.
THEOREM OptionsMissedOnlyInSetup == Spec => []MissedOnlyInSetup
  <1>1. EntryInv => MissedOnlyInSetup
    BY DEF EntryInv
  <1> QED
    BY <1>1, EntryInvariant, PTL

\* There is no other way to the trace that violates RepairMovesNothing: the
\* unique id and the destination part only in a reauthentication that another
\* flow overtook at its probe, through any sequence of flows.
THEOREM IdentityLostOnlyByOvertaking == Spec => []MovedOnlyByOvertaking
  <1>1. EntryInv => MovedOnlyByOvertaking
    BY DEF EntryInv
  <1> QED
    BY <1>1, EntryInvariant, PTL

\* No other entry has the unique id of this one: _async_connection_step looks
\* at them after the probe, with no await before it stores.
THEOREM EntryIdsDistinct == Spec => []UniqueIds
  <1>1. EntryInv => UniqueIds
    BY DEF EntryInv
  <1> QED
    BY <1>1, EntryInvariant, PTL

=============================================================================
