------------------------------- MODULE Entry --------------------------------
(***************************************************************************)
(* One config entry: its stored connection and options, the flows that     *)
(* edit them, its setup and unloading, the runtimes these make, and the    *)
(* monitor that reports rejected credentials (runtime.py, __init__.py,     *)
(* config_flow.py).                                                        *)
(*                                                                         *)
(* Everything here runs on Home Assistant's loop, from one await to the    *)
(* next without interruption.  The awaits are the start and the stop of a  *)
(* writer service in an executor thread, the forwarding to the sensor      *)
(* platform, and the probe of a flow.  The service is reduced to where its *)
(* thread is and to what its snapshot shows; the module Worker has the     *)
(* rest.  Calls of setup, unload and reload come from Home Assistant's     *)
(* entry manager, one at a time for an entry.                              *)
(***************************************************************************)
EXTENDS Naturals, FiniteSets

CONSTANTS
    Destinations,   \* scheme, host, port and table, which the unique id is made of
    Secrets,        \* credentials; None where the server asks for none
    Filters,        \* what the filter step of the options flow stores
    Tunings,        \* what its advanced step stores
    Unrunnable,     \* tunings that pass its checks and a constructor refuses
    Slots,          \* bound: runtimes with a thread or a listener left, at a time
    Breakage,       \* failures that may occur
    MaxFaults,      \* bound: such failures in a behaviour
    MaxRotations,   \* bound: changes of the credentials a server takes
    MaxActs         \* bound: what users do

None == "none"

BreakageKinds == {"open", "slow_start", "slow_stop", "register", "unsubscribe", "forward",
                  "platforms", "fail", "pause", "probe", "kill"}

ASSUME EntryAssumption ==
    /\ Destinations # {} /\ Filters # {} /\ None \in Secrets
    /\ Unrunnable \subseteq Tunings /\ Unrunnable # Tunings
    /\ 0 \notin Slots
    /\ Breakage \subseteq BreakageKinds
    /\ {MaxFaults, MaxRotations, MaxActs} \subseteq Nat

VARIABLES
    data, uid, options,                \* the stored entry
    others,                            \* unique ids of the other entries
    phase, cur, reload, platforms, watched,    \* the entry manager
    worker, built,                     \* the runtimes, and what the current one was made of
    monitor, asked, issue,             \* the report of rejected credentials
    flow,                              \* reauthentication and reconfiguration
    secret, faults, rotations, acts,   \* the environment
    inherited, abandoned, missed, overtaken    \* history

stored   == <<data, uid, options, others>>
manager  == <<phase, cur, reload, platforms, watched>>
runtimes == <<worker, built>>
report   == <<monitor, asked, issue>>
world    == <<secret, faults, rotations, acts>>
calm     == <<secret, rotations, acts>>
history  == <<inherited, abandoned, missed, overtaken>>

vars == <<stored, manager, runtimes, report, flow, world, history>>

\* The part of the entry data that the properties tell apart.
Data == [dest : Destinations, secret : Secrets]

Options == [filter : Filters, tuning : Tunings]

Flows == {"reauth", "reconfigure"}

NoData == [dest |-> None, secret |-> None]

NoOptions == [filter |-> None, tuning |-> None]

Closed == [step |-> "closed", data |-> NoData, stale |-> FALSE]

Off == [thread |-> "off", shows |-> "other", stop |-> FALSE, listening |-> FALSE]

Unbuilt == [data |-> NoData, options |-> NoOptions]

\* The server takes any request where it asks for no credentials.
Accepts(d) == secret[d.dest] \in {None, d.secret}

Fault(kind) == kind \in Breakage /\ faults < MaxFaults /\ faults' = faults + 1

Act == acts < MaxActs /\ acts' = acts + 1

Up(g) == worker[g].thread \in {"gate", "rejected", "delivering", "refused"}

Alive(g) == Up(g) \/ worker[g].thread = "opening"

\* submit() takes events while the service is up and was not told to stop.
Accepting(g) == Up(g) /\ ~worker[g].stop

-----------------------------------------------------------------------------
(* The writer service, as far as the runtime sees it.                      *)

\* _run opens the resources; a factory may raise, which fails the start.
ServiceOpens(g) ==
    /\ worker[g].thread = "opening"
    /\ \/ worker' = [worker EXCEPT ![g].thread = "gate"] /\ UNCHANGED faults
       \/ Fault("open") /\ worker' = [worker EXCEPT ![g].thread = "dead"]
    /\ UNCHANGED <<stored, built, manager, report, flow, calm, history>>

\* _ensure_schema: rejected credentials block the service with no reason
\* given, and the check is repeated.  Only the current runtime was not told to
\* stop.
GateAnswers(g) ==
    /\ worker[g].thread \in {"gate", "rejected"} /\ ~worker[g].stop /\ g = cur
    /\ worker' = [worker EXCEPT ![g].thread =
                     IF Accepts(built.data) THEN "delivering" ELSE "rejected"]
    /\ UNCHANGED <<stored, built, manager, report, flow, world, history>>

\* _deliver_once: rejected credentials end delivery and are shown as "auth".
SendRejected(g) ==
    /\ worker[g].thread = "delivering" /\ ~worker[g].stop /\ g = cur /\ ~Accepts(built.data)
    /\ worker' = [worker EXCEPT ![g].thread = "refused", ![g].shows = "auth"]
    /\ UNCHANGED <<stored, built, manager, report, flow, world, history>>

\* A storage pause of the persist task replaces the reason that is shown.
PauseHides(g) ==
    /\ worker[g].shows = "auth" /\ Fault("pause")
    /\ worker' = [worker EXCEPT ![g].shows = "other"]
    /\ UNCHANGED <<stored, built, manager, report, flow, calm, history>>

\* The thread of a runtime that nobody waits for any more leaves nothing
\* behind but a listener that could not be removed.
Ended(g) ==
    IF g = cur \/ worker[g].listening
      THEN [worker[g] EXCEPT !.thread = "dead", !.shows = "other"] ELSE Off

ServiceStops(g) ==
    /\ Up(g) /\ worker[g].stop
    /\ worker' = [worker EXCEPT ![g] = Ended(g)]
    /\ abandoned' = abandoned \ {g}
    /\ UNCHANGED <<stored, built, manager, report, flow, world, inherited, missed,
                   overtaken>>

ServiceFails(g) ==
    /\ Up(g) /\ Fault("fail")
    /\ worker' = [worker EXCEPT ![g] = Ended(g)]
    /\ abandoned' = abandoned \ {g}
    /\ UNCHANGED <<stored, built, manager, report, flow, calm, inherited, missed,
                   overtaken>>

-----------------------------------------------------------------------------
(* The runtime.                                                            *)

\* entry.async_start_reauth: skipped while a flow for the entry is running.
ReauthStarted ==
    IF \E f \in Flows : flow[f].step # "closed"
      THEN flow ELSE [flow EXCEPT !["reauth"].step = "form"]

\* Wrong variant: the issue is raised with the request alone.
SyncAuthIssue_OnRequest(g) ==
    LET rejected == worker[g].shows = "auth"
    IN  /\ issue' = (rejected /\ ~asked)
        /\ asked' = rejected
        /\ flow' = IF rejected /\ ~asked THEN ReauthStarted ELSE flow
        /\ inherited' = FALSE

\* _sync_auth_issue with _request_reauth_once
SyncAuthIssue(g) ==
    LET rejected == worker[g].shows = "auth"
    IN  /\ issue' = rejected
        /\ asked' = rejected
        /\ flow' = IF rejected /\ ~asked THEN ReauthStarted ELSE flow
        /\ inherited' = FALSE

\* stop() of the service, after the listener was removed or not
ToldToStop(g, unsubscribed) ==
    [worker EXCEPT ![g].stop = TRUE, ![g].shows = "other",
                   ![g].listening = @ /\ ~unsubscribed]

\* async_stop() up to the executor job that joins the thread; the monitor is
\* cancelled first.
BeginStop(unsubscribed) ==
    /\ monitor' = FALSE
    /\ worker' = ToldToStop(cur, unsubscribed)

\* Wrong variant: the next start is left to look at it.
IssueDeleted_Not == UNCHANGED <<issue, inherited>>

\* the end of async_stop(), whatever the join answered
IssueDeleted == issue' = FALSE /\ inherited' = FALSE

\* join(): the thread has ended, or the deadline passed first
Joined(joined) ==
    \/ joined /\ ~Alive(cur) /\ UNCHANGED faults
    \/ ~joined /\ Alive(cur) /\ Fault("slow_stop")

\* A runtime that is let go without being unloaded.
Released(g) ==
    IF Alive(g) \/ worker[g].listening THEN worker ELSE [worker EXCEPT ![g] = Off]

LetGo ==
    /\ worker' = Released(cur)
    /\ abandoned' = IF Alive(cur) THEN abandoned \cup {cur} ELSE abandoned
    /\ cur' = 0 /\ built' = Unbuilt

MonitorTick ==
    /\ monitor
    /\ SyncAuthIssue(cur)
    /\ UNCHANGED <<stored, manager, runtimes, monitor, world, abandoned, missed, overtaken>>

\* _async_state_changed: every listener offers the event to its service, which
\* takes it or not.  Removed, excluded, unknown and unconvertible states are
\* not offered.
Recorders == {g \in Slots : worker[g].listening /\ Accepting(g)}

-----------------------------------------------------------------------------
(* Setup: async_setup_entry and HassQuestDbRuntime.async_start.            *)

\* _runtime_configuration: the connection comes from the data, limits, tuning
\* and filters from the options, all as they are at this moment.
Configuration == [data |-> data, options |-> options]

\* A service that start() has been called on, and no listener yet.
NewRuntime == [Off EXCEPT !.thread = "opening"]

\* Called at start-up, by a reload, and by the retry timer.
SetUp ==
    /\ phase \in {"not_loaded", "setup_retry"}
    /\ missed' = FALSE
    /\ \/ /\ options.tuning \in Unrunnable          \* ValueError
          /\ phase' = "setup_error"
          /\ UNCHANGED <<runtimes, cur, asked>>
       \/ /\ options.tuning \notin Unrunnable
          /\ \E g \in Slots : worker[g] = Off
          /\ cur' = CHOOSE g \in Slots : worker[g] = Off
          /\ worker' = [worker EXCEPT ![cur'] = NewRuntime]
          /\ built' = Configuration
          /\ asked' = FALSE
          /\ phase' = "starting"
    /\ UNCHANGED <<stored, reload, platforms, watched, monitor, issue, flow, world,
                   inherited, abandoned, overtaken>>

\* start() came back: register the listener, look at the credentials once,
\* start the monitor.
StartReturns ==
    /\ phase = "starting" /\ Up(cur)
    /\ worker' = [worker EXCEPT ![cur].listening = TRUE]
    /\ SyncAuthIssue(cur)
    /\ monitor' = TRUE
    /\ phase' = "forwarding"
    /\ UNCHANGED <<stored, built, cur, reload, platforms, watched, world, abandoned, missed,
                   overtaken>>

\* WorkerStartError: ConfigEntryNotReady, so Home Assistant tries again.
StartRaises ==
    /\ phase = "starting" /\ ~Alive(cur)
    /\ LetGo
    /\ phase' = "setup_retry"
    /\ UNCHANGED <<stored, reload, platforms, watched, report, flow, world, inherited,
                   missed, overtaken>>

\* WorkerStartTimeoutError, and the stop that follows it.
StartTimesOut ==
    /\ phase = "starting" /\ worker[cur].thread = "opening" /\ Fault("slow_start")
    /\ worker' = ToldToStop(cur, FALSE)
    /\ phase' = "clean_retry"
    /\ UNCHANGED <<stored, built, cur, reload, platforms, watched, report, flow, calm,
                   history>>

\* Registering the listener raises, or what follows it does; only the service
\* is stopped then.
RegisterFails ==
    /\ phase = "starting" /\ Up(cur) /\ Fault("register")
    /\ \E registered \in BOOLEAN :
          worker' = [ToldToStop(cur, FALSE) EXCEPT ![cur].listening = registered]
    /\ phase' = "clean_error"
    /\ UNCHANGED <<stored, built, cur, reload, platforms, watched, report, flow, calm,
                   history>>

\* The end of the except block: a service that did not stop is logged, and
\* the exception goes on.
CleanedUp ==
    /\ phase \in {"clean_retry", "clean_error"}
    /\ \E joined \in BOOLEAN : Joined(joined)
    /\ LetGo
    /\ phase' = IF phase = "clean_retry" THEN "setup_retry" ELSE "setup_error"
    /\ UNCHANGED <<stored, reload, platforms, watched, report, flow, calm, inherited,
                   missed, overtaken>>

PlatformsForwarded ==
    /\ phase = "forwarding" /\ ~platforms
    /\ platforms' = TRUE /\ watched' = TRUE
    /\ phase' = "loaded"
    /\ UNCHANGED <<stored, cur, reload, runtimes, report, flow, world, history>>

\* Wrong variant: only the monitor is stopped.
StopAfterForwardFailed_Monitor(unsubscribed) == monitor' = FALSE /\ UNCHANGED worker

\* runtime.async_stop() in the except block
StopAfterForwardFailed(unsubscribed) == BeginStop(unsubscribed)

\* The sensor platform raises.
ForwardFails ==
    /\ phase = "forwarding" /\ Fault("forward")
    /\ \E unsubscribed \in BOOLEAN :
          /\ unsubscribed \/ "unsubscribe" \in Breakage
          /\ StopAfterForwardFailed(unsubscribed)
    /\ phase' = "undo"
    /\ UNCHANGED <<stored, built, cur, reload, platforms, watched, asked, issue, flow, calm,
                   history>>

\* The sensors of an earlier setup are still there, which Home Assistant
\* refuses.
ForwardRefused ==
    /\ phase = "forwarding" /\ platforms
    /\ StopAfterForwardFailed(TRUE)
    /\ phase' = "undo"
    /\ UNCHANGED <<stored, built, cur, reload, platforms, watched, asked, issue, flow,
                   world, history>>

\* The result of the stop is not looked at; the exception decides whether
\* Home Assistant tries again, which it does not over sensors left behind.
ForwardUndone ==
    /\ phase = "undo"
    /\ \E joined \in BOOLEAN : Joined(joined)
    /\ LetGo
    /\ IssueDeleted
    /\ phase' \in {"setup_error"} \cup (IF platforms THEN {} ELSE {"setup_retry"})
    /\ UNCHANGED <<stored, reload, platforms, watched, monitor, asked, flow, calm, missed,
                   overtaken>>

-----------------------------------------------------------------------------
(* Unloading: async_unload_entry and HassQuestDbRuntime.async_stop.        *)

\* A reload that was asked for begins; an entry that could not be unloaded
\* refuses it until Home Assistant is restarted.
Reload ==
    /\ reload /\ reload' = FALSE
    /\ \/ /\ phase = "loaded"
          /\ \/ BeginStop(TRUE) /\ UNCHANGED faults
             \/ Fault("unsubscribe") /\ BeginStop(FALSE)
          /\ phase' = "unloading"
       \/ /\ phase \in {"setup_retry", "setup_error"}
          /\ phase' = "not_loaded"
          /\ UNCHANGED <<worker, monitor, faults>>
       \/ /\ phase = "failed_unload"
          /\ UNCHANGED <<worker, monitor, phase, faults>>
    /\ UNCHANGED <<stored, built, cur, platforms, watched, asked, issue, flow, calm,
                   history>>

\* Home Assistant runs the on_unload callbacks and drops the runtime.
UnloadedEntry ==
    /\ watched' = FALSE
    /\ worker' = Released(cur) /\ cur' = 0 /\ built' = Unbuilt
    /\ phase' = "not_loaded"

\* The runtime stays attached to an entry that cannot be set up again.
UnloadFailed ==
    /\ phase' = "failed_unload"
    /\ UNCHANGED <<watched, runtimes, cur>>

\* Wrong variant: the listener alone decides.
UnloadOk_Unsubscribed(joined) == ~worker[cur].listening

\* unsubscribed and stopped
UnloadOk(joined) == joined /\ ~worker[cur].listening

\* The sensors go only with a runtime that stopped, and whether they went is
\* not looked at, unless an exception says that they did not.
Unloaded ==
    /\ phase = "unloading"
    /\ IssueDeleted
    /\ \E joined \in BOOLEAN :
          \/ /\ UnloadOk(joined) /\ Joined(joined)
             /\ platforms' = FALSE
             /\ UnloadedEntry
          \/ /\ UnloadOk(joined) /\ joined /\ ~Alive(cur) /\ Fault("platforms")
             /\ UNCHANGED platforms
             /\ UnloadedEntry \/ UnloadFailed
          \/ ~UnloadOk(joined) /\ Joined(joined) /\ UNCHANGED platforms /\ UnloadFailed
    /\ UNCHANGED <<stored, reload, monitor, asked, flow, calm, abandoned, missed,
                   overtaken>>

\* The user asks for a reload.
UserReloads ==
    /\ Act
    /\ phase \in {"loaded", "setup_error"} /\ ~reload
    /\ reload' = TRUE
    /\ UNCHANGED <<stored, phase, cur, platforms, watched, runtimes, report, flow, secret,
                   faults, rotations, history>>

-----------------------------------------------------------------------------
(* The options flow and the connection flows.                              *)

InSetUp == phase \in {"starting", "forwarding"}

\* async_update_options, where it is registered, asks for a reload.
ReloadAfterSave == reload \/ watched

OptionsSaved ==
    /\ Act
    /\ options' # options
    /\ reload' = ReloadAfterSave
    /\ missed' = (missed \/ InSetUp)
    /\ UNCHANGED <<data, uid, others, phase, cur, platforms, watched, runtimes, report,
                   flow, secret, faults, rotations, inherited, abandoned, overtaken>>

\* async_step_init without the advanced step: the other stored values are
\* carried over.  A form that fails a check is shown again.
SaveFilters == \E f \in Filters : options' = [options EXCEPT !.filter = f] /\ OptionsSaved

\* async_step_advanced: the filters of the step before and a full set of
\* tuning values.
SaveAdvanced == options' \in Options /\ OptionsSaved

OpenReconfigure ==
    /\ Act
    /\ flow["reconfigure"].step = "closed"
    /\ flow' = [flow EXCEPT !["reconfigure"].step = "form"]
    /\ UNCHANGED <<stored, manager, runtimes, report, secret, faults, rotations, history>>

Dismiss(f) ==
    /\ flow[f].step = "form"
    /\ flow' = [flow EXCEPT ![f] = Closed]
    /\ UNCHANGED <<stored, manager, runtimes, report, world, history>>

\* Reauthentication takes the destination from the entry.
FormDestinations(f) == IF f = "reauth" THEN {data.dest} ELSE Destinations

\* _async_connection_step up to the probe.  A form without credentials keeps
\* the stored ones.  A form that fails a check is shown again.
Submit(f) ==
    /\ Act
    /\ flow[f].step = "form"
    /\ \E dest \in FormDestinations(f), entered \in Secrets :
          flow' = [flow EXCEPT ![f] =
              [step |-> "probe", stale |-> FALSE,
               data |-> [dest |-> dest,
                         secret |-> IF entered = None THEN data.secret ELSE entered]]]
    /\ UNCHANGED <<stored, manager, runtimes, report, secret, faults, rotations, history>>

ProbeFails(f) ==
    /\ flow[f].step = "probe"
    /\ \/ ~Accepts(flow[f].data) /\ UNCHANGED faults
       \/ Fault("probe")
    /\ flow' = [flow EXCEPT ![f] = [Closed EXCEPT !.step = "form"]]
    /\ UNCHANGED <<stored, manager, runtimes, report, calm, history>>

\* Wrong variant: the new connection waits for somebody to reload the entry.
ReloadAfterStore_Not == reload

\* async_update_reload_and_abort schedules a reload in any state of the entry.
ReloadAfterStore == TRUE

\* Wrong variant: only the entry's own destination is looked at.
Claimed_ByData(d) == d = data.dest

\* Another entry has the destination.
Claimed(d) == d \in others

\* async_update_reload_and_abort, with what the flow made of the entry before
\* its probe.
Store(f, id) ==
    /\ data' = flow[f].data /\ uid' = id
    /\ overtaken' = (f = "reauth" /\ (flow[f].stale \/ overtaken))
    /\ reload' = ReloadAfterStore
    /\ flow' = [g \in Flows |->
          CASE g = f -> Closed
            [] g # f /\ flow[g].step = "probe" -> [flow[g] EXCEPT !.stale = TRUE]
            [] OTHER -> flow[g]]

\* Wrong variant: a unique id that is not given is taken away.
KeptId_None == None

\* A unique id that is not given stays.
KeptId == uid

\* The rest of _async_connection_step after a probe that succeeded.
ProbeSucceeds(f) ==
    /\ flow[f].step = "probe" /\ Accepts(flow[f].data)
    /\ LET dest == flow[f].data.dest
       IN  \/ f = "reauth" /\ Store(f, KeptId)
           \/ f = "reconfigure" /\ dest = uid /\ Store(f, KeptId)
           \/ f = "reconfigure" /\ dest # uid /\ ~Claimed(dest) /\ Store(f, dest)
           \/ /\ f = "reconfigure" /\ dest # uid /\ Claimed(dest)     \* already_configured
              /\ flow' = [flow EXCEPT ![f] = Closed]
              /\ UNCHANGED <<data, uid, reload, overtaken>>
    /\ UNCHANGED <<options, others, phase, cur, platforms, watched, runtimes, report, world,
                   inherited, abandoned, missed>>

\* Another entry is added by a user flow, or removed.
OthersChange ==
    /\ Act
    /\ \/ \E d \in Destinations \ (others \cup {uid}) : others' = others \cup {d}
       \/ \E d \in others : others' = others \ {d}
    /\ UNCHANGED <<data, uid, options, manager, runtimes, report, flow, secret, faults,
                   rotations, history>>

-----------------------------------------------------------------------------
(* The environment.                                                        *)

Rotate ==
    /\ rotations < MaxRotations /\ rotations' = rotations + 1
    /\ \E d \in Destinations :
          \E s \in Secrets \ {secret[d]} : secret' = [secret EXCEPT ![d] = s]
    /\ UNCHANGED <<stored, manager, runtimes, report, flow, faults, acts, history>>

\* Home Assistant is killed and started again: the stored entry and the
\* persistent issue stay.
Restart ==
    /\ Fault("kill")
    /\ phase' = "not_loaded" /\ cur' = 0 /\ reload' = FALSE
    /\ platforms' = FALSE /\ watched' = FALSE
    /\ worker' = [g \in Slots |-> Off] /\ built' = Unbuilt
    /\ monitor' = FALSE /\ asked' = FALSE
    /\ flow' = [f \in Flows |-> Closed]
    /\ inherited' = issue /\ abandoned' = {} /\ missed' = FALSE
    /\ UNCHANGED <<stored, issue, calm, overtaken>>

-----------------------------------------------------------------------------
\* An entry that a user flow has just made, with credentials that work.
Init ==
    /\ secret \in [Destinations -> Secrets]
    /\ data \in {d \in Data : Accepts(d)}
    /\ uid = data.dest
    /\ options \in {o \in Options : o.tuning \notin Unrunnable}
    /\ others = {}
    /\ phase = "not_loaded" /\ cur = 0 /\ reload = FALSE
    /\ platforms = FALSE /\ watched = FALSE
    /\ worker = [g \in Slots |-> Off] /\ built = Unbuilt
    /\ monitor = FALSE /\ asked = FALSE /\ issue = FALSE
    /\ flow = [f \in Flows |-> Closed]
    /\ faults = 0 /\ rotations = 0 /\ acts = 0
    /\ inherited = FALSE /\ abandoned = {} /\ missed = FALSE
    /\ overtaken = FALSE

ServiceStep(g) == ServiceOpens(g) \/ GateAnswers(g) \/ SendRejected(g) \/ ServiceStops(g)

ManagerStep == SetUp \/ StartReturns \/ StartRaises \/ CleanedUp \/ PlatformsForwarded
                 \/ ForwardRefused \/ ForwardUndone \/ Reload \/ Unloaded

FlowStep(f) == Dismiss(f) \/ Submit(f) \/ ProbeFails(f) \/ ProbeSucceeds(f)

Next == \/ ManagerStep \/ MonitorTick
        \/ StartTimesOut \/ RegisterFails \/ ForwardFails
        \/ \E g \in Slots : ServiceStep(g) \/ PauseHides(g) \/ ServiceFails(g)
        \/ UserReloads \/ SaveFilters \/ SaveAdvanced \/ OpenReconfigure
        \/ \E f \in Flows : FlowStep(f)
        \/ OthersChange \/ Rotate \/ Restart

Spec == Init /\ [][Next]_vars

\* Home Assistant's loop goes on, its retry timer and the monitor's sleep
\* come to an end, and a service thread runs.  No user, fault or change of
\* the environment is forced.
Fairness ==
    /\ WF_vars(ManagerStep) /\ WF_vars(MonitorTick)
    /\ \A g \in Slots : WF_vars(ServiceStep(g))

FairSpec == Spec /\ Fairness

-----------------------------------------------------------------------------
(* Properties.                                                             *)

Phases == {"not_loaded", "starting", "clean_retry", "clean_error", "forwarding", "undo",
           "loaded", "unloading", "failed_unload", "setup_retry", "setup_error"}

Service == [thread : {"off", "opening", "gate", "rejected", "delivering", "refused", "dead"},
            shows : {"auth", "other"}, stop : BOOLEAN, listening : BOOLEAN]

\* Type correctness of the entry, its runtimes and its flows.
EntryTypeOK ==
    /\ data \in Data /\ uid \in Destinations /\ options \in Options
    /\ others \subseteq Destinations
    /\ phase \in Phases /\ cur \in Slots \cup {0}
    /\ {reload, platforms, watched, monitor, asked, issue, inherited, missed,
        overtaken} \subseteq BOOLEAN
    /\ worker \in [Slots -> Service]
    /\ built \in [data : Data, options : Options] \cup {Unbuilt}
    /\ flow \in [Flows -> [step : {"closed", "form", "probe"}, data : Data \cup {NoData},
                            stale : BOOLEAN]]
    /\ secret \in [Destinations -> Secrets]
    /\ {faults, rotations, acts} \subseteq Nat
    /\ abandoned \subseteq Slots

\* A state change is recorded once: whatever setups failed, whatever listener
\* could not be removed and whatever thread is still running, at most one
\* service accepts it.
RecordedOnce == Cardinality(Recorders) <= 1

\* Unloading and reloading leave no thread on the spool file.  A thread besides
\* that of the current runtime is one that a failed setup told to stop and gave
\* up waiting for (runtime.py logs it and goes on); OneService, below, is the
\* statement without these.
OneOwner ==
    \A g \in Slots : Alive(g) /\ g # cur => g \in abandoned /\ worker[g].stop

\* The credentials issue does not outlive its runtime: it is deleted wherever
\* one ends after its setup came so far, whatever the join answered and
\* whatever failed.  An issue that a kill of Home Assistant left behind stays
\* until the next start looks again.
IssueHasRuntime ==
    issue /\ ~inherited => phase \in {"forwarding", "undo", "loaded", "unloading"}

\* No two entries claim one destination, though entries are added while
\* flows of this one are at their probe.
UniqueIds == uid \notin others

\* Credentials that QuestDB rejects at a send are reported for as long as the
\* service shows it.
RejectedSendReported ==
    <>[](phase = "loaded" /\ worker[cur].shows = "auth") => <>[]issue

\* What a flow has stored is what a runtime uses in the end, unless the entry
\* needs the user or a restart.
StoredIsUsed ==
    \A d \in Data :
        <>[](data = d /\ phase \notin {"setup_error", "failed_unload"})
            => []<>(phase = "loaded" /\ built.data = d)

-----------------------------------------------------------------------------
(* Statements of the documentation that the code does not keep.            *)

\* docs/decisions/0012: a rejected credential set surfaces as a dialog that
\* asks for the new password; 0010: it is visible as a repair issue.
RejectionSurfaces ==
    <>[](phase = "loaded" /\ worker[cur].thread \in {"rejected", "refused"}) => <>issue

\* docs/decisions/0007: options changes always reload the entry.  So a loaded
\* entry whose runtime was built from other options than the stored ones is
\* about to be reloaded.  In the code the update listener is registered at the
\* end of async_setup_entry, and nobody looks at what was saved before.
OptionsReload == phase = "loaded" /\ built.options # options => reload

\* docs/architecture.md: repairing a password can never move the writer
\* elsewhere.  In the code a reauthentication holds the destination across its
\* probe, and stores it over what a reconfiguration has stored meanwhile.
RepairMovesNothing ==
    [][flow["reauth"].step = "probe" /\ flow'["reauth"].step = "closed"
         => data'.dest = data.dest]_vars

\* docs/architecture.md: a single worker owns the spool, and there is a new
\* runtime only after the previous one has stopped.  In the code a setup that
\* failed with a worker that did not stop in time is logged and tried again.
OneService == Cardinality({g \in Slots : Alive(g)}) <= 1

=============================================================================
