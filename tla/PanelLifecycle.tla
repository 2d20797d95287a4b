--------------------------- MODULE PanelLifecycle ---------------------------
(***************************************************************************)
(* One run of the panel's process: its start, its reload on SIGHUP and its *)
(* end on SIGTERM (main.go), the server each of them starts or stops       *)
(* (web/web.go), the delayed signal of the restart button                  *)
(* (web/service/panel.go), and the requests and jobs that go on meanwhile. *)
(*                                                                         *)
(* A server is replaced, Xray and its flags are not: they are variables of *)
(* a package.  Nor does Stop wait for requests and jobs: the context it    *)
(* gives to Shutdown is cancelled.  Versions number the settings a server  *)
(* reads when it starts.  A restart of Xray is one step, for the mutex     *)
(* makes it one for all but the jobs; XraySupervisor has it in detail.     *)
(***************************************************************************)
EXTENDS Naturals

CONSTANTS
    Handlers,      \* concurrent requests
    MaxOps,        \* bound: requests
    MaxFaults      \* bound: failing starts and restarts, exits of Xray

ASSUME LifecycleAssumption == MaxOps \in Nat /\ MaxFaults \in Nat

VARIABLES
    main,          \* where the main goroutine is
    next,          \* what it does after Stop
    buffer,        \* sigCh, a channel of one signal
    notified,      \* signal.Notify was called
    timers,        \* goroutines of RestartPanel that sleep
    asked,         \* the service manager has sent SIGTERM
    saved,         \* version of the settings in the database
    read,          \* the version when the current server began to read them
    accepting,     \* the server accepts requests
    cron,          \* its cron ticks ...
    apply,         \* ... and has the function that restarts Xray ...
    monitor,       \* ... and CheckXrayRunningJob
    running, manual, need,  \* Xray: process, isManuallyStopped, isNeedXrayRestart
    pc,            \* the handlers
    applying, sampled,      \* the runs of the two jobs
    wanted,        \* history: the version saved when a restart was last requested
    byAdmin,       \* history: an administrator's stop is in force
    overtaken,     \* history: a request restarted Xray after Stop had stopped it
    lost,          \* history: SIGTERM found another signal in the buffer
    ops, faults    \* counters for the bounds

signals  == <<buffer, notified, timers, asked, lost>>
settings == <<saved, read, wanted>>
server   == <<accepting, cron, apply, monitor>>
xray     == <<running, manual, need, byAdmin, overtaken>>
jobs     == <<applying, sampled>>
vars     == <<main, next, signals, settings, server, xray, pc, jobs, ops, faults>>

TypeOK ==
    /\ main \in {"start", "router", "listen", "task", "serve", "notify", "wait",
                 "stopXray", "shutdown", "exited"}
    /\ next \in {"start", "exit"}
    /\ buffer \in {"none", "HUP", "TERM"}
    /\ notified \in BOOLEAN /\ asked \in BOOLEAN /\ lost \in BOOLEAN
    /\ timers \in 0..MaxOps
    /\ saved \in 0..MaxOps /\ read \in 0..saved /\ wanted \in 0..saved
    /\ accepting \in BOOLEAN /\ cron \in BOOLEAN /\ apply \in BOOLEAN
    /\ monitor \in BOOLEAN
    /\ running \in BOOLEAN /\ manual \in BOOLEAN /\ need \in BOOLEAN
    /\ pc \in [Handlers -> {"idle", "save", "restartPanel", "restartXray", "stopXray"}]
    /\ applying \in BOOLEAN /\ sampled \in BOOLEAN
    /\ byAdmin \in BOOLEAN /\ overtaken \in BOOLEAN
    /\ ops \in 0..MaxOps /\ faults \in 0..MaxFaults

Init ==
    /\ main = "start" /\ next = "start"
    /\ buffer = "none" /\ notified = FALSE /\ timers = 0
    /\ asked = FALSE /\ lost = FALSE
    /\ saved = 0 /\ read = 0 /\ wanted = 0
    /\ accepting = FALSE /\ cron = FALSE /\ apply = FALSE /\ monitor = FALSE
    /\ running = FALSE /\ manual = FALSE /\ need = FALSE
    /\ pc = [h \in Handlers |-> "idle"]
    /\ applying = FALSE /\ sampled = FALSE
    /\ byAdmin = FALSE /\ overtaken = FALSE
    /\ ops = 0 /\ faults = 0

-----------------------------------------------------------------------------
(* Helpers *)

Alive == main # "exited"

Fault == faults < MaxFaults /\ faults' = faults + 1

\* Between StopXray and the next start of Xray no server wants it to run.
Down == {"start", "router", "listen", "task", "shutdown", "exited"}

\* RestartXray past the check of isManuallyStopped: Xray runs afterwards, or
\* the restart fails, before or after it has killed the old one.
Restart ==
    /\ manual' = FALSE /\ byAdmin' = FALSE
    /\ \/ running' = TRUE /\ UNCHANGED faults
       \/ Fault /\ running' \in {running, FALSE}

-----------------------------------------------------------------------------
(* Server.Start *)

\* Settings are read from here on; the cron begins to tick, with no jobs.
StartCron ==
    /\ main = "start"
    /\ read' = saved /\ cron' = TRUE
    /\ main' = "router"
    /\ UNCHANGED <<next, signals, saved, wanted, accepting, apply, monitor, xray,
                   pc, jobs, ops, faults>>

\* Mutant of InitRouter: the global server is still the one before.
InitRouterEarly ==
    /\ main = "router"
    /\ main' = "listen"
    /\ UNCHANGED <<next, signals, settings, server, xray, pc, jobs, ops, faults>>

\* The controllers add their functions to the cron of the global server.
InitRouter ==
    /\ main = "router"
    /\ apply' = TRUE
    /\ main' = "listen"
    /\ UNCHANGED <<next, signals, settings, accepting, cron, monitor, xray, pc,
                   jobs, ops, faults>>

Listen ==
    /\ main = "listen"
    /\ main' = "task"
    /\ UNCHANGED <<next, signals, settings, server, xray, pc, jobs, ops, faults>>

\* A setting cannot be read, the certificate not be loaded, the port is taken:
\* the deferred Stop, and the process ends.
StartFails ==
    /\ main \in {"start", "router", "listen"}
    /\ Fault
    /\ main' = "stopXray" /\ next' = "exit"
    /\ UNCHANGED <<signals, settings, server, xray, pc, jobs, ops>>

\* Mutant of StartTask: the restart is not forced, as a job's.
StartTaskUnforced ==
    /\ main = "task"
    /\ IF manual THEN UNCHANGED <<running, manual, byAdmin, faults>> ELSE Restart
    /\ overtaken' = FALSE /\ monitor' = TRUE
    /\ main' = "serve"
    /\ UNCHANGED <<next, signals, settings, accepting, cron, apply, need, pc,
                   jobs, ops>>

\* startTask: RestartXray(true), then the jobs.
StartTask ==
    /\ main = "task"
    /\ Restart /\ overtaken' = FALSE
    /\ monitor' = TRUE
    /\ main' = "serve"
    /\ UNCHANGED <<next, signals, settings, accepting, cron, apply, need, pc,
                   jobs, ops>>

\* Mutant of Serve: every server has its own channel.
ServeNewChannel ==
    /\ main = "serve"
    /\ accepting' = TRUE /\ buffer' = "none"
    /\ main' = IF notified THEN "wait" ELSE "notify"
    /\ UNCHANGED <<next, notified, timers, asked, lost, settings, cron, apply, monitor,
                   xray, pc, jobs, ops, faults>>

Serve ==
    /\ main = "serve"
    /\ accepting' = TRUE
    /\ main' = IF notified THEN "wait" ELSE "notify"
    /\ UNCHANGED <<next, signals, settings, cron, apply, monitor, xray, pc, jobs,
                   ops, faults>>

-----------------------------------------------------------------------------
(* The loop of runWebServer *)

Notify ==
    /\ main = "notify"
    /\ notified' = TRUE
    /\ main' = "wait"
    /\ UNCHANGED <<next, buffer, timers, asked, lost, settings, server, xray, pc,
                   jobs, ops, faults>>

TakeSignal ==
    /\ main = "wait" /\ buffer # "none"
    /\ next' = IF buffer = "HUP" THEN "start" ELSE "exit"
    /\ buffer' = "none"
    /\ main' = "stopXray"
    /\ UNCHANGED <<notified, timers, asked, lost, settings, server, xray, pc,
                   jobs, ops, faults>>

\* Mutant of StopXray: Stop kills the process and sets no flag.
KillXray ==
    /\ main = "stopXray"
    /\ running' = FALSE /\ byAdmin' = FALSE
    /\ overtaken' = FALSE
    /\ main' = "shutdown"
    /\ UNCHANGED <<next, signals, settings, server, manual, need, pc, jobs, ops, faults>>

\* Server.Stop: StopXray.
StopXray ==
    /\ main = "stopXray"
    /\ running' = FALSE /\ manual' = TRUE /\ byAdmin' = FALSE
    /\ overtaken' = FALSE
    /\ main' = "shutdown"
    /\ UNCHANGED <<next, signals, settings, server, need, pc, jobs, ops, faults>>

\* Server.Stop: cron.Stop, Shutdown and Close.  Runs of jobs and requests go
\* on; if the process ends, all end with it, but Xray.
Shutdown ==
    /\ main = "shutdown"
    /\ cron' = FALSE /\ apply' = FALSE /\ monitor' = FALSE
    /\ accepting' = FALSE
    /\ main' = IF next = "start" THEN "start" ELSE "exited"
    /\ UNCHANGED <<next, signals, settings, xray, pc, jobs, ops, faults>>

-----------------------------------------------------------------------------
(* Signals *)

\* Mutant of Deliver: the channel has no buffer.
DeliverUnbuffered(sig) ==
    /\ IF ~notified THEN main' = "exited" /\ UNCHANGED buffer
       ELSE /\ buffer' = IF main = "wait" /\ buffer = "none" THEN sig ELSE buffer
            /\ UNCHANGED main
    /\ lost' = (lost \/ (sig = "TERM" /\ buffer # "none"))

\* Before Notify a signal ends the process at once.  Later it is put into the
\* channel, or dropped if there is one already.
Deliver(sig) ==
    /\ IF ~notified THEN main' = "exited" /\ UNCHANGED buffer
       ELSE /\ buffer' = IF buffer = "none" THEN sig ELSE buffer
            /\ UNCHANGED main
    /\ lost' = (lost \/ (sig = "TERM" /\ buffer # "none"))

\* Three seconds after the request.
TimerFires ==
    /\ Alive /\ timers > 0
    /\ timers' = timers - 1
    /\ Deliver("HUP")
    /\ UNCHANGED <<next, notified, asked, settings, server, xray, pc, jobs, ops, faults>>

\* The service manager stops the panel.
Terminate ==
    /\ Alive /\ ~asked
    /\ asked' = TRUE
    /\ Deliver("TERM")
    /\ UNCHANGED <<next, notified, timers, settings, server, xray, pc, jobs, ops, faults>>

-----------------------------------------------------------------------------
(* Requests, which outlive the server that accepted them *)

Submit(h) ==
    /\ accepting /\ Alive /\ pc[h] = "idle" /\ ops < MaxOps
    /\ ops' = ops + 1
    /\ \E op \in {"save", "restartPanel", "restartXray", "stopXray"} :
          pc' = [pc EXCEPT ![h] = op]
    /\ UNCHANGED <<main, next, signals, settings, server, xray, jobs, faults>>

Finish(h, op) ==
    /\ Alive /\ pc[h] = op
    /\ pc' = [pc EXCEPT ![h] = "idle"]

\* updateSetting: the port, the base path, the certificate ...
UpdateSetting(h) ==
    /\ Finish(h, "save")
    /\ saved' = saved + 1
    /\ UNCHANGED <<main, next, signals, read, wanted, server, xray, jobs, ops, faults>>

RestartPanel(h) ==
    /\ Finish(h, "restartPanel")
    /\ timers' = timers + 1
    /\ wanted' = saved
    /\ UNCHANGED <<main, next, buffer, notified, asked, lost, saved, read, server,
                   xray, jobs, ops, faults>>

\* RestartXray(true): the button, the end of an upgrade or of an import.
RestartXrayService(h) ==
    /\ Finish(h, "restartXray")
    /\ Restart
    /\ overtaken' = (overtaken \/ main \in Down)
    /\ UNCHANGED <<main, next, signals, settings, server, need, jobs, ops>>

StopXrayService(h) ==
    /\ Finish(h, "stopXray")
    /\ running' = FALSE /\ manual' = TRUE /\ byAdmin' = TRUE
    /\ UNCHANGED <<main, next, signals, settings, server, need, overtaken, jobs,
                   ops, faults>>

-----------------------------------------------------------------------------
(* Jobs, whose runs outlive the cron that began them *)

\* The job that applies the flag, one run at a time: XraySupervisor has the
\* runs that cron starts while another still works.
ApplyTick ==
    /\ Alive /\ cron /\ apply /\ ~applying
    /\ need
    /\ need' = FALSE /\ applying' = TRUE
    /\ UNCHANGED <<main, next, signals, settings, server, running, manual, byAdmin,
                   overtaken, pc, sampled, ops, faults>>

\* RestartXray(false)
ApplyRestart ==
    /\ Alive /\ applying
    /\ applying' = FALSE
    /\ IF manual THEN UNCHANGED <<running, manual, byAdmin, faults>> ELSE Restart
    /\ UNCHANGED <<main, next, signals, settings, server, need, overtaken, pc,
                   sampled, ops>>

\* CheckXrayRunningJob: IsXrayRunning, then isManuallyStopped.  That it counts
\* to two is in XraySupervisor.
SampleRunning ==
    /\ Alive /\ cron /\ monitor /\ ~sampled
    /\ ~running
    /\ sampled' = TRUE
    /\ UNCHANGED <<main, next, signals, settings, server, xray, pc, applying, ops, faults>>

SampleManual ==
    /\ Alive /\ sampled
    /\ sampled' = FALSE
    /\ need' = (need \/ ~manual)
    /\ UNCHANGED <<main, next, signals, settings, server, running, manual, byAdmin,
                   overtaken, pc, applying, ops, faults>>

XrayExits ==
    /\ running /\ Fault
    /\ running' = FALSE
    /\ UNCHANGED <<main, next, signals, settings, server, manual, need, byAdmin,
                   overtaken, pc, jobs, ops>>

-----------------------------------------------------------------------------
Main ==
    \/ StartCron \/ InitRouter \/ Listen \/ StartTask \/ Serve
    \/ Notify \/ TakeSignal \/ StopXray \/ Shutdown

Handle(h) ==
    UpdateSetting(h) \/ RestartPanel(h) \/ RestartXrayService(h) \/ StopXrayService(h)

Next ==
    \/ Main \/ StartFails
    \/ TimerFires \/ Terminate
    \/ \E h \in Handlers : Submit(h) \/ Handle(h)
    \/ ApplyTick \/ ApplyRestart \/ SampleRunning \/ SampleManual
    \/ XrayExits

Spec == Init /\ [][Next]_vars

\* Goroutines that can run do, cron ticks and time passes.  Nobody has to send a
\* request or a signal.
FairSpec ==
    /\ Spec
    /\ WF_vars(Main) /\ WF_vars(TimerFires)
    /\ \A h \in Handlers : WF_vars(Handle(h))
    /\ WF_vars(ApplyTick) /\ WF_vars(ApplyRestart)
    /\ WF_vars(SampleRunning) /\ WF_vars(SampleManual)

-----------------------------------------------------------------------------
(* What the lifecycle promises *)

\* web.go:380: once Stop has stopped Xray, no run of a job that is still under
\* way and no tick of the cron starts it again, until the next server does;
\* when the panel exits, none is left.  The exceptions are a forced restart that
\* waited for the mutex, and a signal before Notify, which ends the panel
\* without Stop.
NothingLeft ==
    main \in Down => ~running \/ overtaken \/ (main = "exited" /\ ~notified)

\* main.go:59, panel.go:17: a signal the channel drops takes nothing with it.
\* While the server does not serve the settings a restart was requested for, a
\* timer runs, a signal is in the channel or the server is on its way down; and
\* once SIGTERM was sent and not dropped itself, it is in the channel, however
\* many restarts come before it, or the panel is about to exit.
RestartOwed ==
    wanted > read =>
        timers > 0 \/ buffer # "none" \/ main \in {"stopXray", "shutdown", "start", "exited"}

TerminationOwed ==
    asked =>
        \/ lost \/ buffer = "TERM" \/ main = "exited"
        \/ main \in {"stopXray", "shutdown"} /\ next = "exit"

NothingDropped == RestartOwed /\ TerminationOwed

\* web.go:266: whenever the panel waits for signals and Xray does not run, either
\* an administrator has stopped it or everything that brings it back is in place:
\* the flag Stop has set is gone, whichever requests and jobs outlived the reload,
\* and the cron of this server runs the monitor and the function that restarts.
RecoveryArmed ==
    main = "wait" /\ ~running => byAdmin \/ (~manual /\ cron /\ apply /\ monitor)

\* panel.go:13: a restart of the panel requested after settings were saved makes
\* a server serve these or later ones, however many requests, saves and signals
\* overlap and although a signal may be dropped, unless the panel exits.
RestartTakesEffect ==
    \A v \in 1..MaxOps :
        wanted >= v ~> (main = "wait" /\ read >= v) \/ main = "exited"

\* main.go:79: SIGTERM ends the panel, also in the middle of a reload; the
\* exception is that SIGHUP was in the channel, and SIGTERM was dropped.
TerminationHeeded == asked ~> main = "exited" \/ lost

\* web.go:266: Xray follows the panel: however reloads, failing restarts and
\* crashes of Xray meet, in the end it runs beside a panel that waits for
\* signals, or an administrator has stopped it.
XrayFollows ==
    <>[](main = "wait" => running \/ byAdmin)
=============================================================================
