--------------------------- MODULE XraySupervisor ---------------------------
(***************************************************************************)
(* How the panel keeps one Xray process running the configuration that is  *)
(* saved in its database (web/service/xray.go, xray/process.go and their   *)
(* callers: the HTTP controllers and the cron jobs).                       *)
(*                                                                         *)
(* Threads are goroutines: Main (startTask's forced restart at start-up),  *)
(* HTTP handlers, and runs of the cron function that applies a requested   *)
(* restart, which may overlap because cron starts each run in a goroutine  *)
(* of its own.  The operating system forks, ends and reaps the children.   *)
(***************************************************************************)
EXTENDS Naturals

CONSTANTS
    Main,          \* the goroutine that runs Server.startTask
    Handlers,      \* goroutines serving HTTP requests
    ApplyJobs,     \* overlapping runs of the "@every 10s" function
    Templates,     \* values of the xrayTemplateConfig setting
    InboundLists,  \* values of the list of enabled inbounds
    Slots,         \* xray.Process objects
    Nil,           \* no thread, no process
    LateFork,      \* may "go cmd.Run()" be scheduled after Start returned?
    MaxOps,        \* bound: requests the handlers make
    MaxFaults      \* bound: failing reads, writes, forks and crashes

Threads == {Main} \cup Handlers \cup ApplyJobs
Config == [tpl : Templates, inb : InboundLists]

ASSUME ThreadsAssumption ==
    /\ Nil \notin Threads \cup Slots
    /\ Main \notin Handlers \cup ApplyJobs
    /\ Handlers \cap ApplyJobs = {}
ASSUME ConfigAssumption == Nil \notin Config
ASSUME BoundsAssumption ==
    LateFork \in BOOLEAN /\ MaxOps \in Nat /\ MaxFaults \in Nat

VARIABLES
    db,         \* the configuration the database describes
    need,       \* isNeedXrayRestart
    manual,     \* isManuallyStopped
    lock,       \* holder of the mutex
    p,          \* the current xray.Process
    child,      \* state of the child of each Process
    cfg,        \* p.config, what the panel believes the current process runs
    loaded,     \* what the current child read from bin/config.json
    file,       \* contents of bin/config.json
    conf,       \* xrayConfig, local to RestartXray (one caller at a time)
    pc, op,     \* where each thread is, in which operation
    form,       \* the template a handler is about to store
    monitor,    \* CheckXrayRunningJob between its two reads
    checkTime,  \* CheckXrayRunningJob.checkTime, saturated at CrashChecks
    lost,       \* history: the code dropped a request to apply (see README)
    ops, faults \* counters for the two bounds

apply == <<need, manual, lock, conf, lost>>
proc  == <<p, child, cfg, loaded, file>>
local == <<pc, op, form>>
watch == <<monitor, checkTime>>
vars  == <<db, apply, proc, local, watch, ops, faults>>

CrashChecks == 2

TypeOK ==
    /\ db \in Config /\ conf \in Config \cup {Nil}
    /\ cfg \in Config /\ loaded \in Config /\ file \in Config
    /\ need \in BOOLEAN /\ manual \in BOOLEAN /\ lost \in BOOLEAN
    /\ lock \in Threads \cup {Nil}
    /\ p \in Slots \cup {Nil}
    /\ child \in [Slots -> {"none", "launched", "alive", "dead",
                            "unguarded", "leaked"}]
    /\ pc \in [Threads -> {"idle", "store", "storeSame", "flag", "lock",
                           "template", "inbounds", "decide", "start",
                           "started", "stopLock", "kill"}]
    /\ op \in [Threads -> {"none", "save", "settings", "restart", "stop",
                           "upgrade", "apply"}]
    /\ form \in [Handlers -> Templates \cup {Nil}]
    /\ monitor \in {"idle", "down"}
    /\ checkTime \in 0..CrashChecks
    /\ ops \in 0..MaxOps /\ faults \in 0..MaxFaults

Init ==
    /\ db \in Config /\ conf = Nil
    /\ need = FALSE /\ manual = FALSE /\ lost = FALSE /\ lock = Nil
    /\ p = Nil
    /\ child = [s \in Slots |-> "none"]
    /\ cfg = db /\ loaded = db /\ file = db
    /\ pc = [t \in Threads |-> IF t = Main THEN "lock" ELSE "idle"]
    /\ op = [t \in Threads |-> IF t = Main THEN "restart" ELSE "none"]
    /\ form = [h \in Handlers |-> Nil]
    /\ monitor = "idle" /\ checkTime = 0
    /\ ops = 0 /\ faults = 0

-----------------------------------------------------------------------------
(* Helpers *)

\* A child without a finalizer ("unguarded" before the fork, "leaked" after it)
\* belongs to a Process that was collected before it was forked.
Alive(s) == s # Nil /\ child[s] \in {"alive", "leaked"}

\* Mutant of IsRunning: a Process that was created counts as running.
WasCreated == p # Nil

\* cmd.ProcessState stays nil until Wait has reaped the child, so a killed
\* child still counts; cmd.Process is nil until the child has been forked.
IsRunning == p # Nil /\ child[p] \in {"alive", "dead"}

\* Process.Stop on the current process: SIGKILL, which is sent and not awaited.
\* A killed child is dead here at once: it does nothing more that is modelled,
\* and its object still counts as running until it is reaped.
Killed == [child EXCEPT ![p] = "dead"]

Goto(t, label) == pc' = [pc EXCEPT ![t] = label]

Return(t) == Goto(t, "idle") /\ op' = [op EXCEPT ![t] = "none"]

\* The local xrayConfig goes with the call.
Unlock == lock' = Nil /\ conf' = Nil

Fault == faults < MaxFaults /\ faults' = faults + 1

\* The panel accepts requests and runs the monitor once startTask is done.
Serving == pc[Main] = "idle"

Begin(h, o, label) ==
    /\ Serving /\ pc[h] = "idle" /\ ops < MaxOps
    /\ ops' = ops + 1
    /\ Goto(h, label) /\ op' = [op EXCEPT ![h] = o]

-----------------------------------------------------------------------------
(* Requests that change the saved configuration *)

\* addInbound, delInbound, updateInbound, DisableInvalidInbounds: the write,
\* whose caller then calls SetToNeedRestart.
SaveInbounds(h) ==
    /\ Begin(h, "save", "flag")
    /\ \E l \in InboundLists : db' = [db EXCEPT !.inb = l]
    /\ UNCHANGED <<apply, proc, form, watch, faults>>

\* updateSetting reads the stored template before it stores its form; the
\* label remembers whether the two differ.
SubmitSettings(h) ==
    /\ \E t \in Templates :
          /\ form' = [form EXCEPT ![h] = t]
          /\ Begin(h, "settings", IF t = db.tpl THEN "storeSame" ELSE "store")
    /\ UNCHANGED <<db, apply, proc, watch, faults>>

\* Nobody will be told that this handler changed the template.
StoreSilently(h) ==
    /\ db' = [db EXCEPT !.tpl = form[h]]
    /\ form' = [form EXCEPT ![h] = Nil]
    /\ lost' = (lost \/ db.tpl # form[h])
    /\ Return(h)
    /\ UNCHANGED <<need, manual, lock, conf, proc, watch, ops>>

\* Mutant of StoreSettings: the form is cleared before it is stored.
StoreCleared(h) ==
    /\ pc[h] \in {"store", "storeSame"}
    /\ form' = [form EXCEPT ![h] = Nil]
    /\ db' = [db EXCEPT !.tpl = form'[h]]
    /\ Goto(h, "flag")
    /\ UNCHANGED <<apply, proc, op, watch, ops, faults>>

StoreSettings(h) ==
    \/ /\ pc[h] = "store"
       /\ db' = [db EXCEPT !.tpl = form[h]]
       /\ form' = [form EXCEPT ![h] = Nil]
       /\ Goto(h, "flag")
       /\ UNCHANGED <<apply, proc, op, watch, ops, faults>>
    \/ /\ pc[h] = "storeSame"
       /\ StoreSilently(h)
       /\ UNCHANGED faults

\* UpdateAllSetting saves key by key and reports the failure of any of them:
\* the template may be stored and the flag still not set.
StoreSettingsPartly(h) ==
    /\ pc[h] \in {"store", "storeSame"}
    /\ Fault
    /\ StoreSilently(h)

SetToNeedRestart(h) ==
    /\ pc[h] = "flag"
    /\ need' = TRUE
    /\ Return(h)
    /\ UNCHANGED <<db, manual, lock, conf, lost, proc, form, watch, ops, faults>>

-----------------------------------------------------------------------------
(* Requests and jobs that call RestartXray and StopXray *)

\* restartXrayService, stopXrayService, and UpdateXray, which stops Xray,
\* replaces the binaries and always makes a forced restart at its end.
\* UpdateGeofile's restart is forced too, and is decided before its downloads:
\* it is a "restart" here, which may come after any stop.
Request(h) ==
    /\ \/ Begin(h, "restart", "lock")
       \/ Begin(h, "stop", "stopLock")
       \/ Begin(h, "upgrade", "stopLock")
    /\ UNCHANGED <<db, apply, proc, form, watch, faults>>

\* The cron function: a compare-and-swap consumes the flag, without the mutex.
ApplyTick(j) ==
    /\ pc[j] = "idle"
    /\ need
    /\ need' = FALSE
    /\ Goto(j, "lock") /\ op' = [op EXCEPT ![j] = "apply"]
    /\ UNCHANGED <<db, manual, lock, conf, lost, proc, form, watch, ops, faults>>

Forced(t) == op[t] # "apply"

\* RestartXray of a manually stopped Xray returns at once unless forced.
SkipRestart(t) ==
    /\ pc[t] = "lock" /\ lock = Nil
    /\ manual /\ ~Forced(t)
    /\ Return(t)
    /\ UNCHANGED <<db, apply, proc, form, watch, ops, faults>>

\* Mutant of EnterRestart: a forced restart does not clear isManuallyStopped.
EnterKeepingManual(t) ==
    /\ pc[t] = "lock" /\ lock = Nil
    /\ Forced(t) \/ ~manual
    /\ lock' = t
    /\ Goto(t, "template")
    /\ UNCHANGED <<db, need, manual, conf, lost, proc, op, form, watch, ops, faults>>

EnterRestart(t) ==
    /\ pc[t] = "lock" /\ lock = Nil
    /\ Forced(t) \/ ~manual
    /\ lock' = t
    /\ manual' = FALSE
    /\ Goto(t, "template")
    /\ UNCHANGED <<db, need, conf, lost, proc, op, form, watch, ops, faults>>

\* GetXrayConfig makes two queries: the template, then the inbounds.
ReadTemplate(t) ==
    /\ pc[t] = "template"
    /\ conf' = db   \* only the template counts until the inbounds are read
    /\ lost' = FALSE
    /\ Goto(t, "inbounds")
    /\ UNCHANGED <<db, need, manual, lock, proc, op, form, watch, ops, faults>>

ReadInbounds(t) ==
    /\ pc[t] = "inbounds"
    /\ conf' = [conf EXCEPT !.inb = db.inb]
    /\ Goto(t, "decide")
    /\ UNCHANGED <<db, need, manual, lock, lost, proc, op, form, watch, ops, faults>>

\* GetXrayConfig failed: RestartXray returns the error, the flag stays
\* consumed and isManuallyStopped stays cleared.
ReadFails(t) ==
    /\ pc[t] \in {"template", "inbounds"}
    /\ Fault
    /\ lost' = TRUE
    /\ Unlock /\ Return(t)
    /\ UNCHANGED <<db, need, manual, proc, form, watch, ops>>

\* Mutant of UpToDate: Equals compares the two pointers, which always differ.
SamePointer == IsRunning /\ FALSE

UpToDate == IsRunning /\ cfg = conf

KeepRunning(t) ==
    /\ pc[t] = "decide"
    /\ ~Forced(t) /\ UpToDate
    /\ Unlock /\ Return(t)
    /\ UNCHANGED <<db, need, manual, lost, proc, form, watch, ops, faults>>

\* Mutant of Replace: the old process is not stopped.
ReplaceWithoutStop(t) ==
    /\ pc[t] = "decide"
    /\ Forced(t) \/ ~UpToDate
    /\ \E s \in Slots \ {p} :
          /\ child[s] \in {"none", "leaked"}
          /\ p' = s
          /\ child' = [child EXCEPT ![s] = "none"]
    /\ cfg' = conf
    /\ Goto(t, "start")
    /\ UNCHANGED <<db, apply, loaded, file, op, form, watch, ops, faults>>

\* p.Stop() when running, then NewProcess with its finalizer.  A current
\* process that has not been forked yet is abandoned without a Stop.  The model
\* stops tracking a leaked child when it needs the slot.
Replace(t) ==
    /\ pc[t] = "decide"
    /\ Forced(t) \/ ~UpToDate
    /\ \E s \in Slots \ {p} :
          /\ child[s] \in {"none", "leaked"}
          /\ p' = s
          /\ child' = [IF IsRunning THEN Killed ELSE child EXCEPT ![s] = "none"]
    /\ cfg' = conf
    /\ Goto(t, "start")
    /\ UNCHANGED <<db, apply, loaded, file, op, form, watch, ops, faults>>

\* Mutant of StartXray: a failed write of the file is ignored.
StartWithOldFile(t) ==
    /\ pc[t] = "start"
    /\ file' \in {file, conf}
    /\ child' = [child EXCEPT ![p] = "launched"]
    /\ Goto(t, "started")
    /\ UNCHANGED <<db, apply, p, cfg, loaded, op, form, watch, ops, faults>>

\* Process.Start: write bin/config.json, "go cmd.Run()".
StartXray(t) ==
    /\ pc[t] = "start"
    /\ file' = conf
    /\ child' = [child EXCEPT ![p] = "launched"]
    /\ Goto(t, "started")
    /\ UNCHANGED <<db, apply, p, cfg, loaded, op, form, watch, ops, faults>>

StartFails(t) ==
    /\ pc[t] = "start"
    /\ Fault
    /\ Unlock /\ Return(t)
    /\ UNCHANGED <<db, need, manual, lost, proc, form, watch, ops>>

\* Mutant of FinishStart: the flag is cleared after the restart.
FinishAndClear(t) ==
    /\ pc[t] = "started"
    /\ LateFork \/ child[p] # "launched"
    /\ need' = FALSE
    /\ Unlock /\ Return(t)
    /\ UNCHANGED <<db, manual, lost, proc, form, watch, ops, faults>>

\* Start returns after "xray -version" ran to completion.
FinishStart(t) ==
    /\ pc[t] = "started"
    /\ LateFork \/ child[p] # "launched"
    /\ Unlock /\ Return(t)
    /\ UNCHANGED <<db, need, manual, lost, proc, form, watch, ops, faults>>

\* Mutant of EnterStop: isManuallyStopped is set before the mutex is taken.
StopBeforeLock(t) ==
    /\ pc[t] = "stopLock"
    /\ manual' = TRUE
    /\ IF lock = Nil THEN lock' = t /\ Goto(t, "kill") ELSE UNCHANGED <<lock, pc>>
    /\ UNCHANGED <<db, need, conf, lost, proc, op, form, watch, ops, faults>>

EnterStop(t) ==
    /\ pc[t] = "stopLock" /\ lock = Nil
    /\ lock' = t
    /\ manual' = TRUE
    /\ Goto(t, "kill")
    /\ UNCHANGED <<db, need, conf, lost, proc, op, form, watch, ops, faults>>

\* Whether or not Xray was running, UpdateXray goes on to its forced restart.
KillXray(t) ==
    /\ pc[t] = "kill"
    /\ child' = IF IsRunning THEN Killed ELSE child
    /\ Unlock
    /\ IF op[t] = "upgrade" THEN Goto(t, "lock") /\ UNCHANGED op ELSE Return(t)
    /\ UNCHANGED <<db, need, manual, lost, p, cfg, loaded, file, form, watch, ops, faults>>

-----------------------------------------------------------------------------
(* CheckXrayRunningJob: two unlocked reads, then the flag *)

SampleRunning ==
    /\ Serving /\ monitor = "idle"
    /\ IF IsRunning
         THEN checkTime' = 0 /\ UNCHANGED monitor
         ELSE monitor' = "down" /\ UNCHANGED checkTime
    /\ UNCHANGED <<db, apply, proc, local, ops, faults>>

SampleManual ==
    /\ monitor = "down"
    /\ monitor' = "idle"
    /\ checkTime' = IF manual THEN 0
                    ELSE IF checkTime < CrashChecks THEN checkTime + 1
                    ELSE CrashChecks
    /\ need' = (need \/ checkTime' >= CrashChecks)
    /\ UNCHANGED <<db, manual, lock, conf, lost, proc, local, ops, faults>>

-----------------------------------------------------------------------------
(* The operating system and the Go runtime *)

Fork(s) ==
    /\ child[s] \in {"launched", "unguarded"}
    /\ child' = [child EXCEPT ![s] =
                    IF child[s] = "launched" THEN "alive" ELSE "leaked"]
    /\ loaded' = IF s = p THEN file ELSE loaded
    /\ UNCHANGED <<db, apply, p, cfg, file, local, watch, ops, faults>>

ForkFails(s) ==
    /\ child[s] \in {"launched", "unguarded"}
    /\ Fault
    /\ child' = [child EXCEPT ![s] = "none"]
    /\ UNCHANGED <<db, apply, p, cfg, loaded, file, local, watch, ops>>

Exit(s) ==
    /\ Alive(s)
    /\ Fault
    /\ child' = [child EXCEPT ![s] = "dead"]
    /\ UNCHANGED <<db, apply, p, cfg, loaded, file, local, watch, ops>>

Reap(s) ==
    /\ child[s] = "dead"
    /\ child' = [child EXCEPT ![s] = "none"]
    /\ UNCHANGED <<db, apply, p, cfg, loaded, file, local, watch, ops, faults>>

\* stopProcess, run once for a Process nobody refers to any more: it ends a
\* child that was forked and comes too early for one that was not.
Finalize(s) ==
    /\ s # p /\ child[s] \in {"launched", "alive"}
    /\ child' = [child EXCEPT ![s] =
                    IF child[s] = "launched" THEN "unguarded" ELSE "dead"]
    /\ UNCHANGED <<db, apply, p, cfg, loaded, file, local, watch, ops, faults>>

-----------------------------------------------------------------------------
Restart(t) ==
    \/ SkipRestart(t) \/ EnterRestart(t) \/ ReadTemplate(t) \/ ReadInbounds(t)
    \/ ReadFails(t) \/ KeepRunning(t) \/ Replace(t) \/ StartXray(t)
    \/ StartFails(t) \/ FinishStart(t)

Stop(t) == EnterStop(t) \/ KillXray(t)

Handle(h) ==
    \/ SaveInbounds(h) \/ SubmitSettings(h) \/ StoreSettings(h)
    \/ StoreSettingsPartly(h) \/ SetToNeedRestart(h) \/ Request(h)

\* What the holder of the mutex does when nothing fails.
Proceed(t) ==
    \/ ReadTemplate(t) \/ ReadInbounds(t) \/ KeepRunning(t) \/ Replace(t)
    \/ StartXray(t) \/ FinishStart(t) \/ KillXray(t)

Monitor == SampleRunning \/ SampleManual

OS(s) == Fork(s) \/ ForkFails(s) \/ Exit(s) \/ Reap(s) \/ Finalize(s)

Next ==
    \/ \E h \in Handlers : Handle(h)
    \/ \E j \in ApplyJobs : ApplyTick(j)
    \/ \E t \in Threads : Restart(t) \/ Stop(t)
    \/ Monitor
    \/ \E s \in Slots : OS(s)

Spec == Init /\ [][Next]_vars

\* Goroutines that can run do run, sync.Mutex does not starve a waiter, cron
\* keeps ticking, the kernel ends and reaps children, and the runtime forces a
\* collection every two minutes.  Nothing forces a request or a fault.
Fairness ==
    /\ \A h \in Handlers : WF_vars(StoreSettings(h) \/ SetToNeedRestart(h))
    /\ WF_vars(\E j \in ApplyJobs : ApplyTick(j))
    /\ \A t \in Threads : /\ SF_vars(SkipRestart(t) \/ EnterRestart(t) \/ EnterStop(t))
                          /\ WF_vars(Proceed(t))
    /\ WF_vars(Monitor)
    /\ \A s \in Slots : WF_vars(Fork(s) \/ Reap(s) \/ Finalize(s))

FairSpec == Spec /\ Fairness

-----------------------------------------------------------------------------
(* Safety *)

Restarting == {"template", "inbounds", "decide", "start", "started"}

\* A restart the panel asked for on its own never starts Xray again after the
\* administrator stopped it: once such a restart has passed the check in
\* RestartXray, no StopXray can intervene before it is done.
ApplyRespectsStop ==
    \A j \in ApplyJobs : pc[j] \in Restarting => ~manual

\* Somebody will still look at the database: the flag is set or about to be
\* set, or a restart has not read the configuration yet -- or the code is known
\* to have dropped the request, or the administrator stopped Xray.
Pending ==
    \/ need \/ lost \/ manual
    \/ \E t \in Threads : pc[t] \in {"flag", "lock", "template"}

\* A restart holds the saved configuration in hand.
Applying ==
    \E t \in Threads :
        \/ pc[t] = "inbounds" /\ conf.tpl = db.tpl
        \/ pc[t] \in {"decide", "start"} /\ conf = db

\* The central promise of SetToNeedRestart and the cron function: a saved change
\* that the running child has not loaded is never forgotten, although the flag
\* is consumed before the mutex is taken and the database is read in two steps.
NoLostUpdate ==
    Alive(p) /\ loaded # db => Pending \/ Applying

\* RestartXray compares the new configuration with Process.config, but Xray runs
\* what bin/config.json, shared by all Processes, held when it was forked: for
\* the current Process the two agree.
RunsItsConfig == Alive(p) => loaded = cfg

\* At most one Xray is serving: it needs Start to return after the fork.
SingleInstance ==
    \A r, s \in Slots : Alive(r) /\ Alive(s) => r = s

\* When a StopXray has returned and no restart came after it, nothing runs, so
\* isManuallyStopped hides no running Xray from the monitor and the jobs.
StopIsEffective ==
    manual /\ lock = Nil => \A s \in Slots : child[s] \in {"none", "dead"}

-----------------------------------------------------------------------------
(* Action properties and liveness *)

\* An automatic restart interrupts an Xray that already runs the saved
\* configuration only if that configuration was changed while it was read, in
\* which case another restart is due anyway.
NoNeedlessRestart ==
    [][(lock \in ApplyJobs /\ p' # p /\ Alive(p) /\ cfg = db) => Pending]_vars

\* Once requests and faults have ceased, Xray runs the saved configuration, or
\* stays stopped because the administrator stopped it, or a request to apply a
\* change was dropped.  It covers the recovery from a crash by the monitor.  It
\* needs prompt forks: were every fork later than the next restart, the monitor
\* would keep asking for restarts that abandon the process of the one before.
Converges ==
    <>[](manual \/ lost \/ (Alive(p) /\ loaded = db))

-----------------------------------------------------------------------------
(* The service that all of this amounts to *)

\* A restart is over for the rest of the panel once its Xray has been forked.
At(label) == \E t \in Threads : pc[t] = label

Phase ==
    IF At("template") THEN "template"
    ELSE IF At("inbounds") THEN "inbounds"
    ELSE IF At("decide") \/ At("start") \/ (At("started") /\ child[p] = "launched")
    THEN "start"
    ELSE "idle"

Running == IF Alive(p) THEN loaded ELSE Nil

Stopped == manual /\ ~Alive(p)

Hand == IF Phase \in {"inbounds", "start"} THEN conf ELSE Nil

Service == INSTANCE XrayService WITH
    saved <- db, running <- Running, stopped <- Stopped,
    phase <- Phase, hand <- Hand

\* With prompt forks mutex, flag, Process objects and the shared file implement
\* the service: Xray comes up only through a restart that nobody could stop in
\* between, with the very configuration it read, and not before the old one ended.
Implements == Service!Spec
=============================================================================
