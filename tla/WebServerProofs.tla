--------------------------- MODULE WebServerProofs ---------------------------
(***************************************************************************)
(* Proofs about what the panel's web server does besides the inbounds:     *)
(* about PanelLifecycle for any handlers and bounds, that no Xray is left  *)
(* behind; about AutoHttpsConn for streams, buffers and headers of every   *)
(* length, that the probe neither loses nor repeats nor reorders a byte;   *)
(* and about the requests and the job of WarpRotation.                     *)
(***************************************************************************)
EXTENDS PanelLifecycle, SequenceTheorems, FiniteSetTheorems, WellFoundedInduction,
        TLAPS

\* The handlers with a request.
Busy == {h \in Handlers : pc[h] # "idle"}

(* The types, in parts: counters have no bound of their own here. *)
ControlTyped ==
    /\ main \in {"start", "router", "listen", "task", "serve", "notify", "wait",
                 "stopXray", "shutdown", "exited"}
    /\ next \in {"start", "exit"}
    /\ buffer \in {"none", "HUP", "TERM"}
    /\ pc \in [Handlers -> {"idle", "save", "restartPanel", "restartXray", "stopXray"}]

FlagsTyped ==
    /\ notified \in BOOLEAN /\ asked \in BOOLEAN /\ lost \in BOOLEAN
    /\ accepting \in BOOLEAN /\ cron \in BOOLEAN /\ apply \in BOOLEAN
    /\ monitor \in BOOLEAN
    /\ running \in BOOLEAN /\ manual \in BOOLEAN /\ need \in BOOLEAN
    /\ applying \in BOOLEAN /\ sampled \in BOOLEAN
    /\ byAdmin \in BOOLEAN /\ overtaken \in BOOLEAN

CountsTyped ==
    /\ saved \in Nat /\ timers \in Nat /\ read \in 0..saved /\ wanted \in 0..saved
    /\ ops \in 0..MaxOps /\ faults \in 0..MaxFaults

Typed == ControlTyped /\ FlagsTyped /\ CountsTyped

\* Every save and every timer was once a request, and requests under way may
\* yet become one: it bounds what TypeOK bounds.
BudgetInv ==
    IsFiniteSet(Busy) /\ saved + timers + Cardinality(Busy) <= ops

\* Nothing has run yet that could start Xray.
Pristine ==
    /\ ~accepting /\ ~monitor /\ Busy = {}
    /\ ~need /\ ~applying /\ ~sampled

\* While no server wants Xray it does not run, and the flag that Stop has set
\* keeps every job from starting it, unless there never was a job.
DownInv ==
    main \in Down /\ ~(main = "exited" /\ ~notified) /\ ~overtaken =>
        ~running /\ (manual \/ Pristine)

PanelInv == Typed /\ BudgetInv /\ DownInv

\* The process begins with nothing running and nothing asked for.
LEMMA InitPanelInv == Init => PanelInv
PROOF
  <1> SUFFICES ASSUME Init PROVE PanelInv
    OBVIOUS
  <1>1. Typed
    <2>1. ControlTyped
      BY DEF Init, ControlTyped
    <2>2. FlagsTyped
      BY DEF Init, FlagsTyped
    <2>3. CountsTyped
      BY LifecycleAssumption DEF Init, CountsTyped
    <2>4. QED
      BY <2>1, <2>2, <2>3 DEF Typed
  <1>2. Busy = {}
    BY DEF Init, Busy
  <1>3. BudgetInv
    BY <1>2, FS_EmptySet DEF Init, BudgetInv
  <1>4. DownInv
    BY <1>2 DEF Init, DownInv, Pristine
  <1>5. QED
    BY <1>1, <1>3, <1>4 DEF PanelInv

\* A request that ends leaves room for what it has done.
LEMMA FinishFrees ==
    ASSUME PanelInv, NEW h \in Handlers,
           NEW op \in {"save", "restartPanel", "restartXray", "stopXray"}, Finish(h, op)
    PROVE  /\ Busy' = Busy \ {h} /\ IsFiniteSet(Busy')
           /\ saved + timers + Cardinality(Busy') + 1 <= ops
           /\ pc' \in [Handlers -> {"idle", "save", "restartPanel", "restartXray", "stopXray"}]
           /\ h \in Busy
PROOF
  <1>1. /\ h \in Busy /\ Busy' = Busy \ {h}
        /\ pc' \in [Handlers -> {"idle", "save", "restartPanel", "restartXray", "stopXray"}]
    BY DEF PanelInv, Typed, ControlTyped, Finish, Busy
  <1>2. /\ IsFiniteSet(Busy) /\ saved + timers + Cardinality(Busy) <= ops
    BY DEF PanelInv, BudgetInv
  <1>3. IsFiniteSet(Busy \ {h}) /\ Cardinality(Busy \ {h}) = Cardinality(Busy) - 1
        /\ Cardinality(Busy) \in Nat
    BY <1>1, <1>2, FS_RemoveElement, FS_CardinalityType
  <1>4. saved \in Nat /\ timers \in Nat /\ ops \in Nat
    BY DEF PanelInv, Typed, CountsTyped
  <1>5. QED
    BY <1>1, <1>2, <1>3, <1>4

\* A restart leaves Xray's variables typed, and counts its failure.
LEMMA RestartTyped ==
    ASSUME Typed, Restart
    PROVE  /\ running' \in BOOLEAN /\ manual' = FALSE /\ byAdmin' = FALSE
           /\ faults' \in 0..MaxFaults
PROOF
  <1>1. running' \in BOOLEAN /\ manual' = FALSE /\ byAdmin' = FALSE
    BY DEF Restart, Typed, FlagsTyped
  <1>2. faults' = faults \/ (faults < MaxFaults /\ faults' = faults + 1)
    BY DEF Restart, Fault
  <1>3. QED
    BY <1>1, <1>2, LifecycleAssumption DEF Typed, CountsTyped

\* The main goroutine keeps every variable in its type ...
LEMMA MainTyped ==
    ASSUME Typed, Main
    PROVE  Typed'
PROOF
  <1> USE DEF signals, settings, server, xray, jobs
  <1>1. CASE StartCron
    <2>1. ControlTyped'
      BY <1>1 DEF Typed, ControlTyped, StartCron
    <2>2. FlagsTyped'
      BY <1>1 DEF Typed, FlagsTyped, StartCron
    <2>3. CountsTyped'
      BY <1>1, LifecycleAssumption DEF Typed, CountsTyped, StartCron
    <2>4. QED
      BY <2>1, <2>2, <2>3 DEF Typed
  <1>2. CASE InitRouter
    <2>1. ControlTyped'
      BY <1>2 DEF Typed, ControlTyped, InitRouter
    <2>2. FlagsTyped'
      BY <1>2 DEF Typed, FlagsTyped, InitRouter
    <2>3. CountsTyped'
      BY <1>2, LifecycleAssumption DEF Typed, CountsTyped, InitRouter
    <2>4. QED
      BY <2>1, <2>2, <2>3 DEF Typed
  <1>3. CASE Listen
    <2>1. ControlTyped'
      BY <1>3 DEF Typed, ControlTyped, Listen
    <2>2. FlagsTyped'
      BY <1>3 DEF Typed, FlagsTyped, Listen
    <2>3. CountsTyped'
      BY <1>3, LifecycleAssumption DEF Typed, CountsTyped, Listen
    <2>4. QED
      BY <2>1, <2>2, <2>3 DEF Typed
  <1>4. CASE StartTask
    <2>1. ControlTyped'
      BY <1>4, RestartTyped DEF Typed, ControlTyped, StartTask
    <2>2. FlagsTyped'
      BY <1>4, RestartTyped DEF Typed, FlagsTyped, StartTask
    <2>3. CountsTyped'
      BY <1>4, RestartTyped, LifecycleAssumption DEF Typed, CountsTyped, StartTask
    <2>4. QED
      BY <2>1, <2>2, <2>3 DEF Typed
  <1>5. CASE Serve
    <2>1. ControlTyped'
      BY <1>5 DEF Typed, ControlTyped, Serve
    <2>2. FlagsTyped'
      BY <1>5 DEF Typed, FlagsTyped, Serve
    <2>3. CountsTyped'
      BY <1>5, LifecycleAssumption DEF Typed, CountsTyped, Serve
    <2>4. QED
      BY <2>1, <2>2, <2>3 DEF Typed
  <1>6. CASE Notify
    <2>1. ControlTyped'
      BY <1>6 DEF Typed, ControlTyped, Notify
    <2>2. FlagsTyped'
      BY <1>6 DEF Typed, FlagsTyped, Notify
    <2>3. CountsTyped'
      BY <1>6, LifecycleAssumption DEF Typed, CountsTyped, Notify
    <2>4. QED
      BY <2>1, <2>2, <2>3 DEF Typed
  <1>7. CASE TakeSignal
    <2>1. ControlTyped'
      BY <1>7 DEF Typed, ControlTyped, TakeSignal
    <2>2. FlagsTyped'
      BY <1>7 DEF Typed, FlagsTyped, TakeSignal
    <2>3. CountsTyped'
      BY <1>7, LifecycleAssumption DEF Typed, CountsTyped, TakeSignal
    <2>4. QED
      BY <2>1, <2>2, <2>3 DEF Typed
  <1>8. CASE StopXray
    <2>1. ControlTyped'
      BY <1>8 DEF Typed, ControlTyped, StopXray
    <2>2. FlagsTyped'
      BY <1>8 DEF Typed, FlagsTyped, StopXray
    <2>3. CountsTyped'
      BY <1>8, LifecycleAssumption DEF Typed, CountsTyped, StopXray
    <2>4. QED
      BY <2>1, <2>2, <2>3 DEF Typed
  <1>9. CASE Shutdown
    <2>1. ControlTyped'
      BY <1>9 DEF Typed, ControlTyped, Shutdown
    <2>2. FlagsTyped'
      BY <1>9 DEF Typed, FlagsTyped, Shutdown
    <2>3. CountsTyped'
      BY <1>9, LifecycleAssumption DEF Typed, CountsTyped, Shutdown
    <2>4. QED
      BY <2>1, <2>2, <2>3 DEF Typed
  <1>10. QED
    BY <1>1, <1>2, <1>3, <1>4, <1>5, <1>6, <1>7, <1>8, <1>9 DEF Main

\* ... and so do signals and faults, ...
LEMMA SignalsTyped ==
    ASSUME Typed, StartFails \/ TimerFires \/ Terminate \/ XrayExits
    PROVE  Typed'
PROOF
  <1> USE DEF signals, settings, server, xray, jobs
  <1>1. CASE StartFails
    <2>1. ControlTyped'
      BY <1>1 DEF Typed, ControlTyped, StartFails, Fault
    <2>2. FlagsTyped'
      BY <1>1 DEF Typed, FlagsTyped, StartFails, Fault
    <2>3. CountsTyped'
      BY <1>1, LifecycleAssumption DEF Typed, CountsTyped, StartFails, Fault
    <2>4. QED
      BY <2>1, <2>2, <2>3 DEF Typed
  <1>2. CASE TimerFires
    <2>1. ControlTyped'
      BY <1>2 DEF Typed, ControlTyped, TimerFires, Deliver
    <2>2. FlagsTyped'
      BY <1>2 DEF Typed, FlagsTyped, TimerFires, Deliver
    <2>3. CountsTyped'
      BY <1>2, LifecycleAssumption DEF Typed, CountsTyped, TimerFires, Deliver
    <2>4. QED
      BY <2>1, <2>2, <2>3 DEF Typed
  <1>3. CASE Terminate
    <2>1. ControlTyped'
      BY <1>3 DEF Typed, ControlTyped, Terminate, Deliver
    <2>2. FlagsTyped'
      BY <1>3 DEF Typed, FlagsTyped, Terminate, Deliver
    <2>3. CountsTyped'
      BY <1>3, LifecycleAssumption DEF Typed, CountsTyped, Terminate, Deliver
    <2>4. QED
      BY <2>1, <2>2, <2>3 DEF Typed
  <1>4. CASE XrayExits
    <2>1. ControlTyped'
      BY <1>4 DEF Typed, ControlTyped, XrayExits, Fault
    <2>2. FlagsTyped'
      <3>1. /\ running' \in BOOLEAN
            /\ UNCHANGED <<notified, asked, lost, accepting, cron, apply, monitor,
                           manual, need, byAdmin, overtaken, applying, sampled>>
        BY <1>4 DEF XrayExits
      <3>2. QED
        BY <3>1 DEF Typed, FlagsTyped
    <2>3. CountsTyped'
      BY <1>4, LifecycleAssumption DEF Typed, CountsTyped, XrayExits, Fault
    <2>4. QED
      BY <2>1, <2>2, <2>3 DEF Typed
  <1>5. QED
    BY <1>1, <1>2, <1>3, <1>4

\* ... requests ...
LEMMA RequestsTyped ==
    ASSUME Typed, NEW h \in Handlers, Handle(h)
    PROVE  Typed'
PROOF
  <1> USE DEF signals, settings, server, xray, jobs
  <1>1. CASE UpdateSetting(h)
    <2>1. ControlTyped'
      BY <1>1 DEF Typed, ControlTyped, UpdateSetting, Finish
    <2>2. FlagsTyped'
      BY <1>1 DEF Typed, FlagsTyped, UpdateSetting, Finish
    <2>3. CountsTyped'
      BY <1>1, LifecycleAssumption DEF Typed, CountsTyped, UpdateSetting, Finish
    <2>4. QED
      BY <2>1, <2>2, <2>3 DEF Typed
  <1>2. CASE RestartPanel(h)
    <2>1. ControlTyped'
      BY <1>2 DEF Typed, ControlTyped, RestartPanel, Finish
    <2>2. FlagsTyped'
      BY <1>2 DEF Typed, FlagsTyped, RestartPanel, Finish
    <2>3. CountsTyped'
      BY <1>2, LifecycleAssumption DEF Typed, CountsTyped, RestartPanel, Finish
    <2>4. QED
      BY <2>1, <2>2, <2>3 DEF Typed
  <1>3. CASE RestartXrayService(h)
    <2>1. ControlTyped'
      BY <1>3, RestartTyped DEF Typed, ControlTyped, RestartXrayService, Finish
    <2>2. FlagsTyped'
      BY <1>3, RestartTyped DEF Typed, FlagsTyped, RestartXrayService, Finish
    <2>3. CountsTyped'
      BY <1>3, RestartTyped, LifecycleAssumption 
         DEF Typed, CountsTyped, RestartXrayService, Finish
    <2>4. QED
      BY <2>1, <2>2, <2>3 DEF Typed
  <1>4. CASE StopXrayService(h)
    <2>1. ControlTyped'
      BY <1>4 DEF Typed, ControlTyped, StopXrayService, Finish
    <2>2. FlagsTyped'
      BY <1>4 DEF Typed, FlagsTyped, StopXrayService, Finish
    <2>3. CountsTyped'
      BY <1>4, LifecycleAssumption DEF Typed, CountsTyped, StopXrayService, Finish
    <2>4. QED
      BY <2>1, <2>2, <2>3 DEF Typed
  <1>5. QED
    BY <1>1, <1>2, <1>3, <1>4 DEF Handle

\* ... and jobs.
LEMMA JobsTyped ==
    ASSUME Typed, ApplyTick \/ ApplyRestart \/ SampleRunning \/ SampleManual
    PROVE  Typed'
PROOF
  <1> USE DEF signals, settings, server, xray, jobs
  <1>1. CASE ApplyTick
    <2>1. ControlTyped'
      BY <1>1 DEF Typed, ControlTyped, ApplyTick
    <2>2. FlagsTyped'
      BY <1>1 DEF Typed, FlagsTyped, ApplyTick
    <2>3. CountsTyped'
      BY <1>1, LifecycleAssumption DEF Typed, CountsTyped, ApplyTick
    <2>4. QED
      BY <2>1, <2>2, <2>3 DEF Typed
  <1>2. CASE ApplyRestart
    <2>1. ControlTyped'
      BY <1>2, RestartTyped DEF Typed, ControlTyped, ApplyRestart
    <2>2. FlagsTyped'
      BY <1>2, RestartTyped DEF Typed, FlagsTyped, ApplyRestart
    <2>3. CountsTyped'
      BY <1>2, RestartTyped, LifecycleAssumption DEF Typed, CountsTyped, ApplyRestart
    <2>4. QED
      BY <2>1, <2>2, <2>3 DEF Typed
  <1>3. CASE SampleRunning
    <2>1. ControlTyped'
      BY <1>3 DEF Typed, ControlTyped, SampleRunning
    <2>2. FlagsTyped'
      BY <1>3 DEF Typed, FlagsTyped, SampleRunning
    <2>3. CountsTyped'
      BY <1>3, LifecycleAssumption DEF Typed, CountsTyped, SampleRunning
    <2>4. QED
      BY <2>1, <2>2, <2>3 DEF Typed
  <1>4. CASE SampleManual
    <2>1. ControlTyped'
      BY <1>4 DEF Typed, ControlTyped, SampleManual
    <2>2. FlagsTyped'
      BY <1>4 DEF Typed, FlagsTyped, SampleManual
    <2>3. CountsTyped'
      BY <1>4, LifecycleAssumption DEF Typed, CountsTyped, SampleManual
    <2>4. QED
      BY <2>1, <2>2, <2>3 DEF Typed
  <1>5. QED
    BY <1>1, <1>2, <1>3, <1>4

\* A request that ends pays for one save or one timer.
LEMMA Spend ==
    ASSUME NEW s \in Nat, NEW t \in Nat, NEW s1 \in Nat, NEW t1 \in Nat,
           NEW n \in Nat, NEW o \in Nat,
           s + t + n + 1 <= o, s1 + t1 <= s + t + 1
    PROVE  s1 + t1 + n <= o
  OBVIOUS

\* Every step of the process keeps the invariant.
LEMMA StepPanelInv == PanelInv /\ [Next]_vars => PanelInv'
PROOF
  <1> SUFFICES ASSUME PanelInv, [Next]_vars PROVE PanelInv'
    OBVIOUS
  <1> USE DEF signals, settings, server, xray, jobs
  <1>0. /\ Typed /\ BudgetInv /\ DownInv
        /\ MaxOps \in Nat /\ MaxFaults \in Nat
    BY LifecycleAssumption DEF PanelInv
  <1>1. CASE Main
    <2>1. Typed'
      BY <1>0, <1>1, MainTyped
    <2>2. UNCHANGED <<pc, saved, timers, ops>> /\ UNCHANGED Busy
      BY <1>1 DEF Main, StartCron, InitRouter, Listen, StartTask, Serve, Notify,
         TakeSignal, StopXray, Shutdown, Busy
    <2>3. BudgetInv'
      BY <1>0, <2>2 DEF BudgetInv
    <2>4. DownInv'
      BY <1>0, <1>1, <2>2
         DEF Main, StartCron, InitRouter, Listen, StartTask, Serve, Notify, TakeSignal,
             StopXray, Shutdown, Typed, FlagsTyped, DownInv, Pristine, Down
    <2>5. QED
      BY <2>1, <2>3, <2>4 DEF PanelInv
  <1>2. CASE StartFails \/ TimerFires \/ Terminate \/ XrayExits
    <2>1. Typed'
      BY <1>0, <1>2, SignalsTyped
    <2>2. UNCHANGED <<pc, saved, ops>> /\ UNCHANGED Busy /\ timers' <= timers
      BY <1>0, <1>2
         DEF StartFails, TimerFires, Terminate, XrayExits, Busy, Typed, CountsTyped
    <2>3. BudgetInv'
      BY <1>0, <2>1, <2>2, FS_CardinalityType DEF BudgetInv, Typed, CountsTyped
    <2>4. DownInv'
      BY <1>0, <1>2, <2>2
         DEF StartFails, TimerFires, Terminate, XrayExits, Deliver, Typed, FlagsTyped,
             DownInv, Pristine, Down
    <2>5. QED
      BY <2>1, <2>3, <2>4 DEF PanelInv
  <1>3. ASSUME NEW h \in Handlers, Submit(h) PROVE PanelInv'
    <2>1. /\ h \notin Busy /\ Busy' = Busy \cup {h}
          /\ ops' = ops + 1 /\ ops < MaxOps /\ accepting
          /\ UNCHANGED <<main, next, signals, settings, server, xray, jobs, faults>>
          /\ pc' \in [Handlers -> {"idle", "save", "restartPanel", "restartXray", "stopXray"}]
      BY <1>0, <1>3 DEF Submit, Busy, Typed, ControlTyped, CountsTyped
    <2>2. Typed'
      BY <1>0, <2>1 DEF Typed, ControlTyped, FlagsTyped, CountsTyped
    <2>3. IsFiniteSet(Busy') /\ Cardinality(Busy') = Cardinality(Busy) + 1
          /\ Cardinality(Busy) \in Nat
      BY <1>0, <2>1, FS_AddElement, FS_CardinalityType DEF BudgetInv
    <2>4. BudgetInv'
      BY <1>0, <2>1, <2>3 DEF BudgetInv, Typed, CountsTyped
    <2>5. DownInv'
      BY <1>0, <2>1 DEF DownInv, Pristine
    <2>6. QED
      BY <2>2, <2>4, <2>5 DEF PanelInv
  <1>4. ASSUME NEW h \in Handlers, Handle(h) PROVE PanelInv'
    <2>1. PICK op \in {"save", "restartPanel", "restartXray", "stopXray"} : Finish(h, op)
      BY <1>4
         DEF Handle, UpdateSetting, RestartPanel, RestartXrayService, StopXrayService
    <2>2. /\ Busy' = Busy \ {h} /\ IsFiniteSet(Busy') /\ h \in Busy
          /\ saved + timers + Cardinality(Busy') + 1 <= ops
          /\ pc' \in [Handlers -> {"idle", "save", "restartPanel", "restartXray", "stopXray"}]
      BY <2>1, FinishFrees
    <2>3. Cardinality(Busy') \in Nat
      BY <2>2, FS_CardinalityType
    <2>4. Typed'
      BY <1>0, <1>4, RequestsTyped
    <2>5. saved' + timers' <= saved + timers + 1 /\ ops' = ops
      BY <1>0, <1>4 DEF Handle, UpdateSetting, RestartPanel, RestartXrayService,
         StopXrayService, Typed, CountsTyped
    <2>6. BudgetInv'
      <3>1. /\ saved \in Nat /\ timers \in Nat /\ ops \in Nat
            /\ saved' \in Nat /\ timers' \in Nat
        BY <1>0, <2>4 DEF Typed, CountsTyped
      <3>2. saved' + timers' + Cardinality(Busy') <= ops'
        BY <2>2, <2>3, <2>5, <3>1, Spend
      <3>3. QED
        BY <2>2, <3>2 DEF BudgetInv
    <2>7. main' = main /\ notified' = notified
      BY <1>4
         DEF Handle, UpdateSetting, RestartPanel, RestartXrayService, StopXrayService
    <2>8. DownInv'
      BY <1>0, <1>4, <2>2, <2>7
         DEF Handle, UpdateSetting, RestartPanel, RestartXrayService, StopXrayService,
             Typed, FlagsTyped, DownInv, Pristine
    <2>9. QED
      BY <2>4, <2>6, <2>8 DEF PanelInv
  <1>5. CASE ApplyTick \/ ApplyRestart \/ SampleRunning \/ SampleManual
    <2>1. Typed'
      BY <1>0, <1>5, JobsTyped
    <2>2. UNCHANGED <<pc, saved, timers, ops>> /\ UNCHANGED Busy
      BY <1>5 DEF ApplyTick, ApplyRestart, SampleRunning, SampleManual, Busy
    <2>3. BudgetInv'
      BY <1>0, <2>2 DEF BudgetInv
    <2>4. DownInv'
      BY <1>0, <1>5, <2>2
         DEF ApplyTick, ApplyRestart, SampleRunning, SampleManual, DownInv, Pristine
    <2>5. QED
      BY <2>1, <2>3, <2>4 DEF PanelInv
  <1>6. CASE UNCHANGED vars
    BY <1>0, <1>6
       DEF vars, PanelInv, Typed, ControlTyped, FlagsTyped, CountsTyped, BudgetInv,
           DownInv, Pristine, Busy
  <1>7. QED
    BY <1>1, <1>2, <1>3, <1>4, <1>5, <1>6 DEF Next

\* The invariant holds in every state the process reaches.
THEOREM Inductive == Spec => []PanelInv
PROOF
  <1>1. QED
    BY InitPanelInv, StepPanelInv, PTL DEF Spec

\* Every variable of the lifecycle keeps its type; no number of requests outgrows
\* their bound.
THEOREM TypeCorrect == Spec => []TypeOK
PROOF
  <1>1. PanelInv => TypeOK
    <2> SUFFICES ASSUME PanelInv PROVE TypeOK
      OBVIOUS
    <2>1. Cardinality(Busy) \in Nat
      BY FS_CardinalityType DEF PanelInv, BudgetInv
    <2>2. timers \in 0..MaxOps /\ saved \in 0..MaxOps
      BY <2>1, LifecycleAssumption DEF PanelInv, Typed, CountsTyped, BudgetInv
    <2>3. QED
      BY <2>2 DEF PanelInv, Typed, ControlTyped, FlagsTyped, CountsTyped, TypeOK
  <1>2. QED
    BY <1>1, Inductive, PTL

\* Once Stop has stopped Xray no job, under way or new, starts it again before the
\* next server does, and none is left when the panel exits; but for a forced
\* restart and for a signal before Notify.
THEOREM NoXrayLeft == Spec => []NothingLeft
PROOF
  <1>1. PanelInv => NothingLeft
    BY DEF PanelInv, DownInv, NothingLeft
  <1>2. QED
    BY <1>1, Inductive, PTL

-----------------------------------------------------------------------------
(* Restarts and signals are not forgotten, and Xray can come back.          *)

\* No step loses what is owed: a timer puts its signal into the channel or finds
\* one there, and taking a signal leads down to a new start or to the exit.
LEMMA OwedStep ==
    ASSUME Typed, NothingDropped, [Next]_vars
    PROVE  NothingDropped'
PROOF
  <1> USE DEF signals, settings, server, xray, jobs
  <1>0. /\ RestartOwed /\ TerminationOwed
        /\ saved \in Nat /\ timers \in Nat /\ read \in Nat /\ wanted \in Nat
        /\ read <= saved /\ wanted <= saved
        /\ buffer \in {"none", "HUP", "TERM"} /\ next \in {"start", "exit"}
    BY DEF NothingDropped, Typed, CountsTyped, ControlTyped
  <1>1. CASE StartCron
    <2>1. main' = "router" /\ read' = saved
          /\ UNCHANGED <<buffer, timers, asked, lost, saved, wanted>> /\ main = "start"
      BY <1>1 DEF StartCron
    <2>2. QED
      BY <1>0, <2>1 DEF NothingDropped, RestartOwed, TerminationOwed
  <1>2. CASE InitRouter \/ Listen \/ StartTask \/ Serve \/ Notify
    <2>1. /\ main \in {"router", "listen", "task", "serve", "notify"}
          /\ UNCHANGED <<next, buffer, timers, asked, lost, read, wanted>>
      BY <1>2 DEF InitRouter, Listen, StartTask, Serve, Notify
    <2>2. QED
      BY <1>0, <2>1 DEF NothingDropped, RestartOwed, TerminationOwed
  <1>3. CASE TakeSignal
    <2>1. /\ main = "wait" /\ buffer # "none" /\ main' = "stopXray"
          /\ next' = IF buffer = "HUP" THEN "start" ELSE "exit"
          /\ UNCHANGED <<timers, asked, lost, read, wanted>>
      BY <1>3 DEF TakeSignal
    <2>2. QED
      BY <1>0, <2>1 DEF NothingDropped, RestartOwed, TerminationOwed
  <1>4. CASE StopXray \/ Shutdown
    <2>1. /\ main \in {"stopXray", "shutdown"}
          /\ \/ main = "stopXray" /\ main' = "shutdown"
             \/ main = "shutdown" /\ main' = IF next = "start" THEN "start" ELSE "exited"
          /\ UNCHANGED <<next, buffer, timers, asked, lost, read, wanted>>
      BY <1>4 DEF StopXray, Shutdown
    <2>2. QED
      BY <1>0, <2>1 DEF NothingDropped, RestartOwed, TerminationOwed
  <1>5. CASE StartFails
    <2>1. /\ main' = "stopXray" /\ next' = "exit"
          /\ UNCHANGED <<buffer, timers, asked, lost, read, wanted>>
      BY <1>5 DEF StartFails
    <2>2. QED
      BY <1>0, <2>1 DEF NothingDropped, RestartOwed, TerminationOwed
  <1>6. CASE TimerFires \/ Terminate
    <2>1. /\ UNCHANGED <<next, read, wanted>>
          /\ \/ main' = "exited"
             \/ /\ main' = main /\ buffer' # "none"
                /\ buffer # "none" => buffer' = buffer
                /\ lost => lost'
                /\ \/ asked' = asked
                   \/ asked' /\ (buffer' = "TERM" \/ lost')
      BY <1>0, <1>6 DEF TimerFires, Terminate, Deliver
    <2>2. QED
      BY <1>0, <2>1 DEF NothingDropped, RestartOwed, TerminationOwed
  <1>7. ASSUME NEW h \in Handlers, Handle(h) PROVE NothingDropped'
    <2>1. /\ UNCHANGED <<main, next, buffer, asked, lost, read>>
          /\ \/ UNCHANGED <<timers, wanted>>
             \/ timers' = timers + 1
      BY <1>7 DEF Handle, UpdateSetting, RestartPanel, RestartXrayService,
                  StopXrayService
    <2>2. QED
      BY <1>0, <2>1 DEF NothingDropped, RestartOwed, TerminationOwed
  <1>8. CASE \/ \E h \in Handlers : Submit(h)
             \/ ApplyTick \/ ApplyRestart \/ SampleRunning \/ SampleManual \/ XrayExits
             \/ UNCHANGED vars
    <2>1. UNCHANGED <<main, next, buffer, timers, asked, lost, read, wanted>>
      BY <1>8 DEF Submit, ApplyTick, ApplyRestart, SampleRunning, SampleManual,
                  XrayExits, vars
    <2>2. QED
      BY <1>0, <2>1 DEF NothingDropped, RestartOwed, TerminationOwed
  <1>9. QED
    BY <1>1, <1>2, <1>3, <1>4, <1>5, <1>6, <1>7, <1>8 DEF Next, Main

\* However saves, restarts of the panel and signals overlap, a restart or an end
\* that was asked for is in a timer, in the channel or under way.
THEOREM SignalsKept == Spec => []NothingDropped
PROOF
  <1>1. Init => NothingDropped
    BY DEF Init, NothingDropped, RestartOwed, TerminationOwed
  <1>2. PanelInv /\ NothingDropped /\ [Next]_vars => NothingDropped'
    BY OwedStep DEF PanelInv
  <1>3. QED
    BY <1>1, <1>2, Inductive, PTL DEF Spec

\* The cron of the new server has its function and its job by the time it serves,
\* and from the forced restart on the flag that Stop had set is an administrator's.
ArmedInv ==
    /\ main \in {"router", "listen", "task", "serve", "notify", "wait"} => cron
    /\ main \in {"listen", "task", "serve", "notify", "wait"} => apply
    /\ main \in {"serve", "notify", "wait"} => monitor /\ (manual => byAdmin)

\* The main goroutine arms the cron step by step and disarms it on its way down;
\* nobody else touches it, and who sets isManuallyStopped is an administrator.
LEMMA ArmedStep ==
    ASSUME ArmedInv, [Next]_vars
    PROVE  ArmedInv'
PROOF
  <1> USE DEF signals, settings, server, xray, jobs, ArmedInv
  <1>0. Restart => ~manual'
    BY DEF Restart
  <1>1. CASE Main
    <2>1. CASE StartCron \/ InitRouter \/ Listen
      BY <2>1 DEF StartCron, InitRouter, Listen
    <2>2. CASE StartTask
      BY <1>0, <2>2 DEF StartTask
    <2>3. CASE Serve \/ Notify \/ TakeSignal
      BY <2>3 DEF Serve, Notify, TakeSignal
    <2>4. CASE StopXray \/ Shutdown
      BY <2>4 DEF StopXray, Shutdown
    <2>5. QED
      BY <1>1, <2>1, <2>2, <2>3, <2>4 DEF Main
  <1>2. CASE StartFails \/ TimerFires \/ Terminate
    BY <1>2 DEF StartFails, TimerFires, Terminate, Deliver
  <1>3. ASSUME NEW h \in Handlers, Submit(h) \/ Handle(h) PROVE ArmedInv'
    <2>1. UNCHANGED <<main, cron, apply, monitor>>
      BY <1>3 DEF Submit, Handle, UpdateSetting, RestartPanel, RestartXrayService,
                  StopXrayService
    <2>2. UNCHANGED <<manual, byAdmin>> \/ ~manual' \/ byAdmin'
      BY <1>0, <1>3 DEF Submit, Handle, UpdateSetting, RestartPanel,
                        RestartXrayService, StopXrayService
    <2>3. QED
      BY <2>1, <2>2
  <1>4. CASE ApplyTick \/ ApplyRestart \/ SampleRunning \/ SampleManual \/ XrayExits
    <2>1. UNCHANGED <<main, cron, apply, monitor>>
      BY <1>4 DEF ApplyTick, ApplyRestart, SampleRunning, SampleManual, XrayExits
    <2>2. UNCHANGED <<manual, byAdmin>> \/ ~manual'
      BY <1>0, <1>4 DEF ApplyTick, ApplyRestart, SampleRunning, SampleManual, XrayExits
    <2>3. QED
      BY <2>1, <2>2
  <1>5. CASE UNCHANGED vars
    BY <1>5 DEF vars
  <1>6. QED
    BY <1>1, <1>2, <1>3, <1>4, <1>5 DEF Next

\* Whenever the panel waits for signals and Xray is down without an administrator's
\* stop, the monitor and the restart function of this server can bring it back.
THEOREM XrayCanReturn == Spec => []RecoveryArmed
PROOF
  <1>1. Init => ArmedInv
    BY DEF Init, ArmedInv
  <1>2. ArmedInv /\ [Next]_vars => ArmedInv'
    BY ArmedStep
  <1>3. ArmedInv => RecoveryArmed
    BY DEF ArmedInv, RecoveryArmed
  <1>4. QED
    BY <1>1, <1>2, <1>3, PTL DEF Spec

-----------------------------------------------------------------------------
(* One connection to the server.                                            *)

CONSTANTS Length, BufSize, HeaderEnd
VARIABLES speaks, sent, gone, taken, deadline, open, firstBuf, bufStart, got,
          serving      \* the goroutine of the connection

Conn == INSTANCE AutoHttpsConn WITH pc <- serving

InOrder == \A i \in 1..Len(got) : got[i] = i

\* How far TLS has got: nowhere before the probe is over or after a redirect, then
\* up to the mark in the buffer, then up to what was read from the socket.
Progress ==
    /\ serving \in {"accepted", "read first", "probe"} =>
          open /\ taken = 0 /\ firstBuf = 0 /\ bufStart = 0 /\ got = <<>>
    /\ serving = "read" /\ ~open => firstBuf = 0 /\ got = <<>>
    /\ serving = "read" /\ open =>
          IF firstBuf = 0 THEN Len(got) = taken
          ELSE Len(got) = bufStart /\ bufStart < firstBuf /\ firstBuf = taken

ConnInv == Conn!TypeOK /\ InOrder /\ Progress

\* Bytes handed over at the mark keep the order.
LEMMA HandInOrder ==
    ASSUME NEW first \in Nat, NEW n \in Nat, got \in Seq(Nat), InOrder,
           Len(got) = first, Conn!Hand(first, n)
    PROVE  got' \in Seq(Nat) /\ Len(got') = first + n /\ InOrder'
PROOF
  <1> DEFINE new == [i \in 1..n |-> first + i]
  <1>1. new \in Seq(Nat) /\ Len(new) = n
    OBVIOUS
  <1>2. got' = got \o new
    BY DEF Conn!Hand
  <1> HIDE DEF new
  <1>3. /\ got' \in Seq(Nat) /\ Len(got') = first + n
        /\ \A i \in 1..(first + n) :
              got'[i] = IF i <= first THEN got[i] ELSE new[i - first]
    <2>1. /\ got \o new \in Seq(Nat)
          /\ Len(got \o new) = Len(got) + Len(new)
          /\ \A i \in 1..(Len(got) + Len(new)) :
                (got \o new)[i] = IF i <= Len(got) THEN got[i] ELSE new[i - Len(got)]
      BY <1>1, ConcatProperties
    <2>2. QED
      BY <1>1, <1>2, <2>1
  <1>4. ASSUME NEW i \in 1..(first + n) PROVE got'[i] = i
    <2>1. CASE i <= first
      <3>1. i \in 1..Len(got) /\ got'[i] = got[i]
        BY <1>3, <2>1
      <3>2. QED
        BY <3>1 DEF InOrder
    <2>2. CASE i > first
      <3>1. i - first \in 1..n
        BY <2>2
      <3>2. got'[i] = new[i - first]
        BY <1>3, <2>2
      <3>3. new[i - first] = first + (i - first)
        BY <3>1 DEF new
      <3>4. QED
        BY <3>2, <3>3
    <2>3. QED
      BY <2>1, <2>2
  <1>5. QED
    BY <1>3, <1>4 DEF InOrder

\* Every step keeps the invariant.
LEMMA ConnStep ==
    ASSUME Length \in Nat, ConnInv, [Conn!Next]_(Conn!vars) PROVE ConnInv'
PROOF
  <1> USE DEF Conn!client, Conn!socket, Conn!buffer
  <1>0. ConnInv /\ Conn!TypeOK /\ InOrder /\ Progress
    BY DEF ConnInv
  <1>00. sent \in Nat /\ taken \in Nat
    <2>1. sent \in 0..Length /\ taken \in 0..sent
      BY <1>0 DEF Conn!TypeOK
    <2>2. QED
      BY <2>1
  <1>1. CASE Conn!Send
    <2>1. UNCHANGED <<speaks, gone, taken, deadline, open, firstBuf, bufStart, got, serving>>
      BY <1>1 DEF Conn!Send
    <2>2. sent' \in 0..Length /\ taken' \in 0..sent'
      <3>1. sent \in 0..Length /\ taken \in 0..sent
        BY <1>0 DEF Conn!TypeOK
      <3>2. sent < Length /\ sent' = sent + 1 /\ taken' = taken
        BY <1>1, <2>1 DEF Conn!Send
      <3>3. sent \in Nat /\ taken \in Nat
        BY <3>1
      <3>4. QED
        BY <3>1, <3>2, <3>3
    <2>3. QED
      BY <1>0, <2>1, <2>2 DEF ConnInv, Conn!TypeOK, InOrder, Progress
  <1>2. CASE Conn!HangUp
    BY <1>0, <1>2 DEF Conn!HangUp, ConnInv, Conn!TypeOK, InOrder, Progress
  <1>3. CASE Conn!DeadlinePasses
    BY <1>0, <1>3 DEF Conn!DeadlinePasses, ConnInv, Conn!TypeOK, InOrder, Progress
  <1>4. CASE Conn!Serve
    BY <1>0, <1>4 DEF Conn!Serve, ConnInv, Conn!TypeOK, InOrder, Progress
  <1>5. CASE Conn!SetProbeDeadline
    BY <1>0, <1>5 DEF Conn!SetProbeDeadline, ConnInv, Conn!TypeOK, InOrder, Progress
  <1>6. CASE Conn!ProbeReads
    <2>1. PICK n \in 1..BufSize :
            /\ open /\ taken + n <= sent /\ taken' = taken + n /\ firstBuf' = n
      BY <1>6 DEF Conn!ProbeReads, Conn!Reads
    <2>2. /\ serving = "probe" /\ serving' = "read" /\ deadline' = "none"
          /\ UNCHANGED <<speaks, sent, gone, open, bufStart, got>>
      BY <1>6 DEF Conn!ProbeReads
    <2>3. taken = 0 /\ bufStart = 0 /\ got = <<>> /\ Len(got) = 0
      BY <1>0, <2>2 DEF Progress
    <2>4. taken' = n /\ n \in 1..sent
      BY <1>00, <2>1, <2>3
    <2>5. Conn!TypeOK'
      BY <1>0, <2>1, <2>2, <2>3, <2>4 DEF Conn!TypeOK
    <2>6. Progress'
      BY <2>1, <2>2, <2>3, <2>4 DEF Progress
    <2>7. InOrder'
      BY <1>0, <2>2 DEF InOrder
    <2>8. QED
      BY <2>5, <2>6, <2>7 DEF ConnInv
  <1>7. CASE Conn!Redirect
    <2>1. PICK n \in 1..BufSize : taken + n <= sent /\ taken' = taken + n
      BY <1>7 DEF Conn!Redirect, Conn!Reads
    <2>2. /\ serving = "probe" /\ serving' = "read" /\ open' = FALSE /\ deadline' = "none"
          /\ UNCHANGED <<speaks, sent, gone, firstBuf, bufStart, got>>
      BY <1>7 DEF Conn!Redirect
    <2>3. taken = 0 /\ firstBuf = 0 /\ bufStart = 0 /\ got = <<>>
      BY <1>0, <2>2 DEF Progress
    <2>4. taken' = n /\ n \in 1..sent
      BY <1>00, <2>1, <2>3
    <2>5. Conn!TypeOK'
      <3>1. firstBuf' \in 0..taken' /\ bufStart' \in 0..taken' /\ taken' \in 0..sent'
        BY <1>00, <2>2, <2>3, <2>4
      <3>2. QED
        BY <1>0, <2>2, <3>1 DEF Conn!TypeOK
    <2>6. Progress' /\ InOrder'
      BY <1>0, <2>2, <2>3 DEF Progress, InOrder
    <2>7. QED
      BY <2>5, <2>6 DEF ConnInv
  <1>8. CASE Conn!ProbeFails
    BY <1>0, <1>8 DEF Conn!ProbeFails, ConnInv, Conn!TypeOK, InOrder, Progress
  <1>9. CASE Conn!Replay
    <2>1. PICK n \in 1..BufSize :
            /\ bufStart + n <= firstBuf /\ Conn!Hand(bufStart, n)
            /\ bufStart' = bufStart + n
            /\ firstBuf' = IF bufStart + n = firstBuf THEN 0 ELSE firstBuf
      BY <1>9 DEF Conn!Replay
    <2>2. /\ serving = "read" /\ open /\ Len(got) = bufStart /\ firstBuf = taken
          /\ bufStart \in Nat /\ n \in Nat
      BY <1>0, <1>9, <2>1 DEF Conn!Replay, Progress, Conn!TypeOK
    <2>3. got' \in Seq(Nat) /\ Len(got') = bufStart + n /\ InOrder'
      BY <1>0, <2>1, <2>2, HandInOrder DEF Conn!TypeOK
    <2>4. QED
      BY <1>0, <1>9, <2>1, <2>2, <2>3
         DEF Conn!Replay, ConnInv, Conn!TypeOK, Progress
  <1>10. CASE Conn!PassOn
    <2>1. PICK n \in 1..BufSize : Conn!Reads(n) /\ Conn!Hand(taken, n)
      BY <1>10 DEF Conn!PassOn
    <2>2. serving = "read" /\ open /\ Len(got) = taken /\ taken \in Nat /\ n \in Nat
      BY <1>0, <1>10, <2>1 DEF Conn!PassOn, Conn!Reads, Progress, Conn!TypeOK
    <2>3. got' \in Seq(Nat) /\ Len(got') = taken + n /\ InOrder'
      BY <1>0, <2>1, <2>2, HandInOrder DEF Conn!TypeOK
    <2>4. QED
      BY <1>0, <1>10, <2>1, <2>2, <2>3
         DEF Conn!PassOn, Conn!Reads, ConnInv, Conn!TypeOK, Progress
  <1>11. CASE Conn!GiveUp
    BY <1>0, <1>11 DEF Conn!GiveUp, ConnInv, Conn!TypeOK, InOrder, Progress
  <1>12. CASE Conn!Establish
    BY <1>0, <1>12 DEF Conn!Establish, ConnInv, Conn!TypeOK, InOrder, Progress
  <1>13. CASE UNCHANGED Conn!vars
    BY <1>0, <1>13 DEF ConnInv, Conn!TypeOK, InOrder, Progress, Conn!vars
  <1>14. QED
    BY <1>1, <1>2, <1>3, <1>4, <1>5, <1>6, <1>7, <1>8, <1>9, <1>10, <1>11, <1>12,
       <1>13
       DEF Conn!Next, Conn!Panel

\* The probe is transparent to TLS: bytes arrive in order, none lost and none
\* twice, and nothing of a redirected request arrives.
THEOREM Transparent == ASSUME Length \in Nat PROVE Conn!Spec => []Conn!Faithful
PROOF
  <1>1. Conn!Init => ConnInv
    <2> SUFFICES ASSUME Conn!Init PROVE ConnInv
      OBVIOUS
    <2>1. got \in Seq(Nat) /\ Len(got) = 0
      BY DEF Conn!Init
    <2>2. Conn!TypeOK
      <3>1. /\ speaks \in {"http", "tls"} /\ gone = FALSE /\ open = TRUE
            /\ deadline = "none" /\ serving = "accepted"
            /\ sent = 0 /\ taken = 0 /\ firstBuf = 0 /\ bufStart = 0
        BY DEF Conn!Init
      <3>2. sent \in 0..Length /\ taken \in 0..sent
        BY <3>1
      <3>3. firstBuf \in 0..taken /\ bufStart \in 0..taken
        BY <3>1
      <3>4. QED
        BY <2>1, <3>1, <3>2, <3>3 DEF Conn!TypeOK
    <2>3. InOrder
      BY <2>1 DEF InOrder
    <2>4. Progress
      BY DEF Conn!Init, Progress
    <2>5. QED
      BY <2>2, <2>3, <2>4 DEF ConnInv
  <1>2. ConnInv /\ [Conn!Next]_(Conn!vars) => ConnInv'
    BY ConnStep
  <1>3. ConnInv => Conn!Faithful
    BY DEF ConnInv, InOrder, Progress, Conn!Faithful
  <1>4. QED
    BY <1>1, <1>2, <1>3, PTL DEF Conn!Spec

-----------------------------------------------------------------------------
(* The WARP account *)

CONSTANTS Job, MaxDevices
VARIABLES creds, template, interval, last, dev, hold, post, differ,
          flagged, loaded,         \* isNeedXrayRestart and the outbound Xray loaded
          doing, asks, failures    \* its threads, and the counters of its bounds

Warp == INSTANCE WarpRotation WITH
            need <- flagged, running <- loaded, pc <- doing, ops <- asks,
            faults <- failures

\* Types of what all threads share, and of what each has.
SharedTyped ==
    /\ creds \in Warp!Maybe /\ template \in Warp!Outbound /\ interval \in {0, 1}
    /\ last \in {"zero", "recent", "old"}
    /\ flagged \in BOOLEAN /\ loaded \in Warp!Outbound
    /\ asks \in 0..MaxOps /\ failures \in 0..MaxFaults

Labels == Warp!Rotating \cup
    {"idle", "change", "flag", "stamp", "jobLast",
     "register", "storeReg", "license", "put",
     "turnOff", "turnOn", "setLast", "del", "delInterval", "delLast",
     "readOld", "saveTemplate", "saveInterval", "answer"}

\* A rotation that goes on has a device to go on with, a license its account.
Equipped(t) ==
    /\ doing[t] \in Warp!Rotating \ {"reRegister"} => dev[t] # Warp!NoDevice
    /\ doing[t] \in {"put", "rePut"} => hold[t] # Warp!NoDevice

ThreadsTyped ==
    /\ doing \in [Warp!Threads -> Labels]
    /\ dev \in [Warp!Threads -> Warp!Maybe] /\ hold \in [Warp!Threads -> Warp!Maybe]
    /\ post \in [Handlers -> Warp!Form] /\ differ \in [Handlers -> BOOLEAN]
    /\ \A t \in Warp!Threads : Equipped(t)

\* The two parts are the type invariant.
LEMMA WarpParts == Warp!TypeOK <=> SharedTyped /\ ThreadsTyped
PROOF
  BY DEF Warp!TypeOK, SharedTyped, ThreadsTyped, Labels, Equipped

\* The account's identities: no device is a placeholder, a mixture is an outbound.
LEMMA DeviceNames ==
    ASSUME Warp!WarpAssumption
    PROVE  /\ Warp!NoDevice = 0 /\ Warp!NoDevice \in Warp!Maybe
           /\ Warp!Maybe \subseteq Warp!Outbound /\ Warp!Mixed \in Warp!Outbound
           /\ \A d \in Warp!Devices : d \in Warp!Maybe /\ d # Warp!NoDevice
           /\ 1 \in Warp!Devices
           /\ Handlers \subseteq Warp!Threads /\ Job \in Warp!Threads
           /\ Warp!NoForm \in Warp!Form
PROOF
  BY DEF Warp!WarpAssumption, Warp!NoDevice, Warp!Maybe, Warp!Outbound, Warp!Mixed,
         Warp!Devices, Warp!Threads, Warp!NoForm, Warp!Form

\* A device that is registered is one nobody refers to.
LEMMA NewDeviceFree ==
    ASSUME Warp!WarpAssumption, Warp!Devices \ Warp!InUse # {}
    PROVE  Warp!NewDevice \in Warp!Devices \ Warp!InUse
PROOF
  <1> DEFINE Free == Warp!Devices \ Warp!InUse
  <1>1. Free \subseteq Nat
    BY DEF Warp!WarpAssumption, Warp!Devices
  <1>2. IsWellFoundedOn(OpToRel(<, Nat), Nat)
    BY NatLessThanWellFounded
  <1> HIDE DEF Free
  <1>3. PICK d \in Free : \A e \in Free : ~(<<e, d>> \in OpToRel(<, Nat))
    <2>1. Free # {}
      BY DEF Free
    <2>2. QED
      BY <1>1, <1>2, <2>1, WFMin
  <1>4. \A e \in Free : d <= e
    <2> TAKE e \in Free
    <2>1. d \in Nat /\ e \in Nat
      BY <1>1
    <2>2. ~(e < d)
      BY <1>3, <2>1 DEF OpToRel
    <2>3. QED
      BY <2>1, <2>2
  <1>5. \E x \in Free : \A e \in Free : x <= e
    BY <1>4
  <1>6. QED
    BY <1>5 DEF Warp!NewDevice, Free

\* A call that returns has nothing in hand.
LEMMA ReturnsTyped ==
    ASSUME Warp!WarpAssumption, ThreadsTyped, NEW t \in Warp!Threads, Warp!Return(t)
    PROVE  ThreadsTyped'
PROOF
  BY DeviceNames
     DEF ThreadsTyped, Equipped, Labels, Warp!Rotating, Warp!Return, Warp!Goto

\* A save that ends has nothing in hand either.
LEMMA SaveEndsTyped ==
    ASSUME Warp!WarpAssumption, ThreadsTyped, NEW h \in Handlers, Warp!EndSave(h)
    PROVE  ThreadsTyped'
PROOF
  BY DeviceNames
     DEF ThreadsTyped, Equipped, Labels, Warp!Rotating, Warp!EndSave, Warp!Goto

\* A thread that only moves on keeps what it has, if that is enough there.
LEMMA MovesTyped ==
    ASSUME Warp!WarpAssumption, ThreadsTyped, NEW t \in Warp!Threads,
           NEW label \in Labels, Warp!Goto(t, label), UNCHANGED Warp!local,
           label \in Warp!Rotating \ {"reRegister"} => dev[t] # Warp!NoDevice,
           label \in {"put", "rePut"} => hold[t] # Warp!NoDevice
    PROVE  ThreadsTyped'
PROOF
  BY DEF ThreadsTyped, Equipped, Warp!Goto, Warp!local

\* The settings page and the requests of the dialog.
LEMMA PagesTyped ==
    ASSUME Warp!WarpAssumption, SharedTyped, ThreadsTyped, NEW h \in Handlers,
           \/ Warp!SubmitSettings(h) \/ Warp!Warp(h) \/ Warp!SaveFails(h)
           \/ Warp!ReadOld(h) \/ Warp!SaveTemplate(h) \/ Warp!SaveInterval(h)
           \/ Warp!Answer(h)
    PROVE  SharedTyped' /\ ThreadsTyped'
PROOF
  <1> USE DEF Warp!settings, Warp!xray
  <1>0. h \in Warp!Threads /\ post[h] \in Warp!Form
    BY DeviceNames DEF ThreadsTyped
  <1>1. CASE Warp!SubmitSettings(h)
    <2>1. PICK o \in Warp!InUse \cup {Warp!NoDevice, Warp!Mixed}, i \in {0, 1} :
             post' = [post EXCEPT ![h] = [warp |-> o, interval |-> i]]
      BY <1>1 DEF Warp!SubmitSettings
    <2>2. o \in Warp!Outbound
      <3>1. /\ {creds, template, loaded} \subseteq Warp!Outbound
            /\ \A t \in Warp!Threads : {dev[t], hold[t]} \subseteq Warp!Outbound
            /\ \A g \in Handlers : post[g].warp \in Warp!Outbound
        BY DeviceNames DEF SharedTyped, ThreadsTyped, Warp!Form
      <3>2. UNION {{dev[t], hold[t]} : t \in Warp!Threads} \subseteq Warp!Outbound
        BY <3>1
      <3>3. {post[g].warp : g \in Handlers} \subseteq Warp!Outbound
        BY <3>1
      <3>4. Warp!InUse \subseteq Warp!Outbound
        BY <3>1, <3>2, <3>3 DEF Warp!InUse
      <3>5. QED
        BY <2>1, <3>4, DeviceNames
    <2>3. post' \in [Handlers -> Warp!Form]
      BY <2>1, <2>2 DEF ThreadsTyped, Warp!Form
    <2>4. ThreadsTyped'
      BY <1>0, <1>1, <2>3
         DEF ThreadsTyped, Equipped, Labels, Warp!Rotating, Warp!SubmitSettings,
             Warp!Goto
    <2>5. SharedTyped'
      BY <1>1 DEF Warp!WarpAssumption, SharedTyped, Warp!SubmitSettings
    <2>6. QED
      BY <2>4, <2>5
  <1>2. CASE Warp!Warp(h)
    <2>1. PICK action \in {"register", "change", "license", "turnOff", "turnOn", "del"} :
             Warp!Goto(h, action)
      BY <1>2 DEF Warp!Warp
    <2>2. UNCHANGED Warp!local
      BY <1>2 DEF Warp!Warp
    <2>3. ThreadsTyped'
      BY <1>0, <2>1, <2>2, MovesTyped DEF Labels, Warp!Rotating
    <2>4. SharedTyped'
      BY <1>2 DEF Warp!WarpAssumption, SharedTyped, Warp!Warp
    <2>5. QED
      BY <2>3, <2>4
  <1>3. CASE Warp!SaveFails(h)
    <2>1. ThreadsTyped'
      BY <1>3, SaveEndsTyped DEF Warp!SaveFails
    <2>2. SharedTyped'
      BY <1>0, <1>3
         DEF Warp!WarpAssumption, SharedTyped, Warp!SaveFails, Warp!Fault, Warp!Form
    <2>3. QED
      BY <2>1, <2>2
  <1>4. CASE Warp!ReadOld(h)
    <2>1. differ' \in [Handlers -> BOOLEAN]
      BY <1>4 DEF Warp!ReadOld, ThreadsTyped
    <2>2. ThreadsTyped'
      BY <1>0, <1>4, <2>1
         DEF ThreadsTyped, Equipped, Labels, Warp!Rotating, Warp!ReadOld, Warp!Goto
    <2>3. SharedTyped'
      BY <1>4 DEF Warp!WarpAssumption, SharedTyped, Warp!ReadOld, Warp!Fault
    <2>4. QED
      BY <2>2, <2>3
  <1>5. CASE Warp!SaveTemplate(h) \/ Warp!SaveInterval(h)
    <2>1. /\ UNCHANGED Warp!local
          /\ Warp!Goto(h, "saveInterval") \/ Warp!Goto(h, "answer")
      BY <1>5 DEF Warp!SaveTemplate, Warp!SaveInterval
    <2>2. ThreadsTyped'
      BY <1>0, <2>1, MovesTyped DEF Labels, Warp!Rotating
    <2>3. SharedTyped'
      BY <1>0, <1>5 DEF SharedTyped, Warp!SaveTemplate, Warp!SaveInterval, Warp!Form
    <2>4. QED
      BY <2>2, <2>3
  <1>6. CASE Warp!Answer(h)
    <2>1. ThreadsTyped'
      BY <1>6, SaveEndsTyped DEF Warp!Answer
    <2>2. SharedTyped'
      BY <1>6 DEF SharedTyped, ThreadsTyped, Warp!Answer
    <2>3. QED
      BY <2>1, <2>2
  <1>7. QED
    BY <1>1, <1>2, <1>3, <1>4, <1>5, <1>6

\* A rotation or a registration, of the job or of a handler.
LEMMA RotationTyped ==
    ASSUME Warp!WarpAssumption, SharedTyped, ThreadsTyped, NEW t \in Warp!Threads,
           Warp!Rotate(t) \/ Warp!StoreReg(t) \/ Warp!LicenseFails(t)
    PROVE  SharedTyped' /\ ThreadsTyped'
PROOF
  <1> USE DEF Warp!settings, Warp!xray
  <1>0. /\ Equipped(t) /\ dev[t] \in Warp!Maybe /\ hold[t] \in Warp!Maybe
        /\ Warp!AfterRotation(t) \in {"flag", "stamp"}
    BY DEF ThreadsTyped, Warp!AfterRotation
  <1>00. /\ {"flag", "stamp", "reRegister", "relicense", "readTemplate",
             "writeTemplate", "idle"} \subseteq Labels
    BY DEF Labels, Warp!Rotating
  <1>1. CASE Warp!Register(t)
    <2>1. Warp!NewDevice \in Warp!Maybe /\ Warp!NewDevice # Warp!NoDevice
      BY <1>1, NewDeviceFree, DeviceNames DEF Warp!Register
    <2>2. ThreadsTyped'
      BY <1>1, <2>1
         DEF ThreadsTyped, Equipped, Labels, Warp!Rotating, Warp!Register, Warp!Goto
    <2>3. SharedTyped'
      BY <1>1 DEF SharedTyped, Warp!Register
    <2>4. QED
      BY <2>2, <2>3
  <1>2. CASE Warp!StoreReg(t)
    BY <1>0, <1>2, ReturnsTyped DEF SharedTyped, Warp!StoreReg
  <1>3. CASE Warp!ChangeWarpIP(t)
    <2>1. SharedTyped'
      BY <1>3 DEF SharedTyped, Warp!ChangeWarpIP
    <2>2. \/ Warp!Goto(t, "reRegister") /\ UNCHANGED Warp!local
          \/ Warp!Return(t)
      BY <1>3 DEF Warp!ChangeWarpIP
    <2>3. QED
      BY <1>00, <2>1, <2>2, MovesTyped, ReturnsTyped
  <1>4. CASE Warp!StoreNew(t)
    <2>1. SharedTyped'
      BY <1>0, <1>4 DEF SharedTyped, Warp!StoreNew
    <2>2. dev[t] # Warp!NoDevice
      BY <1>0, <1>4 DEF Equipped, Warp!StoreNew, Warp!Rotating
    <2>3. Warp!Goto(t, "readTemplate") /\ UNCHANGED Warp!local
      BY <1>4 DEF Warp!StoreNew
    <2>4. QED
      BY <1>00, <2>1, <2>2, <2>3, MovesTyped
  <1>5. CASE Warp!ReadTemplate(t)
    <2>1. SharedTyped'
      BY <1>5 DEF SharedTyped, Warp!ReadTemplate
    <2>2. dev[t] # Warp!NoDevice
      BY <1>0, <1>5 DEF Equipped, Warp!ReadTemplate, Warp!Rotating
    <2>3. \/ Warp!Goto(t, "writeTemplate") /\ UNCHANGED Warp!local
          \/ Warp!Return(t)
      BY <1>5 DEF Warp!ReadTemplate
    <2>4. QED
      BY <1>00, <2>1, <2>2, <2>3, MovesTyped, ReturnsTyped
  <1>6. CASE Warp!WriteTemplate(t)
    <2>1. SharedTyped'
      BY <1>0, <1>6, DeviceNames DEF SharedTyped, Warp!WriteTemplate
    <2>2. dev[t] # Warp!NoDevice
      BY <1>0, <1>6 DEF Equipped, Warp!WriteTemplate, Warp!Rotating
    <2>3. /\ UNCHANGED Warp!local
          /\ \E label \in {"relicense", "flag", "stamp"} : Warp!Goto(t, label)
      BY <1>0, <1>6 DEF Warp!WriteTemplate
    <2>4. QED
      BY <1>00, <2>1, <2>2, <2>3, MovesTyped
  <1>7. CASE Warp!LoadLicense(t)
    <2>1. SharedTyped'
      BY <1>7 DEF SharedTyped, Warp!LoadLicense
    <2>2. doing[t] = "relicense" => dev[t] # Warp!NoDevice
      BY <1>0 DEF Equipped, Warp!Rotating
    <2>3. CASE creds # Warp!NoDevice
      <3>1. /\ hold' = [hold EXCEPT ![t] = creds] /\ UNCHANGED <<dev, post, differ>>
            /\ doing' = [doing EXCEPT ![t] = IF doing[t] = "license" THEN "put" ELSE "rePut"]
            /\ doing[t] \in {"license", "relicense"}
        BY <1>7, <2>3 DEF Warp!LoadLicense, Warp!Goto
      <3>2. ThreadsTyped'
        BY <2>2, <2>3, <3>1
           DEF ThreadsTyped, SharedTyped, Equipped, Labels, Warp!Rotating
      <3>3. QED
        BY <2>1, <3>2
    <2>4. CASE creds = Warp!NoDevice
      <3>1. \/ /\ \E label \in {"flag", "stamp"} : Warp!Goto(t, label)
               /\ UNCHANGED Warp!local
            \/ Warp!Return(t)
        BY <1>0, <1>7, <2>4 DEF Warp!LoadLicense
      <3>2. QED
        BY <1>00, <2>1, <3>1, MovesTyped, ReturnsTyped DEF Warp!Rotating
    <2>5. QED
      BY <2>3, <2>4
  <1>8. CASE Warp!StoreLicense(t)
    <2>1. SharedTyped'
      BY <1>0, <1>8 DEF SharedTyped, Warp!StoreLicense
    <2>2. CASE doing[t] = "put"
      BY <1>8, <2>1, <2>2, ReturnsTyped DEF Warp!StoreLicense
    <2>3. CASE doing[t] = "rePut"
      <3>1. /\ hold' = [hold EXCEPT ![t] = Warp!NoDevice] /\ UNCHANGED <<dev, post, differ>>
            /\ doing' = [doing EXCEPT ![t] = Warp!AfterRotation(t)]
        BY <1>8, <2>3 DEF Warp!StoreLicense, Warp!Goto
      <3>2. ThreadsTyped'
        BY <1>0, <1>00, <3>1, DeviceNames DEF ThreadsTyped, Equipped, Warp!Rotating
      <3>3. QED
        BY <2>1, <3>2
    <2>4. QED
      BY <1>8, <2>2, <2>3 DEF Warp!StoreLicense
  <1>9. CASE Warp!SetNeedRestart(t)
    <2>1. SharedTyped'
      BY <1>9 DEF SharedTyped, Warp!SetNeedRestart
    <2>2. Warp!Return(t) \/ (Warp!Goto(t, "stamp") /\ UNCHANGED Warp!local)
      BY <1>9 DEF Warp!SetNeedRestart
    <2>3. QED
      BY <1>00, <2>1, <2>2, MovesTyped, ReturnsTyped DEF Warp!Rotating
  <1>10. CASE Warp!Stamp(t)
    <2>1. SharedTyped'
      BY <1>10 DEF Warp!WarpAssumption, SharedTyped, Warp!Stamp, Warp!Fault
    <2>2. Warp!Return(t) \/ (Warp!Goto(t, "flag") /\ UNCHANGED Warp!local)
      BY <1>10 DEF Warp!Stamp
    <2>3. QED
      BY <1>00, <2>1, <2>2, MovesTyped, ReturnsTyped DEF Warp!Rotating
  <1>11. CASE Warp!LicenseFails(t)
    <2>1. SharedTyped'
      BY <1>11 DEF Warp!WarpAssumption, SharedTyped, Warp!LicenseFails, Warp!Fault
    <2>2. /\ hold' = [hold EXCEPT ![t] = Warp!NoDevice] /\ UNCHANGED <<dev, post, differ>>
          /\ doing' = [doing EXCEPT ![t] = Warp!AfterRotation(t)]
      BY <1>11 DEF Warp!LicenseFails, Warp!Goto
    <2>3. ThreadsTyped'
      BY <1>0, <1>00, <2>2, DeviceNames DEF ThreadsTyped, Equipped, Warp!Rotating
    <2>4. QED
      BY <2>1, <2>3
  <1>12. QED
    BY <1>1, <1>2, <1>3, <1>4, <1>5, <1>6, <1>7, <1>8, <1>9, <1>10, <1>11
       DEF Warp!Rotate

\* The period, the removal of the account, a failing call.
LEMMA DialogTyped ==
    ASSUME Warp!WarpAssumption, SharedTyped, ThreadsTyped, NEW t \in Warp!Threads,
           \/ Warp!TurnOff(t) \/ Warp!TurnOn(t) \/ Warp!StampInterval(t)
           \/ Warp!DelWarpData(t) \/ Warp!DelInterval(t) \/ Warp!DelLast(t)
           \/ Warp!Fails(t)
    PROVE  SharedTyped' /\ ThreadsTyped'
PROOF
  <1> USE DEF Warp!settings, Warp!xray
  <1>1. SharedTyped'
    BY DeviceNames DEF Warp!WarpAssumption, SharedTyped, Warp!TurnOff, Warp!TurnOn,
       Warp!StampInterval, Warp!DelWarpData, Warp!DelInterval, Warp!DelLast, Warp!Fails,
       Warp!Fault
  <1>2. \/ Warp!Return(t)
        \/ /\ \E label \in {"setLast", "delInterval", "delLast"} : Warp!Goto(t, label)
           /\ UNCHANGED Warp!local
    BY DEF Warp!TurnOff, Warp!TurnOn, Warp!StampInterval, Warp!DelWarpData,
           Warp!DelInterval, Warp!DelLast, Warp!Fails
  <1>3. ThreadsTyped'
    BY <1>2, ReturnsTyped, MovesTyped DEF Labels, Warp!Rotating
  <1>4. QED
    BY <1>1, <1>3

\* The job's own steps, and those of the panel.
LEMMA PanelTyped ==
    ASSUME Warp!WarpAssumption, SharedTyped, ThreadsTyped,
           \/ Warp!JobStart \/ Warp!JobCheck
           \/ Warp!IntervalPasses \/ Warp!RestartXray \/ Warp!PanelRestarts
    PROVE  SharedTyped' /\ ThreadsTyped'
PROOF
  <1> USE DEF Warp!settings, Warp!xray
  <1>1. CASE Warp!JobStart \/ Warp!JobCheck
    <2>1. SharedTyped'
      BY <1>1
         DEF Warp!WarpAssumption, SharedTyped, Warp!JobStart, Warp!JobCheck, Warp!Fault
    <2>2. /\ \E label \in {"jobLast", "change", "idle"} : Warp!Goto(Job, label)
          /\ UNCHANGED Warp!local
      BY <1>1 DEF Warp!JobStart, Warp!JobCheck
    <2>3. QED
      BY <2>1, <2>2, MovesTyped, DeviceNames DEF Labels, Warp!Rotating
  <1>2. CASE Warp!IntervalPasses \/ Warp!RestartXray
    <2>1. SharedTyped'
      BY <1>2 DEF SharedTyped, Warp!IntervalPasses, Warp!RestartXray
    <2>2. UNCHANGED <<doing, Warp!local>>
      BY <1>2 DEF Warp!IntervalPasses, Warp!RestartXray
    <2>3. QED
      BY <2>1, <2>2 DEF ThreadsTyped, Equipped, Warp!local
  <1>3. CASE Warp!PanelRestarts
    <2>1. SharedTyped'
      <3>1. /\ flagged' = FALSE /\ loaded' = template
            /\ failures < MaxFaults /\ failures' = failures + 1
            /\ UNCHANGED <<creds, template, interval, last, asks>>
        BY <1>3 DEF Warp!PanelRestarts, Warp!Fault
      <3>2. failures' \in 0..MaxFaults
        <4>1. failures \in 0..MaxFaults /\ MaxFaults \in Nat
          BY DEF Warp!WarpAssumption, SharedTyped
        <4>2. QED
          BY <3>1, <4>1
      <3>3. QED
        BY <3>1, <3>2 DEF SharedTyped
    <2>2. ThreadsTyped'
      BY <1>3, DeviceNames
         DEF ThreadsTyped, Equipped, Labels, Warp!Rotating, Warp!PanelRestarts
    <2>3. QED
      BY <2>1, <2>2
  <1>4. QED
    BY <1>1, <1>2, <1>3

\* Every variable of the WARP account keeps its type for any handlers, devices
\* and bounds, and a rotation that goes on always has the device it registered.
THEOREM WarpTypeCorrect ==
    ASSUME Warp!WarpAssumption PROVE Warp!Spec => []Warp!TypeOK
PROOF
  <1>1. Warp!Init => SharedTyped /\ ThreadsTyped
    <2> SUFFICES ASSUME Warp!Init PROVE SharedTyped /\ ThreadsTyped
      OBVIOUS
    <2>1. SharedTyped
      <3>1. /\ creds \in {0, 1} /\ template = creds /\ loaded = template
            /\ interval \in {0, 1} /\ last \in {"zero", "recent"}
            /\ flagged = FALSE /\ asks = 0 /\ failures = 0
        BY DeviceNames DEF Warp!Init
      <3>2. 0 \in Warp!Maybe /\ 1 \in Warp!Maybe
        BY DeviceNames
      <3>3. 0 \in 0..MaxOps /\ 0 \in 0..MaxFaults
        BY DEF Warp!WarpAssumption
      <3>4. QED
        BY <3>1, <3>2, <3>3, DeviceNames DEF SharedTyped
    <2>2. ThreadsTyped
      BY DeviceNames DEF Warp!Init, ThreadsTyped, Equipped, Labels, Warp!Rotating
    <2>3. QED
      BY <2>1, <2>2
  <1>2. SharedTyped /\ ThreadsTyped /\ [Warp!Next]_(Warp!vars)
           => SharedTyped' /\ ThreadsTyped'
    <2> SUFFICES ASSUME SharedTyped, ThreadsTyped, [Warp!Next]_(Warp!vars)
                 PROVE  SharedTyped' /\ ThreadsTyped'
      OBVIOUS
    <2>1. CASE Warp!Next
      <3>1. \A h \in Handlers : h \in Warp!Threads
        BY DeviceNames
      <3>2. Job \in Warp!Threads
        BY DeviceNames
      <3>3. QED
        BY <2>1, <3>1, <3>2, PagesTyped, RotationTyped, DialogTyped, PanelTyped
           DEF Warp!Next, Warp!Handle, Warp!RunJob
    <2>2. CASE UNCHANGED Warp!vars
      BY <2>2 DEF SharedTyped, ThreadsTyped, Equipped, Warp!vars, Warp!settings,
                  Warp!xray, Warp!local
    <2>3. QED
      BY <2>1, <2>2
  <1>3. QED
    BY <1>1, <1>2, WarpParts, PTL DEF Warp!Spec
=============================================================================
