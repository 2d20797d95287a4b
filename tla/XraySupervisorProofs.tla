------------------------ MODULE XraySupervisorProofs ------------------------
(***************************************************************************)
(* Proofs about XraySupervisor for every set of threads, configurations    *)
(* and process slots: the type invariant, the safety invariants and the    *)
(* action property that TLC checks on small instances, and that it         *)
(* implements XrayService.                                                 *)
(***************************************************************************)
EXTENDS XraySupervisor, TLAPS

(* The inductive invariant, part by part. *)

\* Exactly the thread inside RestartXray or StopXray holds the mutex.
MutexInv ==
    \A t \in Threads : lock = t <=> pc[t] \in Restarting \cup {"kill"}

\* Locals have a value while they are in use, and a job is never forced.
LocalInv ==
    /\ \A h \in Handlers : pc[h] \in {"store", "storeSame"} => form[h] \in Templates
    /\ \A t \in Threads :
          pc[t] \in {"inbounds", "decide", "start", "started"} => conf \in Config
    /\ \A j \in ApplyJobs : pc[j] # "idle" => op[j] = "apply"

ManualInv == \A t \in Threads : pc[t] \in Restarting => ~manual

\* The current Process is guarded, and runs or is about to run its own config.
ProcessInv ==
    /\ p # Nil => child[p] \notin {"unguarded", "leaked"}
    /\ p # Nil /\ child[p] = "launched" => file = cfg
    /\ p # Nil /\ child[p] = "alive" => loaded = cfg
    /\ \A t \in Threads :
          /\ pc[t] \in {"start", "started"} => p # Nil /\ cfg = conf
          /\ pc[t] = "start" => child[p] = "none"

\* What a restart has read is what is saved, or somebody will look again.
ReadInv ==
    \A t \in Threads :
        /\ pc[t] = "inbounds" /\ conf.tpl # db.tpl => Pending
        /\ pc[t] \in {"decide", "start", "started"} /\ conf # db => Pending

\* NoLostUpdate, from the moment Start has been called.
UpdateInv ==
    p # Nil /\ child[p] \in {"launched", "alive"} /\ cfg # db => Pending \/ Applying

IndInv == /\ TypeOK /\ MutexInv /\ LocalInv /\ ManualInv
          /\ ProcessInv /\ ReadInv /\ UpdateInv

\* With prompt forks only the current Process has a live child, a restart
\* finds it forked, and a completed stop leaves it dead.
PromptInv ==
    LateFork = FALSE =>
        /\ \A s \in Slots : child[s] \notin {"unguarded", "leaked"}
        /\ \A s \in Slots : child[s] \in {"launched", "alive"} => s = p
        /\ p # Nil /\ child[p] = "launched" => \E t \in Threads : pc[t] = "started"
        /\ manual /\ lock = Nil /\ p # Nil => child[p] \in {"none", "dead"}

\* Every step of the system preserves the type invariant.
LEMMA TypeStep ==
    ASSUME TypeOK, LocalInv, [Next]_vars PROVE TypeOK'
PROOF
  <1>0. TypeOK /\ LocalInv /\ [Next]_vars
    OBVIOUS
  <1>1. ASSUME NEW h \in Handlers, SaveInbounds(h) PROVE TypeOK'
    BY BoundsAssumption, <1>1
       DEF SaveInbounds, Begin, Goto, TypeOK, Threads, Config, apply, proc, watch
  <1>2. ASSUME NEW h \in Handlers, SubmitSettings(h) PROVE TypeOK'
    BY BoundsAssumption, <1>2
       DEF SubmitSettings, Begin, Goto, TypeOK, Threads, apply, proc, watch
  <1>3. ASSUME NEW h \in Handlers, StoreSettings(h) PROVE TypeOK'
    <2>1. CASE pc[h] = "store"
      BY <1>3, <2>1
         DEF StoreSettings, Goto, TypeOK, LocalInv, Config, apply, proc, watch
    <2>2. CASE pc[h] = "storeSame"
      <3>1. StoreSilently(h) /\ UNCHANGED faults
        BY <1>3, <2>2 DEF StoreSettings
      <3>2. QED
        BY <2>2, <3>1
           DEF StoreSilently, Return, Goto, TypeOK, LocalInv, Config, proc, watch
    <2>3. QED
      BY <1>3, <2>1, <2>2 DEF StoreSettings
  <1>4. ASSUME NEW h \in Handlers, StoreSettingsPartly(h) PROVE TypeOK'
    BY BoundsAssumption, <1>4
       DEF StoreSettingsPartly, StoreSilently, Fault, Return, Goto, TypeOK,
           LocalInv, Threads, Config, proc, watch
  <1>5. ASSUME NEW h \in Handlers, SetToNeedRestart(h) PROVE TypeOK'
    BY <1>5 DEF SetToNeedRestart, Return, Goto, TypeOK, proc, watch
  <1>6. ASSUME NEW h \in Handlers, Request(h) PROVE TypeOK'
    BY BoundsAssumption, <1>6 DEF Request, Begin, Goto, TypeOK, apply, proc, watch
  <1>7. ASSUME NEW j \in ApplyJobs, ApplyTick(j) PROVE TypeOK'
    BY <1>7 DEF ApplyTick, Goto, TypeOK, proc, watch
  <1>8. ASSUME NEW t \in Threads, SkipRestart(t) PROVE TypeOK'
    BY <1>8 DEF SkipRestart, Return, Goto, TypeOK, apply, proc, watch
  <1>9. ASSUME NEW t \in Threads, EnterRestart(t) PROVE TypeOK'
    BY <1>9 DEF EnterRestart, Goto, TypeOK, proc, watch
  <1>10. ASSUME NEW t \in Threads, ReadTemplate(t) PROVE TypeOK'
    BY <1>10 DEF ReadTemplate, Goto, TypeOK, proc, watch
  <1>11. ASSUME NEW t \in Threads, ReadInbounds(t) PROVE TypeOK'
    BY <1>11 DEF ReadInbounds, Goto, TypeOK, LocalInv, Config, proc, watch
  <1>12. ASSUME NEW t \in Threads, ReadFails(t) PROVE TypeOK'
    BY BoundsAssumption, <1>12
       DEF ReadFails, Fault, Unlock, Return, Goto, TypeOK, proc, watch
  <1>13. ASSUME NEW t \in Threads, KeepRunning(t) PROVE TypeOK'
    BY <1>13 DEF KeepRunning, Unlock, Return, Goto, TypeOK, proc, watch
  <1>14. ASSUME NEW t \in Threads, Replace(t) PROVE TypeOK'
    BY <1>14 DEF Replace, Killed, Goto, TypeOK, LocalInv, apply, watch
  <1>15. ASSUME NEW t \in Threads, StartXray(t) PROVE TypeOK'
    BY <1>15 DEF StartXray, Goto, TypeOK, LocalInv, apply, watch
  <1>16. ASSUME NEW t \in Threads, StartFails(t) PROVE TypeOK'
    BY BoundsAssumption, <1>16
       DEF StartFails, Fault, Unlock, Return, Goto, TypeOK, proc, watch
  <1>17. ASSUME NEW t \in Threads, FinishStart(t) PROVE TypeOK'
    BY <1>17 DEF FinishStart, Unlock, Return, Goto, TypeOK, proc, watch
  <1>18. ASSUME NEW t \in Threads, EnterStop(t) PROVE TypeOK'
    BY <1>18 DEF EnterStop, Goto, TypeOK, proc, watch
  <1>19. ASSUME NEW t \in Threads, KillXray(t) PROVE TypeOK'
    BY <1>19 DEF KillXray, Killed, Unlock, Return, Goto, TypeOK, watch
  <1>20. ASSUME SampleRunning PROVE TypeOK'
    BY <1>20 DEF SampleRunning, CrashChecks, TypeOK, apply, proc, local
  <1>21. ASSUME SampleManual PROVE TypeOK'
    <2>1. checkTime' \in 0..CrashChecks /\ need' \in BOOLEAN
      BY <1>21 DEF SampleManual, CrashChecks, TypeOK
    <2>2. QED
      BY <1>21, <2>1 DEF SampleManual, TypeOK, proc, local
  <1>22. ASSUME NEW s \in Slots, Fork(s) PROVE TypeOK'
    BY <1>22 DEF Fork, TypeOK, apply, local, watch
  <1>23. ASSUME NEW s \in Slots, ForkFails(s) PROVE TypeOK'
    BY BoundsAssumption, <1>23 DEF ForkFails, Fault, TypeOK, apply, local, watch
  <1>24. ASSUME NEW s \in Slots, Exit(s) PROVE TypeOK'
    BY BoundsAssumption, <1>24 DEF Exit, Fault, TypeOK, apply, local, watch
  <1>25. ASSUME NEW s \in Slots, Reap(s) PROVE TypeOK'
    BY <1>25 DEF Reap, TypeOK, apply, local, watch
  <1>26. ASSUME NEW s \in Slots, Finalize(s) PROVE TypeOK'
    BY <1>26 DEF Finalize, TypeOK, apply, local, watch
  <1>27. CASE UNCHANGED vars
    BY <1>27 DEF vars, TypeOK, apply, proc, local, watch
  <1>28. QED
    BY <1>1, <1>2, <1>3, <1>4, <1>5, <1>6, <1>7, <1>8, <1>9, <1>10, <1>11, <1>12,
       <1>13, <1>14, <1>15, <1>16, <1>17, <1>18, <1>19, <1>20, <1>21, <1>22, <1>23,
       <1>24, <1>25, <1>26, <1>27
       DEF Next, Handle, Restart, Stop, Monitor, OS

\* A thread enters the critical region with the mutex free and leaves it with Unlock.
LEMMA MutexStep ==
    ASSUME TypeOK, MutexInv, [Next]_vars PROVE MutexInv'
PROOF
  <1>0. TypeOK /\ MutexInv /\ [Next]_vars
    OBVIOUS
  <1>1. ASSUME NEW h \in Handlers, SaveInbounds(h) PROVE MutexInv'
    BY <1>1 DEF SaveInbounds, Begin, Goto, MutexInv, Restarting, apply
  <1>2. ASSUME NEW h \in Handlers, SubmitSettings(h) PROVE MutexInv'
    BY <1>2 DEF SubmitSettings, Begin, Goto, MutexInv, Restarting, apply
  <1>3. ASSUME NEW h \in Handlers, StoreSettings(h) PROVE MutexInv'
    BY <1>3
       DEF StoreSettings, StoreSilently, Return, Goto, TypeOK, MutexInv, Restarting,
           apply
  <1>4. ASSUME NEW h \in Handlers, StoreSettingsPartly(h) PROVE MutexInv'
    BY <1>4 DEF StoreSettingsPartly, StoreSilently, Return, Goto, MutexInv, Restarting
  <1>5. ASSUME NEW h \in Handlers, SetToNeedRestart(h) PROVE MutexInv'
    BY <1>5 DEF SetToNeedRestart, Return, Goto, MutexInv, Restarting
  <1>6. ASSUME NEW h \in Handlers, Request(h) PROVE MutexInv'
    BY <1>6 DEF Request, Begin, Goto, TypeOK, MutexInv, Restarting, apply
  <1>7. ASSUME NEW j \in ApplyJobs, ApplyTick(j) PROVE MutexInv'
    BY <1>7 DEF ApplyTick, Goto, MutexInv, Restarting
  <1>8. ASSUME NEW t \in Threads, SkipRestart(t) PROVE MutexInv'
    BY <1>8 DEF SkipRestart, Return, Goto, MutexInv, Restarting, apply
  <1>9. ASSUME NEW t \in Threads, EnterRestart(t) PROVE MutexInv'
    BY ThreadsAssumption, <1>9 DEF EnterRestart, Goto, TypeOK, MutexInv, Restarting
  <1>10. ASSUME NEW t \in Threads, ReadTemplate(t) PROVE MutexInv'
    BY <1>10 DEF ReadTemplate, Goto, MutexInv, Restarting
  <1>11. ASSUME NEW t \in Threads, ReadInbounds(t) PROVE MutexInv'
    BY <1>11 DEF ReadInbounds, Goto, MutexInv, Restarting
  <1>12. ASSUME NEW t \in Threads, ReadFails(t) PROVE MutexInv'
    BY ThreadsAssumption, <1>12
       DEF ReadFails, Unlock, Return, Goto, TypeOK, MutexInv, Restarting
  <1>13. ASSUME NEW t \in Threads, KeepRunning(t) PROVE MutexInv'
    BY ThreadsAssumption, <1>13
       DEF KeepRunning, Unlock, Return, Goto, TypeOK, MutexInv, Restarting
  <1>14. ASSUME NEW t \in Threads, Replace(t) PROVE MutexInv'
    BY <1>14 DEF Replace, Goto, MutexInv, Restarting, apply
  <1>15. ASSUME NEW t \in Threads, StartXray(t) PROVE MutexInv'
    BY <1>15 DEF StartXray, Goto, MutexInv, Restarting, apply
  <1>16. ASSUME NEW t \in Threads, StartFails(t) PROVE MutexInv'
    BY ThreadsAssumption, <1>16
       DEF StartFails, Unlock, Return, Goto, TypeOK, MutexInv, Restarting
  <1>17. ASSUME NEW t \in Threads, FinishStart(t) PROVE MutexInv'
    BY ThreadsAssumption, <1>17
       DEF FinishStart, Unlock, Return, Goto, TypeOK, MutexInv, Restarting
  <1>18. ASSUME NEW t \in Threads, EnterStop(t) PROVE MutexInv'
    BY ThreadsAssumption, <1>18 DEF EnterStop, Goto, TypeOK, MutexInv
  <1>19. ASSUME NEW t \in Threads, KillXray(t) PROVE MutexInv'
    BY ThreadsAssumption, <1>19
       DEF KillXray, Unlock, Return, Goto, TypeOK, MutexInv, Restarting
  <1>20. ASSUME SampleRunning PROVE MutexInv'
    BY <1>20 DEF SampleRunning, MutexInv, apply, local
  <1>21. ASSUME SampleManual PROVE MutexInv'
    BY <1>21 DEF SampleManual, MutexInv, local
  <1>22. ASSUME NEW s \in Slots, Fork(s) PROVE MutexInv'
    BY <1>22 DEF Fork, MutexInv, apply, local
  <1>23. ASSUME NEW s \in Slots, ForkFails(s) PROVE MutexInv'
    BY <1>23 DEF ForkFails, MutexInv, apply, local
  <1>24. ASSUME NEW s \in Slots, Exit(s) PROVE MutexInv'
    BY <1>24 DEF Exit, MutexInv, apply, local
  <1>25. ASSUME NEW s \in Slots, Reap(s) PROVE MutexInv'
    BY <1>25 DEF Reap, MutexInv, apply, local
  <1>26. ASSUME NEW s \in Slots, Finalize(s) PROVE MutexInv'
    BY <1>26 DEF Finalize, MutexInv, apply, local
  <1>27. CASE UNCHANGED vars
    BY <1>27 DEF vars, MutexInv, apply, local
  <1>28. QED
    BY <1>1, <1>2, <1>3, <1>4, <1>5, <1>6, <1>7, <1>8, <1>9, <1>10, <1>11, <1>12,
       <1>13, <1>14, <1>15, <1>16, <1>17, <1>18, <1>19, <1>20, <1>21, <1>22, <1>23,
       <1>24, <1>25, <1>26, <1>27
       DEF Next, Handle, Restart, Stop, Monitor, OS

\* Locals are set before the label that uses them.
LEMMA LocalStep ==
    ASSUME TypeOK, MutexInv, LocalInv, [Next]_vars PROVE LocalInv'
PROOF
  <1>0. TypeOK /\ MutexInv /\ LocalInv /\ [Next]_vars
    OBVIOUS
  <1>1. ASSUME NEW h \in Handlers, SaveInbounds(h) PROVE LocalInv'
    BY ThreadsAssumption, <1>1 DEF SaveInbounds, Begin, Goto, LocalInv, apply
  <1>2. ASSUME NEW h \in Handlers, SubmitSettings(h) PROVE LocalInv'
    BY ThreadsAssumption, <1>2 DEF SubmitSettings, Begin, Goto, TypeOK, LocalInv, apply
  <1>3. ASSUME NEW h \in Handlers, StoreSettings(h) PROVE LocalInv'
    BY <1>3
       DEF StoreSettings, StoreSilently, Return, Goto, TypeOK, LocalInv, Threads,
           apply
  <1>4. ASSUME NEW h \in Handlers, StoreSettingsPartly(h) PROVE LocalInv'
    BY <1>4
       DEF StoreSettingsPartly, StoreSilently, Return, Goto, TypeOK, LocalInv,
           Threads
  <1>5. ASSUME NEW h \in Handlers, SetToNeedRestart(h) PROVE LocalInv'
    BY ThreadsAssumption, <1>5 DEF SetToNeedRestart, Return, Goto, LocalInv
  <1>6. ASSUME NEW h \in Handlers, Request(h) PROVE LocalInv'
    BY ThreadsAssumption, <1>6
       DEF Request, Begin, Goto, TypeOK, LocalInv, Threads, apply
  <1>7. ASSUME NEW j \in ApplyJobs, ApplyTick(j) PROVE LocalInv'
    BY <1>7 DEF ApplyTick, Goto, TypeOK, LocalInv
  <1>8. ASSUME NEW t \in Threads, SkipRestart(t) PROVE LocalInv'
    BY ThreadsAssumption, <1>8
       DEF SkipRestart, Return, Goto, TypeOK, MutexInv, LocalInv, Restarting
  <1>9. ASSUME NEW t \in Threads, EnterRestart(t) PROVE LocalInv'
    BY <1>9 DEF EnterRestart, Goto, LocalInv
  <1>10. ASSUME NEW t \in Threads, ReadTemplate(t) PROVE LocalInv'
    BY <1>10 DEF ReadTemplate, Goto, TypeOK, LocalInv
  <1>11. ASSUME NEW t \in Threads, ReadInbounds(t) PROVE LocalInv'
    BY <1>11 DEF ReadInbounds, Goto, TypeOK, LocalInv, Config
  <1>12. ASSUME NEW t \in Threads, ReadFails(t) PROVE LocalInv'
    BY <1>12 DEF ReadFails, Return, Goto, TypeOK, MutexInv, LocalInv, Restarting
  <1>13. ASSUME NEW t \in Threads, KeepRunning(t) PROVE LocalInv'
    BY <1>13 DEF KeepRunning, Return, Goto, TypeOK, MutexInv, LocalInv, Restarting
  <1>14. ASSUME NEW t \in Threads, Replace(t) PROVE LocalInv'
    BY <1>14 DEF Replace, Goto, LocalInv, apply
  <1>15. ASSUME NEW t \in Threads, StartXray(t) PROVE LocalInv'
    BY <1>15 DEF StartXray, Goto, LocalInv, apply
  <1>16. ASSUME NEW t \in Threads, StartFails(t) PROVE LocalInv'
    BY <1>16 DEF StartFails, Return, Goto, TypeOK, MutexInv, LocalInv, Restarting
  <1>17. ASSUME NEW t \in Threads, FinishStart(t) PROVE LocalInv'
    BY <1>17 DEF FinishStart, Return, Goto, TypeOK, MutexInv, LocalInv, Restarting
  <1>18. ASSUME NEW t \in Threads, EnterStop(t) PROVE LocalInv'
    BY <1>18 DEF EnterStop, Goto, LocalInv
  <1>19. ASSUME NEW t \in Threads, KillXray(t) PROVE LocalInv'
    BY <1>19 DEF KillXray, Return, Goto, TypeOK, MutexInv, LocalInv, Restarting, Threads
  <1>20. ASSUME SampleRunning PROVE LocalInv'
    BY <1>20 DEF SampleRunning, LocalInv, apply, local
  <1>21. ASSUME SampleManual PROVE LocalInv'
    BY <1>21 DEF SampleManual, LocalInv, local
  <1>22. ASSUME NEW s \in Slots, Fork(s) PROVE LocalInv'
    BY <1>22 DEF Fork, LocalInv, apply, local
  <1>23. ASSUME NEW s \in Slots, ForkFails(s) PROVE LocalInv'
    BY <1>23 DEF ForkFails, LocalInv, apply, local
  <1>24. ASSUME NEW s \in Slots, Exit(s) PROVE LocalInv'
    BY <1>24 DEF Exit, LocalInv, apply, local
  <1>25. ASSUME NEW s \in Slots, Reap(s) PROVE LocalInv'
    BY <1>25 DEF Reap, LocalInv, apply, local
  <1>26. ASSUME NEW s \in Slots, Finalize(s) PROVE LocalInv'
    BY <1>26 DEF Finalize, LocalInv, apply, local
  <1>27. CASE UNCHANGED vars
    BY <1>27 DEF vars, LocalInv, apply, local
  <1>28. QED
    BY <1>1, <1>2, <1>3, <1>4, <1>5, <1>6, <1>7, <1>8, <1>9, <1>10, <1>11, <1>12,
       <1>13, <1>14, <1>15, <1>16, <1>17, <1>18, <1>19, <1>20, <1>21, <1>22, <1>23,
       <1>24, <1>25, <1>26, <1>27
       DEF Next, Handle, Restart, Stop, Monitor, OS

\* EnterRestart clears isManuallyStopped and only the holder of the mutex sets it.
LEMMA ManualStep ==
    ASSUME TypeOK, MutexInv, ManualInv, [Next]_vars PROVE ManualInv'
PROOF
  <1>0. TypeOK /\ MutexInv /\ ManualInv /\ [Next]_vars
    OBVIOUS
  <1>1. ASSUME NEW h \in Handlers, SaveInbounds(h) PROVE ManualInv'
    BY <1>1 DEF SaveInbounds, Begin, Goto, ManualInv, Restarting, apply
  <1>2. ASSUME NEW h \in Handlers, SubmitSettings(h) PROVE ManualInv'
    BY <1>2 DEF SubmitSettings, Begin, Goto, ManualInv, Restarting, apply
  <1>3. ASSUME NEW h \in Handlers, StoreSettings(h) PROVE ManualInv'
    BY <1>3
       DEF StoreSettings, StoreSilently, Return, Goto, TypeOK, ManualInv,
           Restarting, apply
  <1>4. ASSUME NEW h \in Handlers, StoreSettingsPartly(h) PROVE ManualInv'
    BY <1>4 DEF StoreSettingsPartly, StoreSilently, Return, Goto, ManualInv, Restarting
  <1>5. ASSUME NEW h \in Handlers, SetToNeedRestart(h) PROVE ManualInv'
    BY <1>5 DEF SetToNeedRestart, Return, Goto, ManualInv, Restarting
  <1>6. ASSUME NEW h \in Handlers, Request(h) PROVE ManualInv'
    BY <1>6 DEF Request, Begin, Goto, TypeOK, ManualInv, Restarting, apply
  <1>7. ASSUME NEW j \in ApplyJobs, ApplyTick(j) PROVE ManualInv'
    BY <1>7 DEF ApplyTick, Goto, ManualInv, Restarting
  <1>8. ASSUME NEW t \in Threads, SkipRestart(t) PROVE ManualInv'
    BY <1>8 DEF SkipRestart, Return, Goto, ManualInv, Restarting
  <1>9. ASSUME NEW t \in Threads, EnterRestart(t) PROVE ManualInv'
    BY <1>9 DEF EnterRestart, ManualInv
  <1>10. ASSUME NEW t \in Threads, ReadTemplate(t) PROVE ManualInv'
    BY <1>10 DEF ReadTemplate, ManualInv, Restarting
  <1>11. ASSUME NEW t \in Threads, ReadInbounds(t) PROVE ManualInv'
    BY <1>11 DEF ReadInbounds, ManualInv, Restarting
  <1>12. ASSUME NEW t \in Threads, ReadFails(t) PROVE ManualInv'
    BY <1>12 DEF ReadFails, ManualInv, Restarting
  <1>13. ASSUME NEW t \in Threads, KeepRunning(t) PROVE ManualInv'
    BY <1>13 DEF KeepRunning, ManualInv, Restarting
  <1>14. ASSUME NEW t \in Threads, Replace(t) PROVE ManualInv'
    BY <1>14 DEF Replace, ManualInv, Restarting, apply
  <1>15. ASSUME NEW t \in Threads, StartXray(t) PROVE ManualInv'
    BY <1>15 DEF StartXray, ManualInv, Restarting, apply
  <1>16. ASSUME NEW t \in Threads, StartFails(t) PROVE ManualInv'
    BY <1>16 DEF StartFails, ManualInv, Restarting
  <1>17. ASSUME NEW t \in Threads, FinishStart(t) PROVE ManualInv'
    BY <1>17 DEF FinishStart, ManualInv, Restarting
  <1>18. ASSUME NEW t \in Threads, EnterStop(t) PROVE ManualInv'
    BY ThreadsAssumption, <1>18 DEF EnterStop, Goto, MutexInv, ManualInv, Restarting
  <1>19. ASSUME NEW t \in Threads, KillXray(t) PROVE ManualInv'
    BY <1>19 DEF KillXray, Return, Goto, TypeOK, ManualInv, Restarting
  <1>20. ASSUME SampleRunning PROVE ManualInv'
    BY <1>20 DEF SampleRunning, ManualInv, apply, local
  <1>21. ASSUME SampleManual PROVE ManualInv'
    BY <1>21 DEF SampleManual, ManualInv, local
  <1>22. ASSUME NEW s \in Slots, Fork(s) PROVE ManualInv'
    BY <1>22 DEF Fork, ManualInv, apply, local
  <1>23. ASSUME NEW s \in Slots, ForkFails(s) PROVE ManualInv'
    BY <1>23 DEF ForkFails, ManualInv, apply, local
  <1>24. ASSUME NEW s \in Slots, Exit(s) PROVE ManualInv'
    BY <1>24 DEF Exit, ManualInv, apply, local
  <1>25. ASSUME NEW s \in Slots, Reap(s) PROVE ManualInv'
    BY <1>25 DEF Reap, ManualInv, apply, local
  <1>26. ASSUME NEW s \in Slots, Finalize(s) PROVE ManualInv'
    BY <1>26 DEF Finalize, ManualInv, apply, local
  <1>27. CASE UNCHANGED vars
    BY <1>27 DEF vars, ManualInv, apply, local
  <1>28. QED
    BY <1>1, <1>2, <1>3, <1>4, <1>5, <1>6, <1>7, <1>8, <1>9, <1>10, <1>11, <1>12,
       <1>13, <1>14, <1>15, <1>16, <1>17, <1>18, <1>19, <1>20, <1>21, <1>22, <1>23,
       <1>24, <1>25, <1>26, <1>27
       DEF Next, Handle, Restart, Stop, Monitor, OS

\* bin/config.json, Process.config and the local xrayConfig agree while they must.
LEMMA ProcessStep ==
    ASSUME TypeOK, MutexInv, ProcessInv, [Next]_vars PROVE ProcessInv'
PROOF
  <1>0. TypeOK /\ MutexInv /\ ProcessInv /\ [Next]_vars
    OBVIOUS
  <1>1. ASSUME NEW h \in Handlers, SaveInbounds(h) PROVE ProcessInv'
    BY <1>1 DEF SaveInbounds, Begin, Goto, ProcessInv, apply, proc
  <1>2. ASSUME NEW h \in Handlers, SubmitSettings(h) PROVE ProcessInv'
    BY <1>2 DEF SubmitSettings, Begin, Goto, ProcessInv, apply, proc
  <1>3. ASSUME NEW h \in Handlers, StoreSettings(h) PROVE ProcessInv'
    BY <1>3
       DEF StoreSettings, StoreSilently, Return, Goto, TypeOK, ProcessInv, apply,
           proc
  <1>4. ASSUME NEW h \in Handlers, StoreSettingsPartly(h) PROVE ProcessInv'
    BY <1>4 DEF StoreSettingsPartly, StoreSilently, Return, Goto, ProcessInv, proc
  <1>5. ASSUME NEW h \in Handlers, SetToNeedRestart(h) PROVE ProcessInv'
    BY <1>5 DEF SetToNeedRestart, Return, Goto, ProcessInv, proc
  <1>6. ASSUME NEW h \in Handlers, Request(h) PROVE ProcessInv'
    BY <1>6 DEF Request, Begin, Goto, TypeOK, ProcessInv, apply, proc
  <1>7. ASSUME NEW j \in ApplyJobs, ApplyTick(j) PROVE ProcessInv'
    BY <1>7 DEF ApplyTick, Goto, ProcessInv, proc
  <1>8. ASSUME NEW t \in Threads, SkipRestart(t) PROVE ProcessInv'
    BY ThreadsAssumption, <1>8
       DEF SkipRestart, Return, Goto, MutexInv, ProcessInv, Restarting, proc
  <1>9. ASSUME NEW t \in Threads, EnterRestart(t) PROVE ProcessInv'
    BY <1>9 DEF EnterRestart, Goto, ProcessInv, proc
  <1>10. ASSUME NEW t \in Threads, ReadTemplate(t) PROVE ProcessInv'
    BY <1>10 DEF ReadTemplate, Goto, MutexInv, ProcessInv, Restarting, proc
  <1>11. ASSUME NEW t \in Threads, ReadInbounds(t) PROVE ProcessInv'
    BY <1>11 DEF ReadInbounds, Goto, MutexInv, ProcessInv, Restarting, proc
  <1>12. ASSUME NEW t \in Threads, ReadFails(t) PROVE ProcessInv'
    BY <1>12 DEF ReadFails, Return, Goto, MutexInv, ProcessInv, Restarting, proc
  <1>13. ASSUME NEW t \in Threads, KeepRunning(t) PROVE ProcessInv'
    BY <1>13 DEF KeepRunning, Return, Goto, MutexInv, ProcessInv, Restarting, proc
  <1>14. ASSUME NEW t \in Threads, Replace(t) PROVE ProcessInv'
    BY ThreadsAssumption, <1>14 DEF Replace, Killed, TypeOK, ProcessInv, apply
  <1>15. ASSUME NEW t \in Threads, StartXray(t) PROVE ProcessInv'
    BY <1>15 DEF StartXray, Goto, TypeOK, MutexInv, ProcessInv, Restarting, apply
  <1>16. ASSUME NEW t \in Threads, StartFails(t) PROVE ProcessInv'
    BY <1>16
       DEF StartFails, Return, Goto, TypeOK, MutexInv, ProcessInv, Restarting, proc
  <1>17. ASSUME NEW t \in Threads, FinishStart(t) PROVE ProcessInv'
    BY <1>17
       DEF FinishStart, Return, Goto, TypeOK, MutexInv, ProcessInv, Restarting, proc
  <1>18. ASSUME NEW t \in Threads, EnterStop(t) PROVE ProcessInv'
    BY <1>18 DEF EnterStop, Goto, ProcessInv, proc
  <1>19. ASSUME NEW t \in Threads, KillXray(t) PROVE ProcessInv'
    BY <1>19
       DEF KillXray, Killed, Return, Goto, TypeOK, MutexInv, ProcessInv, Restarting
  <1>20. ASSUME SampleRunning PROVE ProcessInv'
    BY <1>20 DEF SampleRunning, ProcessInv, apply, proc, local
  <1>21. ASSUME SampleManual PROVE ProcessInv'
    BY <1>21 DEF SampleManual, ProcessInv, proc, local
  <1>22. ASSUME NEW s \in Slots, Fork(s) PROVE ProcessInv'
    BY <1>22 DEF Fork, ProcessInv, apply, local
  <1>23. ASSUME NEW s \in Slots, ForkFails(s) PROVE ProcessInv'
    BY <1>23 DEF ForkFails, ProcessInv, apply, local
  <1>24. ASSUME NEW s \in Slots, Exit(s) PROVE ProcessInv'
    BY <1>24 DEF Exit, ProcessInv, Alive, apply, local
  <1>25. ASSUME NEW s \in Slots, Reap(s) PROVE ProcessInv'
    BY <1>25 DEF Reap, ProcessInv, apply, local
  <1>26. ASSUME NEW s \in Slots, Finalize(s) PROVE ProcessInv'
    BY <1>26 DEF Finalize, ProcessInv, apply, local
  <1>27. CASE UNCHANGED vars
    BY <1>27 DEF vars, ProcessInv, apply, proc, local
  <1>28. QED
    BY <1>1, <1>2, <1>3, <1>4, <1>5, <1>6, <1>7, <1>8, <1>9, <1>10, <1>11, <1>12,
       <1>13, <1>14, <1>15, <1>16, <1>17, <1>18, <1>19, <1>20, <1>21, <1>22, <1>23,
       <1>24, <1>25, <1>26, <1>27
       DEF Next, Handle, Restart, Stop, Monitor, OS

\* A silent store leaves the template as it was or is recorded in lost.
LEMMA SilentStore ==
    ASSUME TypeOK, MutexInv, LocalInv, ProcessInv, ReadInv, UpdateInv,
           NEW h \in Handlers, pc[h] \in {"store", "storeSame"}, StoreSilently(h)
    PROVE  ReadInv' /\ UpdateInv'
PROOF
  <1>1. lost' \/ db' = db
    BY DEF StoreSilently, TypeOK, Config
  <1>2. Pending => Pending'
    BY DEF StoreSilently, Return, Goto, Pending, TypeOK
  <1>3. CASE lost'
    BY <1>3 DEF ReadInv, UpdateInv, Pending
  <1>4. CASE db' = db
    BY <1>2, <1>4
       DEF StoreSilently, Return, Goto, TypeOK, ReadInv, UpdateInv, Applying, proc
  <1>5. QED
    BY <1>1, <1>3, <1>4

\* Whatever destroys one disjunct of Pending or Applying establishes another.
LEMMA UpdateStep ==
    ASSUME TypeOK, MutexInv, LocalInv, ProcessInv, ReadInv, UpdateInv, [Next]_vars
    PROVE  ReadInv' /\ UpdateInv'
PROOF
  <1>0. TypeOK /\ MutexInv /\ LocalInv /\ ProcessInv /\ ReadInv /\ UpdateInv /\ [Next]_vars
    OBVIOUS
  <1>1. ASSUME NEW h \in Handlers, SaveInbounds(h) PROVE ReadInv' /\ UpdateInv'
    BY <1>1 DEF SaveInbounds, Begin, Goto, TypeOK, ReadInv, UpdateInv, Pending, Threads
  <1>2. ASSUME NEW h \in Handlers, SubmitSettings(h) PROVE ReadInv' /\ UpdateInv'
    BY <1>2
       DEF SubmitSettings, Begin, Goto, ReadInv, UpdateInv, Pending, Applying,
           apply, proc
  <1>3. ASSUME NEW h \in Handlers, StoreSettings(h) PROVE ReadInv' /\ UpdateInv'
    <2>1. CASE pc[h] = "store"
      BY <1>3, <2>1
         DEF StoreSettings, Goto, TypeOK, ReadInv, UpdateInv, Pending, Threads
    <2>2. CASE pc[h] = "storeSame"
      BY <1>3, <2>2, SilentStore DEF StoreSettings
    <2>3. QED
      BY <1>3, <2>1, <2>2 DEF StoreSettings
  <1>4. ASSUME NEW h \in Handlers, StoreSettingsPartly(h) PROVE ReadInv' /\ UpdateInv'
    BY <1>4, SilentStore DEF StoreSettingsPartly
  <1>5. ASSUME NEW h \in Handlers, SetToNeedRestart(h) PROVE ReadInv' /\ UpdateInv'
    BY <1>5 DEF SetToNeedRestart, ReadInv, UpdateInv, Pending
  <1>6. ASSUME NEW h \in Handlers, Request(h) PROVE ReadInv' /\ UpdateInv'
    BY <1>6
       DEF Request, Begin, Goto, TypeOK, ReadInv, UpdateInv, Pending, Applying,
           apply, proc
  <1>7. ASSUME NEW j \in ApplyJobs, ApplyTick(j) PROVE ReadInv' /\ UpdateInv'
    BY <1>7 DEF ApplyTick, Goto, TypeOK, ReadInv, UpdateInv, Pending, Threads
  <1>8. ASSUME NEW t \in Threads, SkipRestart(t) PROVE ReadInv' /\ UpdateInv'
    BY <1>8 DEF SkipRestart, ReadInv, UpdateInv, Pending, apply
  <1>9. ASSUME NEW t \in Threads, EnterRestart(t) PROVE ReadInv' /\ UpdateInv'
    BY <1>9 DEF EnterRestart, Goto, ReadInv, UpdateInv, Pending
  <1>10. ASSUME NEW t \in Threads, ReadTemplate(t) PROVE ReadInv' /\ UpdateInv'
    BY <1>10 DEF ReadTemplate, Goto, TypeOK, ReadInv, UpdateInv, Applying
  <1>11. ASSUME NEW t \in Threads, ReadInbounds(t) PROVE ReadInv' /\ UpdateInv'
    BY <1>11
       DEF ReadInbounds, Goto, TypeOK, LocalInv, ReadInv, UpdateInv, Pending,
           Applying, Config
  <1>12. ASSUME NEW t \in Threads, ReadFails(t) PROVE ReadInv' /\ UpdateInv'
    BY <1>12 DEF ReadFails, ReadInv, UpdateInv, Pending
  <1>13. ASSUME NEW t \in Threads, KeepRunning(t) PROVE ReadInv' /\ UpdateInv'
    BY <1>13
       DEF KeepRunning, UpToDate, Return, Goto, TypeOK, MutexInv, ReadInv,
           UpdateInv, Pending, Restarting, proc
  <1>14. ASSUME NEW t \in Threads, Replace(t) PROVE ReadInv' /\ UpdateInv'
    BY <1>14 DEF Replace, Goto, ReadInv, UpdateInv, Pending, apply
  <1>15. ASSUME NEW t \in Threads, StartXray(t) PROVE ReadInv' /\ UpdateInv'
    BY <1>15 DEF StartXray, Goto, ProcessInv, ReadInv, UpdateInv, Pending, apply
  <1>16. ASSUME NEW t \in Threads, StartFails(t) PROVE ReadInv' /\ UpdateInv'
    BY <1>16
       DEF StartFails, Return, Goto, TypeOK, MutexInv, ProcessInv, ReadInv,
           UpdateInv, Restarting, proc
  <1>17. ASSUME NEW t \in Threads, FinishStart(t) PROVE ReadInv' /\ UpdateInv'
    BY <1>17
       DEF FinishStart, Return, Goto, TypeOK, MutexInv, ProcessInv, ReadInv,
           UpdateInv, Pending, Restarting, proc
  <1>18. ASSUME NEW t \in Threads, EnterStop(t) PROVE ReadInv' /\ UpdateInv'
    BY <1>18 DEF EnterStop, ReadInv, UpdateInv, Pending
  <1>19. ASSUME NEW t \in Threads, KillXray(t) PROVE ReadInv' /\ UpdateInv'
    BY <1>19
       DEF KillXray, Killed, Return, Goto, TypeOK, MutexInv, ReadInv, UpdateInv,
           Pending, Applying, Restarting
  <1>20. ASSUME SampleRunning PROVE ReadInv' /\ UpdateInv'
    BY <1>20
       DEF SampleRunning, ReadInv, UpdateInv, Pending, Applying, apply, proc, local
  <1>21. ASSUME SampleManual PROVE ReadInv' /\ UpdateInv'
    BY <1>21 DEF SampleManual, ReadInv, UpdateInv, Pending, Applying, proc, local
  <1>22. ASSUME NEW s \in Slots, Fork(s) PROVE ReadInv' /\ UpdateInv'
    BY <1>22 DEF Fork, ReadInv, UpdateInv, Pending, Applying, apply, local
  <1>23. ASSUME NEW s \in Slots, ForkFails(s) PROVE ReadInv' /\ UpdateInv'
    BY <1>23 DEF ForkFails, ReadInv, UpdateInv, Pending, Applying, apply, local
  <1>24. ASSUME NEW s \in Slots, Exit(s) PROVE ReadInv' /\ UpdateInv'
    BY <1>24 DEF Exit, ReadInv, UpdateInv, Pending, Applying, apply, local
  <1>25. ASSUME NEW s \in Slots, Reap(s) PROVE ReadInv' /\ UpdateInv'
    BY <1>25 DEF Reap, ReadInv, UpdateInv, Pending, Applying, apply, local
  <1>26. ASSUME NEW s \in Slots, Finalize(s) PROVE ReadInv' /\ UpdateInv'
    BY <1>26 DEF Finalize, ReadInv, UpdateInv, Pending, Applying, apply, local
  <1>27. CASE UNCHANGED vars
    BY <1>27 DEF vars, ReadInv, UpdateInv, Pending, Applying, apply, proc, local
  <1>28. QED
    BY <1>1, <1>2, <1>3, <1>4, <1>5, <1>6, <1>7, <1>8, <1>9, <1>10, <1>11, <1>12,
       <1>13, <1>14, <1>15, <1>16, <1>17, <1>18, <1>19, <1>20, <1>21, <1>22, <1>23,
       <1>24, <1>25, <1>26, <1>27
       DEF Next, Handle, Restart, Stop, Monitor, OS

\* With prompt forks a Process is forked before it can be replaced or stopped.
LEMMA PromptStep ==
    ASSUME TypeOK, MutexInv, ManualInv, ProcessInv, PromptInv, [Next]_vars
    PROVE  PromptInv'
PROOF
  <1>0. TypeOK /\ MutexInv /\ ManualInv /\ ProcessInv /\ PromptInv /\ [Next]_vars
    OBVIOUS
  <1>1. ASSUME NEW h \in Handlers, SaveInbounds(h) PROVE PromptInv'
    BY <1>1 DEF SaveInbounds, Begin, Goto, PromptInv, apply, proc
  <1>2. ASSUME NEW h \in Handlers, SubmitSettings(h) PROVE PromptInv'
    BY <1>2 DEF SubmitSettings, Begin, Goto, PromptInv, apply, proc
  <1>3. ASSUME NEW h \in Handlers, StoreSettings(h) PROVE PromptInv'
    BY <1>3
       DEF StoreSettings, StoreSilently, Return, Goto, TypeOK, PromptInv, apply,
           proc
  <1>4. ASSUME NEW h \in Handlers, StoreSettingsPartly(h) PROVE PromptInv'
    BY <1>4 DEF StoreSettingsPartly, StoreSilently, Return, Goto, PromptInv, proc
  <1>5. ASSUME NEW h \in Handlers, SetToNeedRestart(h) PROVE PromptInv'
    BY <1>5 DEF SetToNeedRestart, Return, Goto, PromptInv, proc
  <1>6. ASSUME NEW h \in Handlers, Request(h) PROVE PromptInv'
    BY <1>6 DEF Request, Begin, Goto, TypeOK, PromptInv, apply, proc
  <1>7. ASSUME NEW j \in ApplyJobs, ApplyTick(j) PROVE PromptInv'
    BY <1>7 DEF ApplyTick, Goto, PromptInv, proc
  <1>8. ASSUME NEW t \in Threads, SkipRestart(t) PROVE PromptInv'
    BY <1>8 DEF SkipRestart, PromptInv, proc
  <1>9. ASSUME NEW t \in Threads, EnterRestart(t) PROVE PromptInv'
    BY <1>9 DEF EnterRestart, Goto, PromptInv, proc
  <1>10. ASSUME NEW t \in Threads, ReadTemplate(t) PROVE PromptInv'
    BY <1>10 DEF ReadTemplate, Goto, PromptInv, proc
  <1>11. ASSUME NEW t \in Threads, ReadInbounds(t) PROVE PromptInv'
    BY <1>11 DEF ReadInbounds, Goto, PromptInv, proc
  <1>12. ASSUME NEW t \in Threads, ReadFails(t) PROVE PromptInv'
    BY <1>12 DEF ReadFails, Return, Goto, ManualInv, PromptInv, Restarting, proc
  <1>13. ASSUME NEW t \in Threads, KeepRunning(t) PROVE PromptInv'
    BY <1>13
       DEF KeepRunning, UpToDate, IsRunning, ManualInv, PromptInv, Restarting, proc
  <1>14. ASSUME NEW t \in Threads, Replace(t) PROVE PromptInv'
    BY ThreadsAssumption, <1>14
       DEF Replace, IsRunning, Killed, TypeOK, MutexInv, PromptInv, Restarting
  <1>15. ASSUME NEW t \in Threads, StartXray(t) PROVE PromptInv'
    BY ThreadsAssumption, <1>15
       DEF StartXray, Goto, TypeOK, MutexInv, PromptInv, Restarting, apply
  <1>16. ASSUME NEW t \in Threads, StartFails(t) PROVE PromptInv'
    BY <1>16 DEF StartFails, ProcessInv, PromptInv, proc
  <1>17. ASSUME NEW t \in Threads, FinishStart(t) PROVE PromptInv'
    BY <1>17 DEF FinishStart, ManualInv, PromptInv, Restarting, proc
  <1>18. ASSUME NEW t \in Threads, EnterStop(t) PROVE PromptInv'
    BY ThreadsAssumption, <1>18 DEF EnterStop, Goto, PromptInv, proc
  <1>19. ASSUME NEW t \in Threads, KillXray(t) PROVE PromptInv'
    BY <1>19 DEF KillXray, IsRunning, Killed, TypeOK, MutexInv, PromptInv, Restarting
  <1>20. ASSUME SampleRunning PROVE PromptInv'
    BY <1>20 DEF SampleRunning, PromptInv, apply, proc, local
  <1>21. ASSUME SampleManual PROVE PromptInv'
    BY <1>21 DEF SampleManual, PromptInv, proc, local
  <1>22. ASSUME NEW s \in Slots, Fork(s) PROVE PromptInv'
    BY <1>22 DEF Fork, TypeOK, PromptInv, apply
  <1>23. ASSUME NEW s \in Slots, ForkFails(s) PROVE PromptInv'
    BY <1>23 DEF ForkFails, TypeOK, PromptInv
  <1>24. ASSUME NEW s \in Slots, Exit(s) PROVE PromptInv'
    BY <1>24 DEF Exit, TypeOK, PromptInv, Alive
  <1>25. ASSUME NEW s \in Slots, Reap(s) PROVE PromptInv'
    BY <1>25 DEF Reap, PromptInv, apply, local
  <1>26. ASSUME NEW s \in Slots, Finalize(s) PROVE PromptInv'
    BY <1>26 DEF Finalize, PromptInv
  <1>27. CASE UNCHANGED vars
    BY <1>27 DEF vars, PromptInv, apply, proc, local
  <1>28. QED
    BY <1>1, <1>2, <1>3, <1>4, <1>5, <1>6, <1>7, <1>8, <1>9, <1>10, <1>11, <1>12,
       <1>13, <1>14, <1>15, <1>16, <1>17, <1>18, <1>19, <1>20, <1>21, <1>22, <1>23,
       <1>24, <1>25, <1>26, <1>27
       DEF Next, Handle, Restart, Stop, Monitor, OS

-----------------------------------------------------------------------------
\* At start-up nobody holds the mutex, nothing is forked and nothing is saved yet.
LEMMA InitIndInv == Init => IndInv /\ PromptInv
PROOF
  <1> SUFFICES ASSUME Init PROVE IndInv /\ PromptInv
    OBVIOUS
  <1>1. TypeOK
    <2>1. 0 \in 0..MaxOps /\ 0 \in 0..MaxFaults /\ 0 \in 0..CrashChecks
      BY BoundsAssumption DEF CrashChecks
    <2>2. QED
      BY <2>1 DEF Init, TypeOK
  <1>2. MutexInv
    BY ThreadsAssumption DEF Init, MutexInv, Restarting
  <1>3. LocalInv
    BY ThreadsAssumption DEF Init, LocalInv, Threads
  <1>4. ManualInv /\ ProcessInv /\ ReadInv /\ UpdateInv
    BY DEF Init, ManualInv, ProcessInv, ReadInv, UpdateInv
  <1>5. PromptInv
    BY DEF Init, PromptInv
  <1>6. QED
    BY <1>1, <1>2, <1>3, <1>4, <1>5 DEF IndInv

\* The inductive invariant: NoLostUpdate alone is not inductive, since it says
\* nothing of what the holder of the mutex has already read.
THEOREM Inductive == Spec => [](IndInv /\ PromptInv)
PROOF
  <1>1. Init => IndInv /\ PromptInv
    BY InitIndInv
  <1>2. IndInv /\ PromptInv /\ [Next]_vars => (IndInv /\ PromptInv)'
    <2> SUFFICES ASSUME IndInv, PromptInv, [Next]_vars
                 PROVE  (IndInv /\ PromptInv)'
      OBVIOUS
    <2>1. TypeOK' /\ LocalInv'
      BY TypeStep, LocalStep DEF IndInv
    <2>2. MutexInv' /\ ManualInv'
      BY MutexStep, ManualStep DEF IndInv
    <2>3. ProcessInv' /\ PromptInv'
      BY ProcessStep, PromptStep DEF IndInv
    <2>4. ReadInv' /\ UpdateInv'
      BY UpdateStep DEF IndInv
    <2>5. QED
      BY <2>1, <2>2, <2>3, <2>4 DEF IndInv
  <1>3. QED
    BY <1>1, <1>2, PTL DEF Spec

\* Every variable keeps its type.
THEOREM TypeCorrect == Spec => []TypeOK
PROOF
  <1>1. IndInv => TypeOK
    BY DEF IndInv
  <1>2. QED
    BY <1>1, Inductive, PTL

\* An automatic restart that is under way never coexists with a manual stop.
THEOREM StopRespected == Spec => []ApplyRespectsStop
PROOF
  <1>1. IndInv => ApplyRespectsStop
    BY DEF IndInv, ManualInv, ApplyRespectsStop, Threads
  <1>2. QED
    BY <1>1, Inductive, PTL

\* The current Xray runs the configuration its Process object records.
THEOREM OwnConfig == Spec => []RunsItsConfig
PROOF
  <1>1. IndInv => RunsItsConfig
    BY DEF IndInv, ProcessInv, RunsItsConfig, Alive
  <1>2. QED
    BY <1>1, Inductive, PTL

\* A saved change the running Xray has not loaded is never forgotten.
THEOREM NothingForgotten == Spec => []NoLostUpdate
PROOF
  <1>1. IndInv => NoLostUpdate
    BY DEF IndInv, ProcessInv, UpdateInv, NoLostUpdate, Alive
  <1>2. QED
    BY <1>1, Inductive, PTL

\* Only RestartXray, past its comparison, replaces the current Process.
LEMMA OnlyReplaceSwaps ==
    ASSUME [Next]_vars, p' # p PROVE \E t \in Threads : Replace(t)
PROOF
  <1>0. [Next]_vars /\ p' # p
    OBVIOUS
  <1>1. ASSUME NEW h \in Handlers, SaveInbounds(h) PROVE FALSE
    BY <1>1 DEF SaveInbounds, proc
  <1>2. ASSUME NEW h \in Handlers, SubmitSettings(h) PROVE FALSE
    BY <1>2 DEF SubmitSettings, proc
  <1>3. ASSUME NEW h \in Handlers, StoreSettings(h) PROVE FALSE
    BY <1>3 DEF StoreSettings, StoreSilently, proc
  <1>4. ASSUME NEW h \in Handlers, StoreSettingsPartly(h) PROVE FALSE
    BY <1>4 DEF StoreSettingsPartly, StoreSilently, proc
  <1>5. ASSUME NEW h \in Handlers, SetToNeedRestart(h) PROVE FALSE
    BY <1>5 DEF SetToNeedRestart, proc
  <1>6. ASSUME NEW h \in Handlers, Request(h) PROVE FALSE
    BY <1>6 DEF Request, proc
  <1>7. ASSUME NEW j \in ApplyJobs, ApplyTick(j) PROVE FALSE
    BY <1>7 DEF ApplyTick, proc
  <1>8. ASSUME NEW t \in Threads, SkipRestart(t) PROVE FALSE
    BY <1>8 DEF SkipRestart, proc
  <1>9. ASSUME NEW t \in Threads, EnterRestart(t) PROVE FALSE
    BY <1>9 DEF EnterRestart, proc
  <1>10. ASSUME NEW t \in Threads, ReadTemplate(t) PROVE FALSE
    BY <1>10 DEF ReadTemplate, proc
  <1>11. ASSUME NEW t \in Threads, ReadInbounds(t) PROVE FALSE
    BY <1>11 DEF ReadInbounds, proc
  <1>12. ASSUME NEW t \in Threads, ReadFails(t) PROVE FALSE
    BY <1>12 DEF ReadFails, proc
  <1>13. ASSUME NEW t \in Threads, KeepRunning(t) PROVE FALSE
    BY <1>13 DEF KeepRunning, proc
  <1>14. ASSUME NEW t \in Threads, Replace(t) PROVE \E u \in Threads : Replace(u)
    BY <1>14
  <1>15. ASSUME NEW t \in Threads, StartXray(t) PROVE FALSE
    BY <1>15 DEF StartXray
  <1>16. ASSUME NEW t \in Threads, StartFails(t) PROVE FALSE
    BY <1>16 DEF StartFails, proc
  <1>17. ASSUME NEW t \in Threads, FinishStart(t) PROVE FALSE
    BY <1>17 DEF FinishStart, proc
  <1>18. ASSUME NEW t \in Threads, EnterStop(t) PROVE FALSE
    BY <1>18 DEF EnterStop, proc
  <1>19. ASSUME NEW t \in Threads, KillXray(t) PROVE FALSE
    BY <1>19 DEF KillXray
  <1>20. ASSUME SampleRunning PROVE FALSE
    BY <1>20 DEF SampleRunning, proc
  <1>21. ASSUME SampleManual PROVE FALSE
    BY <1>21 DEF SampleManual, proc
  <1>22. ASSUME NEW s \in Slots, Fork(s) PROVE FALSE
    BY <1>22 DEF Fork
  <1>23. ASSUME NEW s \in Slots, ForkFails(s) PROVE FALSE
    BY <1>23 DEF ForkFails
  <1>24. ASSUME NEW s \in Slots, Exit(s) PROVE FALSE
    BY <1>24 DEF Exit
  <1>25. ASSUME NEW s \in Slots, Reap(s) PROVE FALSE
    BY <1>25 DEF Reap
  <1>26. ASSUME NEW s \in Slots, Finalize(s) PROVE FALSE
    BY <1>26 DEF Finalize
  <1>27. CASE UNCHANGED vars
    BY <1>27 DEF vars, proc
  <1>28. QED
    BY <1>1, <1>2, <1>3, <1>4, <1>5, <1>6, <1>7, <1>8, <1>9, <1>10, <1>11, <1>12,
       <1>13, <1>15, <1>16, <1>17, <1>18, <1>19, <1>20, <1>21, <1>22, <1>23, <1>24,
       <1>25, <1>26, <1>27
       DEF Next, Handle, Restart, Stop, Monitor, OS

\* An automatic restart interrupts an Xray that runs the saved configuration
\* only when that configuration was changed during the restart.
THEOREM NoFlapping == Spec => NoNeedlessRestart
PROOF
  <1>1. IndInv /\ [Next]_vars
           => ((lock \in ApplyJobs /\ p' # p /\ Alive(p) /\ cfg = db) => Pending)
    <2> SUFFICES ASSUME IndInv, [Next]_vars, lock \in ApplyJobs, p' # p,
                        Alive(p), cfg = db
                 PROVE  Pending
      OBVIOUS
    <2>1. PICK t \in Threads : Replace(t)
      BY OnlyReplaceSwaps
    <2>2. pc[t] = "decide" /\ lock = t
      BY <2>1 DEF Replace, IndInv, MutexInv, Restarting
    <2>3. ~Forced(t)
      BY <2>2 DEF IndInv, LocalInv, Forced
    <2>4. IsRunning
      BY DEF Alive, IsRunning, IndInv, ProcessInv
    <2>5. cfg # conf
      BY <2>1, <2>3, <2>4 DEF Replace, UpToDate
    <2>6. QED
      BY <2>2, <2>5 DEF IndInv, ReadInv
  <1>2. QED
    BY <1>1, Inductive, PTL DEF Spec, NoNeedlessRestart

\* When Start returns after the fork, at most one Xray serves at any time.
THEOREM OneInstance == ASSUME LateFork = FALSE PROVE Spec => []SingleInstance
PROOF
  <1>1. PromptInv => SingleInstance
    BY DEF PromptInv, SingleInstance, Alive
  <1>2. QED
    BY <1>1, Inductive, PTL

\* When Start returns after the fork, a completed stop leaves nothing running.
THEOREM StopLeavesNothing == ASSUME LateFork = FALSE PROVE Spec => []StopIsEffective
PROOF
  <1>1. IndInv /\ PromptInv => StopIsEffective
    <2> SUFFICES ASSUME IndInv, PromptInv, manual, lock = Nil, NEW s \in Slots
                 PROVE  child[s] \in {"none", "dead"}
      BY DEF StopIsEffective
    <2>1. CASE s = p
      BY <2>1, ThreadsAssumption DEF PromptInv
    <2>2. CASE s # p
      BY <2>2 DEF PromptInv, IndInv, TypeOK
    <2>3. QED
      BY <2>1, <2>2
  <1>2. QED
    BY <1>1, Inductive, PTL

-----------------------------------------------------------------------------
(* XraySupervisor implements XrayService when forks are prompt: initial     *)
(* states map to initial states, and every step to a step of the service    *)
(* or to none.                                                              *)

(* Where the service is while a thread holds the mutex, and while none does. *)
PhaseFacts ==
    /\ lock = Nil => Phase = "idle"
    /\ \A t \in Threads : lock = t =>
        /\ pc[t] = "template" => Phase = "template"
        /\ pc[t] = "inbounds" => Phase = "inbounds"
        /\ pc[t] \in {"decide", "start"} => Phase = "start"
        /\ pc[t] = "started" =>
              Phase = IF child[p] = "launched" THEN "start" ELSE "idle"
        /\ pc[t] = "kill" => Phase = "idle"

\* Only the holder of the mutex is inside a restart, so it alone gives the phase.
LEMMA PhaseOf == TypeOK /\ MutexInv => PhaseFacts
PROOF
  <1> SUFFICES ASSUME TypeOK, MutexInv PROVE PhaseFacts
    OBVIOUS
  <1>1. ASSUME lock = Nil PROVE Phase = "idle"
    BY <1>1, ThreadsAssumption DEF MutexInv, Restarting, Phase, At
  <1>2. ASSUME NEW t \in Threads, lock = t
        PROVE  \A u \in Threads \ {t} : pc[u] \notin Restarting
    BY <1>2 DEF MutexInv
  <1>3. ASSUME NEW t \in Threads, lock = t
        PROVE  /\ pc[t] = "template" => Phase = "template"
               /\ pc[t] = "inbounds" => Phase = "inbounds"
               /\ pc[t] \in {"decide", "start"} => Phase = "start"
               /\ pc[t] = "started" =>
                     Phase = IF child[p] = "launched" THEN "start" ELSE "idle"
               /\ pc[t] = "kill" => Phase = "idle"
    BY <1>2, <1>3 DEF Restarting, Phase, At
  <1>4. QED
    BY <1>1, <1>3 DEF PhaseFacts

(* What a step of the supervisor may use. *)
StepFacts == /\ IndInv /\ IndInv' /\ PromptInv
             /\ PhaseFacts /\ PhaseFacts'
             /\ LateFork = FALSE

\* A step that moves no thread in or out of a restart, nor the current child to
\* or from its fork, leaves the phase alone.
LEMMA PhaseKept ==
    ASSUME StepFacts, lock' = lock, p' = p,
           child'[p] = "launched" <=> child[p] = "launched",
           \A t \in Threads : lock = t => pc'[t] = pc[t]
    PROVE  Phase' = Phase
PROOF
  <1>1. CASE lock = Nil
    BY <1>1 DEF StepFacts, PhaseFacts
  <1>2. CASE lock \in Threads
    <2>1. pc[lock] \in Restarting \cup {"kill"}
      BY <1>2 DEF StepFacts, IndInv, MutexInv
    <2>2. QED
      BY <1>2, <2>1 DEF StepFacts, PhaseFacts, Restarting
  <1>3. QED
    BY <1>1, <1>2 DEF StepFacts, IndInv, TypeOK

\* What the service sees depends on these variables only.
LEMMA Unseen ==
    ASSUME UNCHANGED <<db, manual, p, child, loaded, conf>>, Phase' = Phase
    PROVE  UNCHANGED Service!vars
PROOF
  <1>1. Running' = Running /\ Stopped' = Stopped /\ Hand' = Hand
    BY DEF Running, Stopped, Hand, Alive
  <1>2. QED
    BY <1>1 DEF Service!vars

\* A restart that ends without a new Xray ends for the service too.
LEMMA Ends ==
    ASSUME UNCHANGED <<db, manual, p, child, loaded>>, Phase # "idle", Phase' = "idle"
    PROVE  Service!EndRestart
PROOF
  <1>1. Running' = Running /\ Stopped' = Stopped /\ Hand' = Nil
    BY DEF Running, Stopped, Hand, Alive
  <1>2. QED
    BY <1>1 DEF Service!EndRestart

\* Requests write the database, which is a step of the service, or set flags,
\* which is none.
LEMMA RequestsImplement ==
    ASSUME StepFacts, NEW h \in Handlers, Handle(h)
    PROVE  Service!Save \/ UNCHANGED Service!vars
PROOF
  <1>0. /\ StepFacts /\ TypeOK /\ MutexInv /\ LocalInv
        /\ h \in Threads /\ Handle(h)
    BY DEF StepFacts, IndInv, Threads
  <1>1. ASSUME NEW d, db' = d, UNCHANGED <<manual, lock, p, child, loaded, conf>>,
               \A t \in Threads \ {h} : pc'[t] = pc[t],
               pc[h] \notin Restarting \cup {"kill"}
        PROVE  UNCHANGED <<Running, Stopped, Phase, Hand>>
    <2>1. lock # h
      BY <1>0, <1>1 DEF MutexInv
    <2>2. Phase' = Phase
      BY <1>0, <1>1, <2>1, PhaseKept
    <2>3. QED
      BY <1>1, <2>2 DEF Running, Stopped, Hand, Alive
  <1>2. CASE SaveInbounds(h)
    <2>1. PICK l \in InboundLists : db' = [db EXCEPT !.inb = l]
      BY <1>2 DEF SaveInbounds
    <2>2. UNCHANGED <<Running, Stopped, Phase, Hand>>
      BY <1>0, <1>1, <1>2
         DEF SaveInbounds, Begin, Goto, TypeOK, Restarting, apply, proc
    <2>3. QED
      BY <2>1, <2>2 DEF Service!Save
  <1>3. CASE SubmitSettings(h)
    <2>1. UNCHANGED <<Running, Stopped, Phase, Hand>>
      BY <1>0, <1>1, <1>3
         DEF SubmitSettings, Begin, Goto, TypeOK, Restarting, apply, proc
    <2>2. QED
      BY <1>3, <2>1 DEF SubmitSettings, Service!vars
  <1>4. CASE StoreSettings(h) \/ StoreSettingsPartly(h)
    <2>1. pc[h] \in {"store", "storeSame"} /\ db' = [db EXCEPT !.tpl = form[h]]
      BY <1>4 DEF StoreSettings, StoreSettingsPartly, StoreSilently
    <2>2. form[h] \in Templates
      BY <1>0, <2>1 DEF LocalInv
    <2>3. /\ UNCHANGED <<manual, lock, p, child, loaded, conf>>
          /\ \A t \in Threads \ {h} : pc'[t] = pc[t]
      BY <1>0, <1>4
         DEF StoreSettings, StoreSettingsPartly, StoreSilently, Return, Goto, TypeOK,
             apply, proc
    <2>4. UNCHANGED <<Running, Stopped, Phase, Hand>>
      BY <1>1, <2>1, <2>3 DEF Restarting
    <2>5. QED
      BY <2>1, <2>2, <2>4 DEF Service!Save
  <1>5. CASE SetToNeedRestart(h)
    <2>1. UNCHANGED <<Running, Stopped, Phase, Hand>>
      BY <1>0, <1>1, <1>5 DEF SetToNeedRestart, Return, Goto, TypeOK, Restarting, proc
    <2>2. QED
      BY <1>5, <2>1 DEF SetToNeedRestart, Service!vars
  <1>6. CASE Request(h)
    <2>1. UNCHANGED <<Running, Stopped, Phase, Hand>>
      BY <1>0, <1>1, <1>6 DEF Request, Begin, Goto, TypeOK, Restarting, apply, proc
    <2>2. QED
      BY <1>6, <2>1 DEF Request, Service!vars
  <1>7. QED
    BY <1>0, <1>2, <1>3, <1>4, <1>5, <1>6 DEF Handle

\* A thread on its way through RestartXray begins, reads and ends a restart; the
\* old Xray ends before Start is called.
LEMMA RestartsImplement ==
    ASSUME StepFacts, NEW t \in Threads, Restart(t)
    PROVE  \/ Service!BeginRestart \/ Service!ReadTemplate \/ Service!ReadInbounds
           \/ Service!EndRestart \/ Service!End
           \/ UNCHANGED Service!vars
PROOF
  <1>0. /\ StepFacts /\ TypeOK /\ TypeOK' /\ MutexInv /\ MutexInv' /\ PhaseFacts
        /\ PhaseFacts' /\ ManualInv /\ ProcessInv /\ Restart(t)
    BY DEF StepFacts, IndInv
  <1>1. pc[t] \in Restarting => lock = t /\ ~manual
    BY <1>0 DEF MutexInv, ManualInv
  <1>2. CASE SkipRestart(t)
    <2>1. Phase' = Phase
      BY <1>0, <1>2 DEF SkipRestart, Return, Goto, PhaseFacts, apply
    <2>2. QED
      BY <1>2, <2>1, Unseen DEF SkipRestart, apply, proc
  <1>3. CASE EnterRestart(t)
    <2>1. Phase = "idle" /\ Phase' = "template"
      BY <1>0, <1>3 DEF EnterRestart, Goto, TypeOK, PhaseFacts
    <2>2. Running' = Running /\ Stopped' = FALSE /\ Hand' = Hand
      BY <1>3, <2>1 DEF EnterRestart, Running, Stopped, Hand, Alive, proc
    <2>3. UNCHANGED db
      BY <1>3 DEF EnterRestart
    <2>4. QED
      BY <2>1, <2>2, <2>3 DEF Service!BeginRestart
  <1>4. CASE ReadTemplate(t)
    <2>1. Phase = "template" /\ Phase' = "inbounds"
      BY <1>0, <1>1, <1>4 DEF ReadTemplate, Goto, TypeOK, PhaseFacts, Restarting
    <2>2. Running' = Running /\ Stopped' = Stopped /\ Hand' = db /\ UNCHANGED db
      BY <1>4, <2>1 DEF ReadTemplate, Running, Stopped, Hand, Alive, proc
    <2>3. QED
      BY <2>1, <2>2 DEF Service!ReadTemplate
  <1>5. CASE ReadInbounds(t)
    <2>1. Phase = "inbounds" /\ Phase' = "start"
      BY <1>0, <1>1, <1>5 DEF ReadInbounds, Goto, TypeOK, PhaseFacts, Restarting
    <2>2. /\ Running' = Running /\ Stopped' = Stopped /\ UNCHANGED db
          /\ Hand' = [Hand EXCEPT !.inb = db.inb]
      BY <1>5, <2>1 DEF ReadInbounds, Running, Stopped, Hand, Alive, proc
    <2>3. QED
      BY <2>1, <2>2 DEF Service!ReadInbounds
  <1>6. CASE ReadFails(t)
    <2>1. Phase # "idle" /\ Phase' = "idle"
      BY <1>0, <1>1, <1>6 DEF ReadFails, Unlock, PhaseFacts, Restarting
    <2>2. QED
      BY <1>6, <2>1, Ends DEF ReadFails, proc
  <1>7. CASE KeepRunning(t)
    <2>1. Phase # "idle" /\ Phase' = "idle"
      BY <1>0, <1>1, <1>7 DEF KeepRunning, Unlock, PhaseFacts, Restarting
    <2>2. QED
      BY <1>7, <2>1, Ends DEF KeepRunning, proc
  <1>8. CASE Replace(t)
    <2>1. Phase = "start" /\ Phase' = "start"
      BY <1>0, <1>1, <1>8 DEF Replace, Goto, TypeOK, PhaseFacts, Restarting, apply
    <2>2. Hand' = Hand /\ UNCHANGED db
      BY <1>8, <2>1 DEF Replace, Hand, apply
    <2>3. p' \in Slots /\ child'[p'] = "none"
      BY <1>0, <1>8 DEF Replace, Killed, TypeOK
    <2>4. Running' = Nil
      BY <2>3 DEF Running, Alive
    <2>5. ~Stopped /\ ~Stopped'
      BY <1>1, <1>8 DEF Replace, Stopped, Restarting, apply
    <2>6. Stopped \in BOOLEAN /\ Stopped' \in BOOLEAN
      BY DEF Stopped
    <2>7. CASE Running = Nil
      BY <2>1, <2>2, <2>4, <2>5, <2>6, <2>7 DEF Service!vars
    <2>8. CASE Running # Nil
      BY <2>1, <2>2, <2>4, <2>5, <2>6, <2>8 DEF Service!End
    <2>9. QED
      BY <2>7, <2>8
  <1>9. CASE StartXray(t)
    <2>1. child'[p'] = "launched" /\ p' = p /\ child[p] = "none"
      BY <1>0, <1>9, ThreadsAssumption DEF StartXray, TypeOK, ProcessInv
    <2>2. Phase = "start" /\ Phase' = "start"
      BY <1>0, <1>1, <1>9, <2>1
         DEF StartXray, Goto, TypeOK, PhaseFacts, Restarting, apply
    <2>3. ~Alive(p) /\ ~Alive(p)'
      BY <2>1 DEF Alive
    <2>4. QED
      BY <1>9, <2>2, <2>3
         DEF StartXray, Running, Stopped, Hand, Service!vars, apply
  <1>10. CASE StartFails(t)
    <2>1. Phase # "idle" /\ Phase' = "idle"
      BY <1>0, <1>1, <1>10 DEF StartFails, Unlock, PhaseFacts, Restarting
    <2>2. QED
      BY <1>10, <2>1, Ends DEF StartFails, proc
  <1>11. CASE FinishStart(t)
    <2>1. Phase = "idle" /\ Phase' = "idle"
      BY <1>0, <1>1, <1>11 DEF FinishStart, Unlock, PhaseFacts, Restarting, StepFacts
    <2>2. QED
      BY <1>11, <2>1 DEF FinishStart, Running, Stopped, Hand, Alive, Service!vars, proc
  <1>12. QED
    BY <1>0, <1>2, <1>3, <1>4, <1>5, <1>6, <1>7, <1>8, <1>9, <1>10, <1>11 DEF Restart

\* StopXray ends Xray, if one runs, while no restart is under way.
LEMMA StopsImplement ==
    ASSUME StepFacts, NEW t \in Threads, Stop(t)
    PROVE  Service!Stop \/ Service!End \/ UNCHANGED Service!vars
PROOF
  <1>0. /\ StepFacts /\ TypeOK /\ TypeOK' /\ MutexInv /\ PhaseFacts /\ PhaseFacts' /\ Stop(t)
    BY DEF StepFacts, IndInv
  <1>1. CASE EnterStop(t)
    <2>1. Phase = "idle" /\ Phase' = "idle"
      BY <1>0, <1>1 DEF EnterStop, Goto, TypeOK, PhaseFacts
    <2>2. Running' = Running /\ Hand' = Hand /\ UNCHANGED db
      BY <1>1, <2>1 DEF EnterStop, Running, Hand, Alive, proc
    <2>3. CASE Alive(p)
      BY <1>1, <2>1, <2>2, <2>3 DEF EnterStop, Stopped, Alive, Service!vars, proc
    <2>4. CASE ~Alive(p)
      <3>1. Running' = Nil /\ Stopped' = TRUE
        BY <1>1, <2>4 DEF EnterStop, Running, Stopped, Alive, proc
      <3>2. QED
        BY <2>1, <2>2, <3>1 DEF Service!Stop
    <2>5. QED
      BY <2>3, <2>4
  <1>2. CASE KillXray(t)
    <2>1. Phase = "idle" /\ Phase' = "idle"
      BY <1>0, <1>2 DEF KillXray, Unlock, MutexInv, PhaseFacts
    <2>2. Hand' = Hand /\ UNCHANGED <<db, manual, p, loaded>>
      BY <1>2, <2>1 DEF KillXray, Hand
    <2>3. ~Alive(p)'
      BY <1>0, <1>2, ThreadsAssumption DEF KillXray, IsRunning, Killed, Alive, TypeOK,
         StepFacts, IndInv, ProcessInv
    <2>4. Running' = Nil /\ Stopped' = manual /\ manual \in BOOLEAN
      BY <1>0, <2>2, <2>3 DEF Running, Stopped, TypeOK
    <2>5. CASE manual
      BY <2>1, <2>2, <2>4, <2>5 DEF Service!Stop
    <2>6. CASE ~manual /\ Running # Nil
      BY <2>1, <2>2, <2>4, <2>6 DEF Service!End, Stopped
    <2>7. CASE ~manual /\ Running = Nil
      BY <2>1, <2>2, <2>4, <2>7 DEF Service!vars, Stopped
    <2>8. QED
      BY <2>5, <2>6, <2>7
  <1>3. QED
    BY <1>0, <1>1, <1>2 DEF Stop

\* The operating system ends a restart by forking its Xray or failing to, and
\* ends Xray itself.
LEMMA ChildrenImplement ==
    ASSUME StepFacts, NEW s \in Slots, OS(s)
    PROVE  \/ Service!Start \/ Service!EndRestart \/ Service!End \/ Service!Stop
           \/ UNCHANGED Service!vars
PROOF
  <1>0. /\ StepFacts /\ TypeOK /\ MutexInv /\ ManualInv /\ ProcessInv /\ PromptInv
        /\ PhaseFacts /\ PhaseFacts' /\ LateFork = FALSE /\ OS(s)
    BY DEF StepFacts, IndInv
  <1>1. UNCHANGED <<db, manual, lock, conf, p, pc>>
    BY DEF OS, Fork, ForkFails, Exit, Reap, Finalize, apply, local
  <1>2. ASSUME child'[p] = "launched" <=> child[p] = "launched"
        PROVE  Phase' = Phase /\ Hand' = Hand
    <2>1. Phase' = Phase
      BY <1>0, <1>1, <1>2, PhaseKept
    <2>2. QED
      BY <1>1, <2>1 DEF Hand
  <1>3. ASSUME child[s] \in {"launched", "unguarded"}, child'[p] # "launched"
        PROVE  /\ s = p /\ child[p] = "launched" /\ Hand = cfg /\ file = cfg
               /\ Phase = "start" /\ Phase' = "idle" /\ ~manual
    <2>1. s = p /\ child[p] = "launched"
      BY <1>0, <1>3 DEF PromptInv
    <2>2. PICK t \in Threads : pc[t] = "started"
      BY <1>0, <2>1, ThreadsAssumption DEF PromptInv
    <2>3. lock = t /\ ~manual
      BY <1>0, <2>2 DEF MutexInv, ManualInv, Restarting
    <2>4. Phase = "start" /\ Phase' = "idle"
      BY <1>0, <1>1, <1>3, <2>1, <2>2, <2>3 DEF PhaseFacts
    <2>5. Hand = cfg /\ file = cfg
      BY <1>0, <2>1, <2>2, <2>4, ThreadsAssumption DEF Hand, ProcessInv
    <2>6. QED
      BY <2>1, <2>3, <2>4, <2>5
  <1>4. CASE Fork(s)
    <2>1. child'[p] # "launched" /\ (s = p /\ child[s] = "launched" => Alive(p)')
      BY <1>0, <1>1, <1>4, ThreadsAssumption DEF Fork, PromptInv, TypeOK, Alive
    <2>2. /\ s = p /\ child[p] = "launched" /\ Hand = cfg /\ file = cfg
          /\ Phase = "start" /\ Phase' = "idle" /\ ~manual
      BY <1>3, <1>4, <2>1 DEF Fork
    <2>3. Running = Nil /\ Running' = Hand
      BY <1>4, <2>1, <2>2 DEF Fork, Running, Alive
    <2>4. Stopped' = Stopped /\ Hand' = Nil
      BY <1>1, <2>2 DEF Stopped, Hand
    <2>5. QED
      BY <1>1, <2>2, <2>3, <2>4 DEF Service!Start
  <1>5. CASE ForkFails(s)
    <2>1. child'[p] # "launched"
      BY <1>0, <1>5, ThreadsAssumption DEF ForkFails, PromptInv, TypeOK
    <2>2. s = p /\ child[p] = "launched" /\ Phase = "start" /\ Phase' = "idle"
      BY <1>3, <1>5, <2>1 DEF ForkFails
    <2>3. ~Alive(p) /\ ~Alive(p)'
      BY <1>0, <1>1, <1>5, <2>2 DEF ForkFails, Alive, TypeOK
    <2>4. Running' = Running /\ Stopped' = Stopped /\ Hand' = Nil
      BY <1>1, <2>2, <2>3 DEF Running, Stopped, Hand
    <2>5. QED
      BY <1>1, <2>2, <2>4 DEF Service!EndRestart
  <1>6. CASE Exit(s)
    <2>1. s = p /\ child[p] = "alive" /\ ~Alive(p)'
      BY <1>0, <1>1, <1>6 DEF Exit, Alive, PromptInv, TypeOK
    <2>2. Phase' = Phase /\ Hand' = Hand
      BY <1>0, <1>2, <1>6, <2>1 DEF Exit, TypeOK
    <2>3. Running' = Nil /\ ~Stopped /\ Stopped' = manual
      BY <1>0, <1>1, <1>6, <2>1 DEF Exit, Running, Stopped, Alive, TypeOK
    <2>4. CASE manual
      <3>1. Phase = "idle"
        BY <1>0, <2>4 DEF ManualInv, Restarting, Phase, At
      <3>2. QED
        BY <1>1, <2>2, <2>3, <2>4, <3>1 DEF Service!Stop
    <2>5. CASE ~manual
      <3>1. Running # Nil
        BY <1>0, <1>6, ConfigAssumption DEF Exit, Running, Alive, TypeOK, PromptInv
      <3>2. Stopped' = Stopped
        BY <1>1, <2>5 DEF Stopped
      <3>3. QED
        BY <1>1, <2>2, <2>3, <3>1, <3>2 DEF Service!End
    <2>6. QED
      BY <2>4, <2>5
  <1>7. CASE Reap(s)
    <2>1. /\ child'[p] = "launched" <=> child[p] = "launched"
          /\ Alive(p)' = Alive(p) /\ UNCHANGED loaded
      BY <1>0, <1>1, <1>7 DEF Reap, Alive, TypeOK
    <2>2. QED
      BY <1>1, <1>2, <2>1 DEF Running, Stopped, Service!vars
  <1>8. CASE Finalize(s)
    BY <1>0, <1>8 DEF Finalize, PromptInv
  <1>9. QED
    BY <1>0, <1>4, <1>5, <1>6, <1>7, <1>8 DEF OS

\* Consuming the flag and the monitor's reads are invisible to the service.
LEMMA OthersStutter ==
    ASSUME StepFacts,
           \/ \E j \in ApplyJobs : ApplyTick(j)
           \/ Monitor
           \/ UNCHANGED vars
    PROVE  UNCHANGED Service!vars
PROOF
  <1>0. StepFacts /\ TypeOK /\ MutexInv
    BY DEF StepFacts, IndInv
  <1>1. ASSUME NEW j \in ApplyJobs, ApplyTick(j) PROVE UNCHANGED Service!vars
    <2>1. j \in Threads /\ lock # j
      BY <1>0, <1>1 DEF ApplyTick, MutexInv, Restarting, Threads
    <2>2. /\ UNCHANGED <<lock, p, child>>
          /\ \A t \in Threads : lock = t => pc'[t] = pc[t]
      BY <1>0, <1>1, <2>1 DEF ApplyTick, Goto, TypeOK, proc
    <2>3. Phase' = Phase
      BY <1>0, <2>2, PhaseKept
    <2>4. QED
      BY <1>1, <2>3, Unseen DEF ApplyTick, proc
  <1>2. CASE Monitor \/ UNCHANGED vars
    <2>1. UNCHANGED <<db, manual, p, child, loaded, conf, lock, pc>>
      BY <1>2 DEF Monitor, SampleRunning, SampleManual, vars, apply, proc, local
    <2>2. Phase' = Phase
      BY <1>0, <2>1, PhaseKept
    <2>3. QED
      BY <2>1, <2>2, Unseen
  <1>3. QED
    BY <1>0, <1>1, <1>2

\* With prompt forks the supervisor implements the service: mutex, flag, Process
\* objects, finalizers and the shared bin/config.json amount to one Xray that
\* only a restart brings up, with the configuration it read.
THEOREM SupervisorImplementsService == ASSUME LateFork = FALSE PROVE Spec => Implements
PROOF
  <1>1. Init => Service!Init
    <2> SUFFICES ASSUME Init PROVE Service!Init
      OBVIOUS
    <2>1. \A t \in Threads : pc[t] \in {"lock", "idle"}
      BY DEF Init
    <2>2. Phase = "idle"
      BY <2>1 DEF Phase, At
    <2>3. Running = Nil /\ Stopped = FALSE /\ Hand = Nil /\ db \in Config
      BY <2>2 DEF Init, Running, Stopped, Hand, Alive
    <2>4. Config = Service!Config
      BY DEF Config, Service!Config
    <2>5. QED
      BY <2>2, <2>3, <2>4 DEF Service!Init
  <1>2. IndInv /\ IndInv' /\ PromptInv /\ PhaseFacts /\ PhaseFacts' /\ [Next]_vars
           => [Service!Next]_Service!vars
    <2> SUFFICES ASSUME IndInv, IndInv', PromptInv, PhaseFacts, PhaseFacts', [Next]_vars
                 PROVE  Service!Next \/ UNCHANGED Service!vars
      OBVIOUS
    <2>1. StepFacts
      BY DEF StepFacts
    <2>2. CASE \E h \in Handlers : Handle(h)
      BY <2>1, <2>2, RequestsImplement DEF Service!Next
    <2>3. CASE \E t \in Threads : Restart(t)
      BY <2>1, <2>3, RestartsImplement DEF Service!Next
    <2>4. CASE \E t \in Threads : Stop(t)
      BY <2>1, <2>4, StopsImplement DEF Service!Next
    <2>5. CASE \E s \in Slots : OS(s)
      BY <2>1, <2>5, ChildrenImplement DEF Service!Next
    <2>6. CASE (\E j \in ApplyJobs : ApplyTick(j)) \/ Monitor \/ UNCHANGED vars
      BY <2>1, <2>6, OthersStutter
    <2>7. QED
      BY <2>2, <2>3, <2>4, <2>5, <2>6 DEF Next
  <1>3. IndInv => TypeOK /\ MutexInv
    BY DEF IndInv
  <1>4. QED
    BY <1>1, <1>2, <1>3, PhaseOf, Inductive, PTL DEF Spec, Implements, Service!Spec
=============================================================================
