------------------------ MODULE DatabaseImportProofs ------------------------
(***************************************************************************)
(* Proofs that ImportDB keeps its promises for any number of uploads,      *)
(* faults and requests.  One inductive invariant serves all of them; its   *)
(* parts say where the previous database is (SavedInv), what the panel has *)
(* open (ServedInv) and who owes Xray a restart (ArmedInv).                *)
(***************************************************************************)
EXTENDS DatabaseImport, TLAPS

\* The database the import replaces is followed through the renames.  Before
\* them it is at its place, because the checkpoint succeeded on an open one.
SavedInv ==
    /\ before # None => before \in {dir["db"], dir["backup"]}
    /\ pc = "validate" /\ dir["db"] # None => before = dir["db"]
    /\ pc \in {"sample", "stop", "close", "unlink", "moveAway", "reopen"} =>
          before # None /\ before = dir["db"]
    /\ pc \in {"install", "open", "migrate", "undo", "moveBack", "restart", "commit"} =>
          before # None /\ before = dir["backup"]

\* The open file is never moved or unlinked.
ServedInv ==
    /\ handle # None => handle = dir["db"]
    /\ pc \in {"unlink", "moveAway", "install", "open", "moveBack", "reopen"} =>
          handle = None
    /\ pc \in {"migrate", "restart", "commit"} => handle # None
    /\ pc \in {"deferred", "idle"} /\ outcome \in {"ok", "undone", "noRestart"} =>
          handle # None
    /\ pc \in {"deferred", "idle"} /\ outcome = "undone" => handle = before

\* Whoever set isManuallyStopped is the administrator, or ImportDB with its
\* deferred restart still armed.
ArmedInv ==
    /\ restartOnError => wasRunning
    /\ pc = "stop" => wasRunning
    /\ pc \in {"idle", "validate", "sample", "stop", "commit"} => ~restartOnError
    /\ manual => adminStop \/ stopRaced \/ restartOnError \/ pc = "off"

IInv == TypeOK /\ SavedInv /\ ServedInv /\ ArmedInv

\* The panel starts with the original database open and Xray running.
LEMMA InitIInv == Init => IInv
PROOF
  <1> SUFFICES ASSUME Init PROVE IInv
    OBVIOUS
  <1>1. TypeOK
    <2>1. dir \in [Paths -> Files \cup {None}]
      BY DEF Init, Files
    <2>2. faults \in 0..MaxFaults /\ requests \in 0..MaxRequests
      BY FilesAssumption DEF Init
    <2>3. QED
      BY <2>2 DEF Init, TypeOK, Files
  <1>2. SavedInv
    BY DEF Init, SavedInv
  <1>3. ServedInv
    BY DEF Init, ServedInv, Paths
  <1>4. ArmedInv
    BY DEF Init, ArmedInv
  <1>5. QED
    BY <1>1, <1>2, <1>3, <1>4 DEF IInv

\* Every step of ImportDB, of the administrator and of the environment keeps
\* the invariant.
LEMMA StepIInv == IInv /\ [Next]_vars => IInv'
PROOF
  <1> SUFFICES ASSUME IInv, [Next]_vars PROVE IInv'
    OBVIOUS
  <1>1. CASE Receive
    BY <1>1, FilesAssumption
       DEF Receive, Step, IInv, TypeOK, SavedInv, ServedInv, ArmedInv, Files, Paths,
           import, proc, ghost
  <1>2. CASE Refuse
    BY <1>2 DEF Refuse, Fail, IInv, TypeOK, SavedInv, ServedInv, ArmedInv, proc
  <1>3. CASE Accept
    BY <1>3 DEF Accept, Step, IInv, TypeOK, SavedInv, ServedInv, ArmedInv, proc, ghost
  <1>4. CASE SampleRunning
    <2>1. TypeOK'
      BY <1>4 DEF SampleRunning, Step, IInv, TypeOK, proc, ghost
    <2>2. SavedInv'
      BY <1>4 DEF SampleRunning, Step, IInv, SavedInv, ghost
    <2>3. ServedInv'
      BY <1>4 DEF SampleRunning, Step, IInv, ServedInv
    <2>4. ArmedInv'
      <3>1. CASE xray
        BY <1>4 DEF SampleRunning, Step, IInv, ArmedInv, proc, ghost
      <3>2. CASE ~xray
        BY <1>4 DEF SampleRunning, Step, IInv, ArmedInv, proc, ghost
      <3>3. QED
        BY <3>1, <3>2
    <2>5. QED
      BY <2>1, <2>2, <2>3, <2>4 DEF IInv
  <1>5. CASE StopXray
    BY <1>5, FilesAssumption
       DEF StopXray, Fail, IInv, TypeOK, SavedInv, ServedInv, ArmedInv, Files,
           Paths, import, proc, ghost
  <1>6. CASE CloseDB
    BY <1>6 DEF CloseDB, Step, IInv, TypeOK, SavedInv, ServedInv, ArmedInv, proc, ghost
  <1>7. CASE CloseDBFails
    BY <1>7, FilesAssumption
       DEF CloseDBFails, Fault, Fail, IInv, TypeOK, SavedInv, ServedInv, ArmedInv,
           proc
  <1>8. CASE RemoveOldBackup
    BY <1>8
       DEF RemoveOldBackup, Step, Remove, IInv, TypeOK, SavedInv, ServedInv,
           ArmedInv, Paths, proc, ghost
  <1>9. CASE MoveAway
    BY <1>9
       DEF MoveAway, Step, Rename, IInv, TypeOK, SavedInv, ServedInv, ArmedInv,
           Paths, proc, ghost
  <1>10. CASE MoveAwayFails
    BY <1>10, FilesAssumption
       DEF MoveAwayFails, Fault, Fail, Open, Opened, IInv, TypeOK, SavedInv,
           ServedInv, ArmedInv, proc
  <1>11. CASE Install
    BY <1>11
       DEF Install, Step, Rename, IInv, TypeOK, SavedInv, ServedInv, ArmedInv,
           Paths, proc, ghost
  <1>12. CASE InstallFails
    BY <1>12, FilesAssumption
       DEF InstallFails, Step, Fault, IInv, TypeOK, SavedInv, ServedInv, ArmedInv,
           proc, ghost
  <1>13. CASE OpenImported
    BY <1>13, FilesAssumption
       DEF OpenImported, Step, Open, Opened, IInv, TypeOK, SavedInv, ServedInv,
           ArmedInv, Files, Paths, proc, ghost
  <1>14. CASE Migrate
    BY <1>14 DEF Migrate, Step, IInv, TypeOK, SavedInv, ServedInv, ArmedInv, proc, ghost
  <1>15. CASE OpenFails
    BY <1>15, FilesAssumption
       DEF OpenFails, Fault, IInv, TypeOK, SavedInv, ServedInv, ArmedInv, proc,
           ghost
  <1>16. CASE Undo
    BY <1>16
       DEF Undo, Step, Remove, IInv, TypeOK, SavedInv, ServedInv, ArmedInv, Paths,
           proc, ghost
  <1>17. CASE MoveBack
    BY <1>17
       DEF MoveBack, Step, Rename, IInv, TypeOK, SavedInv, ServedInv, ArmedInv,
           Paths, proc, ghost
  <1>18. CASE Reopen
    BY <1>18
       DEF Reopen, Fail, Open, Opened, IInv, TypeOK, SavedInv, ServedInv, ArmedInv,
           proc
  <1>19. CASE UndoFails
    BY <1>19, FilesAssumption
       DEF UndoFails, Fault, Fail, IInv, TypeOK, SavedInv, ServedInv, ArmedInv, proc
  <1>20. CASE RestartXray
    <2>1. TypeOK'
      BY <1>20, FilesAssumption
         DEF RestartXray, Step, Restarted, IInv, TypeOK, Files, Paths, import, proc,
             ghost
    <2>2. SavedInv'
      BY <1>20 DEF RestartXray, Step, IInv, SavedInv, ghost
    <2>3. ServedInv'
      BY <1>20 DEF RestartXray, Step, IInv, ServedInv
    <2>4. ArmedInv'
      BY <1>20 DEF RestartXray, Step, Restarted, IInv, ArmedInv, proc, ghost
    <2>5. QED
      BY <2>1, <2>2, <2>3, <2>4 DEF IInv
  <1>21. CASE RestartFails
    <2>1. TypeOK'
      <3>1. faults' \in 0..MaxFaults
        BY <1>21, FilesAssumption DEF RestartFails, Fault, IInv, TypeOK
      <3>2. QED
        BY <1>21, <3>1 DEF RestartFails, Fail, RestartFailed, IInv, TypeOK
    <2>2. SavedInv'
      BY <1>21 DEF RestartFails, Fail, IInv, SavedInv
    <2>3. ServedInv'
      BY <1>21 DEF RestartFails, Fail, IInv, ServedInv
    <2>4. ArmedInv'
      BY <1>21 DEF RestartFails, Fail, RestartFailed, ArmedInv
    <2>5. QED
      BY <2>1, <2>2, <2>3, <2>4 DEF IInv
  <1>22. CASE Commit
    BY <1>22, FilesAssumption
       DEF Commit, Step, Fault, Remove, IInv, TypeOK, SavedInv, ServedInv, ArmedInv,
           Paths, proc
  <1>23. CASE Deferred
    <2>1. TypeOK'
      <3>1. faults' = faults \/ Fault
        BY <1>23 DEF Deferred
      <3>2. faults' \in 0..MaxFaults
        BY <3>1, FilesAssumption DEF Fault, IInv, TypeOK
      <3>3. {xray', manual', stopRaced', restartOnError'} \subseteq BOOLEAN
        BY <1>23 DEF Deferred, Restarted, RestartFailed, IInv, TypeOK, proc
      <3>4. dir' \in [Paths -> Files \cup {None}]
        BY <1>23 DEF Deferred, Remove, IInv, TypeOK
      <3>5. QED
        BY <1>23, <3>2, <3>3, <3>4 DEF Deferred, Step, IInv, TypeOK, ghost
    <2>2. SavedInv'
      BY <1>23 DEF Deferred, Step, Remove, IInv, SavedInv, ghost
    <2>3. ServedInv'
      BY <1>23 DEF Deferred, Step, Remove, IInv, ServedInv, ghost
    <2>4. ArmedInv'
      <3>1. ~restartOnError'
        BY <1>23 DEF Deferred
      <3>2. manual' => manual /\ ~restartOnError /\ stopRaced' = stopRaced
        BY <1>23 DEF Deferred, Restarted, RestartFailed, proc
      <3>3. QED
        BY <1>23, <3>2 DEF Deferred, Step, IInv, ArmedInv, ghost
    <2>5. QED
      BY <2>1, <2>2, <2>3, <2>4 DEF IInv
  <1>24. CASE XrayExits
    <2>1. TypeOK'
      <3>1. faults' \in 0..MaxFaults
        BY <1>24, FilesAssumption DEF XrayExits, Fault, IInv, TypeOK
      <3>2. {xray', manual', stopRaced'} \subseteq BOOLEAN
        BY <1>24 DEF XrayExits, IInv, TypeOK
      <3>3. QED
        BY <1>24, <3>1, <3>2 DEF XrayExits, IInv, TypeOK, import, ghost
    <2>2. SavedInv'
      BY <1>24 DEF XrayExits, IInv, SavedInv, import, ghost
    <2>3. ServedInv'
      BY <1>24 DEF XrayExits, IInv, ServedInv, import, ghost
    <2>4. ArmedInv'
      BY <1>24 DEF XrayExits, IInv, ArmedInv, import, ghost
    <2>5. QED
      BY <2>1, <2>2, <2>3, <2>4 DEF IInv
  <1>25. CASE MonitorRestarts
    BY <1>25
       DEF MonitorRestarts, IInv, TypeOK, SavedInv, ServedInv, ArmedInv, import,
           ghost
  <1>26. ASSUME NEW stop \in BOOLEAN, Request(stop) PROVE IInv'
    <2>1. TypeOK'
      <3>1. requests' \in 0..MaxRequests
        BY <1>26, FilesAssumption DEF Request, IInv, TypeOK
      <3>2. {xray', manual', stopRaced', adminStop'} \subseteq BOOLEAN
        BY <1>26 DEF Request, Restarted, IInv, TypeOK
      <3>3. QED
        BY <1>26, <3>1, <3>2 DEF Request, IInv, TypeOK, import
    <2>2. SavedInv'
      BY <1>26 DEF Request, IInv, SavedInv, import
    <2>3. ServedInv'
      BY <1>26 DEF Request, IInv, ServedInv, import
    <2>4. ArmedInv'
      BY <1>26 DEF Request, Restarted, IInv, ArmedInv, import
    <2>5. QED
      BY <2>1, <2>2, <2>3, <2>4 DEF IInv
  <1>27. CASE PanelCrashes
    <2>1. TypeOK'
      <3>1. faults' \in 0..MaxFaults
        BY <1>27, FilesAssumption DEF PanelCrashes, Fault, IInv, TypeOK
      <3>2. QED
        BY <1>27, <3>1 DEF PanelCrashes, IInv, TypeOK, ghost
    <2>2. SavedInv'
      BY <1>27 DEF PanelCrashes, IInv, SavedInv, ghost
    <2>3. ServedInv'
      BY <1>27 DEF PanelCrashes, ServedInv
    <2>4. ArmedInv'
      BY <1>27 DEF PanelCrashes, IInv, ArmedInv
    <2>5. QED
      BY <2>1, <2>2, <2>3, <2>4 DEF IInv
  <1>28. CASE PanelBoots
    BY <1>28
       DEF PanelBoots, Step, Open, Opened, Restarted, IInv, TypeOK, SavedInv,
           ServedInv, ArmedInv, Files, Paths
  <1>29. CASE UNCHANGED vars
    BY <1>29 DEF vars, IInv, TypeOK, SavedInv, ServedInv, ArmedInv, import, proc, ghost
  <1>30. QED
    BY <1>1, <1>2, <1>3, <1>4, <1>5, <1>6, <1>7, <1>8, <1>9, <1>10, <1>11, <1>12,
       <1>13, <1>14, <1>15, <1>16, <1>17, <1>18, <1>19, <1>20, <1>21, <1>22, <1>23,
       <1>24, <1>25, <1>26, <1>27, <1>28, <1>29
       DEF Next, ImportStep, Environment

\* The invariant holds in every reachable state.
THEOREM Inductive == Spec => []IInv
PROOF
  <1>1. QED
    BY InitIInv, StepIInv, PTL DEF Spec

\* The state of ImportDB and of the panel always has the declared types.
THEOREM TypeCorrect == Spec => []TypeOK
PROOF
  <1>1. IInv => TypeOK
    BY DEF IInv
  <1>2. QED
    BY <1>1, Inductive, PTL

\* No sequence of failing calls, crashes and restarts of the panel destroys the
\* database an import set out to replace before the import has succeeded.
THEOREM OldDatabaseKept == Spec => []NothingDestroyed
PROOF
  <1>1. IInv => NothingDestroyed
    BY DEF IInv, SavedInv, NothingDestroyed
  <1>2. QED
    BY <1>1, Inductive, PTL

\* After an import that was not left half undone the panel serves the installed
\* file, and the previous one if the import was undone.
THEOREM InstalledServed == Spec => []PanelServesInstalled
PROOF
  <1>1. IInv => PanelServesInstalled
    BY DEF IInv, ServedInv, PanelServesInstalled
  <1>2. QED
    BY <1>1, Inductive, PTL

\* ImportDB's own stop of Xray never outlives it, except in the race where Xray
\* exits between IsXrayRunning and StopXray.
THEOREM StopUndone == Spec => []StopIsTemporary
PROOF
  <1>1. IInv => StopIsTemporary
    BY DEF IInv, ArmedInv, StopIsTemporary
  <1>2. QED
    BY <1>1, Inductive, PTL
=============================================================================
