--------------------------- MODULE DatabaseImport ---------------------------
(***************************************************************************)
(* Restoring a backup over the live database (ImportDB in                  *)
(* web/service/server.go, with database/db.go): files are moved under the  *)
(* panel's feet and Xray is stopped and restarted, while any step can      *)
(* fail, the panel can die between two steps and be started again, Xray    *)
(* can exit and the administrator can stop or restart it.                  *)
(*                                                                         *)
(* Files are followed by identity: rename moves a file from one path to    *)
(* another, and the open database is a file, not a path.                   *)
(***************************************************************************)
EXTENDS Naturals

CONSTANTS
    Original,    \* the database file in use when the story begins
    Uploads,     \* the files the uploads are copied to
    Fresh,       \* the database InitDB creates when there is no file
    None,        \* no file at a path; no database open
    MaxFaults,   \* bound: failing calls, exits of Xray and panel crashes
    MaxRequests  \* bound: stops and restarts by the administrator

Files == {Original, Fresh} \cup Uploads
Paths == {"db", "backup", "temp"}

ASSUME FilesAssumption ==
    /\ Original # Fresh /\ {Original, Fresh} \cap Uploads = {}
    /\ None \notin Files
    /\ MaxFaults \in Nat /\ MaxRequests \in Nat

VARIABLES
    dir,          \* x-ui.db, x-ui.db.backup and x-ui-import-*.db
    handle,       \* the file the global gorm handle has open
    pc,           \* where ImportDB is, which holds serverMaintenanceMu
    wasRunning,   \* its local, read before the stop
    restartOnError,
    xray, manual, \* Xray runs; isManuallyStopped
    before,       \* history: the database the last import set out to replace
    outcome,      \* history: how the last import ended
    adminStop,    \* history: the last request of the administrator was a stop
    stopRaced,    \* history: ImportDB's StopXray found Xray gone
    faults, requests

import == <<dir, handle, pc, wasRunning, restartOnError>>
proc   == <<xray, manual, stopRaced>>
ghost  == <<before, outcome, adminStop>>
vars   == <<import, proc, ghost, faults, requests>>

TypeOK ==
    /\ dir \in [Paths -> Files \cup {None}]
    /\ handle \in Files \cup {None}
    /\ pc \in {"off", "idle", "validate", "sample", "stop", "close", "unlink",
               "moveAway", "install", "open", "migrate", "undo", "moveBack",
               "reopen", "restart", "commit", "deferred"}
    /\ wasRunning \in BOOLEAN /\ restartOnError \in BOOLEAN
    /\ xray \in BOOLEAN /\ manual \in BOOLEAN
    /\ before \in Files \cup {None}
    /\ outcome \in {"none", "ok", "refused", "undone", "noRestart",
                    "notClosed", "notUndone"}
    /\ adminStop \in BOOLEAN /\ stopRaced \in BOOLEAN
    /\ faults \in 0..MaxFaults /\ requests \in 0..MaxRequests

Init ==
    /\ dir = [x \in Paths |-> IF x = "db" THEN Original ELSE None]
    /\ handle = Original
    /\ pc = "idle" /\ wasRunning = FALSE /\ restartOnError = FALSE
    /\ xray = TRUE /\ manual = FALSE
    /\ before = None /\ outcome = "none"
    /\ adminStop = FALSE /\ stopRaced = FALSE
    /\ faults = 0 /\ requests = 0

-----------------------------------------------------------------------------
Fault == faults < MaxFaults /\ faults' = faults + 1

Step(from, to) == pc = from /\ pc' = to

\* os.Rename(from, to): atomic, replaces what was at the target.
Rename(from, to) == dir' = [dir EXCEPT ![to] = dir[from], ![from] = None]

Remove(path) == dir' = [dir EXCEPT ![path] = None]

\* sqlite opens the file at the path and creates it when there is none.
Opened(d) == IF d["db"] = None THEN Fresh ELSE d["db"]

Open ==
    /\ handle' = Opened(dir)
    /\ dir' = [dir EXCEPT !["db"] = Opened(dir)]

\* The deferred calls: the temporary file goes, Xray is restarted if armed.
Fail(how) == pc' = "deferred" /\ outcome' = how

-----------------------------------------------------------------------------
(* ImportDB *)

\* The upload is copied to a temporary file in the directory of the database.
Receive ==
    /\ Step("idle", "validate")
    /\ \E u \in Uploads \ {dir["db"], dir["backup"]} :
          dir' = [dir EXCEPT !["temp"] = u]
    /\ before' = IF dir["db"] = None THEN before ELSE dir["db"]
    /\ outcome' = "none"
    /\ wasRunning' = FALSE /\ restartOnError' = FALSE
    /\ UNCHANGED <<handle, proc, adminStop, faults, requests>>

\* The upload is no panel database, or the checkpoint fails: it always does
\* when an earlier import left the database closed.
Refuse ==
    /\ pc = "validate"
    /\ Fail("refused")
    /\ UNCHANGED <<dir, handle, wasRunning, restartOnError, proc, before, adminStop, faults, requests>>

Accept ==
    /\ Step("validate", "sample")
    /\ handle # None
    /\ UNCHANGED <<dir, handle, wasRunning, restartOnError, proc, ghost, faults, requests>>

SampleRunning ==
    /\ Step("sample", IF xray THEN "stop" ELSE "close")
    /\ wasRunning' = xray
    /\ UNCHANGED <<dir, handle, restartOnError, proc, ghost, faults, requests>>

\* Mutant of StopXray: restartOnError is not armed.
StopUnarmed ==
    /\ pc = "stop"
    /\ manual' = TRUE
    /\ xray' = FALSE
    /\ IF xray THEN pc' = "close" /\ UNCHANGED <<outcome, stopRaced>>
               ELSE Fail("refused") /\ stopRaced' = TRUE
    /\ UNCHANGED <<dir, handle, wasRunning, restartOnError, before, adminStop, faults, requests>>

\* StopXray sets isManuallyStopped first; finding Xray gone it returns an
\* error, which ImportDB returns before it has armed the deferred restart.
StopXray ==
    /\ pc = "stop"
    /\ manual' = TRUE
    /\ xray' = FALSE
    /\ IF xray THEN pc' = "close" /\ UNCHANGED <<outcome, stopRaced>>
               ELSE Fail("refused") /\ stopRaced' = TRUE
    /\ restartOnError' = xray
    /\ UNCHANGED <<dir, handle, wasRunning, before, adminStop, faults, requests>>

CloseDB ==
    /\ Step("close", "unlink")
    /\ handle' = None
    /\ UNCHANGED <<dir, wasRunning, restartOnError, proc, ghost, faults, requests>>

\* sql.DB.Close marks the pool closed whatever it returns.
CloseDBFails ==
    /\ pc = "close"
    /\ Fault
    /\ handle' = None
    /\ Fail("notClosed")
    /\ UNCHANGED <<dir, wasRunning, restartOnError, proc, before, adminStop, requests>>

RemoveOldBackup ==
    /\ Step("unlink", "moveAway")
    /\ Remove("backup")
    /\ UNCHANGED <<handle, wasRunning, restartOnError, proc, ghost, faults, requests>>

MoveAway ==
    /\ Step("moveAway", "install")
    /\ Rename("db", "backup")
    /\ UNCHANGED <<handle, wasRunning, restartOnError, proc, ghost, faults, requests>>

\* Either call failed: nothing was moved, the database is opened again; that
\* can fail too, and the error is ignored.
MoveAwayFails ==
    /\ pc \in {"unlink", "moveAway"}
    /\ Fault
    /\ \/ Open /\ Fail("undone")
       \/ UNCHANGED <<dir, handle>> /\ Fail("notUndone")
    /\ UNCHANGED <<wasRunning, restartOnError, proc, before, adminStop, requests>>

\* Mutant of Install: the backup is dropped as soon as the upload is in place.
InstallAndDropBackup ==
    /\ Step("install", "open")
    /\ dir' = [dir EXCEPT !["db"] = dir["temp"], !["temp"] = None, !["backup"] = None]
    /\ UNCHANGED <<handle, wasRunning, restartOnError, proc, ghost, faults, requests>>

Install ==
    /\ Step("install", "open")
    /\ Rename("temp", "db")
    /\ UNCHANGED <<handle, wasRunning, restartOnError, proc, ghost, faults, requests>>

InstallFails ==
    /\ Step("install", "undo")
    /\ Fault
    /\ UNCHANGED <<dir, handle, wasRunning, restartOnError, proc, ghost, requests>>

\* InitDB replaces the global handle, then migrates the tables.
OpenImported ==
    /\ Step("open", "migrate")
    /\ Open
    /\ UNCHANGED <<wasRunning, restartOnError, proc, ghost, faults, requests>>

Migrate ==
    /\ Step("migrate", "restart")
    /\ UNCHANGED <<dir, handle, wasRunning, restartOnError, proc, ghost, faults, requests>>

OpenFails ==
    /\ pc \in {"open", "migrate"} /\ pc' = "undo"
    /\ Fault
    /\ UNCHANGED <<dir, handle, wasRunning, restartOnError, proc, ghost, requests>>

\* restoreDatabaseFallback: close and unlink, rename, open.
Undo ==
    /\ Step("undo", "moveBack")
    /\ handle' = None
    /\ Remove("db")
    /\ UNCHANGED <<wasRunning, restartOnError, proc, ghost, faults, requests>>

MoveBack ==
    /\ Step("moveBack", "reopen")
    /\ Rename("backup", "db")
    /\ UNCHANGED <<handle, wasRunning, restartOnError, proc, ghost, faults, requests>>

\* Mutant of Reopen: the fallback is in place but not opened.
ReopenForgotten ==
    /\ pc = "reopen"
    /\ Fail("undone")
    /\ UNCHANGED <<dir, handle, wasRunning, restartOnError, proc, before, adminStop, faults, requests>>

Reopen ==
    /\ pc = "reopen"
    /\ Open
    /\ Fail("undone")
    /\ UNCHANGED <<wasRunning, restartOnError, proc, before, adminStop, faults, requests>>

UndoFails ==
    /\ pc \in {"moveBack", "reopen"}
    /\ Fault
    /\ Fail("notUndone")
    /\ UNCHANGED <<dir, handle, wasRunning, restartOnError, proc, before, adminStop, requests>>

\* RestartXray(true): isManuallyStopped is cleared even if it fails then.
Restarted == manual' = FALSE /\ stopRaced' = FALSE /\ xray' = TRUE
RestartFailed == manual' = FALSE /\ stopRaced' = FALSE /\ xray' \in {xray, FALSE}

RestartXray ==
    /\ Step("restart", "commit")
    /\ IF wasRunning THEN Restarted ELSE UNCHANGED proc
    /\ restartOnError' = FALSE
    /\ UNCHANGED <<dir, handle, wasRunning, ghost, faults, requests>>

\* "database restored, but Xray failed to restart": the backup stays.
RestartFails ==
    /\ pc = "restart" /\ wasRunning
    /\ Fault
    /\ RestartFailed
    /\ Fail("noRestart")
    /\ UNCHANGED <<dir, handle, wasRunning, restartOnError, before, adminStop, requests>>

\* Failing to remove the backup is logged only.
Commit ==
    /\ Step("commit", "idle")
    /\ \/ Remove("backup") /\ UNCHANGED faults
       \/ Fault /\ UNCHANGED dir
    /\ before' = None /\ outcome' = "ok"
    /\ UNCHANGED <<handle, wasRunning, restartOnError, proc, adminStop, requests>>

\* Mutant of Deferred: the deferred function only logs.
DeferredWithoutRestart ==
    /\ Step("deferred", "idle")
    /\ Remove("temp")
    /\ restartOnError' = FALSE
    /\ UNCHANGED <<handle, wasRunning, proc, ghost, faults, requests>>

\* The restart fails if the database is closed or Xray does not start.
Deferred ==
    /\ Step("deferred", "idle")
    /\ Remove("temp")
    /\ \/ ~restartOnError /\ UNCHANGED <<proc, faults>>
       \/ restartOnError /\ handle # None /\ Restarted /\ UNCHANGED faults
       \/ restartOnError /\ handle = None /\ RestartFailed /\ UNCHANGED faults
       \/ restartOnError /\ handle # None /\ RestartFailed /\ Fault
    /\ restartOnError' = FALSE
    /\ UNCHANGED <<handle, wasRunning, ghost, requests>>

-----------------------------------------------------------------------------
(* The rest of the world *)

XrayExits ==
    /\ xray /\ Fault
    /\ xray' = FALSE
    /\ UNCHANGED <<import, manual, stopRaced, ghost, requests>>

\* The monitor of XraySupervisor brings back an Xray nobody stopped.
MonitorRestarts ==
    /\ pc # "off" /\ ~xray /\ ~manual /\ handle # None
    /\ xray' = TRUE
    /\ UNCHANGED <<import, manual, stopRaced, ghost, faults, requests>>

Request(stop) ==
    /\ pc # "off" /\ requests < MaxRequests
    /\ requests' = requests + 1
    /\ adminStop' = stop
    /\ \/ stop /\ manual' = TRUE /\ xray' = FALSE /\ UNCHANGED stopRaced
       \/ ~stop /\ handle # None /\ Restarted
       \/ ~stop /\ handle = None /\ manual' = FALSE /\ stopRaced' = FALSE /\ UNCHANGED xray
    /\ UNCHANGED <<import, before, outcome, faults>>

\* The panel dies; the service manager ends its children.
PanelCrashes ==
    /\ pc # "off" /\ Fault
    /\ pc' = "off" /\ handle' = None
    /\ xray' = FALSE
    /\ UNCHANGED <<dir, wasRunning, restartOnError, manual, stopRaced, ghost, requests>>

\* runWebServer: InitDB, then the forced restart of startTask.  Leftover
\* temporary files and backups are not looked at.
PanelBoots ==
    /\ Step("off", "idle")
    /\ Open
    /\ Restarted
    /\ adminStop' = FALSE /\ outcome' = "none"
    /\ wasRunning' = FALSE /\ restartOnError' = FALSE
    /\ UNCHANGED <<before, faults, requests>>

-----------------------------------------------------------------------------
ImportStep ==
    \/ Refuse \/ Accept \/ SampleRunning \/ StopXray
    \/ CloseDB \/ CloseDBFails \/ RemoveOldBackup \/ MoveAway \/ MoveAwayFails
    \/ Install \/ InstallFails \/ OpenImported \/ Migrate \/ OpenFails
    \/ Undo \/ MoveBack \/ Reopen \/ UndoFails
    \/ RestartXray \/ RestartFails \/ Commit \/ Deferred

Environment ==
    \/ XrayExits \/ MonitorRestarts
    \/ \E stop \in BOOLEAN : Request(stop)
    \/ PanelCrashes \/ PanelBoots

Next == Receive \/ ImportStep \/ Environment

Spec == Init /\ [][Next]_vars

\* ImportDB runs to its end, the service manager restarts a dead panel, and cron
\* keeps ticking: no series of imports always has the database closed then.
FairSpec == Spec /\ WF_vars(ImportStep) /\ WF_vars(PanelBoots) /\ SF_vars(MonitorRestarts)

-----------------------------------------------------------------------------
(* What ImportDB promises *)

\* Whatever fails, and wherever the panel dies, the database an import set out
\* to replace is on disk, at its place or as the backup, until the import has
\* succeeded; a later import starts from the database it finds.
NothingDestroyed == before # None => before \in {dir["db"], dir["backup"]}

\* When ImportDB has returned, the panel has the file open that is installed:
\* the old one if the import was undone.  It does not hold where two calls fail
\* ("notUndone") or CloseDB fails ("notClosed"): those leave the panel without
\* a database until it is started again.
PanelServesInstalled ==
    pc = "idle" /\ outcome \in {"ok", "undone", "noRestart"} =>
        /\ handle # None /\ handle = dir["db"]
        /\ outcome = "undone" => handle = before

\* An import does not leave isManuallyStopped set, which would keep the monitor
\* from ever restarting Xray -- unless Xray exited between the two reads.
StopIsTemporary == pc = "idle" /\ manual => adminStop \/ stopRaced

\* Xray comes back after every import, failed or not.
XrayReturns ==
    []<>(xray \/ adminStop \/ stopRaced \/ (pc = "idle" /\ handle = None))
=============================================================================
