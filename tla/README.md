# A verification of the x-ui panel

TLA+ models of the panel in this repository, TLC configurations that check them on
small instances, and theorems about them checked by the TLA+ proof system. The panel
is a Go program: an HTTP server, a handful of cron jobs, a SQLite database reached
through gorm, and one child process, Xray, that does the proxying. Its difficult part
is not in any single function but in what its goroutines do to each other and to Xray,
so the models are about steps of several actors, failing steps, and crashes.

## 1. Components

| Component | Where | State it keeps | Operations |
|---|---|---|---|
| **Xray supervisor** | `web/service/xray.go`, `xray/process.go`, the jobs `check_xray_running_job.go` and `check_inbound_job.go`, the controllers that call them | `p` (current `xray.Process`), `lock`, `isNeedXrayRestart`, `isManuallyStopped`, `result`; in each Process `cmd`, `config`; the shared file `bin/config.json`; the children | `RestartXray(force)`, `StopXray`, `SetToNeedRestart`, `IsNeedRestartAndSetFalse`, `DidXrayCrash`, `Process.Start/Stop`, `CheckXrayRunningJob.Run` |
| **Login throttle** | `util/limiter/limiter.go`, `web/controller/index.go` | two maps key → (failures, lockedUntil, lastSeen) | `Allow`, `Fail`, `Reset`, eviction; `login` |
| **Database import** | `web/service/server.go` (`ImportDB`), `database/db.go`, the boot in `main.go` | `x-ui.db`, its backup and temporary files, the global gorm handle, `serverMaintenanceMu` | `ImportDB`, `restoreDatabaseFallback`, `InitDB`, `CloseDB`, `Checkpoint` |
| **Inbound store and traffic accounting** | `web/service/inbound.go`, `web/controller/inbound.go`, `web/job/xray_traffic_job.go`, `web/job/check_inbound_job.go` | the inbounds table with its UNIQUE columns, Xray's counters | `addInbound`, `updateInbound`, `delInbound`, `AddTraffic`, `DisableInvalidInbounds` |
| **Sessions, authentication, credentials** | `web/controller/base.go`, `index.go`, `setting.go`, `web/session`, `web/service/user.go`, `database/model/password.go` | the users table, session cookies with a credential fingerprint | `CheckUser` (rehashes legacy passwords), `UpdateUser`, `UpdateFirstUser`, `checkLogin`, `updateUser`, `logout` |
| **Output queue and result cache** | `xray/process.go`, `web/service/xray.go` | a bounded queue of Xray's output lines for each Process, the cached result | two pipe readers, `GetResult`, `GetXrayResult` |
| **Inbound editor** (browser) | `web/assets/js/model/xray.js`, `web/html/xui/inbounds.html`, `inbound_modal.html` and the form templates | the modal's inbound, the listed inbounds, requests under way | open, choose protocol, transport, security, ALPN, keys; submit, reset, switch |
| **WARP registration and rotation** | `web/service/warp.go`, `web/job/warp_ip_job.go`, `web/controller/setting.go` | WARP credentials, interval and time of the last rotation (settings), the WARP outbound in the template | `RegWarp`, `ChangeWarpIP`, `SetWarpLicense`, `SetWarpUpdateInterval`, `DelWarpData`, `WarpIPJob.Run` |
| **Settings** | `web/service/setting.go`, `web/entity/entity.go` | the settings table (key, value) | `getSetting`, `saveSetting`, `UpdateAllSetting`, `GetSecret`, `ResetSettings` |
| **HTTP to HTTPS redirect** | `web/network/autp_https_conn.go` | the bytes probed at the start of a connection, the read deadline | `Read` |
| **Panel lifecycle** | `main.go`, `web/web.go`, `web/service/panel.go` | the `Server`, its listener, cron and context, a channel of one signal | `Server.Start`, `Server.Stop`, SIGHUP reload, SIGTERM, `RestartPanel` |
| Configuration algorithms | `xray/config.go`, `xray/inbound.go`, `database/model/model.go` | none | `Equals`, `GenXrayInboundConfig`, base path normalisation, version test |
| Outbound, routing and settings editors (browser) | `web/assets/js/model/outbound.js`, `web/html/xui` | the page's copy of the template | edit and save |
| Status metrics, downloads | `web/service/server.go` | none others read | `/proc` readings, `UpdateXray`, `UpdateGeofile` downloads |
| Telegram notifications | `web/job/stats_notify_job.go` | none | formats and sends |
| Command line, scripts | `main.go`, `x-ui.sh`, `install.sh` | none | one-shot writes of settings |
| Vendored browser libraries; templates and translations | `web/assets`, `web/html`, `web/translation` | none | presentation |

How they interact:

* Handlers of the inbound and settings controllers save to the database and then call
  `SetToNeedRestart`; so does `CheckInboundJob` when it disables inbounds. A cron function
  (`controller/inbound.go:38`) tests the flag every ten seconds and calls
  `RestartXray(false)`. cron starts every run in a goroutine of its own, so runs overlap
  when a restart is slow.
* `CheckXrayRunningJob` polls every thirty seconds; after two observations of a crash it
  calls `SetToNeedRestart` too.
* The Start/Stop/Restart buttons, `UpdateXray`, `UpdateGeofile`, `ImportDB`, `startTask`
  and SIGHUP call `RestartXray(true)` and `StopXray` directly. `lock` makes those two
  exclude each other; almost everything else (`IsXrayRunning`, `DidXrayCrash`, the flag)
  is read without it.
* `ImportDB` replaces the database file while every other component holds or uses the
  global handle.
* `XrayTrafficJob` reads and resets Xray's counters every ten seconds and credits them by
  tag to the inbounds table, which the handlers write at the same time from pages that may
  have been open for days.
* `WarpIPJob`, the WARP dialog and the Save of a settings page all write the same two or
  three settings, each with several statements and remote calls in between.
* The status page polls `GetXrayResult`, which reads the process that `RestartXray` replaces.
* The login handler asks both limiters before the password is compared and tells them
  afterwards. bcrypt between the two leaves time for other logins.

What is hard, and where, is listed line by line under `hazards` in `PROJECT.json`: 40
entries, each with the properties that watch it or the reason why none does.

What makes each component correct:

* *Supervisor*: no saved change is forgotten; Xray runs what the panel thinks it runs;
  an administrator's stop is respected by automatic restarts; one instance; no restart
  for nothing; recovery from crashes.
* *Throttle*: bounded memory; lockouts of the documented length, shortened only by a
  successful login; failures remembered as long as promised and not longer.
* *Import*: never without a copy of the old database; the panel serves the file that is
  installed; Xray comes back.
* *Inbound store*: ports stay distinct; every unit of traffic is counted once, for the
  inbound that carried it; what is enabled is what Xray serves, sooner or later; a limit
  ends an inbound whatever pages are open.
* *Sessions*: a change of the credentials ends every other session for good; a change is not
  undone by the rehash of the old password.
* *Output queue*: it stays bounded; no reader waits for ever while Xray writes; the page
  shows the failure of the current process and not of an older one.
* *Inbound editor*: what is submitted passes the server's checks, reads back as shown, and
  changes REALITY keys only on request, in whatever order things were chosen.
* *WARP*: the credentials stored and the outbound in use come to be of one device.
* *Redirect*: TLS sees exactly the bytes the client sent; the probe ends.
* *Settings*: one row per key; what was saved is read back.
* *Lifecycle*: after shutdown no Xray runs; a requested restart takes effect, SIGTERM ends the
  panel, and Xray runs again after a reload.

## 2. Modules

| Module | Purpose |
|---|---|
| `XraySupervisor` | the supervisor with the handlers and jobs that drive it |
| `MCXraySupervisor` | its instances for TLC |
| `XraySupervisorProofs` | its theorems |
| `LoginThrottle`, `MCLoginThrottle`, `LoginThrottleProofs` | the same for the throttle |
| `DatabaseImport`, `MCDatabaseImport`, `DatabaseImportProofs` | the same for the import |
| `XrayService` | what the supervisor promises; `XraySupervisorProofs` also proves that it implements it |
| `InboundStore`, `MCInboundStore`, `InboundStoreProofs` | the inbounds table, its handlers and jobs, and the Xray started from it |
| `Sessions`, `MCSessions`, `SessionsProofs` | the account, logins, changes of the credentials, cookies |
| `Account` | what the sessions promise; `SessionsProofs` also proves that they implement it |
| `OutputQueue`, `MCOutputQueue`, `OutputQueueProofs` | readers, queue, result cache |
| `InboundEditor`, `MCInboundEditor`, `InboundEditorProofs` | the inbound form of the page against the server's checks |
| `WarpRotation`, `MCWarpRotation` | credentials, template, interval and everyone who writes them |
| `PanelLifecycle`, `MCPanelLifecycle` | one run of the panel's process with its reloads |
| `AutoHttpsConn` | one HTTPS connection |
| `WebServerProofs` | the theorems of `PanelLifecycle` and, through instances, of `AutoHttpsConn` and `WarpRotation` |

### XraySupervisor

Threads are goroutines: `Main` (the forced restart that `startTask` makes), `Handlers`
and `ApplyJobs`. `pc` says between which two shared accesses a thread is, `op` for
whom it works.

| Variable | Code |
|---|---|
| `db` | what `GetXrayConfig` would read: the template setting and the enabled inbounds |
| `need`, `manual`, `lock`, `p` | `isNeedXrayRestart`, `isManuallyStopped`, `lock`, `p` of `xray.go` |
| `child[s]` | the child of Process object `s`: `launched` (`go cmd.Run()` issued, not forked), `alive`, `dead` (exited or killed, not reaped), `none`; `unguarded`/`leaked` are `launched`/`alive` for an object whose finalizer ran before its fork |
| `cfg` | `Process.config` of the current object |
| `file`, `loaded` | `bin/config.json`, and what the current child read from it |
| `conf` | the local `xrayConfig` of `RestartXray` |
| `monitor`, `checkTime` | `CheckXrayRunningJob` between `IsXrayRunning` and the read of `isManuallyStopped` in `DidXrayCrash`; its counter |

One action per step that another goroutine can come between: `SaveInbounds`,
`SubmitSettings`, `StoreSettings` and `StoreSettingsPartly`, `SetToNeedRestart` are the
handlers' saves; `ApplyTick` is the compare-and-swap on the flag; `SkipRestart`,
`EnterRestart`, `ReadTemplate`, `ReadInbounds`, `ReadFails`, `KeepRunning`, `Replace`,
`StartXray`, `StartFails`, `FinishStart` are `RestartXray`; `EnterStop`, `KillXray` are
`StopXray`; `SampleRunning`, `SampleManual` the monitor; `Fork`, `ForkFails`, `Exit`,
`Reap` the operating system and `Finalize` the garbage collector.

Abstractions. A configuration is a pair of model values and `Config.Equals` their
equality: `Equals` and `InboundConfig.Equals` compare every field. `UpdateXray` is the
operation `upgrade`, a stop followed by a forced restart, its download left out. A killed child
is dead at once; that it may hold its ports for a moment is one of the reasons for the next one
to `Exit`. `lost`
is a history variable: it is set when the code is known to drop a request to apply
changes, and cleared when a restart reads the configuration. There are three such places:

1. `RestartXray` fails to read the configuration after the flag was consumed
   (`xray.go:98`);
2. `updateSetting` compares its template with one read before its save
   (`setting.go:120-121`): of two concurrent saves the later one may change the template
   and see no change;
3. `UpdateAllSetting` saves key by key and reports any error (`service/setting.go:374`):
   the template may be stored and the flag not set.

`NoLostUpdate` and `Converges` say that there is no fourth.

**Late forks.** `Process.Start` returns after it issued `go cmd.Run()` and ran
`xray -version`. Nothing orders the fork before the return, although the version run makes
a later fork unlikely. `LateFork = TRUE` allows any delay; `LateFork = FALSE` makes
`FinishStart` wait for the fork. `TypeOK`, `ApplyRespectsStop`, `NoLostUpdate`,
`RunsItsConfig` and `NoNeedlessRestart` are checked and proved for both. `SingleInstance`,
`StopIsEffective` and `Converges` hold for prompt forks only: with late ones a stop or a
restart that finds nothing running abandons a child that appears afterwards, and the
monitor can keep asking for restarts that abandon the process of the one before.

### XrayService

What is left of the supervisor when mutex, flag, goroutines, Process objects and the shared
file are taken away: a saved configuration, the one Xray runs, whether the administrator
stopped it, and the restart in progress with what it has read in its two queries. One Xray at
most; it begins only at the end of a restart, with what that restart read, and never while it
is stopped. `XraySupervisor!Implements` is the refinement: `saved` is `db`, `running` is what
the live child has loaded (`Running`), `stopped` is `Stopped`, and `Phase` and `Hand` are
computed from the one thread that holds the mutex. A restart that has called `Start` is still
in the phase `start` until the kernel has forked the child, so the refinement needs prompt
forks.

### LoginThrottle

`entries["ip"]` and `entries["user"]` are the two maps; a key that is absent has
`NoEntry`. `Allow`, `Failed`, `Reset`, `Evicted` and `Delay` are the functions of
`limiter.go`, each atomic because the mutex is held throughout. `Submit`, `AllowIP`,
`AllowUser`, `CheckUser`, `FailIP`, `FailUser`, `ResetIP`, `ResetUser` are the login
handler, so that concurrent logins interleave between any two limiter calls. `Tick` is
the clock.

`Delay` shifts a signed integer of `Word` bits, as Go does. `ShiftAssumption` says what
the code relies on, that an overflowing shift of the delay never yields a small positive
number. It is true of both limiters the panel creates: 30 s is an odd multiple of 2^10 ns
and 60 s of 2^11 ns, so the bits that survive are either a negative number or a multiple of
2^40 ns, which exceeds the cap of 15 minutes; TLC evaluates the assumption for the
instance it checks.

### DatabaseImport

Files are followed by identity: `dir` maps the three paths to files, `handle` is the file
the global gorm handle has open. Every call of `ImportDB` that can fail is an action with
a failing twin (`CloseDBFails`, `MoveAwayFails`, `InstallFails`, `OpenFails`, `UndoFails`,
`RestartFails`); `Undo`, `MoveBack`, `Reopen` are `restoreDatabaseFallback`; `Deferred`
stands for the two deferred functions. Around it: `XrayExits`, `MonitorRestarts` (the
monitor, of which `XraySupervisor` is the detailed account), `Request` (the buttons),
`PanelCrashes` and `PanelBoots`. `stopRaced` and `outcome` are history variables for the
statements below.

What the model makes visible about this code:

* If Xray exits between `IsXrayRunning` and `StopXray` (`server.go:676-681`), `StopXray`
  has set `isManuallyStopped` and returns an error, and `ImportDB` returns before the
  deferred restart is armed. The monitor then never restarts Xray. `StopIsTemporary` and
  `XrayReturns` set that race apart with `stopRaced`.
* If `CloseDB` returns an error the pool is closed all the same and `ImportDB` does not
  open it again (`server.go:691-693`).
* A crash between the two renames leaves the old data in `x-ui.db.backup` only. The next
  boot creates an empty database, and an import begun then deletes that backup
  (`server.go:695`). `NothingDestroyed` is about the database each import set out to
  replace, so it holds; a reader should know where it ends.
* The forced restart at the end of an import undoes a stop the administrator made
  while it ran.

### InboundStore

`rows` is the table: for each primary key a row or none. A tag is `inbound-` and the port,
so the UNIQUE columns `port` and `tag` are one condition, `Storable`; `up` and `down` are one
number, `used`. `running` is the inbound Xray serves at each port and `counter` its
statistics. Handlers go through the statements of `addInbound` and `updateInbound`
(`CheckPort`, `GetRow`, `SaveNew`, `SaveOld`, `SetToNeedRestart`), a page keeps the row it
listed (`List`) until it posts an edited copy (`SubmitUpdate`), `Collect` and `AddTraffic` are
the two halves of `XrayTrafficJob`, `DisableInvalid` and `DisabledNeedsRestart` of
`CheckInboundJob`. A restart is one step (`Apply`): how it is carried out is
`XraySupervisor`'s subject. Statements fail and the panel crashes and starts again.

`carried`, `disturbed` and `given` are history variables. `disturbed` names the inbounds whose
account one of the code's known races or failures has touched, and nothing else that the
handlers, the jobs and Xray do may lose traffic:

1. `UpdateInbound` replaces the counters with those of the form (`inbound.go:134`);
2. a key or a port is given to another inbound while units of the old one are on their way
   (`inbound.go:172` credits by tag);
3. Xray or the panel restarts before the counters were collected;
4. `AddTraffic` fails after the collection (`xray_traffic_job.go:26`);
5. the query itself fails after Xray has reset its counters, by its timeout of ten seconds or
   a broken connection (`CollectFails`; `process.go:252`, `xray_traffic_job.go:22`). A query
   that fails before the reset changes nothing.

An import of another database replaces the table whole; it is outside this module.

The model also makes visible that `db.Save` of a row deleted since it was read inserts it
again. `LimitsEnforced` and `ServedOrPending` hold all the same.

### Sessions

A stored password is the password and the salt bcrypt drew; salt 0 is the cleartext of an
old row. The fingerprint in a cookie is that of the row, so that only the same row
makes it resolve. `Lookup`, `Rehash`, `UpdateUser`, `Reload`, `Issue` are the
statements of `login` and `updateUser`, in which other requests interleave, and
`UpdateFirstUser` is the command line in another process. `Resolve` is the check that every
other request passes.

History: `intended` are the credentials of the last change, `past` the fingerprints that
ceased to be the row's, `shown` what each browser has shown or set, `raced` that a login
which had read a cleartext row stored its hash over a later change (`user.go:71`), `adopted`
that a browser was given the fingerprint of somebody else's change (`setting.go:158`). The two
last are what the code allows; the properties say there is nothing more.

### Account

What is left of `Sessions` without salts, fingerprints, cookies, stored rows and handlers: the
credentials that sign in, the browsers signed in and those about to be. A change, from a
browser or the command line, ends all of that in the step that stores it, also for requests
under way. `Sessions!KeepsPromise` is the refinement: `signedIn` are the browsers whose cookie
is the fingerprint of the row (`SignedIn`), `admitted` those for whom a handler holds the row
as it is now (`Admitted`), `changing` those whose change is stored and not read back
(`Changing`). What the handlers allow beyond that is in the abstract account under a name of
its own: `Upgrade`, the hash of a password shown before a change may put that password back;
`Reload`, the answer to a change admits its browser to whatever holds by then. An answer that
comes too late replaces a good cookie by one that no longer resolves: `SignOut`.

### OutputQueue

Only numbers of lines are kept, and of a result whose output it is. `ReadLine` is the read
with the test of `Len`, `Get` and `Put` the calls after it; `Sample`, `Pick`, `TestEmpty`,
`TakeUntil`, `Store` are `GetXrayResult` between its reads of `p`; `Replace`, `ClearResult`
and `Start` are what `RestartXray` does in between. The queue itself is a library, modelled
from how it is used: `Get` waits, the other calls return at once. History: `drained` are the
processes a poll emptied while they ran, `stale` that a poll stored its result after the
process was replaced.

### InboundEditor

The classes `Inbound` and `StreamSettings` and the modal around them. A JSON object is the set
of its sections, the values the form shows, and the objects in it that have fields this panel
does not know. `FromJson`, `ToJson`, `MergeJson`, `SetNetwork`, `SetProtocol`,
`NormalizeProtocolStream` are the methods of those names; an unknown field goes with a section
that the form does not write, and in arrays, which are written whole, it is not followed at all.

What somebody types is kept as far as the server judges it. `Inbound.Validate` is two
operators: `Complete`, what it requires of the transport (the section of TLS or REALITY; for
Hysteria its network, TLS, h3 and section), and `Accepted`, the values in it: no XTLS, a REALITY
target with a port, the settings of Mixed, Tunnel, WireGuard and Hysteria, the numbers of
`hysteriaSettings`. The settings of a protocol are one value, right or wrong; a new form's are
right, its REALITY target is empty and therefore refused (`xray.js:628`) until `TypeTarget`.
`TypeSettings` and `TypeIdle` are the other fields. A stored value may also be wrong in a way
that reading it puts right (`"mended"`: no `udpIdleTimeout`, another version of Hysteria).

The form opens on whatever an older panel or another tool stored: the constant `Older`, any rows
whose protocol, transport and security the form knows, or XTLS. They need not pass `Validate`
and need not be what this form could have made: sections may be missing or left over, the
transport may be under `method`, the REALITY target under `dest`, which this panel does not read.
Key requests answer into whatever form is open by then; `Ok`, `ResetTraffic` and
`SwitchEnable` are the three kinds of submission, `ServerStores` and `Refused` the server,
`Answer` and `Close` the page's two callbacks. `past` is the history of a form:
whether its transport was started afresh, keys were asked for, or keys asked for by an
earlier form landed in it.

### WarpRotation

`creds`, `template`, `interval` and `last` are the settings, each written by a statement of
its own. Of the outbound only the device is kept, `Mixed` if its key and its peer are of two
devices, as a page can stage it. `ChangeWarpIP` to `Stamp` is the rotation, by the job or a
handler; `SubmitSettings` to `Answer` is the Save of a page, which may post any outbound it
ever read. Any statement or call to Cloudflare can fail and the panel can crash anywhere.
Device numbers nobody refers to any more are used again, so that the state space is finite
although rotations go on for ever.

### PanelLifecycle

`main` is where the main goroutine is: in `Server.Start` (`StartCron` to `Serve`), in the loop
of `runWebServer` (`Notify`, `TakeSignal`), or in `Server.Stop` (`StopXray`, `Shutdown`).
`buffer` is `sigCh`, `timers` the sleeping goroutines of `RestartPanel`, `saved` and `read`
versions of the settings: the last one saved, and the one when the current server began to
read. Requests and runs of jobs go on across a reload, because `Shutdown` gets a context that
is already cancelled and `cron.Stop` is not waited for. A restart of Xray is one step here,
since the mutex makes it one for all but the jobs. Of the job that applies the flag one run is
under way at a time (`applying`), although cron starts a run while the last one still works:
that runs of it overlap is `XraySupervisor`'s subject. An administrator's stop is also the
`StopXray` of an import or an upgrade, which these end themselves (`DatabaseImport`,
`XraySupervisor`).

What the model makes visible:

* A forced restart that waits for the mutex while `Server.Stop` holds it starts Xray again
  after the stop. On SIGTERM that Xray can outlive the panel (history variable `overtaken`).
* `sigCh` holds one signal. SIGHUP that finds it full may be dropped without harm, because the
  reload still to come reads the settings again; SIGTERM that finds a SIGHUP there is lost
  (history variable `lost`), and the service manager has to kill the panel.
* A signal before `signal.Notify`, when requests are already served, ends the process without
  `Stop`.
* A reload whose `Start` fails ends the process with exit code 0, which `Restart=on-failure` of
  `x-ui.service` does not restart.

### AutoHttpsConn

The bytes of the client are named by their positions, so that a lost, repeated or reordered
byte shows. `SetProbeDeadline`, `ProbeReads`, `Redirect`, `ProbeFails` are `readRequest` with
its deferred call, `Replay` and `PassOn` the two ends of `Read`, `GiveUp` and `Establish` TLS.

## 3. Runs

| Run | Question | Instance and why it is enough | Size |
|---|---|---|---|
| `supervisor_safety` | Are the supervisor's promises kept under every interleaving, with forks delayed at will? | 2 handlers, 2 overlapping apply jobs and `Main`; 2 templates × 2 inbound lists; 2 operations, 1 fault; 2 Process objects. Two saves are what a stale comparison or a torn read needs, two jobs what overlap needs; two objects let every restart replace a process that is not yet reaped. | 980 000 states |
| `supervisor_prompt` | With prompt forks, is there one Xray, and none after a stop; does the supervisor implement `XrayService`; does Xray end up with the saved configuration? | 2 handlers, 1 job, 2 inbound lists, 2 objects; 2 operations, so that stop, restart and save meet; 1 fault: a crash, a failed start or a failed fork at any point. Fairness, no symmetry. | 190 000 |
| `throttle_safety` | Do the limiters keep their bounds and their law? | 3 addresses for a map of 2 keys, so the map fills with locked keys; words of 3 bits and delays up to 3, so that shifts overflow within the 5 attempts; 2 logins in flight; idle 2, which is less than the longest lockout, so that an entry can be idle and locked (`New` allows that; the panel itself passes an hour and 15 minutes). | 320 000 |
| `throttle_idle` | Is an idle key forgotten? | 1 address, 1 user, room for 4 keys. **Violated**, see below. | – |
| `database_import` | Is the old database safe, is the right one served, is the stop undone, does Xray come back? | 3 uploads, of which one is always neither installed nor the backup; 3 faults (a failing step, a failing step of its undo, and a crash) and 2 requests. Fairness, no symmetry. | 49 000 |
| `inbound_store` | Ports, restarts and traffic under overlapping requests and jobs; does a limit end an inbound? | 2 keys, 2 ports, 2 handlers, 1 traffic job, 2 operations, 1 unit of traffic, 1 fault. Two requests are what a race on a port, a stale page or a resurrected row needs, two ports a row that moves or whose port is given away; one unit reaches a limit, and charging it twice or to another row shows. Two collections at once need two units and are beyond this instance; they touch disjoint units, because Xray resets its counters when it is read. Fairness, no symmetry. | 950 000 |
| `sessions_safety` | Do sessions end with their credentials, does a change stand, do the handlers implement `Account`? | 2 browsers, 2 handlers, 2 names and passwords, so that a password can be changed and changed back; 3 operations: a session, and two changes or a change and a login around it. 1 fault. | 47 000 |
| `output_queue` | Is the queue bounded, does a reader wait for ever, is the result the right one and shown at last? | 2 readers, capacity 2 (the least that two readers need), pipes of 1 line, 4 lines, so the queue overfills; 2 processes, so that a poll meets a restart; 1 poll. Fairness, no symmetry. | 650 000 |
| `inbound_editor` | Is what the form submits refused for a wrong value alone, does it read back and keep its keys, in any order of choices? | 5 protocols: one without a transport, two that differ in REALITY, Trojan and Hysteria; 3 transports: with TLS and REALITY, with TLS, with neither; 163 older inbounds (`MCOlder`), most of which the server would refuse now; 4 openings, choices and typed values, so that a new REALITY inbound can be completed, or a form closed and another opened with a request of the first still under way. | 2 600 000 |
| `warp_rotation` | Do scheduled rotations heal what failures and races broke? | 1 handler beside the job, 5 devices, which is enough for every reference to be a different one; 2 operations, 2 faults: one that breaks, one that disturbs the repair. Fairness, no symmetry. | 1 180 000 |
| `panel_lifecycle` | Does a stop leave no Xray, is a signal or a restart ever forgotten, does it take effect, does SIGTERM end the panel, does Xray come back? | 2 handlers, 3 requests: a save and two restarts of the panel whose signals meet, or a forced restart under way in a stop; 2 faults: a failing start or restart and what follows it. Fairness, no symmetry. | 160 000 |
| `https_probe` | Is the wait for the first bytes bounded? | 3 bytes, a buffer of 2, a header of 2. **Violated**, see below. | – |

Deadlock is not checked: the bounds on operations, faults, attempts and time end every
behaviour of an instance, and an idle panel has nothing to do.

Every detailed module has one type invariant, `TypeOK`. It is proved for all of them, and
model-checked as well for the supervisor.

The properties:

* `ApplyRespectsStop`: an automatic restart past the check of `isManuallyStopped` runs to
  its end before any stop.
* `NoLostUpdate`: if the running child has not loaded what is saved, then the flag is set
  or about to be, or a restart has yet to read, or holds the saved configuration in hand.
  The flag is consumed outside the mutex and the configuration is read in two queries; the
  property is about why that is still right.
* `RunsItsConfig`: all Process objects share one file, and still the current child runs
  what its object says.
* `NoNeedlessRestart`: an automatic restart interrupts an up-to-date Xray only when
  another restart is due anyway.
* `SingleInstance`, `StopIsEffective`: as their names say, with prompt forks.
* `Converges`: once requests and faults stop, Xray runs the saved configuration, or was
  stopped by the administrator, or a request was dropped in one of the three known places.
* `Implements`: every step of the supervisor is one of `XrayService`, or none.
* `MapBounded`, `LockoutIsExponential`, `LockoutNotShortened`, `FailuresRemembered`: the
  limiter's promises. The law is stated in unbounded integers and holds although logins
  admitted before a lockout may fail during it.
* `NothingDestroyed`, `PanelServesInstalled`, `StopIsTemporary`, `XrayReturns`: the
  import's.
* `PortsDistinct`: although the check of a port and the save are two statements.
* `ServedOrPending`: if Xray serves something else than the table has enabled, the flag is set
  or whoever changed the table is about to set it. `NoLostUpdate` is the same promise seen
  from the supervisor, and takes over where this one ends.
* `TrafficConserved`: outside the five cases above every unit is on the account of the inbound
  that carried it exactly once; and with all of them the rows are never charged for more than
  was carried.
* `LimitsEnforced`: once an inbound is past its limit or expiry and requests have ended, Xray
  no longer serves it, also if a page saved it back as enabled.
* `SessionsAreEarned`, `RevokedForGood`, `ChangeStands`: a session that resolves belongs to a
  browser that has shown or set the present credentials; one that ended stays ended, also
  if the old password is set again; the row holds the last change whole. `KeepsPromise`: every
  step of the handlers is one of `Account`, or none.
* `QueueBounded`: the readers test and put without a lock, and still exceed the capacity by
  one line at most. `ReadersNeverWait`: the readers on their way to the blocking `Get` all find
  a line, unless a poll drained their running process. `ResultIsCurrent`, `ErrorIsShown`: the
  cached result is the current process's, and a failed process gets one.
* `RefusedForValues`: the server refuses what a form submits exactly if it holds a value the
  server refuses, typed, left empty or found in an older inbound, and never for the transport
  that the choices left; what the switch of a row posts as it is was accepted once or is older.
  `SubmissionsReadBack`, `KeysChangeOnRequest`: the form against itself. `OnlyTrojanForces`: no
  choice but that of Trojan makes a pair of transport and security the form does not offer.
* `RotationHeals`: again and again, as long as scheduled rotations are on, Xray runs an outbound
  whose key and peer are those of the stored credentials.
* `NothingLeft`: between `Stop`'s stop of Xray and the next server's start no job, under way or
  new, starts it again, and none is left when the panel exits. `NothingDropped`: a requested
  restart of the panel, and SIGTERM, are at every moment in a timer, in the channel or under
  way. `RecoveryArmed`: when the panel waits for signals and Xray is down, either an
  administrator has stopped it or flag, cron, monitor and restart function are such that it can
  come back. These two are what the next three rest on, apart from scheduling.
  `RestartTakesEffect`: settings saved before a restart of the panel was requested are served,
  or later ones. `TerminationHeeded`, `XrayFollows`: as their names say. The exceptions are
  those listed with the module.

**Findings.**

1. The comment of `limiter.New` says "A key with no activity for idle is forgotten"
   (`limiter.go:41-42`). `evictLocked` returns at once below half the capacity
   (`limiter.go:116`) and is only called from `Fail`: on an ordinary installation a key is
   never forgotten for being idle, and one more mistake on another day goes on from the old
   count. `throttle_idle` shows it.
2. The comment on `probeTimeout` says it "bounds the initial read" of a connection
   (`autp_https_conn.go:28`). The deferred call at line 42 clears the deadline also when the
   probe has timed out, and `Read` falls through to a second read of the socket (line 89) that
   has no deadline: the one net/http had set was overwritten by the probe's. A client that
   connects and stays silent keeps its goroutine waiting. `https_probe` shows it.

Every property has a mutant in `PROJECT.json`: a plausible bug in one mapped definition,
written beside it, under which TLC finds the property violated.

**Fairness.** *Supervisor*: weak fairness of every step of the thread that holds the mutex,
because goroutines that can run do run; strong fairness of taking it, because `sync.Mutex`
hands over to a waiter that has waited a millisecond; weak fairness of the cron jobs and of the
kernel's fork and reap; weak fairness of `Finalize`, because the Go runtime forces a collection
every two minutes. No request and no fault is fair. *Import*: weak fairness of ImportDB and of
the service manager's restart; strong fairness of `MonitorRestarts`, because a series of
imports keeps closing and opening the database while cron ticks on, and some tick falls in
between. *Throttle*: handlers run to their end and time passes (needed only for the violated
run). *Inbound store*: weak fairness of requests that were sent and of the cron jobs; nobody
has to use the panel or Xray. *Output queue*: weak fairness of the goroutines and of the poll,
which cron makes every two seconds while somebody watches the status page (`server.go:57`);
Xray need not print, end or be restarted. *WARP*: weak fairness of requests, the job, the
restart and the passing of the interval. `IntervalPasses` waits for requests and restarts under
way: an interval is at least a day, and they take seconds. *Lifecycle*: weak fairness of the
main goroutine, requests, timers and jobs. *Redirect*: weak fairness of the goroutine and of
the deadline; the client may stay silent.

## 4. Proofs

All theorems are for every value of the constants, under the assumptions the modules name:
`ThreadsAssumption` and `BoundsAssumption` (distinct identities, natural bounds),
`LimiterAssumption` and `ShiftAssumption` (above), `FilesAssumption`, `StoreAssumption`
(finitely many keys, ports and jobs: traffic is summed over them), `QueueAssumption` (finitely
many readers, at most as many as the queue has room for), `EditorAssumption` (the names of
protocols and transports are those of the code), `OlderAssumption` (older inbounds are rows),
`LifecycleAssumption`, and that placeholders for "nothing" are not values. The bounds on
operations, faults and time are arbitrary numbers, so a theorem covers every finite behaviour
of the unbounded program.

**XraySupervisorProofs.** The properties are not inductive. `IndInv` adds to `TypeOK`:

* `MutexInv`: exactly the threads inside `RestartXray` or `StopXray` hold the mutex, which
  is what lets the next parts speak about one thread;
* `LocalInv`: locals have a value while they are used, and an apply job is never forced;
* `ManualInv`: nobody is inside `RestartXray` while `isManuallyStopped` is set;
* `ProcessInv`: the current child, launched or alive, goes with a file, respectively a
  loaded configuration, that equals `cfg`; during `start` and `started` `cfg` is `conf`.
  It is why the shared file is harmless for the current Process: only the holder of the
  mutex writes it, and it replaces the Process first;
* `ReadInv`: if what a restart has read is no longer what is saved, the request to look
  again is still pending;
* `UpdateInv`: `NoLostUpdate` from the moment `Start` was called, before the fork.

From it follow `TypeCorrect`, `StopRespected`, `OwnConfig`, `NothingForgotten` and the
action property `NoFlapping`, all of them for late forks too. For prompt forks `PromptInv`
(only the current Process has a live child; a completed stop leaves it dead) gives
`OneInstance` and `StopLeavesNothing`.

At its end the module proves the refinement, `SupervisorImplementsService`: for `LateFork =
FALSE`, `Implements`. The supervisor's own invariants say that at most one thread is inside a
restart, so that it alone gives the phase of the service (`PhaseFacts`). Then there is a lemma
per group of actions: requests, restarts, stops and children each make a step of the service or
none.

**LoginThrottleProofs.** The invariant says of every entry that its `lockedUntil` is
exactly the law (`Lawful`), that the map is finite and within its capacity, and that every
running login has a request whose keys belong to the limiters. `DelayIsPenalty` shows that
the fixed-width shift with its two tests computes the doubling in unbounded integers;
`EvictedShrinks` and `FailedBounded` follow the set of tracked keys through an eviction
and a failure, with the library's facts on cardinality; `FailRemembers` gives the action
property. `LockoutsKept` needs that the law itself never shrinks. `Pow2` is therefore a recursive
function, not an operator; that it doubles (`Powers`) is shown without an induction rule, by
looking at the least number at which it would not (`Least`, from the library's well-founded order
of the naturals). From it `PenaltyGrows` and `FailLengthens`, for every number of failures: the
cap, the shift that overflows and the failure that starts a new count are the cases. `SeenInPast`
adds that no failure is later than now. Theorems `TypeCorrect`, `NeverOverfull`, `LockoutLaw`,
`FailuresKept`, `LockoutsKept`.

**DatabaseImportProofs.** The invariant says for each `pc` at which path the old file is
(`SavedInv`), which file is open and installed (`ServedInv`), and when the deferred restart
must be armed if `isManuallyStopped` is set (`ArmedInv`). Theorems `TypeCorrect`,
`OldDatabaseKept`, `InstalledServed`, `StopUndone`.

**InboundStoreProofs.** The invariant adds `CountedAreServed` to the properties: every unit Xray
counts or a job has collected has an inbound that carried it, which is what a restart, a crash
or a failing job marks as `disturbed`. For
`ServedOrPending` the steps that leave `port` and `enable` of every row alone leave
Xray's configuration alone (`SameConfig`): crediting is one of them, and is why it sets no flag.
Theorems `TypeCorrect`, `DistinctPorts`, `NothingUnserved`.

`TrafficKept` is about sums over inbounds, ports and jobs, which the model writes with the
library's folds. The first section proves what is needed of them: a sum over a finite set is
that over one element less plus that element (`SumStep`), and so it is a natural number,
monotone, and changes by what one of its terms changes. The inductions are over the finite set,
as a least counterexample under strict inclusion (`SetInduction`). The invariant has three
parts. `InUse`: what is in use, a row, a port of Xray, a form or a batch, has a key that was
given out, so that a new row starts with an empty account. `Credited`: the account of an
undisturbed inbound, its row plus what Xray counts plus what jobs have collected, is what it
carried. `NotOvercharged`: the sum of all rows alone is not inductive, because an edited form
puts old counters back, after a reset even higher ones. What is inductive is that there is a
`peak` for each key, at least what its row or any form of it shows, and that all peaks with all
units on their way make no more than what was carried. Crediting moves units from a batch into
the peak; saving an old form is below it.

**SessionsProofs.** `SaltsDrawn` (no fingerprint anywhere has a salt not yet drawn) gives
`Revocation`: a new hash is never an old one. `HandlersEarn` follows the credentials a handler
has verified to the cookie it issues, for `Earning`. `CleartextIsOld` says that a cleartext row
is the one the panel was installed with, and that who is about to hash it has shown just those
credentials, for `LastChangeStands`.

Then the refinement, `SessionsImplementAccount`. It needs one more invariant, `Ready`: a
handler that has not looked the row up holds none, and one about to store a change has shown
credentials. The steps of the handlers fall in three groups. Those that write the row draw a
salt, so that the new fingerprint is nobody's (`NewHashIsNobodys`) and all who were signed in
or admitted cease to be, the writer excepted (`StoringSteps`). Those that end in an answer
change one cookie and take one handler away (`AnsweringSteps`). The rest change neither row nor
cookie (`PassingSteps`). `Leaves`, `Enters` and `Answers` say what becomes of `Admitted` when
one handler changes what it holds.

**OutputQueueProofs.** `ReadersStart` (readers move only after `Start`) and `PollsHold` (what a
poll has in hand is of the process it picked, which was not running unless it was replaced)
carry `CurrentResult`. `Bounded` and `NeverWaits` count readers: a reader that moves changes
the cardinalities of `Getting` and `Putting` by one (`Moves`), and while one of them is still
reading not all the others and itself can be past the test (`NotAll`).

**InboundEditorProofs.** `EditorInv` adds two things to the types and the three properties of
submissions. `RowsValid`: what is stored, also in the page's old copies, passed `Validate` or
is older, which is all that a switch can promise. `FormKept`: the open form is normal (Hysteria
comes with its transport and TLS), whatever it was opened on, kept the fields it does not
know from the row, and still has that row's keys unless something that excuses a change has
happened. `WireValid` is the heart: what a normal form writes has all that `Complete` asks, and
`Accepted` fails exactly for what `Blamed` names. What a submission shows was so when it was made
(`Sound`), and nothing rewrites a submission on its way. Of `Older` only `OlderAssumption` is
used, that its rows are rows. Theorems `TypeCorrect`, `OnlyForValues`, `ReadBack`,
`KeysKept`, and the action property `TrojanForces`.

**WebServerProofs.** `NoXrayLeft` proves `NothingLeft`. That Xray does not run while no server
wants it is not inductive: a job must also be unable to start it. `DownInv` says why: either
`isManuallyStopped` is set, which every job respects, or there was never a request or a job that
could start it (`Pristine`, the first start). The exceptions are those of the property, a
restart already past the check (`overtaken`) and a signal before `signal.Notify`. `TypeCorrect`
needs `BudgetInv`: every version saved and every timer was once a request, so that requests
under way, versions and timers together are at most the requests made.

`SignalsKept` shows `NothingDropped` inductive given the types: the one thing it needs from
them is that no server was ever asked for settings newer than those saved, so that the next
start pays every debt. `XrayCanReturn` proves `RecoveryArmed` from `ArmedInv`, which says step
by step what `Server.Start` has put in place, and that after its forced restart only an
administrator can have set `isManuallyStopped`. Both are for any number of requests, timers and
signals. They are the safety half of `RestartTakesEffect`, `TerminationHeeded` and
`XrayFollows`; that the goroutines then do run is what TLC checks under fairness.

`Transparent` is
`Faithful` of `AutoHttpsConn` for streams, buffers and headers of every length. `Progress` says
how far TLS has got: nowhere before the probe is over, then to the mark in the buffer, then to
what was read from the socket. `Faithful` is in no run: the run of that module is about the
probe's end. `WarpTypeCorrect` is the type invariant of `WarpRotation`, of which one part is
more than types: a rotation that goes on has the device it registered (`Equipped`), whatever
else is stored, deleted or restarted around it.

**Only model-checked**: the liveness properties (`Converges`, `XrayReturns`, `LimitsEnforced`,
`ErrorIsShown`, `RotationHeals`, `RestartTakesEffect`, `TerminationHeeded`, `XrayFollows`),
which the proof system cannot reach. The two properties the code violates, `IdleIsForgotten` and
`ProbeIsBounded`, are refuted by their runs.

## 5. What is not modelled

* Of the import: other writers to the database. A write acknowledged by the imported
  database is lost when the migration fails after the handle was switched.
* Of the settings: `saveSetting`'s look-up and creation of a key (`setting.go:149`), `GetSecret`
  and `ResetSettings`; the two saves of a certificate and its key (`main.go:156`). What other
  components save through `UpdateAllSetting` is in `XraySupervisor` and `WarpRotation`.
* Of the sessions: the lifetime of cookies, and an import that brings another users table.
* Of WARP: what Cloudflare's answers contain.
* Of the inbound editor: which field of a protocol's settings is wrong (they are one value), the
  port, the fields the server does not check, rows of a protocol that is not in the list, share
  links, QR codes.
* Configuration algorithms: comparison and formatting field by field, which the repository
  tests with tables of cases. `Config.Equals` is the equality of configurations in
  `XraySupervisor`; of `Inbound.Validate` the tests of single values are right or wrong in
  `InboundEditor`.
* The editors of outbounds, routing and settings, which are built like the inbound editor.
* Vue, Ant Design, CodeMirror and the like: third-party code, and some 49 000 of the
  repository's 53 000 lines of JavaScript; templates and translations; Telegram; scripts;
  readings of `/proc` and downloads.

## 6. What could follow

1. The one-step restart of Xray in `PanelLifecycle` replaced by `XrayService`.
2. A settings store with rows per key, and the import composed with the writers of the
   other models through the database handle.
3. `ConfigAlgorithms`: base path normalisation and the version test as functions against
   reference definitions.
4. `InboundStore`'s one-step `Apply` replaced by `XrayService`.
