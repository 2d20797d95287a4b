---------------------------- MODULE WarpRotation ----------------------------
(***************************************************************************)
(* The WARP account of the panel: its credentials in the settings, the     *)
(* WARP outbound in the Xray template, and everyone who writes the two     *)
(* (web/service/warp.go, web/job/warp_ip_job.go, web/controller/setting.go *)
(* and web/service/setting.go).                                            *)
(*                                                                         *)
(* Credentials and template are two settings, saved by two statements      *)
(* around calls to Cloudflare.  Nothing locks them: the hourly job, the    *)
(* requests of the WARP dialog and the Save of a settings page, which      *)
(* writes back all the settings the page once read, interleave freely.     *)
(*                                                                         *)
(* Of the template only the WARP outbound is kept, and of that only the    *)
(* device its private key and its addresses and peer belong to.  What a    *)
(* page holds is not followed: pages stay open for days, so a Save may     *)
(* post any outbound.  What RestartXray does with the flag is in           *)
(* XraySupervisor; here Xray loads the stored template in one step.        *)
(***************************************************************************)
EXTENDS Naturals

CONSTANTS
    Handlers,      \* goroutines serving the settings pages
    Job,           \* the goroutine of WarpIPJob
    MaxDevices,    \* bound: devices referred to at one time
    MaxOps,        \* bound: requests
    MaxFaults      \* bound: failing statements and calls, crashes of the panel

ASSUME WarpAssumption ==
    /\ Job \notin Handlers
    /\ MaxDevices \in Nat \ {0} /\ MaxOps \in Nat /\ MaxFaults \in Nat

Threads  == Handlers \cup {Job}
Devices  == 1..MaxDevices
NoDevice == 0
Mixed    == MaxDevices + 1   \* the key of one device with the peer of another
Maybe    == Devices \cup {NoDevice}
Outbound == Maybe \cup {Mixed}

VARIABLES
    creds,         \* setting "warp": the device, NoDevice when ""
    template,      \* the WARP outbound in setting "xrayTemplateConfig"
    interval,      \* setting "warpUpdateInterval": 0, or 1 for any period
    last,          \* setting "warpLastUpdate" seen from today
    need,          \* isNeedXrayRestart
    running,       \* the WARP outbound of the running Xray
    pc,            \* where each thread is
    dev,           \* the device a thread has registered
    hold,          \* the credentials SetWarpLicense has loaded
    post,          \* updateSetting: the form
    differ,        \* updateSetting: does it differ from the template it read
    ops, faults    \* counters for the two bounds

settings == <<creds, template, interval, last>>
xray     == <<need, running>>
local    == <<dev, hold, post, differ>>
vars     == <<settings, xray, pc, local, ops, faults>>

Form   == [warp : Outbound, interval : {0, 1}]
NoForm == [warp |-> NoDevice, interval |-> 0]

Rotating == {"reRegister", "storeNew", "readTemplate", "writeTemplate",
             "relicense", "rePut"}

TypeOK ==
    /\ creds \in Maybe /\ template \in Outbound /\ interval \in {0, 1}
    /\ last \in {"zero", "recent", "old"}
    /\ need \in BOOLEAN /\ running \in Outbound
    /\ pc \in [Threads ->
         {"idle", "change", "flag", "stamp", "jobLast",
          "register", "storeReg", "license", "put",
          "turnOff", "turnOn", "setLast", "del", "delInterval", "delLast",
          "readOld", "saveTemplate", "saveInterval", "answer"} \cup Rotating]
    /\ dev \in [Threads -> Maybe] /\ hold \in [Threads -> Maybe]
    /\ post \in [Handlers -> Form] /\ differ \in [Handlers -> BOOLEAN]
    /\ ops \in 0..MaxOps /\ faults \in 0..MaxFaults
    \* A rotation that goes on has a device to go on with, a license its account.
    /\ \A t \in Threads :
          /\ pc[t] \in Rotating \ {"reRegister"} => dev[t] # NoDevice
          /\ pc[t] \in {"put", "rePut"} => hold[t] # NoDevice

\* A new installation, or one whose WARP account has been set up.
Init ==
    /\ \/ creds = NoDevice /\ template = NoDevice /\ interval = 0 /\ last = "zero"
       \/ creds = 1 /\ template = 1 /\ interval = 1 /\ last = "recent"
    /\ need = FALSE /\ running = template
    /\ pc = [t \in Threads |-> "idle"]
    /\ dev = [t \in Threads |-> NoDevice] /\ hold = [t \in Threads |-> NoDevice]
    /\ post = [h \in Handlers |-> NoForm] /\ differ = [h \in Handlers |-> FALSE]
    /\ ops = 0 /\ faults = 0

-----------------------------------------------------------------------------
(* Helpers *)

Goto(t, label) == pc' = [pc EXCEPT ![t] = label]

\* The locals go with the call.
Return(t) ==
    /\ Goto(t, "idle")
    /\ dev' = [dev EXCEPT ![t] = NoDevice]
    /\ hold' = [hold EXCEPT ![t] = NoDevice]
    /\ UNCHANGED <<post, differ>>

Fault == faults < MaxFaults /\ faults' = faults + 1

InUse ==
    {creds, template, running}
    \cup {post[h].warp : h \in Handlers}
    \cup UNION {{dev[t], hold[t]} : t \in Threads}

\* Cloudflare never issues a device twice; numbers nobody refers to any more
\* are used again.
NewDevice == CHOOSE d \in Devices \ InUse : \A e \in Devices \ InUse : d <= e

-----------------------------------------------------------------------------
(* updateSetting *)

\* A Save of a page: its outbound may be removed, stored, from an answer of the
\* dialog, rotated away since, or staged from two answers with a rotation
\* between them.
SubmitSettings(h) ==
    /\ pc[h] = "idle" /\ ops < MaxOps
    /\ ops' = ops + 1
    /\ \E o \in InUse \cup {NoDevice, Mixed}, i \in {0, 1} :
          post' = [post EXCEPT ![h] = [warp |-> o, interval |-> i]]
    /\ Goto(h, "readOld")
    /\ UNCHANGED <<settings, xray, dev, hold, differ, faults>>

\* Two texts differ when the outbounds do, and perhaps in something else.
\* If the read fails the Save goes on.
ReadOld(h) ==
    /\ pc[h] = "readOld"
    /\ \/ /\ \E other \in BOOLEAN :
                differ' = [differ EXCEPT ![h] = template # post[h].warp \/ other]
          /\ UNCHANGED faults
       \/ Fault /\ UNCHANGED differ
    /\ Goto(h, "saveTemplate")
    /\ UNCHANGED <<settings, xray, dev, hold, post, ops>>

\* UpdateAllSetting saves the fields in their order.
SaveTemplate(h) ==
    /\ pc[h] = "saveTemplate"
    /\ template' = post[h].warp
    /\ Goto(h, "saveInterval")
    /\ UNCHANGED <<creds, interval, last, xray, local, ops, faults>>

SaveInterval(h) ==
    /\ pc[h] = "saveInterval"
    /\ interval' = post[h].interval
    /\ Goto(h, "answer")
    /\ UNCHANGED <<creds, template, last, xray, local, ops, faults>>

EndSave(h) ==
    /\ post' = [post EXCEPT ![h] = NoForm]
    /\ differ' = [differ EXCEPT ![h] = FALSE]
    /\ Goto(h, "idle")
    /\ UNCHANGED <<dev, hold>>

Answer(h) ==
    /\ pc[h] = "answer"
    /\ need' = (need \/ differ[h])
    /\ EndSave(h)
    /\ UNCHANGED <<settings, running, ops, faults>>

\* A statement fails: the other fields are saved, and no flag is set.
SaveFails(h) ==
    /\ pc[h] \in {"saveTemplate", "saveInterval"}
    /\ Fault
    /\ interval' = IF pc[h] = "saveTemplate" THEN post[h].interval ELSE interval
    /\ EndSave(h)
    /\ UNCHANGED <<creds, template, last, xray, ops>>

-----------------------------------------------------------------------------
(* The requests of the WARP dialog *)

\* The handler of POST warp/:action.  The page offers no rotation before it has
\* an outbound, but the handler does not know.
Warp(h) ==
    /\ pc[h] = "idle" /\ ops < MaxOps
    /\ ops' = ops + 1
    /\ \E action \in {"register", "change", "license", "turnOff", "turnOn", "del"} :
          Goto(h, action)
    /\ UNCHANGED <<settings, xray, local, faults>>

-----------------------------------------------------------------------------
(* Registering and rotating; t is the job or a handler *)

\* RegWarp for a new account.
Register(t) ==
    /\ pc[t] \in {"register", "reRegister"} /\ Devices \ InUse # {}
    /\ dev' = [dev EXCEPT ![t] = NewDevice]
    /\ Goto(t, IF pc[t] = "register" THEN "storeReg" ELSE "storeNew")
    /\ UNCHANGED <<settings, xray, hold, post, differ, ops, faults>>

StoreReg(t) ==
    /\ pc[t] = "storeReg"
    /\ creds' = dev[t]
    /\ Return(t)
    /\ UNCHANGED <<template, interval, last, xray, ops, faults>>

\* Mutant of ChangeWarpIP: requireWarpOutbound wants the outbound of the
\* account that is stored.
ChangeOwnOutbound(t) ==
    /\ pc[t] = "change"
    /\ IF creds # NoDevice /\ template = creds
       THEN Goto(t, "reRegister") /\ UNCHANGED local
       ELSE Return(t)
    /\ UNCHANGED <<settings, xray, ops, faults>>

\* loadWarpCredentials and requireWarpOutbound come before the registration.
ChangeWarpIP(t) ==
    /\ pc[t] = "change"
    /\ IF creds # NoDevice /\ template # NoDevice
       THEN Goto(t, "reRegister") /\ UNCHANGED local
       ELSE Return(t)
    /\ UNCHANGED <<settings, xray, ops, faults>>

StoreNew(t) ==
    /\ pc[t] = "storeNew"
    /\ creds' = dev[t]
    /\ Goto(t, "readTemplate")
    /\ UNCHANGED <<template, interval, last, xray, local, ops, faults>>

\* UpdateWarpXraySetting: the outbound may have been removed meanwhile.
ReadTemplate(t) ==
    /\ pc[t] = "readTemplate"
    /\ IF template = NoDevice
       THEN Return(t)
       ELSE Goto(t, "writeTemplate") /\ UNCHANGED local
    /\ UNCHANGED <<settings, xray, ops, faults>>

\* What follows a rotation, whether or not its license was applied: the
\* handler sets the flag and then the time, the job the other way round.
AfterRotation(t) == IF t = Job THEN "stamp" ELSE "flag"

\* It writes the template it read, which had the outbound.  The old account's
\* license, if it is long enough, is applied to the new one.
WriteTemplate(t) ==
    /\ pc[t] = "writeTemplate"
    /\ template' = dev[t]
    /\ Goto(t, "relicense") \/ Goto(t, AfterRotation(t))
    /\ UNCHANGED <<creds, interval, last, xray, local, ops, faults>>

\* SetWarpLicense loads the credentials that are stored by now.
LoadLicense(t) ==
    /\ pc[t] \in {"license", "relicense"}
    /\ IF creds # NoDevice
       THEN /\ hold' = [hold EXCEPT ![t] = creds]
            /\ Goto(t, IF pc[t] = "license" THEN "put" ELSE "rePut")
            /\ UNCHANGED <<dev, post, differ>>
       ELSE IF pc[t] = "relicense"
            THEN Goto(t, AfterRotation(t)) /\ UNCHANGED local
            ELSE Return(t)
    /\ UNCHANGED <<settings, xray, ops, faults>>

\* Cloudflare has accepted the license: the credentials that were loaded are
\* stored again, with it.
StoreLicense(t) ==
    /\ pc[t] \in {"put", "rePut"}
    /\ creds' = hold[t]
    /\ IF pc[t] = "put" THEN Return(t)
       ELSE /\ hold' = [hold EXCEPT ![t] = NoDevice]
            /\ Goto(t, AfterRotation(t))
            /\ UNCHANGED <<dev, post, differ>>
    /\ UNCHANGED <<template, interval, last, xray, ops, faults>>

SetNeedRestart(t) ==
    /\ pc[t] = "flag"
    /\ need' = TRUE
    /\ IF t = Job THEN Return(t) ELSE Goto(t, "stamp") /\ UNCHANGED local
    /\ UNCHANGED <<settings, running, ops, faults>>

\* SetWarpLastUpdate; an error is ignored.
Stamp(t) ==
    /\ pc[t] = "stamp"
    /\ \/ last' = "recent" /\ UNCHANGED faults
       \/ Fault /\ UNCHANGED last
    /\ IF t = Job THEN Goto(t, "flag") /\ UNCHANGED local ELSE Return(t)
    /\ UNCHANGED <<creds, template, interval, xray, ops>>

-----------------------------------------------------------------------------
(* The period and the removal of the account *)

TurnOff(t) ==
    /\ pc[t] = "turnOff"
    /\ interval' = 0
    /\ Return(t)
    /\ UNCHANGED <<creds, template, last, xray, ops, faults>>

TurnOn(t) ==
    /\ pc[t] = "turnOn"
    /\ interval' = 1
    /\ Goto(t, "setLast")
    /\ UNCHANGED <<creds, template, last, xray, local, ops, faults>>

StampInterval(t) ==
    /\ pc[t] = "setLast"
    /\ \/ last' = "recent" /\ UNCHANGED faults
       \/ Fault /\ UNCHANGED last
    /\ Return(t)
    /\ UNCHANGED <<creds, template, interval, xray, ops>>

DelWarpData(t) ==
    /\ pc[t] = "del"
    /\ creds' = NoDevice
    /\ Goto(t, "delInterval")
    /\ UNCHANGED <<template, interval, last, xray, local, ops, faults>>

\* The errors of these two statements are ignored.
DelInterval(t) ==
    /\ pc[t] = "delInterval"
    /\ \/ interval' = 0 /\ UNCHANGED faults
       \/ Fault /\ UNCHANGED interval
    /\ Goto(t, "delLast")
    /\ UNCHANGED <<creds, template, last, xray, local, ops>>

\* The page takes the outbound out of its copy of the template, for a later Save.
DelLast(t) ==
    /\ pc[t] = "delLast"
    /\ \/ last' = "zero" /\ UNCHANGED faults
       \/ Fault /\ UNCHANGED last
    /\ Return(t)
    /\ UNCHANGED <<creds, template, interval, xray, ops>>

\* A statement or a call to Cloudflare fails, also when it had its effect there.
Fails(t) ==
    /\ pc[t] \in {"register", "reRegister", "storeReg", "storeNew", "change",
                  "readTemplate", "writeTemplate", "license", "put",
                  "turnOff", "turnOn", "del"}
    /\ Fault
    /\ Return(t)
    /\ UNCHANGED <<settings, xray, ops>>

\* ChangeWarpIP only logs that the license was not applied.
LicenseFails(t) ==
    /\ pc[t] \in {"relicense", "rePut"}
    /\ Fault
    /\ hold' = [hold EXCEPT ![t] = NoDevice]
    /\ Goto(t, AfterRotation(t))
    /\ UNCHANGED <<settings, xray, dev, post, differ, ops>>

-----------------------------------------------------------------------------
(* WarpIPJob and the rest of the panel *)

JobStart ==
    /\ pc[Job] = "idle"
    /\ interval > 0
    /\ Goto(Job, "jobLast")
    /\ UNCHANGED <<settings, xray, local, ops, faults>>

\* The first run only notes the time.  When the read fails, the job takes this
\* for the first run; a failing write is ignored.
JobCheck ==
    /\ pc[Job] = "jobLast"
    /\ \/ /\ last' = IF last = "zero" THEN "recent" ELSE last
          /\ Goto(Job, IF last = "old" THEN "change" ELSE "idle")
          /\ UNCHANGED faults
       \/ Fault /\ last' \in {last, "recent"} /\ Goto(Job, "idle")
    /\ UNCHANGED <<creds, template, interval, xray, local, ops>>

\* An interval is at least a day; requests and restarts are over by then.
IntervalPasses ==
    /\ last = "recent" /\ ~need
    /\ pc[Job] \in {"idle", "jobLast"} /\ \A h \in Handlers : pc[h] = "idle"
    /\ last' = "old"
    /\ UNCHANGED <<creds, template, interval, xray, pc, local, ops, faults>>

\* The cron function that restarts Xray.
RestartXray ==
    /\ need
    /\ need' = FALSE /\ running' = template
    /\ UNCHANGED <<settings, pc, local, ops, faults>>

\* The panel dies and starts again; the pages' requests fail.
PanelRestarts ==
    /\ Fault
    /\ need' = FALSE /\ running' = template
    /\ pc' = [t \in Threads |-> "idle"]
    /\ dev' = [t \in Threads |-> NoDevice] /\ hold' = [t \in Threads |-> NoDevice]
    /\ post' = [h \in Handlers |-> NoForm] /\ differ' = [h \in Handlers |-> FALSE]
    /\ UNCHANGED <<settings, ops>>

-----------------------------------------------------------------------------
Rotate(t) ==
    \/ Register(t) \/ ChangeWarpIP(t) \/ StoreNew(t) \/ ReadTemplate(t)
    \/ WriteTemplate(t) \/ LoadLicense(t) \/ StoreLicense(t)
    \/ SetNeedRestart(t) \/ Stamp(t)

Handle(h) ==
    \/ Rotate(h) \/ StoreReg(h)
    \/ TurnOff(h) \/ TurnOn(h) \/ StampInterval(h)
    \/ DelWarpData(h) \/ DelInterval(h) \/ DelLast(h)
    \/ ReadOld(h) \/ SaveTemplate(h) \/ SaveInterval(h) \/ Answer(h)

RunJob == JobStart \/ JobCheck \/ Rotate(Job)

Next ==
    \/ \E h \in Handlers : SubmitSettings(h) \/ Warp(h) \/ Handle(h) \/ SaveFails(h)
    \/ RunJob
    \/ \E t \in Threads : Fails(t) \/ LicenseFails(t)
    \/ IntervalPasses \/ RestartXray \/ PanelRestarts

Spec == Init /\ [][Next]_vars

\* Requests that were sent are handled, cron runs its jobs, and time passes.
\* Nobody has to use a page.
FairSpec ==
    /\ Spec
    /\ \A h \in Handlers : WF_vars(Handle(h))
    /\ WF_vars(RunJob) /\ WF_vars(IntervalPasses) /\ WF_vars(RestartXray)

-----------------------------------------------------------------------------
(* What the rotation promises *)

\* warp.go:181: a rotation stores the credentials of a new device and then the
\* template, and in between it may fail, the panel may die, a page may save the
\* outbound it read long before, one staged from two devices or none, a license may
\* be stored over the new credentials, an account may come back while it is
\* deleted.  As long as scheduled rotations are on, they make all of it good:
\* again and again Xray runs an outbound whose key and peer are those of the
\* device the panel holds the credentials of.
RotationHeals ==
    []<>(\/ interval = 0 \/ creds = NoDevice \/ template = NoDevice
         \/ template = creds /\ running = template)
=============================================================================
