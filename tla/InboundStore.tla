---------------------------- MODULE InboundStore ----------------------------
(***************************************************************************)
(* The inbounds table (web/service/inbound.go) and those who share it: the *)
(* handlers of web/controller/inbound.go, which post rows that were listed *)
(* earlier, the job that credits traffic, the job that disables inbounds,  *)
(* and the Xray that was last started from the table.  A SQL statement or  *)
(* transaction is atomic; a handler or a job makes several.                *)
(*                                                                         *)
(* A tag is "inbound-" and the port, so ports stand for both.  up and down *)
(* are one number, used: every statement treats them alike.  The settings  *)
(* of an inbound are its own, so that Xray's configuration is the function *)
(* from ports to inbounds.  How a restart is carried out is the subject of *)
(* XraySupervisor; here it is one step.                                    *)
(***************************************************************************)
EXTENDS Integers, FiniteSets, Functions

CONSTANTS
    Ids, NoId,     \* primary keys
    Ports,
    NoRow,         \* a key without a row
    Handlers,      \* concurrent requests, each with the page it comes from
    Jobs,          \* overlapping runs of XrayTrafficJob
    Totals,        \* the limits an administrator sets; 0 is none
    Nothing,       \* no form in a request, no batch in a job
    MaxOps,        \* bound: requests of the administrators
    MaxTraffic,    \* bound: units of traffic carried by Xray
    MaxFaults      \* bound: failing statements and crashes

ASSUME StoreAssumption ==
    /\ NoId \notin Ids
    /\ 0 \in Totals /\ Totals \subseteq Nat
    /\ MaxOps \in Nat /\ MaxTraffic \in Nat /\ MaxFaults \in Nat
    /\ IsFiniteSet(Ids) /\ IsFiniteSet(Ports) /\ IsFiniteSet(Jobs)

Row == [port : Ports, used : Nat, total : Totals, expires : BOOLEAN,
        enable : BOOLEAN]

ASSUME NoRowAssumption == NoRow \notin Row

Form == [id : Ids \cup {NoId}, row : Row]

\* What QueryStats returned, and (history) which inbounds had carried it.
Batch == [units : [Ports -> Nat], owner : [Ports -> Ids \cup {NoId}]]

ASSUME NothingAssumption == Nothing \notin Form /\ Nothing \notin Batch

VARIABLES
    rows,          \* the table
    need,          \* isNeedXrayRestart
    running,       \* the inbound Xray serves at each port
    counter,       \* Xray's statistics: units per tag since they were read
    pc, form,      \* the handlers
    batch,         \* what a traffic job has collected and not yet credited
    disabling,     \* CheckInboundJob has disabled rows, flag not yet set
    late,          \* the clock has passed the expiry times
    carried,       \* history: units each inbound carried
    disturbed,     \* history: inbounds whose account a known race has touched
    given,         \* history: keys that were given out
    ops, faults    \* counters for the bounds

table   == <<rows, given>>
xray    == <<need, running, counter>>
handler == <<pc, form>>
jobs    == <<batch, disabling>>
history == <<carried, disturbed>>
bounds  == <<ops, faults>>
vars    == <<table, xray, handler, jobs, late, history, bounds>>

TypeOK ==
    /\ rows \in [Ids -> Row \cup {NoRow}]
    /\ need \in BOOLEAN
    /\ running \in [Ports -> Ids \cup {NoId}]
    /\ counter \in [Ports -> Nat]
    /\ pc \in [Handlers -> {"idle", "editing", "checkPort", "getRow", "save",
                            "setNeed"}]
    /\ form \in [Handlers -> Form \cup {Nothing}]
    /\ \A h \in Handlers : form[h] = Nothing <=> pc[h] \in {"idle", "setNeed"}
    /\ \A h \in Handlers : pc[h] \in {"editing", "getRow"} => form[h].id # NoId
    /\ batch \in [Jobs -> Batch \cup {Nothing}]
    /\ disabling \in BOOLEAN /\ late \in BOOLEAN
    /\ carried \in [Ids -> Nat]
    /\ disturbed \subseteq Ids /\ given \subseteq Ids
    /\ ops \in 0..MaxOps /\ faults \in 0..MaxFaults

-----------------------------------------------------------------------------
(* The table *)

Stored == {i \in Ids : rows[i] # NoRow}

\* checkPortExist
PortExists(port, ignored) ==
    \E i \in Stored : i # ignored /\ rows[i].port = port

\* Mutant of Storable: the columns are not UNIQUE.
StorableAlways(id, row) == TRUE

\* The UNIQUE columns port and tag accept the row.
Storable(id, row) == ~PortExists(row.port, id)

\* DisableInvalidInbounds: the condition of the WHERE clause.
Invalid(row) ==
    \/ row.total > 0 /\ row.used >= row.total
    \/ row.expires /\ late

\* GetXrayConfig: the enabled rows.
Enabled(table_, q) ==
    {i \in Ids : table_[i] # NoRow /\ table_[i].enable /\ table_[i].port = q}

Config(table_) ==
    [q \in Ports |-> IF Enabled(table_, q) = {} THEN NoId
                     ELSE CHOOSE i \in Enabled(table_, q) : TRUE]

\* Xray has just been started from a table of unused, enabled inbounds.
Init ==
    /\ \E start \in [Ids -> Ports \cup {NoRow}] :
          /\ \A i, j \in Ids : i # j /\ start[i] = start[j] => start[i] = NoRow
          /\ rows = [i \in Ids |->
                        IF start[i] = NoRow THEN NoRow
                        ELSE [port |-> start[i], used |-> 0, total |-> 0,
                              expires |-> FALSE, enable |-> TRUE]]
          /\ given = {i \in Ids : start[i] # NoRow}
    /\ need = FALSE
    /\ running = Config(rows)
    /\ counter = [q \in Ports |-> 0]
    /\ pc = [h \in Handlers |-> "idle"]
    /\ form = [h \in Handlers |-> Nothing]
    /\ batch = [j \in Jobs |-> Nothing]
    /\ disabling = FALSE
    /\ late = FALSE
    /\ carried = [i \in Ids |-> 0]
    /\ disturbed = {}
    /\ ops = 0 /\ faults = 0

-----------------------------------------------------------------------------
(* Xray *)

\* Units of inbound i that a function from ports to units holds.
Held(units, owner, i) ==
    SumFunctionOnSet(units, {q \in Ports : owner[q] = i})

\* Clients use what Xray serves.
Carry(q) ==
    /\ running[q] # NoId
    /\ SumFunction(carried) < MaxTraffic
    /\ counter' = [counter EXCEPT ![q] = @ + 1]
    /\ carried' = [carried EXCEPT ![running[q]] = @ + 1]
    /\ UNCHANGED <<table, need, running, handler, jobs, late, disturbed, bounds>>

\* Those whose units Xray counts and nobody has collected.
Uncollected == {running[q] : q \in {r \in Ports : counter[r] > 0}}

\* Xray is started from the table.  What it has counted since the last
\* collection ends with the old process.
Load(config) ==
    /\ running' = config
    /\ counter' = [q \in Ports |-> 0]
    /\ disturbed' = disturbed \cup Uncollected

\* IsNeedRestartAndSetFalse and RestartXray(false).
Apply ==
    /\ need
    /\ need' = FALSE
    /\ IF running = Config(rows) THEN UNCHANGED <<running, counter, disturbed>>
                                ELSE Load(Config(rows))
    /\ UNCHANGED <<table, handler, jobs, late, carried, bounds>>

\* RestartXray(true), for the restart button, and for the check job that finds
\* Xray dead.
ForceRestart ==
    /\ ops < MaxOps
    /\ ops' = ops + 1
    /\ Load(Config(rows))
    /\ UNCHANGED <<table, need, handler, jobs, late, carried, faults>>

-----------------------------------------------------------------------------
(* The handlers *)

Goto(h, label) == pc' = [pc EXCEPT ![h] = label]

\* An error is answered, nothing else happens.
Return(h) == Goto(h, "idle") /\ form' = [form EXCEPT ![h] = Nothing]

Begin(h) == pc[h] = "idle" /\ ops < MaxOps /\ ops' = ops + 1

\* addInbound: binding; the page posts no traffic, Enable is set.
SubmitAdd(h) ==
    /\ Begin(h)
    /\ \E q \in Ports, t \in Totals, e \in BOOLEAN :
          form' = [form EXCEPT ![h] =
                      [id |-> NoId,
                       row |-> [port |-> q, used |-> 0, total |-> t,
                                expires |-> e, enable |-> TRUE]]]
    /\ Goto(h, "checkPort")
    /\ UNCHANGED <<table, xray, jobs, late, history, faults>>

\* getInbounds: the page shows an inbound, counters included, for as long as
\* it is open.
List(h) ==
    /\ Begin(h)
    /\ \E i \in Stored : form' = [form EXCEPT ![h] = [id |-> i, row |-> rows[i]]]
    /\ Goto(h, "editing")
    /\ UNCHANGED <<table, xray, jobs, late, history, faults>>

\* What the page posts: the listed row with one thing changed.
Edits(row) ==
    {row, [row EXCEPT !.used = 0], [row EXCEPT !.enable = ~@],
     [row EXCEPT !.expires = ~@]}
    \cup {[row EXCEPT !.port = q] : q \in Ports}
    \cup {[row EXCEPT !.total = t] : t \in Totals}

\* updateInbound: binding.
SubmitUpdate(h) ==
    /\ pc[h] = "editing"
    /\ \E row \in Edits(form[h].row) : form' = [form EXCEPT ![h].row = row]
    /\ Goto(h, "checkPort")
    /\ UNCHANGED <<table, xray, jobs, late, history, bounds>>

CheckPort(h) ==
    /\ pc[h] = "checkPort"
    /\ IF PortExists(form[h].row.port, form[h].id) THEN Return(h)
       ELSE /\ Goto(h, IF form[h].id = NoId THEN "save" ELSE "getRow")
            /\ UNCHANGED form
    /\ UNCHANGED <<table, xray, jobs, late, history, bounds>>

\* UpdateInbound: GetInbound.  Every column but the key and the owner is then
\* taken from the form.
GetRow(h) ==
    /\ pc[h] = "getRow"
    /\ IF form[h].id \notin Stored THEN Return(h)
       ELSE Goto(h, "save") /\ UNCHANGED form
    /\ UNCHANGED <<table, xray, jobs, late, history, bounds>>

\* The account of an inbound ends where an update replaces its counters, or its
\* key had another row before.
Saved(id, row) ==
    /\ rows' = [rows EXCEPT ![id] = row]
    /\ given' = given \cup {id}
    /\ disturbed' = IF \/ id \in Stored /\ rows[id].used # row.used
                       \/ id \notin Stored /\ id \in given
                    THEN disturbed \cup {id} ELSE disturbed

\* db.Save of a new row.  SQLite gives out a key that no row has; a key whose
\* row was deleted may come back.
SaveNew(h) ==
    /\ pc[h] = "save" /\ form[h].id = NoId
    /\ IF ~Storable(NoId, form[h].row)
       THEN Return(h) /\ UNCHANGED <<rows, given, disturbed>>
       ELSE /\ \E i \in Ids \ Stored : Saved(i, form[h].row)
            /\ Goto(h, "setNeed") /\ form' = [form EXCEPT ![h] = Nothing]
    /\ UNCHANGED <<xray, jobs, late, carried, bounds>>

\* db.Save of an old row updates every column, and inserts the row if it has
\* been deleted since GetInbound.
SaveOld(h) ==
    /\ pc[h] = "save" /\ form[h].id # NoId
    /\ IF ~Storable(form[h].id, form[h].row)
       THEN Return(h) /\ UNCHANGED <<rows, given, disturbed>>
       ELSE /\ Saved(form[h].id, form[h].row)
            /\ Goto(h, "setNeed") /\ form' = [form EXCEPT ![h] = Nothing]
    /\ UNCHANGED <<xray, jobs, late, carried, bounds>>

\* A statement of the handler fails: nothing is saved, no flag is set.
StatementFails(h) ==
    /\ pc[h] \in {"checkPort", "getRow", "save"} /\ faults < MaxFaults
    /\ faults' = faults + 1
    /\ Return(h)
    /\ UNCHANGED <<table, xray, jobs, late, history, ops>>

\* delInbound up to its answer.
DelInbound(h) ==
    /\ Begin(h)
    /\ \E i \in Stored : rows' = [rows EXCEPT ![i] = NoRow]
    /\ Goto(h, "setNeed")
    /\ UNCHANGED <<given, xray, form, jobs, late, history, faults>>

\* SetToNeedRestart, after the answer was written.
SetToNeedRestart(h) ==
    /\ pc[h] = "setNeed"
    /\ need' = TRUE
    /\ Goto(h, "idle")
    /\ UNCHANGED <<table, running, counter, form, jobs, late, history, bounds>>

-----------------------------------------------------------------------------
(* The jobs *)

\* XrayTrafficJob: GetXrayTraffic resets what it reads.
Collect(j) ==
    /\ batch[j] = Nothing /\ \E q \in Ports : counter[q] > 0
    /\ batch' = [batch EXCEPT ![j] = [units |-> counter, owner |-> running]]
    /\ counter' = [q \in Ports |-> 0]
    /\ UNCHANGED <<table, need, running, handler, disabling, late, history, bounds>>

\* The query times out, or its connection breaks, after Xray has reset what it
\* read; the job returns.  A failure before the reset changes nothing.
CollectFails(j) ==
    /\ batch[j] = Nothing /\ \E q \in Ports : counter[q] > 0
    /\ faults < MaxFaults
    /\ faults' = faults + 1
    /\ counter' = [q \in Ports |-> 0]
    /\ disturbed' = disturbed \cup Uncollected
    /\ UNCHANGED <<table, need, running, handler, jobs, late, carried, ops>>

\* Those who carried units of the batch.
Carriers(b) == {b.owner[q] : q \in {r \in Ports : b.units[r] > 0}}

\* Ports whose units in the batch do not go to the inbound that carried them.
Astray(b) ==
    {q \in Ports : b.units[q] > 0 /\ ~\E i \in Stored : i = b.owner[q] /\ rows[i].port = q}

\* Those who are charged too little or too much for it.
Misled(b) ==
    {b.owner[q] : q \in Astray(b)} \cup {i \in Stored : rows[i].port \in Astray(b)}

\* Mutant of AddTraffic: only enabled inbounds are credited.
AddTrafficEnabled(j) ==
    /\ batch[j] # Nothing
    /\ rows' = [i \in Ids |->
                   IF i \notin Stored \/ ~rows[i].enable THEN rows[i]
                   ELSE [rows[i] EXCEPT !.used = @ + batch[j].units[rows[i].port]]]
    /\ disturbed' = disturbed \cup Misled(batch[j])
    /\ batch' = [batch EXCEPT ![j] = Nothing]
    /\ UNCHANGED <<given, xray, handler, disabling, late, carried, bounds>>

\* AddTraffic: one transaction, each tag credited by an increment.
AddTraffic(j) ==
    /\ batch[j] # Nothing
    /\ rows' = [i \in Ids |->
                   IF i \notin Stored THEN NoRow
                   ELSE [rows[i] EXCEPT !.used = @ + batch[j].units[rows[i].port]]]
    /\ disturbed' = disturbed \cup Misled(batch[j])
    /\ batch' = [batch EXCEPT ![j] = Nothing]
    /\ UNCHANGED <<given, xray, handler, disabling, late, carried, bounds>>

\* AddTraffic rolls back; the job only logs it, Xray has forgotten the units.
AddTrafficFails(j) ==
    /\ batch[j] # Nothing /\ faults < MaxFaults
    /\ faults' = faults + 1
    /\ batch' = [batch EXCEPT ![j] = Nothing]
    /\ disturbed' = disturbed \cup Carriers(batch[j])
    /\ UNCHANGED <<table, xray, handler, disabling, late, carried, ops>>

\* The rows after the UPDATE of DisableInvalidInbounds.
Disabled ==
    [i \in Ids |-> IF i \in Stored /\ Invalid(rows[i])
                   THEN [rows[i] EXCEPT !.enable = FALSE] ELSE rows[i]]

\* Mutant of DisableInvalid: the job tests count > 1.
DisableMany ==
    /\ ~disabling
    /\ \E i \in Stored : rows[i].enable /\ Invalid(rows[i])
    /\ rows' = Disabled
    /\ disabling' = (\E i, j \in Stored : i # j /\ Disabled[i] # rows[i] /\ Disabled[j] # rows[j])
    /\ UNCHANGED <<given, xray, handler, batch, late, history, bounds>>

\* Mutant of DisableInvalid: the restart is left to the next change.
DisableQuietly ==
    /\ ~disabling
    /\ \E i \in Stored : rows[i].enable /\ Invalid(rows[i])
    /\ rows' = Disabled
    /\ UNCHANGED <<given, xray, handler, jobs, late, history, bounds>>

\* CheckInboundJob: DisableInvalidInbounds.
DisableInvalid ==
    /\ ~disabling
    /\ \E i \in Stored : rows[i].enable /\ Invalid(rows[i])
    /\ rows' = Disabled
    /\ disabling' = TRUE
    /\ UNCHANGED <<given, xray, handler, batch, late, history, bounds>>

\* CheckInboundJob: SetToNeedRestart.
DisabledNeedsRestart ==
    /\ disabling
    /\ disabling' = FALSE
    /\ need' = TRUE
    /\ UNCHANGED <<table, running, counter, handler, batch, late, history, bounds>>

-----------------------------------------------------------------------------
(* The clock and crashes *)

ExpiryPasses ==
    /\ ~late
    /\ late' = TRUE
    /\ UNCHANGED <<table, xray, handler, jobs, history, bounds>>

\* The panel dies with its requests and jobs; the service manager starts it
\* again, and startTask starts Xray from the table.  Pages stay open.
PanelRestarts ==
    /\ faults < MaxFaults
    /\ faults' = faults + 1
    /\ need' = FALSE
    /\ running' = Config(rows)
    /\ counter' = [q \in Ports |-> 0]
    /\ pc' = [h \in Handlers |-> IF pc[h] = "editing" THEN "editing" ELSE "idle"]
    /\ form' = [h \in Handlers |-> IF pc[h] = "editing" THEN form[h] ELSE Nothing]
    /\ batch' = [j \in Jobs |-> Nothing]
    /\ disabling' = FALSE
    /\ disturbed' = disturbed \cup Uncollected
          \cup UNION {Carriers(batch[j]) : j \in {k \in Jobs : batch[k] # Nothing}}
    /\ UNCHANGED <<table, late, carried, ops>>

-----------------------------------------------------------------------------
Handle(h) ==
    CheckPort(h) \/ GetRow(h) \/ SaveNew(h) \/ SaveOld(h) \/ SetToNeedRestart(h)

Next ==
    \/ Apply \/ ForceRestart
    \/ \E q \in Ports : Carry(q)
    \/ \E h \in Handlers :
          SubmitAdd(h) \/ List(h) \/ SubmitUpdate(h) \/ DelInbound(h)
          \/ Handle(h) \/ StatementFails(h)
    \/ \E j \in Jobs :
          Collect(j) \/ CollectFails(j) \/ AddTraffic(j) \/ AddTrafficFails(j)
    \/ DisableInvalid \/ DisabledNeedsRestart
    \/ ExpiryPasses \/ PanelRestarts

Spec == Init /\ [][Next]_vars

\* Requests that were sent are handled and cron runs its jobs.  Nobody has to
\* use the panel or Xray.
FairSpec ==
    /\ Spec
    /\ WF_vars(Apply) /\ WF_vars(DisableInvalid) /\ WF_vars(DisabledNeedsRestart)
    /\ \A h \in Handlers : WF_vars(Handle(h))
    /\ \A j \in Jobs : WF_vars(Collect(j)) /\ WF_vars(AddTraffic(j))

-----------------------------------------------------------------------------
(* What the store promises *)

\* No two inbounds share a port, although checkPortExist (inbound.go:41) and the
\* save are two statements and adds, updates and resurrecting saves overlap.
PortsDistinct ==
    \A i, j \in Stored : i # j => rows[i].port # rows[j].port

\* Whenever Xray serves other inbounds than the table has enabled, a restart is
\* due: the flag is set, or whoever changed the table is about to set it.  A
\* crash between the save and the flag is made good by the start.
ServedOrPending ==
    \/ running = Config(rows)
    \/ need \/ disabling
    \/ \E h \in Handlers : pc[h] = "setNeed"

\* The account of an inbound: credited, collected or still counted by Xray.
Account(i) ==
    rows[i].used + Held(counter, running, i)
    + SumFunction([j \in Jobs |-> IF batch[j] = Nothing THEN 0
                                  ELSE Held(batch[j].units, batch[j].owner, i)])

\* What all rows, Xray and the collecting jobs hold together.
Charged ==
    SumFunction([i \in Ids |-> IF i \in Stored THEN rows[i].used ELSE 0])
    + SumFunction(counter)
    + SumFunction([j \in Jobs |->
                      IF batch[j] = Nothing THEN 0 ELSE SumFunction(batch[j].units)])

\* Every unit an inbound carried is on its account exactly once.  The races and
\* faults that lose or misdirect units are set apart by disturbed: an update
\* that posts other counters than the row has (inbound.go:134), a key or a port
\* given to another inbound while units of the old one are on their way
\* (inbound.go:172), a restart of Xray or the panel before the collection, a
\* query that fails after its reset (xray_traffic_job.go:22) and a failing
\* AddTraffic (xray_traffic_job.go:26).  Nothing else that the handlers, the
\* jobs and Xray do loses units of an inbound.  And with all of those the rows
\* together are never charged for more than was carried: no late collection,
\* no stale page and no resurrected row counts a unit twice.
TrafficConserved ==
    /\ \A i \in Stored \ disturbed : Account(i) = carried[i]
    /\ Charged <= SumFunction(carried)

\* An inbound past its limit or its expiry is eventually no longer served, and
\* stays so unless an administrator acts: not a page opened before, nor a row
\* saved back while the job disabled it, keeps it alive.
LimitsEnforced ==
    <>[](\A q \in Ports :
            running[q] # NoId =>
               /\ rows[running[q]] # NoRow
               /\ ~Invalid(rows[running[q]]))
=============================================================================
