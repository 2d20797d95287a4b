----------------------------- MODULE OutputQueue -----------------------------
(***************************************************************************)
(* What Xray prints, on its way to the status page: the two goroutines of  *)
(* process.Start (xray/process.go) that read the pipes into a bounded      *)
(* queue, GetResult, which empties it, and GetXrayResult                   *)
(* (web/service/xray.go), which caches what GetResult returned while       *)
(* RestartXray replaces the process.                                       *)
(*                                                                         *)
(* The queue is the one of go-datastructures: Len, Put, Empty and          *)
(* TakeUntil return at once, Get waits for an item.  Only the number of    *)
(* lines is kept, and of a result only whose output it is.                 *)
(***************************************************************************)
EXTENDS Integers, FiniteSets

CONSTANTS
    Readers,       \* the streams of a process, stdout and stderr
    Polls,         \* overlapping runs of refreshStatus
    Capacity,      \* of the queue, 100 in the code
    PipeSize,      \* lines a pipe and its reader's buffer hold
    MaxProcs,      \* bound: Process objects
    MaxLines       \* bound: lines written

ASSUME QueueAssumption ==
    /\ IsFiniteSet(Readers) /\ Readers # {}
    /\ Capacity \in Nat /\ Cardinality(Readers) <= Capacity
    /\ PipeSize \in Nat /\ MaxProcs \in Nat /\ MaxLines \in Nat

Procs == 1..MaxProcs
None == 0

VARIABLES
    p,             \* the current Process, None before the first
    state,         \* of each Process: its cmd
    exitErr,       \* of each Process; "pending" between Wait and the assignment
    pipe,          \* lines written to a stream and not yet read
    reader,        \* where each reader is
    len,           \* the length of each queue
    restart,       \* RestartXray, which holds the mutex
    result,        \* the cached result: the Process it came from, or None for ""
    poll, from, text,  \* GetXrayResult: where, of which Process, what it got
    drained,       \* history: processes drained while they ran
    stale,         \* history: a poll stored a result after its process was replaced
    lines          \* counter for the bound

process == <<p, state, exitErr, restart>>
queue   == <<pipe, reader, len>>
status  == <<result, poll, from, text>>
vars    == <<process, queue, status, drained, stale, lines>>

TypeOK ==
    /\ p \in Procs \cup {None}
    /\ state \in [Procs -> {"unused", "new", "running", "ended"}]
    /\ exitErr \in [Procs -> {"nil", "pending", "set"}]
    /\ pipe \in [Procs -> [Readers -> 0..PipeSize]]
    /\ reader \in [Procs -> [Readers -> {"off", "read", "get", "put"}]]
    /\ len \in [Procs -> Nat]
    /\ restart \in {"idle", "clear", "start"}
    /\ restart # "idle" => p \in Procs /\ state[p] = "new"
    /\ result \in Procs \cup {None}
    /\ poll \in [Polls -> {"idle", "sample", "pick", "empty", "take", "store"}]
    /\ from \in [Polls -> Procs \cup {None}]
    /\ text \in [Polls -> Procs \cup {None}]
    /\ \A t \in Polls : poll[t] \in {"empty", "take"} => from[t] \in Procs
    /\ drained \subseteq Procs /\ stale \in BOOLEAN
    /\ lines \in 0..MaxLines

Init ==
    /\ p = None
    /\ state = [s \in Procs |-> "unused"]
    /\ exitErr = [s \in Procs |-> "nil"]
    /\ pipe = [s \in Procs |-> [r \in Readers |-> 0]]
    /\ reader = [s \in Procs |-> [r \in Readers |-> "off"]]
    /\ len = [s \in Procs |-> 0]
    /\ restart = "idle"
    /\ result = None
    /\ poll = [t \in Polls |-> "idle"]
    /\ from = [t \in Polls |-> None]
    /\ text = [t \in Polls |-> None]
    /\ drained = {} /\ stale = FALSE
    /\ lines = 0

-----------------------------------------------------------------------------
(* Processes *)

IsRunning(s) == state[s] = "running"

\* RestartXray: p.Stop is only a signal, the old process ends when it does.
Replace ==
    /\ restart = "idle"
    /\ \E s \in Procs :
          /\ state[s] = "unused" /\ \A t \in 1..(s - 1) : state[t] # "unused"
          /\ p' = s
          /\ state' = [state EXCEPT ![s] = "new"]
    /\ restart' = "clear"
    /\ UNCHANGED <<exitErr, queue, status, drained, stale, lines>>

\* Mutant of ClearResult: the result is not reset.
KeepResult ==
    /\ restart = "clear"
    /\ restart' = "start"
    /\ UNCHANGED <<p, state, exitErr, queue, status, drained, stale, lines>>

ClearResult ==
    /\ restart = "clear"
    /\ result' = None
    /\ restart' = "start"
    /\ UNCHANGED <<p, state, exitErr, queue, poll, from, text, drained, stale, lines>>

\* Start: the readers and the process begin.
Start ==
    /\ restart = "start"
    /\ state' = [state EXCEPT ![p] = "running"]
    /\ reader' = [reader EXCEPT ![p] = [r \in Readers |-> "read"]]
    /\ restart' = "idle"
    /\ UNCHANGED <<p, exitErr, pipe, len, status, drained, stale, lines>>

\* Start returns an error, or the fork fails.
StartFails ==
    /\ restart = "start"
    /\ state' = [state EXCEPT ![p] = "ended"]
    /\ exitErr' = [exitErr EXCEPT ![p] = "set"]
    /\ restart' = "idle"
    /\ UNCHANGED <<p, queue, status, drained, stale, lines>>

\* Xray prints a line; it waits while the pipe is full.
WriteLine(s, r) ==
    /\ IsRunning(s) /\ lines < MaxLines /\ pipe[s][r] < PipeSize
    /\ lines' = lines + 1
    /\ pipe' = [pipe EXCEPT ![s][r] = @ + 1]
    /\ UNCHANGED <<process, reader, len, status, drained, stale>>

\* Wait sees the end of the process and closes the pipes: what a reader has not
\* fetched into its buffer is lost.
Exit(s) ==
    /\ IsRunning(s)
    /\ state' = [state EXCEPT ![s] = "ended"]
    /\ \E e \in {"nil", "pending"} : exitErr' = [exitErr EXCEPT ![s] = e]
    /\ \E rest \in [Readers -> 0..PipeSize] :
          /\ \A r \in Readers : rest[r] <= pipe[s][r]
          /\ pipe' = [pipe EXCEPT ![s] = rest]
    /\ UNCHANGED <<p, restart, reader, len, status, drained, stale, lines>>

\* cmd.Run has returned an error.
SetExitErr(s) ==
    /\ exitErr[s] = "pending"
    /\ exitErr' = [exitErr EXCEPT ![s] = "set"]
    /\ UNCHANGED <<p, state, restart, queue, status, drained, stale, lines>>

-----------------------------------------------------------------------------
(* The readers *)

Goto(s, r, label) == reader' = [reader EXCEPT ![s][r] = label]

\* Mutant of ReadLine: the queue counts as full one line too late.
ReadLineLate(s, r) ==
    /\ reader[s][r] = "read" /\ pipe[s][r] > 0
    /\ pipe' = [pipe EXCEPT ![s][r] = @ - 1]
    /\ Goto(s, r, IF len[s] > Capacity THEN "get" ELSE "put")
    /\ UNCHANGED <<process, len, status, drained, stale, lines>>

\* Mutant of ReadLine: the test for a full queue is made after a line was put.
ReadLineEager(s, r) ==
    /\ reader[s][r] = "read" /\ pipe[s][r] > 0
    /\ pipe' = [pipe EXCEPT ![s][r] = @ - 1]
    /\ Goto(s, r, IF len[s] >= Capacity - 1 THEN "get" ELSE "put")
    /\ UNCHANGED <<process, len, status, drained, stale, lines>>

\* A line is read; then the test for a full queue.  A reader whose pipe is closed
\* and whose buffer is empty ends; here it stays where it is.
ReadLine(s, r) ==
    /\ reader[s][r] = "read" /\ pipe[s][r] > 0
    /\ pipe' = [pipe EXCEPT ![s][r] = @ - 1]
    /\ Goto(s, r, IF len[s] >= Capacity THEN "get" ELSE "put")
    /\ UNCHANGED <<process, len, status, drained, stale, lines>>

\* lines.Get(1) drops the oldest line, and waits while there is none.
Get(s, r) ==
    /\ reader[s][r] = "get" /\ len[s] > 0
    /\ len' = [len EXCEPT ![s] = @ - 1]
    /\ Goto(s, r, "put")
    /\ UNCHANGED <<process, pipe, status, drained, stale, lines>>

Put(s, r) ==
    /\ reader[s][r] = "put"
    /\ len' = [len EXCEPT ![s] = @ + 1]
    /\ Goto(s, r, "read")
    /\ UNCHANGED <<process, pipe, status, drained, stale, lines>>

-----------------------------------------------------------------------------
(* GetXrayResult *)

At(t, label) == poll' = [poll EXCEPT ![t] = label]

\* refreshStatus finds Xray not running, GetXrayResult no cached result.
Poll(t) ==
    /\ poll[t] = "idle"
    /\ p # None /\ ~IsRunning(p)
    /\ result = None
    /\ At(t, "sample")
    /\ UNCHANGED <<process, queue, result, from, text, drained, stale, lines>>

\* IsXrayRunning, asked again.
Sample(t) ==
    /\ poll[t] = "sample"
    /\ At(t, IF IsRunning(p) THEN "idle" ELSE "pick")
    /\ UNCHANGED <<process, queue, result, from, text, drained, stale, lines>>

\* p.GetResult: p is read again, and may be another process.
Pick(t) ==
    /\ poll[t] = "pick"
    /\ from' = [from EXCEPT ![t] = p]
    /\ At(t, "empty")
    /\ UNCHANGED <<process, queue, result, text, drained, stale, lines>>

\* Mutant of TestEmpty: the exit status is not used.
TestNothing(t) ==
    /\ poll[t] = "empty"
    /\ At(t, "take")
    /\ UNCHANGED <<process, queue, result, from, text, drained, stale, lines>>

\* GetResult: an empty queue and an error make the error the result.
TestEmpty(t) ==
    /\ poll[t] = "empty"
    /\ IF len[from[t]] = 0 /\ exitErr[from[t]] = "set"
       THEN text' = [text EXCEPT ![t] = from[t]] /\ At(t, "store")
       ELSE At(t, "take") /\ UNCHANGED text
    /\ UNCHANGED <<process, queue, result, from, drained, stale, lines>>

\* GetResult: TakeUntil takes all there is, also if that is nothing.
TakeUntil(t) ==
    /\ poll[t] = "take"
    /\ text' = [text EXCEPT ![t] = IF len[from[t]] > 0 THEN from[t] ELSE None]
    /\ len' = [len EXCEPT ![from[t]] = 0]
    /\ drained' = IF IsRunning(from[t]) THEN drained \cup {from[t]} ELSE drained
    /\ At(t, "store")
    /\ UNCHANGED <<process, pipe, reader, result, from, stale, lines>>

Store(t) ==
    /\ poll[t] = "store"
    /\ result' = text[t]
    /\ stale' = (stale \/ (text[t] # None /\ from[t] # p))
    /\ At(t, "idle")
    /\ from' = [from EXCEPT ![t] = None]
    /\ text' = [text EXCEPT ![t] = None]
    /\ UNCHANGED <<process, queue, drained, lines>>

-----------------------------------------------------------------------------
GetXrayResult(t) ==
    Sample(t) \/ Pick(t) \/ TestEmpty(t) \/ TakeUntil(t) \/ Store(t)

Read(s, r) == ReadLine(s, r) \/ Get(s, r) \/ Put(s, r)

RestartXray == ClearResult \/ Start \/ StartFails

Next ==
    \/ Replace \/ RestartXray
    \/ \E s \in Procs : Exit(s) \/ SetExitErr(s)
    \/ \E s \in Procs, r \in Readers : WriteLine(s, r) \/ Read(s, r)
    \/ \E t \in Polls : Poll(t) \/ GetXrayResult(t)

Spec == Init /\ [][Next]_vars

\* Goroutines that can run do.  Nobody has to restart Xray and Xray need not end.
\* The status is polled every two seconds.
FairSpec ==
    /\ Spec
    /\ WF_vars(RestartXray)
    /\ \A s \in Procs : WF_vars(SetExitErr(s))
    /\ \A s \in Procs, r \in Readers : WF_vars(Read(s, r))
    /\ \A t \in Polls : WF_vars(Poll(t)) /\ WF_vars(GetXrayResult(t))

-----------------------------------------------------------------------------
(* What the queue promises *)

\* Readers that have passed the test for a full queue on the way to Get, or Put.
Getting(s) == {r \in Readers : reader[s][r] = "get"}
Putting(s) == {r \in Readers : reader[s][r] = "put"}

\* queue.New(100) is only a hint and the readers test and put without a lock:
\* the queue exceeds its capacity by at most one line for each other reader.
QueueBounded ==
    \A s \in Procs :
        len[s] + Cardinality(Putting(s)) <= Capacity + Cardinality(Readers) - 1

\* process.go:190: a reader that waits in Get reads no more, and the pipe of a
\* running Xray fills up.  It does not happen through the readers themselves:
\* those on their way to Get all find a line.  Only GetResult can take it from
\* them, on the process that RestartXray put in the place of the one that was
\* found not running.
ReadersNeverWait ==
    \A s \in Procs \ drained :
        IsRunning(s) => Cardinality(Getting(s)) <= len[s]

\* xray.go:45: the cached result is the output of the current process, unless a
\* restart replaced the process while a poll had its result in hand, and the poll
\* stored it over the reset.
ResultIsCurrent ==
    result \in {None, p} \/ restart = "clear" \/ stale

\* server.go:308: as long as the current process is one that failed, there is
\* sooner or later a result for the page: an empty answer, for want of lines or
\* of the exit status, is not kept.
ErrorIsShown ==
    []<>(p # None /\ exitErr[p] = "set" => result # None)
=============================================================================
