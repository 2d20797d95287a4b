---------------------------- MODULE LoginThrottle ----------------------------
(***************************************************************************)
(* The login handler (web/controller/index.go) and the two limiters that   *)
(* throttle it (util/limiter/limiter.go): one keyed by source address, one *)
(* keyed by user name.  Each limiter call is atomic, its mutex is held     *)
(* throughout; a login makes several calls, and the password comparison    *)
(* between them takes long enough for other logins to interleave.          *)
(***************************************************************************)
EXTENDS Integers, FiniteSets

CONSTANTS
    IPs, Users,    \* the keys of the two limiters
    Logins,        \* concurrent runs of the login handler
    Threshold,     \* Threshold[l], as given to New
    BaseDelay,     \* BaseDelay[l]
    MaxDelay, Idle,
    MaxTracked,    \* maxTrackedKeys
    Word,          \* width of time.Duration in bits
    Nobody,        \* no request
    MaxTime,       \* bound: the clock
    MaxAttempts    \* bound: login requests

Limiters == {"ip", "user"}

ASSUME LimiterAssumption ==
    /\ Threshold \in [Limiters -> Int] /\ BaseDelay \in [Limiters -> Nat \ {0}]
    /\ MaxDelay \in Nat \ {0} /\ Idle \in Nat \ {0}
    /\ MaxTracked \in Nat \ {0} /\ Word \in Nat \ {0}
    /\ MaxTime \in Nat /\ MaxAttempts \in Nat

Keys == [l \in Limiters |-> IF l = "ip" THEN IPs ELSE Users]

VARIABLES
    entries,   \* entries[l][k]; NoEntry stands for a key absent from the map
    now,       \* the clock both limiters read
    pc, req,   \* where each login is, and its request
    attempts   \* counter for the bound

vars == <<entries, now, pc, req, attempts>>

Requests == [ip : IPs, user : Users, correct : BOOLEAN]

Entry == [failures : Nat, lockedUntil : Nat, lastSeen : Nat]

NoEntry == [failures |-> 0, lockedUntil |-> 0, lastSeen |-> 0]

TypeOK ==
    /\ DOMAIN entries = Limiters
    /\ \A l \in Limiters : entries[l] \in [Keys[l] -> Entry]
    /\ now \in Nat
    /\ pc \in [Logins -> {"idle", "allowIP", "allowUser", "check", "failIP",
                          "failUser", "resetIP", "resetUser"}]
    /\ req \in [Logins -> Requests \cup {Nobody}]
    /\ \A t \in Logins : pc[t] # "idle" => req[t] \in Requests
    /\ attempts \in 0..MaxAttempts

Init ==
    /\ entries = [l \in Limiters |-> [k \in Keys[l] |-> NoEntry]]
    /\ now = 0
    /\ pc = [t \in Logins |-> "idle"]
    /\ req = [t \in Logins |-> Nobody]
    /\ attempts = 0

-----------------------------------------------------------------------------
(* limiter.go *)

\* New clamps the threshold.
EffectiveThreshold(l) == IF Threshold[l] < 1 THEN 1 ELSE Threshold[l]

Tracked(map) == {k \in DOMAIN map : map[k] # NoEntry}

Locked(e) == now < e.lockedUntil

\* 2^n.
Pow2[n \in Nat] == IF n = 0 THEN 1 ELSE 2 * Pow2[n - 1]

\* baseDelay << n on a signed integer of Word bits.
Shifted(l, n) ==
    IF n >= Word THEN 0
    ELSE LET bits == (BaseDelay[l] * Pow2[n]) % Pow2[Word]
         IN  IF bits >= Pow2[Word - 1] THEN bits - Pow2[Word] ELSE bits

\* An overflowing shift of the delay never yields a small positive number.  It
\* holds for both limiters of index.go: 30 s and 60 s are odd multiples of 2^10
\* and 2^11 ns, so the first overflow is negative and every other result is a
\* multiple of 2^40 ns, which exceeds 15 min.
ASSUME ShiftAssumption ==
    \A l \in Limiters : \A n \in 0..(Word - 1) :
        \/ Shifted(l, n) = BaseDelay[l] * Pow2[n] /\ Shifted(l, n) \in Nat \ {0}
        \/ /\ BaseDelay[l] * Pow2[n] > MaxDelay
           /\ Shifted(l, n) <= 0 \/ Shifted(l, n) > MaxDelay

\* Mutant of Delay: the result of an overflowing shift is taken as it is.
UncheckedDelay(l, failures) ==
    LET delay == Shifted(l, failures - EffectiveThreshold(l) - 1)
    IN  IF delay > MaxDelay THEN MaxDelay ELSE IF delay < 0 THEN 0 ELSE delay

Delay(l, failures) ==
    LET delay == Shifted(l, failures - EffectiveThreshold(l) - 1)
    IN  IF delay > MaxDelay \/ delay <= 0 THEN MaxDelay ELSE delay

\* Mutant of Evicted: locked entries are evicted too.
EvictedWhenIdle(map) ==
    IF Cardinality(Tracked(map)) < MaxTracked \div 2 THEN map
    ELSE [k \in DOMAIN map |->
             IF now - map[k].lastSeen < Idle THEN map[k] ELSE NoEntry]

\* Mutant of Evicted: only locked entries stay.
EvictedUnlessLocked(map) ==
    IF Cardinality(Tracked(map)) < MaxTracked \div 2 THEN map
    ELSE [k \in DOMAIN map |-> IF Locked(map[k]) THEN map[k] ELSE NoEntry]

\* evictLocked: below half the capacity nothing is dropped.
Evicted(map) ==
    IF Cardinality(Tracked(map)) < MaxTracked \div 2 THEN map
    ELSE [k \in DOMAIN map |->
             IF Locked(map[k]) \/ now - map[k].lastSeen < Idle
             THEN map[k] ELSE NoEntry]

Counted(l, e) ==
    [failures    |-> e.failures + 1,
     lastSeen    |-> now,
     lockedUntil |-> IF e.failures + 1 <= EffectiveThreshold(l) THEN e.lockedUntil
                     ELSE now + Delay(l, e.failures + 1)]

\* Mutant of Failed: the capacity test is off by one.
FailedOverfull(l, k) ==
    LET map == Evicted(entries[l])
    IN  IF map[k] = NoEntry /\ Cardinality(Tracked(map)) > MaxTracked THEN map
        ELSE [map EXCEPT ![k] = Counted(l, @)]

\* Fail: evict, then count, unless the key is new and the map still full.
Failed(l, k) ==
    LET map == Evicted(entries[l])
    IN  IF map[k] = NoEntry /\ Cardinality(Tracked(map)) >= MaxTracked THEN map
        ELSE [map EXCEPT ![k] = Counted(l, @)]

Fail(l, k)  == entries' = [entries EXCEPT ![l] = Failed(l, k)]

Reset(l, k) == entries' = [entries EXCEPT ![l][k] = NoEntry]
Allow(l, k) == ~Locked(entries[l][k])

-----------------------------------------------------------------------------
(* The login handler *)

At(t, label) == pc[t] = label

Goto(t, label) == pc' = [pc EXCEPT ![t] = label]

\* The response is sent, the handler returns.
Return(t) == Goto(t, "idle") /\ req' = [req EXCEPT ![t] = Nobody]

Submit(t) ==
    /\ At(t, "idle") /\ attempts < MaxAttempts
    /\ attempts' = attempts + 1
    /\ \E r \in Requests : req' = [req EXCEPT ![t] = r]
    /\ Goto(t, "allowIP")
    /\ UNCHANGED <<entries, now>>

AllowIP(t) ==
    /\ At(t, "allowIP")
    /\ IF Allow("ip", req[t].ip) THEN Goto(t, "allowUser") /\ UNCHANGED req
                                 ELSE Return(t)
    /\ UNCHANGED <<entries, now, attempts>>

AllowUser(t) ==
    /\ At(t, "allowUser")
    /\ IF Allow("user", req[t].user) THEN Goto(t, "check") /\ UNCHANGED req
                                     ELSE Return(t)
    /\ UNCHANGED <<entries, now, attempts>>

CheckUser(t) ==
    /\ At(t, "check")
    /\ Goto(t, IF req[t].correct THEN "resetIP" ELSE "failIP")
    /\ UNCHANGED <<entries, now, req, attempts>>

FailIP(t) ==
    /\ At(t, "failIP")
    /\ Fail("ip", req[t].ip)
    /\ Goto(t, "failUser")
    /\ UNCHANGED <<now, req, attempts>>

FailUser(t) ==
    /\ At(t, "failUser")
    /\ Fail("user", req[t].user)
    /\ Return(t)
    /\ UNCHANGED <<now, attempts>>

ResetIP(t) ==
    /\ At(t, "resetIP")
    /\ Reset("ip", req[t].ip)
    /\ Goto(t, "resetUser")
    /\ UNCHANGED <<now, req, attempts>>

ResetUser(t) ==
    /\ At(t, "resetUser")
    /\ Reset("user", req[t].user)
    /\ Return(t)
    /\ UNCHANGED <<now, attempts>>

Tick ==
    /\ now < MaxTime
    /\ now' = now + 1
    /\ UNCHANGED <<entries, pc, req, attempts>>

Proceed(t) ==
    \/ AllowIP(t) \/ AllowUser(t) \/ CheckUser(t)
    \/ FailIP(t) \/ FailUser(t) \/ ResetIP(t) \/ ResetUser(t)

Next == Tick \/ \E t \in Logins : Submit(t) \/ Proceed(t)

Spec == Init /\ [][Next]_vars

\* Handlers run to their end and time passes; nobody has to log in.
FairSpec == Spec /\ WF_vars(Tick) /\ \A t \in Logins : WF_vars(Proceed(t))

-----------------------------------------------------------------------------
(* What the limiter promises *)

\* TestTrackedKeysAreBounded: rotating the key never grows a map past its
\* capacity, also when every entry is locked and nothing can be evicted.
MapBounded ==
    \A l \in Limiters : Cardinality(Tracked(entries[l])) <= MaxTracked

\* The lockout the doc comment of New describes, in unbounded integers: the
\* first failure past the threshold costs BaseDelay, each further one twice as
\* much, up to MaxDelay, counted from the last failure.
Penalty(l, failures) ==
    LET n == failures - EffectiveThreshold(l)
    IN  IF n <= 0 THEN 0
        ELSE IF n > Word \/ BaseDelay[l] * Pow2[n - 1] > MaxDelay THEN MaxDelay
        ELSE BaseDelay[l] * Pow2[n - 1]

\* The lockout of every tracked key is exactly that: neither the fixed-width
\* shift nor logins that were admitted before the lockout and fail during it
\* shorten or lengthen it.
LockoutIsExponential ==
    \A l \in Limiters : \A k \in Tracked(entries[l]) :
        LET e == entries[l][k]
        IN  e.lockedUntil = IF Penalty(l, e.failures) = 0 THEN 0
                            ELSE e.lastSeen + Penalty(l, e.failures)

\* A login that entered ResetX for this key in this step.
ResetStep(l, k) ==
    \E t \in Logins :
        \/ l = "ip" /\ At(t, "resetIP") /\ pc'[t] # pc[t] /\ req[t].ip = k
        \/ l = "user" /\ At(t, "resetUser") /\ pc'[t] # pc[t] /\ req[t].user = k

\* Only a successful login with that key ends a lockout early: no eviction, no
\* failure of any login, and no rotation of other keys does.
LockoutNotShortened ==
    [][\A l \in Limiters : \A k \in Keys[l] :
          Locked(entries[l][k]) /\ ~ResetStep(l, k)
             => entries'[l][k].lockedUntil >= entries[l][k].lockedUntil]_vars

\* Failures already counted are dropped only by a success or after Idle.
FailuresRemembered ==
    [][\A l \in Limiters : \A k \in Tracked(entries[l]) :
          now - entries[l][k].lastSeen < Idle /\ ~ResetStep(l, k)
             => entries'[l][k].failures >= entries[l][k].failures]_vars

\* limiter.go:41 "A key with no activity for idle is forgotten": the first
\* failure after such a pause starts a new history.
IdleIsForgotten ==
    [][\A l \in Limiters : \A k \in Tracked(entries[l]) :
          now - entries[l][k].lastSeen >= Idle /\ ~Locked(entries[l][k])
             => entries'[l][k].failures <= entries[l][k].failures
                \/ entries'[l][k].failures = 1]_vars
=============================================================================
