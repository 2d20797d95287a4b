------------------------ MODULE LoginThrottleProofs ------------------------
(***************************************************************************)
(* Proofs about the two limiters for any sets of keys, any number of       *)
(* concurrent logins, any capacity and any word width: the maps stay       *)
(* bounded, every lockout has the documented length and is not shortened,  *)
(* and counted failures are not forgotten early.                           *)
(***************************************************************************)
EXTENDS LoginThrottle, FiniteSetTheorems, WellFoundedInduction, TLAPS

\* The lockout an entry must have; absent keys, which stand for zero failures,
\* have none.
Lawful(l, e) ==
    e.lockedUntil = IF Penalty(l, e.failures) = 0 THEN 0
                    ELSE e.lastSeen + Penalty(l, e.failures)

EntriesOK ==
    /\ DOMAIN entries = Limiters
    /\ \A l \in Limiters :
          /\ entries[l] \in [Keys[l] -> Entry]
          /\ IsFiniteSet(Tracked(entries[l]))
          /\ Cardinality(Tracked(entries[l])) <= MaxTracked
          /\ \A k \in Keys[l] : Lawful(l, entries[l][k])

ControlOK ==
    /\ now \in Nat
    /\ pc \in [Logins -> {"idle", "allowIP", "allowUser", "check", "failIP",
                          "failUser", "resetIP", "resetUser"}]
    /\ req \in [Logins -> Requests \cup {Nobody}]
    /\ \A t \in Logins : pc[t] # "idle" => req[t] \in Requests
    /\ attempts \in 0..MaxAttempts

IInv == EntriesOK /\ ControlOK

\* No entry was seen in the future.
SeenOK == \A l \in Limiters : \A k \in Keys[l] : entries[l][k].lastSeen <= now

-----------------------------------------------------------------------------
(* Powers of two *)

\* A nonempty set of natural numbers has a least element: the proofs below by
\* induction take the least number of which a statement were false.
LEMMA Least ==
    ASSUME NEW S \in SUBSET Nat, S # {}
    PROVE  \E n \in S : \A m \in S : n <= m
PROOF
  <1>1. IsWellFoundedOn(OpToRel(<, Nat), Nat)
    BY NatLessThanWellFounded
  <1>2. PICK n \in S : \A m \in S : ~(<<m, n>> \in OpToRel(<, Nat))
    BY <1>1, WFMin
  <1>3. ASSUME NEW m \in S PROVE n <= m
    <2>1. n \in Nat /\ m \in Nat
      OBVIOUS
    <2>2. ~(m < n)
      BY <1>2, <2>1 DEF OpToRel
    <2>3. QED
      BY <2>1, <2>2
  <1>4. QED
    BY <1>3

\* f tabulates the powers of two up to 2^n.
Doubles(f, n) ==
    /\ f \in [0..n -> Nat] /\ f[0] = 1
    /\ \A i \in 1..n : f[i] = 2 * f[i - 1]

\* There is such a table for every n ...
LEMMA DoublesExists == \A n \in Nat : \E f : Doubles(f, n)
PROOF
  <1> DEFINE S == {n \in Nat : ~ \E f : Doubles(f, n)}
  <1> SUFFICES ASSUME S # {} PROVE FALSE
    OBVIOUS
  <1>1. PICK n \in S : \A m \in S : n <= m
    BY Least
  <1>2. CASE n = 0
    <2>1. Doubles([i \in 0..0 |-> 1], 0)
      BY DEF Doubles
    <2>2. QED
      BY <1>2, <2>1
  <1>3. CASE n # 0
    <2>1. n \in Nat /\ n - 1 \in Nat /\ ~(n <= n - 1)
      BY <1>3
    <2>2. PICK f : Doubles(f, n - 1)
      BY <1>1, <2>1
    <2> DEFINE g == [i \in 0..n |-> IF i = n THEN 2 * f[n - 1] ELSE f[i]]
    <2>3. /\ \A i \in 0..(n - 1) : f[i] \in Nat /\ g[i] = f[i]
          /\ g[n] = 2 * f[n - 1] /\ f[n - 1] \in Nat
      BY <2>1, <2>2 DEF Doubles
    <2>4. g \in [0..n -> Nat]
      <3>1. ASSUME NEW i \in 0..n PROVE g[i] \in Nat
        <4>1. CASE i = n
          <5>1. g[i] = 2 * f[n - 1] /\ f[n - 1] \in Nat
            BY <2>3, <4>1
          <5> HIDE DEF g
          <5>2. QED
            BY <5>1
        <4>2. CASE i # n
          <5>1. i \in 0..(n - 1)
            BY <2>1, <4>2
          <5>2. QED
            BY <2>3, <5>1
        <4>3. QED
          BY <4>1, <4>2
      <3>2. QED
        BY <3>1
    <2>5. ASSUME NEW i \in 1..n PROVE g[i] = 2 * g[i - 1]
      <3>1. CASE i = n
        BY <2>1, <2>3, <3>1
      <3>2. CASE i # n
        <4>1. i \in 1..(n - 1) /\ i \in 0..(n - 1) /\ i - 1 \in 0..(n - 1)
          BY <2>1, <3>2
        <4>2. f[i] = 2 * f[i - 1]
          BY <2>2, <4>1 DEF Doubles
        <4>3. QED
          BY <2>3, <4>1, <4>2
      <3>3. QED
        BY <3>1, <3>2
    <2>6. g[0] = 1
      BY <2>1, <2>2, <2>3 DEF Doubles
    <2>7. Doubles(g, n)
      BY <2>4, <2>5, <2>6 DEF Doubles
    <2>8. QED
      BY <2>7
  <1>4. QED
    BY <1>2, <1>3

\* ... and two of them agree where both are defined ...
LEMMA DoublesUnique ==
    ASSUME NEW m \in Nat, NEW n \in Nat, NEW f, NEW g, Doubles(f, m), Doubles(g, n)
    PROVE  \A i \in Nat : i <= m /\ i <= n => f[i] = g[i]
PROOF
  <1> DEFINE S == {i \in Nat : i <= m /\ i <= n /\ f[i] # g[i]}
  <1> SUFFICES ASSUME S # {} PROVE FALSE
    OBVIOUS
  <1>1. PICK i \in S : \A j \in S : i <= j
    BY Least
  <1>2. i # 0
    BY DEF Doubles
  <1>3. /\ i \in 1..m /\ i \in 1..n /\ i - 1 \in Nat /\ ~(i <= i - 1)
        /\ i - 1 <= m /\ i - 1 <= n
    BY <1>2
  <1>4. f[i - 1] = g[i - 1]
    BY <1>1, <1>3
  <1>5. f[i] = g[i]
    BY <1>3, <1>4 DEF Doubles
  <1>6. QED
    BY <1>5

\* ... so that Pow2, a recursive function, is one for all n.
LEMMA Powers == \A n \in Nat : Pow2[n] = IF n = 0 THEN 1 ELSE 2 * Pow2[n - 1]
PROOF
  <1> DEFINE table(n) == CHOOSE f : Doubles(f, n)
             F == [n \in Nat |-> table(n)[n]]
  <1>1. \A n \in Nat : Doubles(table(n), n)
    BY DoublesExists
  <1> HIDE DEF table
  <1>2. ASSUME NEW n \in Nat PROVE F[n] = IF n = 0 THEN 1 ELSE 2 * F[n - 1]
    <2>1. CASE n = 0
      BY <1>1, <2>1 DEF Doubles
    <2>2. CASE n # 0
      <3>1. n - 1 \in Nat /\ n \in 1..n /\ n - 1 <= n
        BY <2>2
      <3>2. table(n)[n] = 2 * table(n)[n - 1]
        BY <1>1, <3>1 DEF Doubles
      <3>3. table(n)[n - 1] = table(n - 1)[n - 1]
        BY <1>1, <3>1, DoublesUnique
      <3>4. QED
        BY <2>2, <3>1, <3>2, <3>3
    <2>3. QED
      BY <2>1, <2>2
  <1>3. F = [n \in Nat |-> IF n = 0 THEN 1 ELSE 2 * F[n - 1]]
    BY <1>2
  <1> HIDE DEF F
  <1>4. Pow2 = [n \in Nat |-> IF n = 0 THEN 1 ELSE 2 * Pow2[n - 1]]
    BY <1>3 DEF Pow2
  <1>5. QED
    BY <1>4

\* The powers are positive naturals.
LEMMA PowersType == \A n \in Nat : Pow2[n] \in Nat \ {0}
PROOF
  <1> DEFINE S == {n \in Nat : Pow2[n] \notin Nat \ {0}}
  <1> SUFFICES ASSUME S # {} PROVE FALSE
    OBVIOUS
  <1>1. PICK n \in S : \A m \in S : n <= m
    BY Least
  <1>2. n # 0
    BY Powers
  <1>3. n - 1 \in Nat /\ ~(n <= n - 1)
    BY <1>2
  <1>4. Pow2[n - 1] \in Nat \ {0}
    BY <1>1, <1>3
  <1>5. Pow2[n] = 2 * Pow2[n - 1]
    BY <1>2, Powers
  <1>6. QED
    BY <1>4, <1>5

-----------------------------------------------------------------------------
(* The operators of limiter.go *)

\* New never leaves a threshold below one.
LEMMA ThresholdPositive ==
    ASSUME NEW l \in Limiters
    PROVE  EffectiveThreshold(l) \in Nat /\ EffectiveThreshold(l) >= 1
PROOF
  BY LimiterAssumption DEF EffectiveThreshold

\* Past the threshold, the fixed-width shift and its two tests compute the
\* doubling of the doc comment, and never a negative lockout.
LEMMA DelayIsPenalty ==
    ASSUME NEW l \in Limiters, NEW f \in Nat, f > EffectiveThreshold(l)
    PROVE  /\ Delay(l, f) \in Nat \ {0}
           /\ Delay(l, f) = Penalty(l, f)
PROOF
  <1> DEFINE n == f - EffectiveThreshold(l) - 1
  <1>1. n \in Nat /\ f - EffectiveThreshold(l) > 0
    BY ThresholdPositive
  <1>2. Word \in Nat /\ MaxDelay \in Nat \ {0}
    BY LimiterAssumption
  <1>3. CASE n >= Word
    BY <1>1, <1>2, <1>3, ThresholdPositive DEF Delay, Penalty, Shifted
  <1>4. CASE n < Word
    <2>1. n \in 0..(Word - 1)
      BY <1>1, <1>2, <1>4
    <2>2. CASE Shifted(l, n) = BaseDelay[l] * Pow2[n] /\ Shifted(l, n) \in Nat \ {0}
      BY <1>1, <1>2, <1>4, <2>2, ThresholdPositive DEF Delay, Penalty
    <2>3. CASE /\ BaseDelay[l] * Pow2[n] > MaxDelay
               /\ Shifted(l, n) <= 0 \/ Shifted(l, n) > MaxDelay
      BY <1>1, <1>2, <1>4, <2>3, ThresholdPositive DEF Delay, Penalty
    <2>4. QED
      BY <2>1, <2>2, <2>3, ShiftAssumption
  <1>5. QED
    BY <1>1, <1>2, <1>3, <1>4

\* Counting one more failure gives the entry the lockout of its new count.
LEMMA CountedLawful ==
    ASSUME NEW l \in Limiters, NEW e \in Entry, Lawful(l, e), now \in Nat
    PROVE  /\ Counted(l, e) \in Entry /\ Counted(l, e) # NoEntry
           /\ Lawful(l, Counted(l, e))
PROOF
  <1>1. CASE e.failures + 1 <= EffectiveThreshold(l)
    <2>1. Penalty(l, e.failures) = 0 /\ Penalty(l, e.failures + 1) = 0
      BY <1>1, ThresholdPositive DEF Penalty, Entry
    <2>2. QED
      BY <1>1, <2>1 DEF Counted, Lawful, Entry, NoEntry
  <1>2. CASE e.failures + 1 > EffectiveThreshold(l)
    <2>1. /\ Delay(l, e.failures + 1) \in Nat \ {0}
          /\ Delay(l, e.failures + 1) = Penalty(l, e.failures + 1)
      BY <1>2, DelayIsPenalty DEF Entry
    <2>2. QED
      BY <1>2, <2>1, ThresholdPositive DEF Counted, Lawful, Entry, NoEntry
  <1>3. QED
    BY <1>1, <1>2, ThresholdPositive DEF Entry

\* evictLocked only removes entries.
LEMMA EvictedShrinks ==
    ASSUME NEW S, NEW map \in [S -> Entry], IsFiniteSet(Tracked(map))
    PROVE  /\ Evicted(map) \in [S -> Entry]
           /\ \A k \in S : Evicted(map)[k] \in {map[k], NoEntry}
           /\ IsFiniteSet(Tracked(Evicted(map)))
           /\ Cardinality(Tracked(Evicted(map))) <= Cardinality(Tracked(map))
PROOF
  <1>1. NoEntry \in Entry
    BY DEF NoEntry, Entry
  <1>2. /\ Evicted(map) \in [S -> Entry]
        /\ \A k \in S : Evicted(map)[k] \in {map[k], NoEntry}
    BY <1>1 DEF Evicted
  <1>3. Tracked(Evicted(map)) \in SUBSET Tracked(map)
    BY <1>2 DEF Tracked
  <1>4. QED
    BY <1>2, <1>3, FS_Subset

\* Fail leaves the map typed and bounded; every entry is the old one, none, or,
\* for the key that failed, one with one more failure.
LEMMA FailedBounded ==
    ASSUME EntriesOK, now \in Nat, NEW l \in Limiters, NEW k \in Keys[l]
    PROVE  /\ Failed(l, k) \in [Keys[l] -> Entry]
           /\ IsFiniteSet(Tracked(Failed(l, k)))
           /\ Cardinality(Tracked(Failed(l, k))) <= MaxTracked
           /\ \A x \in Keys[l] : Lawful(l, Failed(l, k)[x])
PROOF
  <1> DEFINE old == entries[l]
             map == Evicted(old)
             new == [map EXCEPT ![k] = Counted(l, @)]
  <1>1. /\ old \in [Keys[l] -> Entry] /\ IsFiniteSet(Tracked(old))
        /\ Cardinality(Tracked(old)) <= MaxTracked
        /\ \A x \in Keys[l] : Lawful(l, old[x])
    BY DEF EntriesOK
  <1>2. /\ map \in [Keys[l] -> Entry]
        /\ \A x \in Keys[l] : map[x] \in {old[x], NoEntry}
        /\ IsFiniteSet(Tracked(map))
        /\ Cardinality(Tracked(map)) <= Cardinality(Tracked(old))
    BY <1>1, EvictedShrinks
  <1>3. /\ Cardinality(Tracked(map)) \in Nat /\ Cardinality(Tracked(old)) \in Nat
        /\ MaxTracked \in Nat
    BY <1>1, <1>2, FS_CardinalityType, LimiterAssumption
  <1>4. Lawful(l, NoEntry)
    BY ThresholdPositive DEF Lawful, Penalty, NoEntry
  <1>5. \A x \in Keys[l] : Lawful(l, map[x])
    BY <1>1, <1>2, <1>4
  <1>6. /\ Counted(l, map[k]) \in Entry /\ Counted(l, map[k]) # NoEntry
        /\ Lawful(l, Counted(l, map[k]))
    BY <1>2, <1>5, CountedLawful
  <1>7. /\ new \in [Keys[l] -> Entry]
        /\ \A x \in Keys[l] : new[x] = IF x = k THEN Counted(l, map[k]) ELSE map[x]
    BY <1>2, <1>6
  <1>8. Tracked(new) = Tracked(map) \cup {k}
    BY <1>2, <1>6, <1>7 DEF Tracked
  <1>9. /\ IsFiniteSet(Tracked(new))
        /\ Cardinality(Tracked(new)) = IF k \in Tracked(map)
              THEN Cardinality(Tracked(map)) ELSE Cardinality(Tracked(map)) + 1
    BY <1>2, <1>8, FS_AddElement
  <1>10. CASE map[k] = NoEntry /\ Cardinality(Tracked(map)) >= MaxTracked
    <2>1. Failed(l, k) = map
      BY <1>10 DEF Failed
    <2>2. QED
      BY <1>1, <1>2, <1>3, <1>5, <2>1
  <1>11. CASE ~(map[k] = NoEntry /\ Cardinality(Tracked(map)) >= MaxTracked)
    <2>1. Failed(l, k) = new
      BY <1>11 DEF Failed
    <2>2. Cardinality(Tracked(new)) <= MaxTracked
      <3>1. map[k] = NoEntry <=> k \notin Tracked(map)
        BY <1>2 DEF Tracked
      <3>2. QED
        BY <1>1, <1>2, <1>3, <1>9, <1>11, <3>1
    <2>3. \A x \in Keys[l] : Lawful(l, new[x])
      BY <1>5, <1>6, <1>7
    <2>4. QED
      BY <1>7, <1>9, <2>1, <2>2, <2>3
  <1>12. QED
    BY <1>10, <1>11

-----------------------------------------------------------------------------
(* Steps *)

\* Fail on either limiter keeps both maps in order.
LEMMA FailKeepsEntries ==
    ASSUME EntriesOK, now \in Nat, NEW l \in Limiters, NEW k \in Keys[l], Fail(l, k)
    PROVE  EntriesOK'
PROOF
  <1>1. /\ Failed(l, k) \in [Keys[l] -> Entry]
        /\ IsFiniteSet(Tracked(Failed(l, k)))
        /\ Cardinality(Tracked(Failed(l, k))) <= MaxTracked
        /\ \A x \in Keys[l] : Lawful(l, Failed(l, k)[x])
    BY FailedBounded
  <1>2. /\ DOMAIN entries' = Limiters
        /\ \A m \in Limiters : entries'[m] = IF m = l THEN Failed(l, k) ELSE entries[m]
    BY DEF Fail, EntriesOK
  <1>3. ASSUME NEW m \in Limiters
        PROVE  /\ entries'[m] \in [Keys[m] -> Entry]
               /\ IsFiniteSet(Tracked(entries'[m]))
               /\ Cardinality(Tracked(entries'[m])) <= MaxTracked
               /\ \A x \in Keys[m] : Lawful(m, entries'[m][x])
    BY <1>1, <1>2 DEF EntriesOK
  <1>4. QED
    BY <1>2, <1>3 DEF EntriesOK

\* So does Reset.
LEMMA ResetKeepsEntries ==
    ASSUME EntriesOK, NEW l \in Limiters, NEW k \in Keys[l], Reset(l, k)
    PROVE  EntriesOK'
PROOF
  <1> DEFINE old == entries[l]
             new == [old EXCEPT ![k] = NoEntry]
  <1>1. /\ DOMAIN entries' = Limiters
        /\ \A m \in Limiters : entries'[m] = IF m = l THEN new ELSE entries[m]
    BY DEF Reset, EntriesOK
  <1>2. /\ old \in [Keys[l] -> Entry] /\ IsFiniteSet(Tracked(old))
        /\ Cardinality(Tracked(old)) <= MaxTracked
        /\ \A x \in Keys[l] : Lawful(l, old[x])
    BY DEF EntriesOK
  <1>3. /\ new \in [Keys[l] -> Entry]
        /\ \A x \in Keys[l] : new[x] = IF x = k THEN NoEntry ELSE old[x]
    BY <1>2 DEF NoEntry, Entry
  <1>4. Tracked(new) \in SUBSET Tracked(old)
    BY <1>2, <1>3 DEF Tracked
  <1>5. IsFiniteSet(Tracked(new)) /\ Cardinality(Tracked(new)) <= Cardinality(Tracked(old))
    BY <1>2, <1>4, FS_Subset
  <1>6. Cardinality(Tracked(new)) <= MaxTracked
    <2>1. /\ Cardinality(Tracked(new)) \in Nat /\ Cardinality(Tracked(old)) \in Nat
          /\ MaxTracked \in Nat
      BY <1>2, <1>5, FS_CardinalityType, LimiterAssumption
    <2>2. QED
      BY <1>2, <1>5, <2>1
  <1>7. Lawful(l, NoEntry)
    BY ThresholdPositive DEF Lawful, Penalty, NoEntry
  <1>8. ASSUME NEW m \in Limiters
        PROVE  /\ entries'[m] \in [Keys[m] -> Entry]
               /\ IsFiniteSet(Tracked(entries'[m]))
               /\ Cardinality(Tracked(entries'[m])) <= MaxTracked
               /\ \A x \in Keys[m] : Lawful(m, entries'[m][x])
    BY <1>1, <1>2, <1>3, <1>5, <1>6, <1>7 DEF EntriesOK
  <1>9. QED
    BY <1>1, <1>8 DEF EntriesOK

\* Both maps are empty at first and no login is running.
LEMMA InitIInv == Init => IInv
PROOF
  <1> SUFFICES ASSUME Init PROVE IInv
    OBVIOUS
  <1>1. ASSUME NEW l \in Limiters
        PROVE  /\ entries[l] \in [Keys[l] -> Entry] /\ Tracked(entries[l]) = {}
               /\ \A k \in Keys[l] : entries[l][k] = NoEntry
    BY DEF Init, Tracked, NoEntry, Entry
  <1>2. ASSUME NEW l \in Limiters PROVE Lawful(l, NoEntry)
    BY ThresholdPositive DEF Lawful, Penalty, NoEntry
  <1>3. IsFiniteSet({}) /\ Cardinality({}) = 0
    BY FS_EmptySet
  <1>4. EntriesOK
    <2>1. DOMAIN entries = Limiters
      BY DEF Init
    <2>2. ASSUME NEW l \in Limiters
          PROVE  /\ IsFiniteSet(Tracked(entries[l]))
                 /\ Cardinality(Tracked(entries[l])) <= MaxTracked
      <3>1. Tracked(entries[l]) = {}
        BY <1>1
      <3>2. IsFiniteSet(Tracked(entries[l])) /\ Cardinality(Tracked(entries[l])) = 0
        BY ONLY <1>3, <3>1
      <3>3. QED
        BY <3>2, LimiterAssumption
    <2>3. QED
      BY <1>1, <1>2, <2>1, <2>2 DEF EntriesOK
  <1>5. ControlOK
    BY LimiterAssumption DEF Init, ControlOK
  <1>6. QED
    BY <1>4, <1>5 DEF IInv

\* The address and the name of a request are keys of their limiters.
LEMMA RequestKeys ==
    ASSUME NEW r \in Requests
    PROVE  /\ r.ip \in Keys["ip"] /\ r.user \in Keys["user"]
           /\ "ip" \in Limiters /\ "user" \in Limiters
PROOF
  BY DEF Requests, Keys, Limiters

\* Every step of a login, and the clock, keeps the invariant.
LEMMA StepIInv == IInv /\ [Next]_vars => IInv'
PROOF
  <1> SUFFICES ASSUME IInv, [Next]_vars PROVE IInv'
    OBVIOUS
  <1>1. CASE Tick
    BY <1>1 DEF Tick, IInv, EntriesOK, ControlOK
  <1>2. ASSUME NEW t \in Logins, Submit(t) PROVE IInv'
    <2>1. attempts' \in 0..MaxAttempts
      BY <1>2, LimiterAssumption DEF Submit, IInv, ControlOK
    <2>2. QED
      BY <1>2, <2>1 DEF Submit, At, Goto, IInv, EntriesOK, ControlOK
  <1>3. ASSUME NEW t \in Logins, AllowIP(t) PROVE IInv'
    BY <1>3 DEF AllowIP, At, Goto, Return, IInv, EntriesOK, ControlOK
  <1>4. ASSUME NEW t \in Logins, AllowUser(t) PROVE IInv'
    BY <1>4 DEF AllowUser, At, Goto, Return, IInv, EntriesOK, ControlOK
  <1>5. ASSUME NEW t \in Logins, CheckUser(t) PROVE IInv'
    BY <1>5 DEF CheckUser, At, Goto, IInv, EntriesOK, ControlOK
  <1>6. ASSUME NEW t \in Logins, FailIP(t) PROVE IInv'
    <2>1. EntriesOK'
      BY <1>6, RequestKeys, FailKeepsEntries DEF FailIP, At, IInv, ControlOK
    <2>2. ControlOK'
      BY <1>6 DEF FailIP, At, Goto, IInv, ControlOK
    <2>3. QED
      BY <2>1, <2>2 DEF IInv
  <1>7. ASSUME NEW t \in Logins, FailUser(t) PROVE IInv'
    <2>1. EntriesOK'
      BY <1>7, RequestKeys, FailKeepsEntries DEF FailUser, At, IInv, ControlOK
    <2>2. ControlOK'
      BY <1>7 DEF FailUser, At, Goto, Return, IInv, ControlOK
    <2>3. QED
      BY <2>1, <2>2 DEF IInv
  <1>8. ASSUME NEW t \in Logins, ResetIP(t) PROVE IInv'
    <2>1. EntriesOK'
      BY <1>8, RequestKeys, ResetKeepsEntries DEF ResetIP, At, IInv, ControlOK
    <2>2. ControlOK'
      BY <1>8 DEF ResetIP, At, Goto, IInv, ControlOK
    <2>3. QED
      BY <2>1, <2>2 DEF IInv
  <1>9. ASSUME NEW t \in Logins, ResetUser(t) PROVE IInv'
    <2>1. EntriesOK'
      BY <1>9, RequestKeys, ResetKeepsEntries DEF ResetUser, At, IInv, ControlOK
    <2>2. ControlOK'
      BY <1>9 DEF ResetUser, At, Goto, Return, IInv, ControlOK
    <2>3. QED
      BY <2>1, <2>2 DEF IInv
  <1>10. CASE UNCHANGED vars
    BY <1>10 DEF vars, IInv, EntriesOK, ControlOK
  <1>11. QED
    BY <1>1, <1>2, <1>3, <1>4, <1>5, <1>6, <1>7, <1>8, <1>9, <1>10 DEF Next, Proceed

\* evictLocked spares a key seen less than Idle ago, and Fail only adds to it.
LEMMA FailRemembers ==
    ASSUME EntriesOK, NEW l \in Limiters, NEW k \in Keys[l], Fail(l, k),
           NEW m \in Limiters, NEW x \in Tracked(entries[m]),
           now - entries[m][x].lastSeen < Idle
    PROVE  entries'[m][x].failures >= entries[m][x].failures
PROOF
  <1>1. x \in Keys[m] /\ entries[m] \in [Keys[m] -> Entry]
    BY DEF Tracked, EntriesOK
  <1>2. entries[m][x] \in Entry
    BY <1>1
  <1>3. Evicted(entries[m])[x] = entries[m][x]
    BY <1>1 DEF Evicted
  <1>4. CASE m = l
    <2>1. Failed(l, k)[x] \in {entries[m][x], Counted(l, entries[m][x])}
      <3>1. /\ x \in DOMAIN Evicted(entries[m])
        BY <1>1 DEF Evicted
      <3>2. QED
        BY <1>3, <1>4, <3>1 DEF Failed
    <2>2. entries'[m][x] = Failed(l, k)[x]
      BY <1>4 DEF Fail, EntriesOK
    <2>3. Counted(l, entries[m][x]).failures = entries[m][x].failures + 1
      BY DEF Counted
    <2>4. QED
      BY <1>2, <2>1, <2>2, <2>3 DEF Entry
  <1>5. CASE m # l
    BY <1>2, <1>5 DEF Fail, EntriesOK, Entry
  <1>6. QED
    BY <1>4, <1>5

\* What is doubled does not shrink.
LEMMA Twice ==
    ASSUME NEW b \in Nat, NEW x \in Nat
    PROVE  b * x \in Nat /\ b * x <= b * (2 * x)
PROOF
  <1>1. b * x \in Nat /\ b * (2 * x) = 2 * (b * x)
    OBVIOUS
  <1>2. QED
    BY <1>1

\* One more failure never costs less.
LEMMA PenaltyGrows ==
    ASSUME NEW l \in Limiters, NEW f \in Nat
    PROVE  /\ Penalty(l, f) \in Nat
           /\ Penalty(l, f) <= Penalty(l, f + 1)
PROOF
  <1> DEFINE n == f - EffectiveThreshold(l)
             delay(i) == BaseDelay[l] * Pow2[i - 1]
  <1>1. /\ EffectiveThreshold(l) \in Nat /\ n \in Int
        /\ f + 1 - EffectiveThreshold(l) = n + 1
        /\ Word \in Nat /\ MaxDelay \in Nat
    BY ThresholdPositive, LimiterAssumption
  <1>2. ASSUME NEW i \in Nat \ {0}
        PROVE  delay(i) \in Nat /\ delay(i) <= delay(i + 1)
    <2>1. BaseDelay[l] \in Nat
      BY LimiterAssumption
    <2>2. i - 1 \in Nat /\ i \in Nat /\ i # 0 /\ i + 1 - 1 = i
      OBVIOUS
    <2>3. Pow2[i - 1] \in Nat /\ Pow2[i] = 2 * Pow2[i - 1]
      BY <2>2, Powers, PowersType
    <2>4. QED
      BY <2>1, <2>2, <2>3, Twice
  <1> HIDE DEF delay
  <1>3. /\ Penalty(l, f) = IF n <= 0 THEN 0
                           ELSE IF n > Word \/ delay(n) > MaxDelay THEN MaxDelay ELSE delay(n)
        /\ Penalty(l, f + 1) =
              IF n + 1 <= 0 THEN 0
              ELSE IF n + 1 > Word \/ delay(n + 1) > MaxDelay THEN MaxDelay ELSE delay(n + 1)
    BY <1>1 DEF Penalty, delay
  <1> HIDE DEF n
  <1>4. CASE n <= 0
    <2>1. n = 0 \/ n + 1 <= 0
      BY <1>1, <1>4
    <2>2. n = 0 => delay(n + 1) \in Nat
      BY <1>2
    <2>3. QED
      BY <1>1, <1>3, <1>4, <2>1, <2>2
  <1>5. CASE n > 0
    <2>1. n \in Nat \ {0} /\ n + 1 \in Nat \ {0}
      BY <1>1, <1>5
    <2>2. delay(n) \in Nat /\ delay(n + 1) \in Nat /\ delay(n) <= delay(n + 1)
      BY <1>2, <2>1
    <2>3. QED
      BY <1>1, <1>3, <2>1, <2>2
  <1>6. QED
    BY <1>1, <1>4, <1>5

\* evictLocked spares a locked key, and Fail locks it no shorter.
LEMMA FailLengthens ==
    ASSUME EntriesOK, SeenOK, now \in Nat,
           NEW l \in Limiters, NEW k \in Keys[l], Fail(l, k),
           NEW m \in Limiters, NEW x \in Keys[m], Locked(entries[m][x])
    PROVE  entries'[m][x].lockedUntil >= entries[m][x].lockedUntil
PROOF
  <1> DEFINE e == entries[m][x]
  <1>1. entries[m] \in [Keys[m] -> Entry] /\ e \in Entry /\ Lawful(m, e) /\ e.lastSeen <= now
    BY DEF EntriesOK, SeenOK
  <1>2. Evicted(entries[m])[x] = e /\ x \in DOMAIN Evicted(entries[m])
    BY <1>1 DEF Evicted
  <1>3. CASE m = l
    <2>1. /\ e.failures \in Nat /\ e.lastSeen \in Nat /\ e.lockedUntil \in Nat
          /\ Penalty(m, e.failures) \in Nat /\ Penalty(m, e.failures + 1) \in Nat
          /\ Penalty(m, e.failures) <= Penalty(m, e.failures + 1)
      BY <1>1, PenaltyGrows DEF Entry
    <2>2. Penalty(m, e.failures) # 0 /\ e.lockedUntil = e.lastSeen + Penalty(m, e.failures)
      BY <1>1, <2>1 DEF Lawful, Locked
    <2>3. e.failures + 1 > EffectiveThreshold(m)
      BY <2>1, <2>2, ThresholdPositive DEF Penalty
    <2>4. Counted(l, e).lockedUntil = now + Penalty(m, e.failures + 1)
      <3>1. Delay(m, e.failures + 1) = Penalty(m, e.failures + 1)
        BY <2>1, <2>3, DelayIsPenalty
      <3>2. ~(e.failures + 1 <= EffectiveThreshold(m))
        BY <2>1, <2>3, ThresholdPositive
      <3>3. QED
        BY <1>3, <3>1, <3>2 DEF Counted
    <2>5. entries'[m][x] \in {e, Counted(l, e)}
      BY <1>2, <1>3 DEF Fail, Failed, EntriesOK
    <2>6. Counted(l, e).lockedUntil >= e.lockedUntil
      <3>1. now \in Nat /\ e.lastSeen <= now
        BY <1>1
      <3> HIDE DEF e
      <3>2. QED
        BY <2>1, <2>2, <2>4, <3>1
    <2>7. QED
      BY <2>1, <2>5, <2>6
  <1>4. CASE m # l
    BY <1>1, <1>4 DEF Fail, EntriesOK, Entry
  <1>5. QED
    BY <1>3, <1>4

-----------------------------------------------------------------------------
(* Theorems *)

\* The invariant holds in every reachable state.
THEOREM Inductive == Spec => []IInv
PROOF
  <1>1. QED
    BY InitIInv, StepIInv, PTL DEF Spec

\* Entries, clock and logins always have their types: no lockout is negative.
THEOREM TypeCorrect == Spec => []TypeOK
PROOF
  <1>1. IInv => TypeOK
    BY DEF IInv, EntriesOK, ControlOK, TypeOK
  <1>2. QED
    BY <1>1, Inductive, PTL

\* Neither limiter ever tracks more keys than its capacity, however the logins
\* interleave and whatever keys they rotate through.
THEOREM NeverOverfull == Spec => []MapBounded
PROOF
  <1>1. IInv => MapBounded
    BY DEF IInv, EntriesOK, MapBounded
  <1>2. QED
    BY <1>1, Inductive, PTL

\* Every lockout is the exponential one of the doc comment of New, for every
\* number of failures and every word width that meets ShiftAssumption.
THEOREM LockoutLaw == Spec => []LockoutIsExponential
PROOF
  <1>1. IInv => LockoutIsExponential
    BY DEF IInv, EntriesOK, Lawful, LockoutIsExponential, Tracked
  <1>2. QED
    BY <1>1, Inductive, PTL

\* No step of any login, no eviction and no passing of time makes a limiter
\* forget failures it counted less than Idle ago, except a successful login.
THEOREM FailuresKept == Spec => FailuresRemembered
PROOF
  <1> DEFINE Kept == \A l \in Limiters : \A k \in Tracked(entries[l]) :
                        now - entries[l][k].lastSeen < Idle /\ ~ResetStep(l, k)
                           => entries'[l][k].failures >= entries[l][k].failures
  <1>1. IInv /\ Next => Kept
    <2> SUFFICES ASSUME IInv, Next, NEW l \in Limiters, NEW k \in Tracked(entries[l]),
                        now - entries[l][k].lastSeen < Idle, ~ResetStep(l, k)
                 PROVE  entries'[l][k].failures >= entries[l][k].failures
      OBVIOUS
    <2>1. k \in Keys[l] /\ entries[l][k] \in Entry
      BY DEF IInv, EntriesOK, Tracked
    <2>2. CASE UNCHANGED entries
      BY <2>1, <2>2 DEF Entry
    <2>3. ASSUME NEW t \in Logins, FailIP(t)
          PROVE  entries'[l][k].failures >= entries[l][k].failures
      BY <2>3, RequestKeys, FailRemembers DEF FailIP, At, IInv, ControlOK
    <2>4. ASSUME NEW t \in Logins, FailUser(t)
          PROVE  entries'[l][k].failures >= entries[l][k].failures
      BY <2>4, RequestKeys, FailRemembers DEF FailUser, At, IInv, ControlOK
    <2>5. ASSUME NEW t \in Logins, ResetIP(t)
          PROVE  entries'[l][k].failures >= entries[l][k].failures
      <3>1. pc'[t] # pc[t]
        BY <2>5 DEF ResetIP, At, Goto, IInv, ControlOK
      <3>2. ~(l = "ip" /\ req[t].ip = k)
        BY <2>5, <3>1 DEF ResetStep, ResetIP
      <3>3. entries'[l][k] = entries[l][k]
        BY <2>1, <2>5, <3>2 DEF ResetIP, Reset, IInv, EntriesOK
      <3>4. QED
        BY <2>1, <3>3 DEF Entry
    <2>6. ASSUME NEW t \in Logins, ResetUser(t)
          PROVE  entries'[l][k].failures >= entries[l][k].failures
      <3>1. pc'[t] # pc[t]
        BY <2>6 DEF ResetUser, At, Goto, Return, IInv, ControlOK
      <3>2. ~(l = "user" /\ req[t].user = k)
        BY <2>6, <3>1 DEF ResetStep, ResetUser
      <3>3. entries'[l][k] = entries[l][k]
        BY <2>1, <2>6, <3>2 DEF ResetUser, Reset, IInv, EntriesOK
      <3>4. QED
        BY <2>1, <3>3 DEF Entry
    <2>7. QED
      BY <2>2, <2>3, <2>4, <2>5, <2>6
         DEF Next, Proceed, Tick, Submit, AllowIP, AllowUser, CheckUser
  <1>2. IInv /\ [Next]_vars => [Kept]_vars
    BY <1>1
  <1>3. QED
    BY <1>2, Inductive, PTL DEF Spec, FailuresRemembered

\* Entries are stamped with the clock, which never goes back.
LEMMA SeenInPast == Spec => []SeenOK
PROOF
  <1>1. Init => SeenOK
    BY DEF Init, SeenOK, NoEntry
  <1>2. IInv /\ SeenOK /\ [Next]_vars => SeenOK'
    <2> SUFFICES ASSUME IInv, SeenOK, [Next]_vars,
                        NEW l \in Limiters, NEW k \in Keys[l]
                 PROVE  entries'[l][k].lastSeen <= now'
      BY DEF SeenOK
    <2>0. /\ entries[l][k].lastSeen <= now /\ entries[l][k].lastSeen \in Nat /\ now \in Nat
          /\ NoEntry.lastSeen = 0
      BY DEF IInv, EntriesOK, ControlOK, SeenOK, Entry, NoEntry
    <2>1. CASE UNCHANGED entries /\ now' \in {now, now + 1}
      BY <2>0, <2>1
    <2>2. ASSUME NEW m \in Limiters, NEW x \in Keys[m], Fail(m, x), now' = now
          PROVE  entries'[l][k].lastSeen <= now'
      <3>1. CASE l # m
        BY <2>0, <2>2, <3>1 DEF Fail, IInv, EntriesOK
      <3>2. CASE l = m
        <4>1. entries'[l][k] \in {Evicted(entries[l])[k], Counted(l, Evicted(entries[l])[k])}
          BY <2>2, <3>2, EvictedShrinks DEF Fail, Failed, IInv, EntriesOK
        <4>2. Evicted(entries[l])[k] \in {entries[l][k], NoEntry}
          BY EvictedShrinks DEF IInv, EntriesOK
        <4>3. Counted(l, Evicted(entries[l])[k]).lastSeen = now
          BY DEF Counted
        <4>4. QED
          BY <2>0, <2>2, <4>1, <4>2, <4>3
      <3>3. QED
        BY <3>1, <3>2
    <2>3. ASSUME NEW m \in Limiters, NEW x \in Keys[m], Reset(m, x), now' = now
          PROVE  entries'[l][k].lastSeen <= now'
      <3>1. entries'[l][k] \in {entries[l][k], NoEntry}
        BY <2>3 DEF Reset, IInv, EntriesOK
      <3>2. QED
        BY <2>0, <2>3, <3>1
    <2>4. ASSUME NEW t \in Logins, FailIP(t) \/ FailUser(t) \/ ResetIP(t) \/ ResetUser(t)
          PROVE  entries'[l][k].lastSeen <= now'
      <3>1. req[t] \in Requests /\ now' = now
        BY <2>4 DEF FailIP, FailUser, ResetIP, ResetUser, At, IInv, ControlOK
      <3>2. QED
        BY <2>2, <2>3, <2>4, <3>1, RequestKeys DEF FailIP, FailUser, ResetIP, ResetUser
    <2>5. QED
      BY <2>1, <2>4 DEF Next, Proceed, Tick, Submit, AllowIP, AllowUser, CheckUser, vars
  <1>3. QED
    BY <1>1, <1>2, Inductive, PTL DEF Spec

\* Only a successful login with its key ends a lockout early: no eviction, no
\* failure of any login and no rotation of other keys does, whatever the word
\* width, the delays and the number of failures.
THEOREM LockoutsKept == Spec => LockoutNotShortened
PROOF
  <1> DEFINE Kept == \A l \in Limiters : \A k \in Keys[l] :
                        Locked(entries[l][k]) /\ ~ResetStep(l, k)
                           => entries'[l][k].lockedUntil >= entries[l][k].lockedUntil
  <1>1. IInv /\ SeenOK /\ Next => Kept
    <2> SUFFICES ASSUME IInv, SeenOK, Next, NEW l \in Limiters, NEW k \in Keys[l],
                        Locked(entries[l][k]), ~ResetStep(l, k)
                 PROVE  entries'[l][k].lockedUntil >= entries[l][k].lockedUntil
      OBVIOUS
    <2>1. entries[l][k] \in Entry
      BY DEF IInv, EntriesOK
    <2>2. CASE UNCHANGED entries
      BY <2>1, <2>2 DEF Entry
    <2>3. ASSUME NEW t \in Logins, FailIP(t) \/ FailUser(t)
          PROVE  entries'[l][k].lockedUntil >= entries[l][k].lockedUntil
      <3>1. req[t] \in Requests
        BY <2>3 DEF FailIP, FailUser, At, IInv, ControlOK
      <3>2. QED
        BY <2>3, <3>1, RequestKeys, FailLengthens DEF FailIP, FailUser, IInv, ControlOK
    <2>4. ASSUME NEW t \in Logins, ResetIP(t)
          PROVE  entries'[l][k].lockedUntil >= entries[l][k].lockedUntil
      <3>1. pc'[t] # pc[t]
        BY <2>4 DEF ResetIP, At, Goto, IInv, ControlOK
      <3>2. ~(l = "ip" /\ req[t].ip = k)
        BY <2>4, <3>1 DEF ResetStep, ResetIP
      <3>3. entries'[l][k] = entries[l][k]
        BY <2>4, <3>2 DEF ResetIP, Reset, IInv, EntriesOK
      <3>4. QED
        BY <2>1, <3>3 DEF Entry
    <2>5. ASSUME NEW t \in Logins, ResetUser(t)
          PROVE  entries'[l][k].lockedUntil >= entries[l][k].lockedUntil
      <3>1. pc'[t] # pc[t]
        BY <2>5 DEF ResetUser, At, Goto, Return, IInv, ControlOK
      <3>2. ~(l = "user" /\ req[t].user = k)
        BY <2>5, <3>1 DEF ResetStep, ResetUser
      <3>3. entries'[l][k] = entries[l][k]
        BY <2>5, <3>2 DEF ResetUser, Reset, IInv, EntriesOK
      <3>4. QED
        BY <2>1, <3>3 DEF Entry
    <2>6. QED
      BY <2>2, <2>3, <2>4, <2>5
         DEF Next, Proceed, Tick, Submit, AllowIP, AllowUser, CheckUser
  <1>2. IInv /\ SeenOK /\ [Next]_vars => [Kept]_vars
    BY <1>1
  <1>3. QED
    BY <1>2, Inductive, SeenInPast, PTL DEF Spec, LockoutNotShortened
=============================================================================
