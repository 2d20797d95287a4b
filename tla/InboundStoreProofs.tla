-------------------------- MODULE InboundStoreProofs --------------------------
(***************************************************************************)
(* Proofs about the table for any numbers of keys, ports, pages, requests  *)
(* and jobs: ports stay distinct, a table that Xray does not serve is      *)
(* going to be applied, and traffic is conserved.  The last one is about   *)
(* sums over the rows, the ports and the jobs, which the first section is  *)
(* about: a sum is what the library's fold computes, and the fold's choice *)
(* of an order does not matter.                                            *)
(***************************************************************************)
EXTENDS InboundStore, FiniteSetTheorems, TLAPS

-----------------------------------------------------------------------------
(* Sums of functions over finite sets *)

\* Induction: what holds of a set when it holds of all that the set becomes by
\* losing an element, holds of every subset of a finite set.
LEMMA SetInduction ==
    ASSUME NEW S, IsFiniteSet(S), NEW P,
           \A T \in SUBSET S : (\A x \in T : T \ {x} \in P) => T \in P
    PROVE  SUBSET S \subseteq P
PROOF
  <1> DEFINE Bad == (SUBSET S) \ P
  <1> SUFFICES ASSUME Bad # {} PROVE FALSE
    OBVIOUS
  <1>1. IsWellFoundedOn(StrictSubsetOrdering(S), SUBSET S)
    <2>1. IsWellFoundedOn(StrictSubsetOrdering(S), FiniteSubsetsOf(S))
      BY FS_StrictSubsetOrderingWellFounded
    <2>2. FiniteSubsetsOf(S) = SUBSET S
      BY FS_FiniteSubsetsOfFinite
    <2>3. QED
      BY <2>1, <2>2
  <1>2. PICK T \in Bad : \A U \in Bad : ~(<<U, T>> \in StrictSubsetOrdering(S))
    <2>1. Bad \subseteq SUBSET S
      OBVIOUS
    <2> HIDE DEF Bad
    <2>2. QED
      BY <1>1, <2>1, WFMin
  <1>3. ASSUME NEW x \in T PROVE T \ {x} \in P
    <2>1. T \ {x} \in SUBSET S /\ <<T \ {x}, T>> \in StrictSubsetOrdering(S)
      BY DEF StrictSubsetOrdering
    <2>2. QED
      BY <1>2, <2>1
  <1>4. T \in SUBSET S /\ T \notin P
    OBVIOUS
  <1>5. T \in P
    BY <1>3, <1>4
  <1>6. QED
    BY <1>4, <1>5

\* The library adds up what a recursive function on the subsets adds up.
Pick(s) == CHOOSE x \in s : TRUE

Adds(g, f, S) ==
    g = [s \in SUBSET S |-> IF s = {} THEN 0 ELSE f[Pick(s)] + g[s \ {Pick(s)}]]

\* The element that the sum takes next.
LEMMA Picked == ASSUME NEW s, s # {} PROVE Pick(s) \in s
PROOF
  BY DEF Pick

\* What a sum that Adds is at a set.
LEMMA AddsAt ==
    ASSUME NEW g, NEW f, NEW S, Adds(g, f, S), NEW s \in SUBSET S
    PROVE  g[s] = IF s = {} THEN 0 ELSE f[Pick(s)] + g[s \ {Pick(s)}]
PROOF
  <1> DEFINE h == [t \in SUBSET S |-> IF t = {} THEN 0 ELSE f[Pick(t)] + g[t \ {Pick(t)}]]
  <1>1. g = h
    BY DEF Adds
  <1>2. h[s] = IF s = {} THEN 0 ELSE f[Pick(s)] + g[s \ {Pick(s)}]
    OBVIOUS
  <1> HIDE DEF h
  <1>3. QED
    BY <1>1, <1>2

\* Two sums of the same parts agree where both are defined.
LEMMA AddsUnique ==
    ASSUME NEW f, NEW A, NEW B, IsFiniteSet(A), NEW g, NEW h,
           Adds(g, f, A), Adds(h, f, B)
    PROVE  \A s \in SUBSET A : s \subseteq B => g[s] = h[s]
PROOF
  <1> DEFINE P == {s \in SUBSET A : s \subseteq B => g[s] = h[s]}
  <1>1. ASSUME NEW s \in SUBSET A, \A x \in s : s \ {x} \in P, s \subseteq B PROVE g[s] = h[s]
    <2>1. CASE s = {}
      BY <1>1, <2>1, AddsAt
    <2>2. CASE s # {}
      <3>1. Pick(s) \in s
        BY <2>2, Picked
      <3>2. g[s \ {Pick(s)}] = h[s \ {Pick(s)}]
        BY <1>1, <3>1
      <3>3. g[s] = f[Pick(s)] + g[s \ {Pick(s)}]
        BY <1>1, <2>2, AddsAt
      <3>4. h[s] = f[Pick(s)] + h[s \ {Pick(s)}]
        BY <1>1, <2>2, AddsAt
      <3>5. QED
        BY <3>2, <3>3, <3>4
    <2>3. QED
      BY <2>1, <2>2
  <1>2. \A s \in SUBSET A : (\A x \in s : s \ {x} \in P) => s \in P
    BY <1>1
  <1> HIDE DEF P
  <1>3. SUBSET A \subseteq P
    BY <1>2, SetInduction
  <1>4. QED
    BY <1>3 DEF P

\* The parts of a finite set can be added.
LEMMA AddsExists ==
    ASSUME NEW f, NEW S, IsFiniteSet(S)
    PROVE  \E g : Adds(g, f, S)
PROOF
  <1> DEFINE P == {T \in SUBSET S : \E g : Adds(g, f, T)}
  <1>1. ASSUME NEW T \in SUBSET S, \A x \in T : T \ {x} \in P PROVE \E g : Adds(g, f, T)
    <2>1. CASE T = {}
      <3> DEFINE g == [s \in SUBSET {} |-> 0]
      <3>1. \A s \in SUBSET {} : s = {}
        OBVIOUS
      <3>2. Adds(g, f, {})
        BY <3>1 DEF Adds
      <3>3. QED
        BY <2>1, <3>2
    <2>2. CASE T # {}
      <3> DEFINE part(x) == CHOOSE g : Adds(g, f, T \ {x})
                 miss(s) == Pick(T \ s)
                 val(s) == part(miss(s))[s]
                 g == [s \in SUBSET T |->
                          IF s = {} THEN 0
                          ELSE IF s = T THEN f[Pick(T)] + val(T \ {Pick(T)}) ELSE val(s)]
      <3>1. ASSUME NEW x \in T PROVE Adds(part(x), f, T \ {x}) /\ IsFiniteSet(T \ {x})
        <4>1. T \ {x} \in P /\ T \ {x} \in SUBSET S
          BY <1>1
        <4>2. IsFiniteSet(T \ {x})
          BY <4>1, FS_Subset
        <4>3. QED
          BY <4>1, <4>2
      <3> HIDE DEF part
      <3>2. ASSUME NEW s \in SUBSET T, s # T
            PROVE  miss(s) \in T /\ s \in SUBSET (T \ {miss(s)})
        BY <3>2, Picked
      <3> HIDE DEF miss
      <3>3. ASSUME NEW s \in SUBSET T, s # T, s # {}
            PROVE  val(s) = f[Pick(s)] + val(s \ {Pick(s)})
        <4> DEFINE t == s \ {Pick(s)}
        <4>1. t \in SUBSET T /\ t # T /\ t \subseteq T \ {miss(s)}
          BY <3>2, <3>3
        <4>2. /\ Adds(part(miss(s)), f, T \ {miss(s)}) /\ IsFiniteSet(T \ {miss(s)})
              /\ s \in SUBSET (T \ {miss(s)})
          BY <3>1, <3>2, <3>3
        <4>3. /\ Adds(part(miss(t)), f, T \ {miss(t)})
              /\ t \subseteq T \ {miss(t)}
          BY <3>1, <3>2, <4>1
        <4>4. part(miss(s))[s] = f[Pick(s)] + part(miss(s))[t]
          BY ONLY <3>3, <4>2, AddsAt
        <4>5. part(miss(s))[t] = part(miss(t))[t]
          <5>1. \A A, B, a, b :
                   IsFiniteSet(A) /\ Adds(a, f, A) /\ Adds(b, f, B)
                      => \A u \in SUBSET A : u \subseteq B => a[u] = b[u]
            BY AddsUnique
          <5> HIDE DEF t
          <5>2. \A u \in SUBSET (T \ {miss(s)}) :
                   u \subseteq T \ {miss(t)} => part(miss(s))[u] = part(miss(t))[u]
            BY <4>2, <4>3, <5>1
          <5>3. QED
            BY <4>1, <4>3, <5>2
        <4>6. QED
          BY <4>4, <4>5
      <3>4. Pick(T) \in T
        BY <2>2, Picked
      <3>5. val({}) = 0
        <4>1. {} \in SUBSET T /\ {} # T
          BY <2>2
        <4>2. Adds(part(miss({})), f, T \ {miss({})}) /\ {} \in SUBSET (T \ {miss({})})
          BY <3>1, <3>2, <4>1
        <4>3. QED
          BY <4>2, AddsAt
      <3> HIDE DEF val
      <3>6. ASSUME NEW s \in SUBSET T
            PROVE  g[s] = IF s = {} THEN 0 ELSE f[Pick(s)] + g[s \ {Pick(s)}]
        <4>1. CASE s = {}
          BY <4>1
        <4>2. CASE s # {}
          <5> DEFINE t == s \ {Pick(s)}
          <5>1. Pick(s) \in s
            BY <4>2, Picked
          <5>2. t \in SUBSET T /\ t # T
            BY <5>1
          <5>3. g[t] = val(t)
            BY <3>5, <5>2
          <5>4. g[s] = f[Pick(s)] + val(t)
            BY <3>3, <4>2
          <5>5. QED
            BY <4>2, <5>3, <5>4
        <4>3. QED
          BY <4>1, <4>2
      <3>7. g = [s \in SUBSET T |-> IF s = {} THEN 0 ELSE f[Pick(s)] + g[s \ {Pick(s)}]]
        <4>1. g = [s \in SUBSET T |-> g[s]]
          OBVIOUS
        <4> HIDE DEF g
        <4>2. QED
          BY <3>6, <4>1
      <3> HIDE DEF g
      <3>8. QED
        BY <3>7 DEF Adds
    <2>3. QED
      BY <2>1, <2>2
  <1>2. \A T \in SUBSET S : (\A x \in T : T \ {x} \in P) => T \in P
    BY <1>1
  <1> HIDE DEF P
  <1>3. SUBSET S \subseteq P
    BY <1>2, SetInduction
  <1>4. QED
    BY <1>3 DEF P


Sum(f, S) == SumFunctionOnSet(f, S)

\* The library's sum is such a table's entry.
LEMMA SumIsAdds ==
    ASSUME NEW f, NEW S, IsFiniteSet(S), NEW g, Adds(g, f, S), NEW T \in SUBSET S
    PROVE  SumFunctionOnSet(f, T) = g[T]
PROOF
  <1> DEFINE It == CHOOSE iter : Adds(iter, f, T)
  <1>1. SumFunctionOnSet(f, T) = It[T]
    BY DEF SumFunctionOnSet, FoldFunctionOnSet, MapThenFoldSet, Adds, Pick
  <1>2. IsFiniteSet(T)
    BY FS_Subset
  <1>3. Adds(It, f, T)
    BY <1>2, AddsExists
  <1> HIDE DEF It
  <1>4. QED
    BY <1>1, <1>2, <1>3, AddsUnique

\* The sum over a set, from the sum without one element.
LEMMA SumStep ==
    ASSUME NEW f, NEW S, IsFiniteSet(S)
    PROVE  /\ SumFunctionOnSet(f, {}) = 0
           /\ S # {} => SumFunctionOnSet(f, S) =
                           f[Pick(S)] + SumFunctionOnSet(f, S \ {Pick(S)})
PROOF
  <1>1. PICK g : Adds(g, f, S)
    BY AddsExists
  <1>2. \A T \in SUBSET S : SumFunctionOnSet(f, T) = g[T]
    BY <1>1, SumIsAdds
  <1>3. /\ g[{}] = 0
        /\ S # {} => g[S] = f[Pick(S)] + g[S \ {Pick(S)}]
    BY <1>1, AddsAt
  <1>4. QED
    BY <1>2, <1>3

\* Sums of natural numbers are natural numbers ...
LEMMA SumNat ==
    ASSUME NEW f, NEW S, IsFiniteSet(S), \A x \in S : f[x] \in Nat
    PROVE  SumFunctionOnSet(f, S) \in Nat
PROOF
  <1> DEFINE P == {T \in SUBSET S : SumFunctionOnSet(f, T) \in Nat}
  <1>1. ASSUME NEW T \in SUBSET S, \A x \in T : T \ {x} \in P
        PROVE  SumFunctionOnSet(f, T) \in Nat
    <2>1. IsFiniteSet(T)
      BY FS_Subset
    <2>2. CASE T = {}
      <3>1. SumFunctionOnSet(f, T) = 0
        BY <2>1, <2>2, SumStep
      <3>2. QED
        BY <3>1
    <2>3. CASE T # {}
      <3>1. Pick(T) \in T /\ f[Pick(T)] \in Nat
        BY <2>3, Picked
      <3>2. SumFunctionOnSet(f, T \ {Pick(T)}) \in Nat
        BY <1>1, <3>1
      <3>3. SumFunctionOnSet(f, T) = f[Pick(T)] + SumFunctionOnSet(f, T \ {Pick(T)})
        BY <2>1, <2>3, SumStep
      <3>4. QED
        BY <3>1, <3>2, <3>3
    <2>4. QED
      BY <2>2, <2>3
  <1>2. \A T \in SUBSET S : (\A x \in T : T \ {x} \in P) => T \in P
    BY <1>1
  <1> HIDE DEF P
  <1>3. SUBSET S \subseteq P
    BY <1>2, SetInduction
  <1>4. QED
    BY <1>3 DEF P

\* ... and any element may be taken out first.
LEMMA SumRemove ==
    ASSUME NEW f, NEW S, IsFiniteSet(S), \A x \in S : f[x] \in Nat
    PROVE  \A x \in S : SumFunctionOnSet(f, S) = f[x] + SumFunctionOnSet(f, S \ {x})
PROOF
  <1> DEFINE P == {T \in SUBSET S :
                     \A x \in T : SumFunctionOnSet(f, T) =
                                     f[x] + SumFunctionOnSet(f, T \ {x})}
  <1>0. \A T \in SUBSET S : SumFunctionOnSet(f, T) \in Nat
    BY FS_Subset, SumNat
  <1>1. ASSUME NEW T \in SUBSET S, \A x \in T : T \ {x} \in P, NEW x \in T
        PROVE  SumFunctionOnSet(f, T) = f[x] + SumFunctionOnSet(f, T \ {x})
    <2> DEFINE c == Pick(T)
    <2>1. c \in T
      BY Picked
    <2>2. SumFunctionOnSet(f, T) = f[c] + SumFunctionOnSet(f, T \ {c})
      BY FS_Subset, SumStep
    <2> HIDE DEF c
    <2>3. CASE x = c
      BY <2>2, <2>3
    <2>4. CASE x # c
      <3> DEFINE rest == (T \ {c}) \ {x}
      <3>1. SumFunctionOnSet(f, T \ {c}) = f[x] + SumFunctionOnSet(f, rest)
        BY <1>1, <2>1, <2>4
      <3>2. SumFunctionOnSet(f, T \ {x}) = f[c] + SumFunctionOnSet(f, rest)
        <4>1. (T \ {x}) \ {c} = rest
          OBVIOUS
        <4>2. QED
          BY <1>1, <2>1, <2>4, <4>1
      <3>3. SumFunctionOnSet(f, rest) \in Nat /\ f[x] \in Nat /\ f[c] \in Nat
        BY <1>0, <2>1
      <3> HIDE DEF rest
      <3>4. QED
        BY <2>2, <3>1, <3>2, <3>3
    <2>5. QED
      BY <2>3, <2>4
  <1>2. \A T \in SUBSET S : (\A x \in T : T \ {x} \in P) => T \in P
    BY <1>1
  <1> HIDE DEF P
  <1>3. SUBSET S \subseteq P
    BY <1>2, SetInduction
  <1>4. S \in P
    BY <1>3
  <1>5. QED
    BY <1>4 DEF P

\* A sum that draws each of its parts from another, and none twice, is not greater.
LEMMA SumDominated ==
    ASSUME NEW A, IsFiniteSet(A), NEW B, IsFiniteSet(B), NEW f, NEW u,
           \A a \in A : f[a] \in Nat, \A b \in B : u[b] \in Nat,
           NEW T \in SUBSET A, NEW to,
           \A a \in A \ T : f[a] = 0,
           \A a \in T : to[a] \in B /\ f[a] <= u[to[a]],
           \A a, c \in T : a # c => to[a] # to[c]
    PROVE  SumFunctionOnSet(f, A) <= SumFunctionOnSet(u, B)
PROOF
  <1> DEFINE Fits(X, Y) == \A a \in X \cap T : to[a] \in Y
             P == {X \in SUBSET A : \A Y \in SUBSET B :
                     Fits(X, Y) => SumFunctionOnSet(f, X) <= SumFunctionOnSet(u, Y)}
  <1>1. /\ \A X \in SUBSET A : IsFiniteSet(X) /\ SumFunctionOnSet(f, X) \in Nat
        /\ \A Y \in SUBSET B : IsFiniteSet(Y) /\ SumFunctionOnSet(u, Y) \in Nat
    BY FS_Subset, SumNat
  <1>2. ASSUME NEW X \in SUBSET A, \A x \in X : X \ {x} \in P,
               NEW Y \in SUBSET B, Fits(X, Y)
        PROVE  SumFunctionOnSet(f, X) <= SumFunctionOnSet(u, Y)
    <2>0. IsFiniteSet(X) /\ IsFiniteSet(Y) /\ SumFunctionOnSet(u, Y) \in Nat
      BY <1>1
    <2>1. CASE X = {}
      <3>1. SumFunctionOnSet(f, X) = 0
        BY <2>0, <2>1, SumStep
      <3>2. QED
        BY <2>0, <3>1
    <2>2. CASE X # {}
      <3>1. PICK x \in X : TRUE
        BY <2>2
      <3>2. /\ SumFunctionOnSet(f, X) = f[x] + SumFunctionOnSet(f, X \ {x})
            /\ SumFunctionOnSet(f, X \ {x}) \in Nat /\ f[x] \in Nat /\ X \ {x} \in P
        BY <1>1, <1>2, <2>0, SumRemove
      <3>3. CASE x \notin T
        <4>1. f[x] = 0
          BY <3>3
        <4>2. SumFunctionOnSet(f, X \ {x}) <= SumFunctionOnSet(u, Y)
          <5>1. Fits(X \ {x}, Y)
            BY <1>2
          <5>2. QED
            BY <3>2, <5>1
        <4>3. QED
          BY <3>2, <4>1, <4>2
      <3>4. CASE x \in T
        <4>1. to[x] \in Y /\ f[x] <= u[to[x]] /\ u[to[x]] \in Nat
          BY <1>2, <3>4
        <4>2. /\ SumFunctionOnSet(u, Y) = u[to[x]] + SumFunctionOnSet(u, Y \ {to[x]})
              /\ SumFunctionOnSet(u, Y \ {to[x]}) \in Nat
          BY <1>1, <2>0, <4>1, SumRemove
        <4>3. SumFunctionOnSet(f, X \ {x}) <= SumFunctionOnSet(u, Y \ {to[x]})
          <5>1. Fits(X \ {x}, Y \ {to[x]})
            BY <1>2, <3>4
          <5>2. Y \ {to[x]} \in SUBSET B
            OBVIOUS
          <5>3. QED
            BY <3>2, <5>1, <5>2
        <4>4. QED
          BY <3>2, <4>1, <4>2, <4>3
      <3>5. QED
        BY <3>3, <3>4
    <2>3. QED
      BY <2>1, <2>2
  <1>3. \A X \in SUBSET A : (\A x \in X : X \ {x} \in P) => X \in P
    BY <1>2
  <1>4. Fits(A, B)
    OBVIOUS
  <1> HIDE DEF P
  <1>5. SUBSET A \subseteq P
    BY <1>3, SetInduction
  <1>6. A \in P
    BY <1>5
  <1>7. QED
    BY <1>4, <1>6 DEF P

\* Equal parts, equal sums.
LEMMA SumSame ==
    ASSUME NEW S, IsFiniteSet(S), NEW f, NEW g,
           \A x \in S : f[x] \in Nat /\ g[x] = f[x]
    PROVE  SumFunctionOnSet(g, S) = SumFunctionOnSet(f, S)
PROOF
  <1> DEFINE id == [x \in S |-> x]
  <1>1. SumFunctionOnSet(f, S) \in Nat /\ SumFunctionOnSet(g, S) \in Nat
    BY SumNat
  <1>2. SumFunctionOnSet(f, S) <= SumFunctionOnSet(g, S)
    <2>1. /\ S \in SUBSET S /\ \A a \in S \ S : f[a] = 0
          /\ \A a \in S : id[a] \in S /\ f[a] <= g[id[a]]
          /\ \A a, c \in S : a # c => id[a] # id[c]
      OBVIOUS
    <2> HIDE DEF id
    <2>2. QED
      BY <2>1, SumDominated
  <1>3. SumFunctionOnSet(g, S) <= SumFunctionOnSet(f, S)
    <2>1. /\ S \in SUBSET S /\ \A a \in S \ S : g[a] = 0
          /\ \A a \in S : id[a] \in S /\ g[a] <= f[id[a]]
          /\ \A a, c \in S : a # c => id[a] # id[c]
      OBVIOUS
    <2> HIDE DEF id
    <2>2. QED
      BY <2>1, SumDominated
  <1>4. QED
    BY <1>1, <1>2, <1>3

\* A sum of nothing is nothing.
LEMMA SumZero ==
    ASSUME NEW S, IsFiniteSet(S), NEW f, \A x \in S : f[x] = 0
    PROVE  SumFunctionOnSet(f, S) = 0
PROOF
  <1> DEFINE id == [x \in S |-> x]
  <1>1. IsFiniteSet({}) /\ SumFunctionOnSet(f, {}) = 0
    BY FS_EmptySet, SumStep
  <1>2. SumFunctionOnSet(f, S) <= SumFunctionOnSet(f, {})
    <2>1. /\ \A x \in S : f[x] \in Nat
          /\ \A x \in {} : f[x] \in Nat
          /\ {} \in SUBSET S /\ \A x \in S \ {} : f[x] = 0
          /\ \A x \in {} : id[x] \in {} /\ f[x] <= f[id[x]]
          /\ \A x, y \in {} : x # y => id[x] # id[y]
      OBVIOUS
    <2> HIDE DEF id
    <2>2. QED
      BY <1>1, <2>1, SumDominated
  <1>3. SumFunctionOnSet(f, S) \in Nat
    BY SumNat
  <1>4. QED
    BY <1>1, <1>2, <1>3

\* A change of one part changes the sum by as much.
LEMMA SumChange ==
    ASSUME NEW S, IsFiniteSet(S), NEW f, NEW g, NEW x \in S,
           \A y \in S : f[y] \in Nat /\ g[y] \in Nat,
           \A y \in S \ {x} : g[y] = f[y]
    PROVE  SumFunctionOnSet(g, S) + f[x] = SumFunctionOnSet(f, S) + g[x]
PROOF
  <1>1. /\ SumFunctionOnSet(f, S) = f[x] + SumFunctionOnSet(f, S \ {x})
        /\ SumFunctionOnSet(g, S) = g[x] + SumFunctionOnSet(g, S \ {x})
    BY SumRemove
  <1>2. SumFunctionOnSet(g, S \ {x}) = SumFunctionOnSet(f, S \ {x})
        /\ SumFunctionOnSet(f, S \ {x}) \in Nat
    <2>1. IsFiniteSet(S \ {x})
      BY FS_RemoveElement
    <2>2. QED
      BY <2>1, SumSame, SumNat
  <1>3. QED
    BY <1>1, <1>2

\* The sum of sums.
LEMMA SumPlus ==
    ASSUME NEW S, IsFiniteSet(S), NEW f, NEW g, NEW h,
           \A x \in S : f[x] \in Nat /\ g[x] \in Nat /\ h[x] = f[x] + g[x]
    PROVE  SumFunctionOnSet(h, S) = SumFunctionOnSet(f, S) + SumFunctionOnSet(g, S)
PROOF
  <1> DEFINE P == {T \in SUBSET S :
        SumFunctionOnSet(h, T) = SumFunctionOnSet(f, T) + SumFunctionOnSet(g, T)}
  <1>1. ASSUME NEW T \in SUBSET S, \A x \in T : T \ {x} \in P
        PROVE  SumFunctionOnSet(h, T) = SumFunctionOnSet(f, T) + SumFunctionOnSet(g, T)
    <2>1. IsFiniteSet(T)
      BY FS_Subset
    <2>2. CASE T = {}
      <3>1. /\ SumFunctionOnSet(f, T) = 0 /\ SumFunctionOnSet(g, T) = 0
            /\ SumFunctionOnSet(h, T) = 0
        BY <2>1, <2>2, SumStep
      <3>2. QED
        BY <3>1
    <2>3. CASE T # {}
      <3>1. PICK x \in T : TRUE
        BY <2>3
      <3>2. /\ \A y \in T : f[y] \in Nat /\ g[y] \in Nat /\ h[y] \in Nat
            /\ h[x] = f[x] + g[x] /\ f[x] \in Nat /\ g[x] \in Nat
        OBVIOUS
      <3>3. /\ SumFunctionOnSet(f, T) = f[x] + SumFunctionOnSet(f, T \ {x})
            /\ SumFunctionOnSet(g, T) = g[x] + SumFunctionOnSet(g, T \ {x})
            /\ SumFunctionOnSet(h, T) = h[x] + SumFunctionOnSet(h, T \ {x})
        BY <2>1, <3>2, SumRemove
      <3>4. SumFunctionOnSet(h, T \ {x}) =
               SumFunctionOnSet(f, T \ {x}) + SumFunctionOnSet(g, T \ {x})
        BY <1>1
      <3>5. SumFunctionOnSet(f, T \ {x}) \in Nat /\ SumFunctionOnSet(g, T \ {x}) \in Nat
        <4>1. IsFiniteSet(T \ {x})
          BY <2>1, FS_RemoveElement
        <4>2. QED
          BY <3>2, <4>1, SumNat
      <3>6. QED
        BY <3>2, <3>3, <3>4, <3>5
    <2>4. QED
      BY <2>2, <2>3
  <1>2. \A T \in SUBSET S : (\A x \in T : T \ {x} \in P) => T \in P
    BY <1>1
  <1> HIDE DEF P
  <1>3. SUBSET S \subseteq P
    BY <1>2, SetInduction
  <1>4. S \in P
    BY <1>3
  <1>5. QED
    BY <1>4 DEF P

-----------------------------------------------------------------------------
(* The table *)

\* Only an inbound that is served is counted.
CountedAreServed ==
    /\ \A q \in Ports : counter[q] > 0 => running[q] # NoId
    /\ \A j \in Jobs, q \in Ports :
          batch[j] # Nothing /\ batch[j].units[q] > 0 => batch[j].owner[q] # NoId

IInv == TypeOK /\ CountedAreServed /\ PortsDistinct /\ ServedOrPending

\* Disabling or crediting rows leaves a table of rows, each with its port.
LEMMA RowUpdates ==
  ASSUME NEW row \in Row, NEW n \in Nat, NEW b \in BOOLEAN
  PROVE  /\ row # NoRow
         /\ [row EXCEPT !.used = n] \in Row /\ [row EXCEPT !.used = n] # NoRow
         /\ [row EXCEPT !.used = n].port = row.port
         /\ [row EXCEPT !.used = n].enable = row.enable
         /\ [row EXCEPT !.enable = b] \in Row /\ [row EXCEPT !.enable = b] # NoRow
         /\ [row EXCEPT !.enable = b].port = row.port
PROOF
  BY NoRowAssumption DEF Row

\* Xray is started with inbounds of the table.
LEMMA ConfigTyped ==
  ASSUME NEW t
  PROVE  Config(t) \in [Ports -> Ids \cup {NoId}]
PROOF
  <1>1. ASSUME NEW q \in Ports, Enabled(t, q) # {}
        PROVE  (CHOOSE i \in Enabled(t, q) : TRUE) \in Ids
    <2>1. (CHOOSE i \in Enabled(t, q) : TRUE) \in Enabled(t, q)
      BY <1>1
    <2>2. Enabled(t, q) \subseteq Ids
      BY DEF Enabled
    <2>3. QED
      BY <2>1, <2>2
  <1>2. QED
    BY <1>1 DEF Config

\* What counts on a table is who is enabled at which port.
LEMMA SameConfig ==
  ASSUME NEW t, NEW u,
         \A i \in Ids : /\ t[i] = NoRow <=> u[i] = NoRow
                        /\ t[i] # NoRow => t[i].enable = u[i].enable /\ t[i].port = u[i].port
  PROVE  Config(t) = Config(u)
PROOF
  <1>1. \A q \in Ports : Enabled(t, q) = Enabled(u, q)
    BY DEF Enabled
  <1>2. ASSUME NEW q \in Ports PROVE Config(t)[q] = Config(u)[q]
    <2>1. /\ Config(t)[q] = IF Enabled(t, q) = {} THEN NoId
                            ELSE CHOOSE i \in Enabled(t, q) : TRUE
          /\ Config(u)[q] = IF Enabled(u, q) = {} THEN NoId
                            ELSE CHOOSE i \in Enabled(u, q) : TRUE
      BY DEF Config
    <2>2. Enabled(t, q) = Enabled(u, q)
      BY <1>1
    <2>3. QED
      BY <2>1, <2>2, Zenon
  <1>3. /\ Config(t) = [q \in Ports |-> Config(t)[q]]
        /\ Config(u) = [q \in Ports |-> Config(u)[q]]
    BY DEF Config
  <1>4. QED
    BY <1>2, <1>3

\* The inbounds whose units a start or a failure loses are inbounds.
LEMMA LoadTyped ==
  ASSUME TypeOK, CountedAreServed, NEW config \in [Ports -> Ids \cup {NoId}], Load(config)
  PROVE  /\ running' \in [Ports -> Ids \cup {NoId}] /\ counter' \in [Ports -> Nat]
         /\ disturbed' \subseteq Ids
PROOF
  BY DEF TypeOK, CountedAreServed, Load, Uncollected

\* A batch names inbounds of the table and counts in natural numbers.
LEMMA CarriersTyped ==
  ASSUME TypeOK, CountedAreServed, NEW j \in Jobs, batch[j] # Nothing
  PROVE  /\ Carriers(batch[j]) \subseteq Ids /\ Misled(batch[j]) \subseteq Ids
         /\ \A q \in Ports : batch[j].units[q] \in Nat
PROOF
  <1>1. batch[j] \in Batch
    BY DEF TypeOK
  <1>2. \A q \in Ports : batch[j].units[q] \in Nat
    BY <1>1 DEF Batch
  <1>3. \A q \in Ports : batch[j].units[q] > 0 => batch[j].owner[q] \in Ids
    BY <1>1 DEF Batch, CountedAreServed
  <1>4. QED
    BY <1>2, <1>3 DEF Carriers, Misled, Astray, Stored

\* Crediting and disabling keep a table a table.
LEMMA CreditedTable ==
  ASSUME TypeOK, CountedAreServed, NEW j \in Jobs, AddTraffic(j)
  PROVE  /\ rows' \in [Ids -> Row \cup {NoRow}]
         /\ \A i \in Ids : /\ rows'[i] = NoRow <=> rows[i] = NoRow
                           /\ rows[i] # NoRow => /\ rows'[i].enable = rows[i].enable
                                                 /\ rows'[i].port = rows[i].port
PROOF
  <1>1. ASSUME NEW i \in Ids, rows[i] # NoRow
        PROVE  /\ rows'[i] \in Row /\ rows'[i] # NoRow
               /\ rows'[i].enable = rows[i].enable /\ rows'[i].port = rows[i].port
    <2>1. rows[i] \in Row
      BY <1>1 DEF TypeOK
    <2>2. rows[i].used + batch[j].units[rows[i].port] \in Nat
      BY <2>1, CarriersTyped DEF AddTraffic, Row
    <2>3. rows'[i] = [rows[i] EXCEPT !.used = rows[i].used + batch[j].units[rows[i].port]]
      BY <1>1 DEF AddTraffic, Stored
    <2>4. QED
      BY <2>1, <2>2, <2>3, NoRowAssumption DEF Row
  <1>2. ASSUME NEW i \in Ids, rows[i] = NoRow PROVE rows'[i] = NoRow
    BY <1>2 DEF AddTraffic, Stored
  <1>3. \E f : rows' = [i \in Ids |-> f[i]]
    <2>1. rows' = [i \in Ids |-> rows'[i]]
      BY DEF AddTraffic
    <2>2. QED
      BY <2>1
  <1>4. QED
    BY <1>1, <1>2, <1>3

\* Disabling moves no inbound to another port and deletes none.
LEMMA DisabledTable ==
  ASSUME TypeOK, rows' = Disabled
  PROVE  /\ rows' \in [Ids -> Row \cup {NoRow}]
         /\ \A i \in Ids : /\ rows'[i] = NoRow <=> rows[i] = NoRow
                           /\ rows[i] # NoRow => rows'[i].port = rows[i].port
PROOF
  <1>1. ASSUME NEW i \in Ids, rows[i] # NoRow
        PROVE  rows'[i] \in Row /\ rows'[i] # NoRow /\ rows'[i].port = rows[i].port
    <2>1. rows[i] \in Row
      BY <1>1 DEF TypeOK
    <2>2. rows'[i] \in {rows[i], [rows[i] EXCEPT !.enable = FALSE]}
      BY <1>1 DEF Disabled
    <2>3. QED
      BY <2>1, <2>2, RowUpdates
  <1>2. ASSUME NEW i \in Ids, rows[i] = NoRow PROVE rows'[i] = NoRow
    BY <1>2 DEF Disabled, Stored
  <1>3. rows' = [i \in Ids |-> rows'[i]]
    BY DEF Disabled
  <1>4. QED
    BY <1>1, <1>2, <1>3

\* What a page posts is a row.
LEMMA EditsTyped ==
  ASSUME NEW row \in Row
  PROVE  Edits(row) \subseteq Row
PROOF
  <1>1. /\ [row EXCEPT !.used = 0] \in Row
        /\ [row EXCEPT !.enable = ~row.enable] \in Row
        /\ [row EXCEPT !.expires = ~row.expires] \in Row
    BY DEF Row
  <1>2. \A q \in Ports : [row EXCEPT !.port = q] \in Row
    BY DEF Row
  <1>3. \A t \in Totals : [row EXCEPT !.total = t] \in Row
    BY DEF Row
  <1>4. QED
    BY <1>1, <1>2, <1>3 DEF Edits

\* A step keeps the types.
LEMMA TypeStep ==
  ASSUME TypeOK, CountedAreServed, [Next]_vars
  PROVE  TypeOK'
PROOF
  <1>1. CASE Apply
    BY <1>1, ConfigTyped, LoadTyped DEF TypeOK, Apply, table, handler, jobs, bounds
  <1>2. CASE ForceRestart
    BY <1>2, ConfigTyped, LoadTyped, StoreAssumption
       DEF TypeOK, ForceRestart, table, handler, jobs
  <1>3. ASSUME NEW q \in Ports, Carry(q) PROVE TypeOK'
    <2>1. counter' \in [Ports -> Nat] /\ carried' \in [Ids -> Nat]
      <3>1. /\ running[q] # NoId
            /\ counter' = [counter EXCEPT ![q] = counter[q] + 1]
            /\ carried' = [carried EXCEPT ![running[q]] = carried[running[q]] + 1]
        BY <1>3, Zenon DEF Carry
      <3>2. running[q] \in Ids
        BY <3>1 DEF TypeOK
      <3>3. QED
        BY <3>1, <3>2 DEF TypeOK
    <2>2. UNCHANGED <<table, need, running, handler, jobs, late, disturbed, bounds>>
      BY <1>3, Zenon DEF Carry
    <2>3. QED
      BY <2>1, <2>2 DEF TypeOK, table, handler, jobs, bounds
  <1>4. ASSUME NEW h \in Handlers, SubmitAdd(h) PROVE TypeOK'
    <2>1. PICK f \in Form : f.id = NoId /\ form' = [form EXCEPT ![h] = f]
      <3>1. PICK q \in Ports, t \in Totals, e \in BOOLEAN :
              form' = [form EXCEPT ![h] =
                         [id |-> NoId,
                          row |-> [port |-> q, used |-> 0, total |-> t,
                                   expires |-> e, enable |-> TRUE]]]
        BY <1>4 DEF SubmitAdd
      <3>2. [port |-> q, used |-> 0, total |-> t, expires |-> e, enable |-> TRUE] \in Row
        BY DEF Row
      <3>3. QED
        BY <3>1, <3>2 DEF Form
    <2>2. f # Nothing
      BY NothingAssumption
    <2>3. /\ pc' = [pc EXCEPT ![h] = "checkPort"] /\ ops' \in 0..MaxOps
          /\ UNCHANGED <<table, xray, jobs, late, history, faults>>
      BY <1>4, StoreAssumption DEF TypeOK, SubmitAdd, Begin, Goto
    <2>4. QED
      BY <2>1, <2>2, <2>3 DEF TypeOK, table, xray, jobs, history
  <1>5. ASSUME NEW h \in Handlers, List(h) PROVE TypeOK'
    <2>1. PICK f \in Form : f.id # NoId /\ form' = [form EXCEPT ![h] = f]
      <3>1. PICK i \in Stored : form' = [form EXCEPT ![h] = [id |-> i, row |-> rows[i]]]
        BY <1>5 DEF List
      <3>2. rows[i] \in Row /\ i \in Ids /\ i # NoId
        BY StoreAssumption DEF Stored, TypeOK
      <3>3. QED
        BY <3>1, <3>2 DEF Form
    <2>2. f # Nothing
      BY NothingAssumption
    <2>3. QED
      BY <1>5, <2>1, <2>2, StoreAssumption
         DEF TypeOK, List, Begin, Goto, table, xray, jobs, history
  <1>6. ASSUME NEW h \in Handlers, SubmitUpdate(h) PROVE TypeOK'
    <2>1. form[h] \in Form
      BY <1>6 DEF TypeOK, SubmitUpdate
    <2>2. PICK row \in Edits(form[h].row) : form' = [form EXCEPT ![h].row = row]
      BY <1>6 DEF SubmitUpdate
    <2>3. row \in Row
      <3>1. form[h].row \in Row
        BY <2>1 DEF Form
      <3>2. QED
        BY <2>2, <3>1, EditsTyped
    <2>4. [form[h] EXCEPT !.row = row] \in Form /\ [form[h] EXCEPT !.row = row] # Nothing
      BY <2>1, <2>3, NothingAssumption DEF Form
    <2>5. form' = [form EXCEPT ![h] = [form[h] EXCEPT !.row = row]]
      BY <2>2
    <2>6. QED
      BY <1>6, <2>4, <2>5
         DEF TypeOK, SubmitUpdate, Goto, table, xray, jobs, history, bounds
  <1>7. ASSUME NEW h \in Handlers, DelInbound(h) PROVE TypeOK'
    <2>1. rows' \in [Ids -> Row \cup {NoRow}]
      BY <1>7 DEF TypeOK, DelInbound, Stored
    <2>2. QED
      BY <1>7, <2>1, StoreAssumption
         DEF TypeOK, DelInbound, Begin, Goto, xray, jobs, history
  <1>8. ASSUME NEW h \in Handlers, CheckPort(h) PROVE TypeOK'
    BY <1>8, StoreAssumption, NothingAssumption
       DEF TypeOK, Form, Batch, CheckPort, Return, Goto, table, xray, handler, jobs,
           history, bounds
  <1>9. ASSUME NEW h \in Handlers, GetRow(h) PROVE TypeOK'
    BY <1>9, StoreAssumption, NothingAssumption
       DEF TypeOK, Form, Batch, GetRow, Return, Goto, table, xray, handler, jobs,
           history, bounds
  <1>10. ASSUME NEW h \in Handlers, SaveNew(h) PROVE TypeOK'
    BY <1>10, StoreAssumption, NothingAssumption
       DEF TypeOK, Form, Batch, SaveNew, Saved, Return, Goto, table, xray, handler,
           jobs, history, bounds
  <1>11. ASSUME NEW h \in Handlers, SaveOld(h) PROVE TypeOK'
    BY <1>11, StoreAssumption, NothingAssumption
       DEF TypeOK, Form, Batch, SaveOld, Saved, Return, Goto, table, xray, handler,
           jobs, history, bounds
  <1>12. ASSUME NEW h \in Handlers, SetToNeedRestart(h) PROVE TypeOK'
    BY <1>12, StoreAssumption, NothingAssumption
       DEF TypeOK, Form, Batch, SetToNeedRestart, Goto, table, xray, handler, jobs,
           history, bounds
  <1>13. ASSUME NEW h \in Handlers, StatementFails(h) PROVE TypeOK'
    BY <1>13, StoreAssumption, NothingAssumption
       DEF TypeOK, Form, Batch, StatementFails, Return, Goto, table, xray, handler,
           jobs, history, bounds
  <1>14. ASSUME NEW j \in Jobs, Collect(j) PROVE TypeOK'
    BY <1>14, StoreAssumption, NothingAssumption
       DEF TypeOK, Form, Batch, Collect, table, xray, handler, jobs, history, bounds
  <1>14a. ASSUME NEW j \in Jobs, CollectFails(j) PROVE TypeOK'
    <2>1. Uncollected \subseteq Ids
      BY DEF TypeOK, CountedAreServed, Uncollected
    <2>2. counter' \in [Ports -> Nat] /\ disturbed' \subseteq Ids /\ faults' \in 0..MaxFaults
      BY <1>14a, <2>1, StoreAssumption DEF TypeOK, CollectFails
    <2>3. QED
      BY <1>14a, <2>2 DEF TypeOK, CollectFails, table, handler, jobs
  <1>15. ASSUME NEW j \in Jobs, AddTraffic(j) PROVE TypeOK'
    BY <1>15, CreditedTable, CarriersTyped
       DEF TypeOK, AddTraffic, xray, handler, bounds
  <1>16. ASSUME NEW j \in Jobs, AddTrafficFails(j) PROVE TypeOK'
    BY <1>16, CarriersTyped, StoreAssumption
       DEF TypeOK, AddTrafficFails, table, xray, handler
  <1>17. CASE DisableInvalid
    BY <1>17, DisabledTable DEF TypeOK, DisableInvalid, xray, handler, history, bounds
  <1>18. CASE DisabledNeedsRestart
    BY <1>18, StoreAssumption, NothingAssumption
       DEF TypeOK, Form, Batch, DisabledNeedsRestart, table, xray, handler, jobs,
           history, bounds
  <1>19. CASE ExpiryPasses
    BY <1>19, StoreAssumption, NothingAssumption
       DEF TypeOK, Form, Batch, ExpiryPasses, table, xray, handler, jobs, history,
           bounds
  <1>20. CASE PanelRestarts
    <2>1. disturbed' \subseteq Ids
      BY <1>20, CarriersTyped DEF TypeOK, CountedAreServed, PanelRestarts, Uncollected
    <2>2. /\ running' \in [Ports -> Ids \cup {NoId}]
          /\ counter' \in [Ports -> Nat]
          /\ batch' \in [Jobs -> Batch \cup {Nothing}]
      BY <1>20, ConfigTyped DEF PanelRestarts, Uncollected
    <2>3. /\ pc' = [h \in Handlers |-> IF pc[h] = "editing" THEN "editing" ELSE "idle"]
          /\ form' = [h \in Handlers |-> IF pc[h] = "editing" THEN form[h] ELSE Nothing]
          /\ faults' \in 0..MaxFaults /\ need' = FALSE /\ disabling' = FALSE
          /\ UNCHANGED <<rows, given, late, carried, ops>>
      BY <1>20, StoreAssumption DEF TypeOK, PanelRestarts, Uncollected, table
    <2>4. QED
      BY <2>1, <2>2, <2>3 DEF TypeOK
  <1>21. CASE UNCHANGED vars
    BY <1>21, StoreAssumption, NothingAssumption
       DEF TypeOK, Form, Batch, table, xray, handler, jobs, history, bounds, vars
  <1>22. QED
    BY <1>1, <1>2, <1>3, <1>4, <1>5, <1>6, <1>7, <1>8, <1>9, <1>10, <1>11, <1>12,
       <1>13, <1>14, <1>14a, <1>15, <1>16, <1>17, <1>18, <1>19, <1>20, <1>21
       DEF Next, Handle

\* Statistics and batches are copied together with who is served.
LEMMA CountedStep ==
  ASSUME TypeOK, CountedAreServed, [Next]_vars
  PROVE  CountedAreServed'
PROOF
  <1>1. CASE Apply
    BY <1>1, NothingAssumption
       DEF TypeOK, CountedAreServed, Form, Batch, Apply, Load, Uncollected, table,
           xray, handler,
           jobs, history, bounds
  <1>2. CASE ForceRestart
    BY <1>2, NothingAssumption
       DEF TypeOK, CountedAreServed, Form, Batch, ForceRestart, Load, Uncollected,
           table, xray,
           handler, jobs, history, bounds
  <1>3. ASSUME NEW q \in Ports, Carry(q) PROVE CountedAreServed'
    BY <1>3, NothingAssumption
       DEF TypeOK, CountedAreServed, Form, Batch, Carry, table, xray, handler, jobs,
           history, bounds
  <1>4. ASSUME NEW h \in Handlers, SubmitAdd(h) PROVE CountedAreServed'
    BY <1>4, NothingAssumption
       DEF TypeOK, CountedAreServed, Form, Batch, SubmitAdd, Begin, Goto, table,
           xray, handler, jobs, history, bounds
  <1>5. ASSUME NEW h \in Handlers, List(h) PROVE CountedAreServed'
    BY <1>5, NothingAssumption
       DEF TypeOK, CountedAreServed, Form, Batch, List, Begin, Goto, table, xray,
           handler, jobs, history, bounds
  <1>6. ASSUME NEW h \in Handlers, SubmitUpdate(h) PROVE CountedAreServed'
    BY <1>6, NothingAssumption
       DEF TypeOK, CountedAreServed, Form, Batch, SubmitUpdate, Goto, table, xray,
           handler, jobs, history, bounds
  <1>7. ASSUME NEW h \in Handlers, DelInbound(h) PROVE CountedAreServed'
    BY <1>7, NothingAssumption
       DEF TypeOK, CountedAreServed, Form, Batch, DelInbound, Begin, Goto, table,
           xray, handler, jobs, history, bounds
  <1>8. ASSUME NEW h \in Handlers, CheckPort(h) PROVE CountedAreServed'
    BY <1>8, NothingAssumption
       DEF TypeOK, CountedAreServed, Form, Batch, CheckPort, Return, Goto, table,
           xray, handler, jobs, history, bounds
  <1>9. ASSUME NEW h \in Handlers, GetRow(h) PROVE CountedAreServed'
    BY <1>9, NothingAssumption
       DEF TypeOK, CountedAreServed, Form, Batch, GetRow, Return, Goto, table, xray,
           handler, jobs, history, bounds
  <1>10. ASSUME NEW h \in Handlers, SaveNew(h) PROVE CountedAreServed'
    BY <1>10, NothingAssumption
       DEF TypeOK, CountedAreServed, Form, Batch, SaveNew, Saved, Return, Goto,
           table, xray, handler, jobs, history, bounds
  <1>11. ASSUME NEW h \in Handlers, SaveOld(h) PROVE CountedAreServed'
    BY <1>11, NothingAssumption
       DEF TypeOK, CountedAreServed, Form, Batch, SaveOld, Saved, Return, Goto,
           table, xray, handler, jobs, history, bounds
  <1>12. ASSUME NEW h \in Handlers, SetToNeedRestart(h) PROVE CountedAreServed'
    BY <1>12, NothingAssumption
       DEF TypeOK, CountedAreServed, Form, Batch, SetToNeedRestart, Goto, table,
           xray, handler, jobs, history, bounds
  <1>13. ASSUME NEW h \in Handlers, StatementFails(h) PROVE CountedAreServed'
    BY <1>13, NothingAssumption
       DEF TypeOK, CountedAreServed, Form, Batch, StatementFails, Return, Goto,
           table, xray, handler, jobs, history, bounds
  <1>14. ASSUME NEW j \in Jobs, Collect(j) PROVE CountedAreServed'
    BY <1>14, NothingAssumption
       DEF TypeOK, CountedAreServed, Form, Batch, Collect, table, xray, handler,
           jobs, history, bounds
  <1>14a. ASSUME NEW j \in Jobs, CollectFails(j) PROVE CountedAreServed'
    BY <1>14a, NothingAssumption
       DEF TypeOK, CountedAreServed, Form, Batch, CollectFails, Uncollected, table,
           xray, handler,
           jobs, history, bounds
  <1>15. ASSUME NEW j \in Jobs, AddTraffic(j) PROVE CountedAreServed'
    BY <1>15, NothingAssumption
       DEF TypeOK, CountedAreServed, Form, Batch, AddTraffic, table, xray, handler,
           jobs, history, bounds
  <1>16. ASSUME NEW j \in Jobs, AddTrafficFails(j) PROVE CountedAreServed'
    BY <1>16, NothingAssumption
       DEF TypeOK, CountedAreServed, Form, Batch, AddTrafficFails, table, xray,
           handler, jobs, history, bounds
  <1>17. CASE DisableInvalid
    BY <1>17, NothingAssumption
       DEF TypeOK, CountedAreServed, Form, Batch, DisableInvalid, Disabled, table,
           xray, handler, jobs, history, bounds
  <1>18. CASE DisabledNeedsRestart
    BY <1>18, NothingAssumption
       DEF TypeOK, CountedAreServed, Form, Batch, DisabledNeedsRestart, table, xray,
           handler, jobs, history, bounds
  <1>19. CASE ExpiryPasses
    BY <1>19, NothingAssumption
       DEF TypeOK, CountedAreServed, Form, Batch, ExpiryPasses, table, xray,
           handler, jobs, history, bounds
  <1>20. CASE PanelRestarts
    BY <1>20, NothingAssumption
       DEF TypeOK, CountedAreServed, Form, Batch, PanelRestarts, Uncollected, table,
           xray,
           handler, jobs, history, bounds
  <1>21. CASE UNCHANGED vars
    BY <1>21, NothingAssumption
       DEF TypeOK, CountedAreServed, Form, Batch, table, xray, handler, jobs,
           history, bounds, vars
  <1>22. QED
    BY <1>1, <1>2, <1>3, <1>4, <1>5, <1>6, <1>7, <1>8, <1>9, <1>10, <1>11, <1>12,
       <1>13, <1>14, <1>14a, <1>15, <1>16, <1>17, <1>18, <1>19, <1>20, <1>21
       DEF Next, Handle

\* The database refuses a row whose port another has.
LEMMA PortsStep ==
  ASSUME TypeOK, PortsDistinct, [Next]_vars
  PROVE  PortsDistinct'
PROOF
  <1>1. CASE Apply
    BY <1>1, StoreAssumption, NothingAssumption
       DEF TypeOK, PortsDistinct, Stored, Storable, PortExists, Form, Apply, Load,
           Uncollected,
           table, xray, handler, jobs, history, bounds
  <1>2. CASE ForceRestart
    BY <1>2, StoreAssumption, NothingAssumption
       DEF TypeOK, PortsDistinct, Stored, Storable, PortExists, Form, ForceRestart,
           Load, Uncollected, table, xray, handler, jobs, history, bounds
  <1>3. ASSUME NEW q \in Ports, Carry(q) PROVE PortsDistinct'
    BY <1>3, StoreAssumption, NothingAssumption
       DEF TypeOK, PortsDistinct, Stored, Storable, PortExists, Form, Carry, table,
           xray, handler, jobs, history, bounds
  <1>4. ASSUME NEW h \in Handlers, SubmitAdd(h) PROVE PortsDistinct'
    BY <1>4, StoreAssumption, NothingAssumption
       DEF TypeOK, PortsDistinct, Stored, Storable, PortExists, Form, SubmitAdd,
           Begin, Goto, table, xray, handler, jobs, history, bounds
  <1>5. ASSUME NEW h \in Handlers, List(h) PROVE PortsDistinct'
    BY <1>5, StoreAssumption, NothingAssumption
       DEF TypeOK, PortsDistinct, Stored, Storable, PortExists, Form, List, Begin,
           Goto, table, xray, handler, jobs, history, bounds
  <1>6. ASSUME NEW h \in Handlers, SubmitUpdate(h) PROVE PortsDistinct'
    BY <1>6, StoreAssumption, NothingAssumption
       DEF TypeOK, PortsDistinct, Stored, Storable, PortExists, Form, SubmitUpdate,
           Goto, table, xray, handler, jobs, history, bounds
  <1>7. ASSUME NEW h \in Handlers, DelInbound(h) PROVE PortsDistinct'
    BY <1>7, StoreAssumption, NothingAssumption
       DEF TypeOK, PortsDistinct, Stored, Storable, PortExists, Form, DelInbound,
           Begin, Goto, table, xray, handler, jobs, history, bounds
  <1>8. ASSUME NEW h \in Handlers, CheckPort(h) PROVE PortsDistinct'
    BY <1>8, StoreAssumption, NothingAssumption
       DEF TypeOK, PortsDistinct, Stored, Storable, PortExists, Form, CheckPort,
           Return, Goto, table, xray, handler, jobs, history, bounds
  <1>9. ASSUME NEW h \in Handlers, GetRow(h) PROVE PortsDistinct'
    BY <1>9, StoreAssumption, NothingAssumption
       DEF TypeOK, PortsDistinct, Stored, Storable, PortExists, Form, GetRow,
           Return, Goto, table, xray, handler, jobs, history, bounds
  <1>10. ASSUME NEW h \in Handlers, SaveNew(h) PROVE PortsDistinct'
    BY <1>10, StoreAssumption, NothingAssumption
       DEF TypeOK, PortsDistinct, Stored, Storable, PortExists, Form, SaveNew,
           Saved, Return, Goto, table, xray, handler, jobs, history, bounds
  <1>11. ASSUME NEW h \in Handlers, SaveOld(h) PROVE PortsDistinct'
    BY <1>11, StoreAssumption, NothingAssumption
       DEF TypeOK, PortsDistinct, Stored, Storable, PortExists, Form, SaveOld,
           Saved, Return, Goto, table, xray, handler, jobs, history, bounds
  <1>12. ASSUME NEW h \in Handlers, SetToNeedRestart(h) PROVE PortsDistinct'
    BY <1>12, StoreAssumption, NothingAssumption
       DEF TypeOK, PortsDistinct, Stored, Storable, PortExists, Form,
           SetToNeedRestart, Goto, table, xray, handler, jobs, history, bounds
  <1>13. ASSUME NEW h \in Handlers, StatementFails(h) PROVE PortsDistinct'
    BY <1>13, StoreAssumption, NothingAssumption
       DEF TypeOK, PortsDistinct, Stored, Storable, PortExists, Form,
           StatementFails, Return, Goto, table, xray, handler, jobs, history, bounds
  <1>14. ASSUME NEW j \in Jobs, Collect(j) PROVE PortsDistinct'
    BY <1>14, StoreAssumption, NothingAssumption
       DEF TypeOK, PortsDistinct, Stored, Storable, PortExists, Form, Collect,
           table, xray, handler, jobs, history, bounds
  <1>14a. ASSUME NEW j \in Jobs, CollectFails(j) PROVE PortsDistinct'
    BY <1>14a, StoreAssumption, NothingAssumption
       DEF TypeOK, PortsDistinct, Stored, Storable, PortExists, Form, CollectFails,
           Uncollected,
           table, xray, handler, jobs, history, bounds
  <1>15. ASSUME NEW j \in Jobs, AddTraffic(j) PROVE PortsDistinct'
    BY <1>15, StoreAssumption, NothingAssumption
       DEF TypeOK, PortsDistinct, Stored, Storable, PortExists, Form, AddTraffic,
           table, xray, handler, jobs, history, bounds
  <1>16. ASSUME NEW j \in Jobs, AddTrafficFails(j) PROVE PortsDistinct'
    BY <1>16, StoreAssumption, NothingAssumption
       DEF TypeOK, PortsDistinct, Stored, Storable, PortExists, Form,
           AddTrafficFails, table, xray, handler, jobs, history, bounds
  <1>17. CASE DisableInvalid
    BY <1>17, StoreAssumption, NothingAssumption
       DEF TypeOK, PortsDistinct, Stored, Storable, PortExists, Form,
           DisableInvalid, Disabled, table, xray, handler, jobs, history, bounds
  <1>18. CASE DisabledNeedsRestart
    BY <1>18, StoreAssumption, NothingAssumption
       DEF TypeOK, PortsDistinct, Stored, Storable, PortExists, Form,
           DisabledNeedsRestart, table, xray, handler, jobs, history, bounds
  <1>19. CASE ExpiryPasses
    BY <1>19, StoreAssumption, NothingAssumption
       DEF TypeOK, PortsDistinct, Stored, Storable, PortExists, Form, ExpiryPasses,
           table, xray, handler, jobs, history, bounds
  <1>20. CASE PanelRestarts
    BY <1>20, StoreAssumption, NothingAssumption
       DEF TypeOK, PortsDistinct, Stored, Storable, PortExists, Form, PanelRestarts,
           Uncollected,
           table, xray, handler, jobs, history, bounds
  <1>21. CASE UNCHANGED vars
    BY <1>21, StoreAssumption, NothingAssumption
       DEF TypeOK, PortsDistinct, Stored, Storable, PortExists, Form, table, xray,
           handler, jobs, history, bounds, vars
  <1>22. QED
    BY <1>1, <1>2, <1>3, <1>4, <1>5, <1>6, <1>7, <1>8, <1>9, <1>10, <1>11, <1>12,
       <1>13, <1>14, <1>14a, <1>15, <1>16, <1>17, <1>18, <1>19, <1>20, <1>21
       DEF Next, Handle

\* Whoever changes what is to be served goes on to set the flag.
LEMMA PendingStep ==
  ASSUME TypeOK, CountedAreServed, ServedOrPending, [Next]_vars
  PROVE  ServedOrPending'
PROOF
  <1>1. CASE Apply
    BY <1>1
       DEF TypeOK, ServedOrPending, Apply, Load, Uncollected, table, xray, handler,
           jobs,
           history, bounds
  <1>2. CASE ForceRestart
    BY <1>2
       DEF TypeOK, ServedOrPending, ForceRestart, Load, Uncollected, table, xray,
           handler, jobs,
           history, bounds
  <1>3. ASSUME NEW q \in Ports, Carry(q) PROVE ServedOrPending'
    BY <1>3
       DEF TypeOK, ServedOrPending, Carry, table, xray, handler, jobs, history,
           bounds
  <1>4. ASSUME NEW h \in Handlers, SubmitAdd(h) PROVE ServedOrPending'
    BY <1>4
       DEF TypeOK, ServedOrPending, SubmitAdd, Begin, Goto, table, xray, handler,
           jobs, history, bounds
  <1>5. ASSUME NEW h \in Handlers, List(h) PROVE ServedOrPending'
    BY <1>5
       DEF TypeOK, ServedOrPending, List, Begin, Goto, table, xray, handler, jobs,
           history, bounds
  <1>6. ASSUME NEW h \in Handlers, SubmitUpdate(h) PROVE ServedOrPending'
    BY <1>6
       DEF TypeOK, ServedOrPending, SubmitUpdate, Goto, table, xray, handler, jobs,
           history, bounds
  <1>7. ASSUME NEW h \in Handlers, DelInbound(h) PROVE ServedOrPending'
    BY <1>7
       DEF TypeOK, ServedOrPending, DelInbound, Begin, Goto, table, xray, handler,
           jobs, history, bounds
  <1>8. ASSUME NEW h \in Handlers, CheckPort(h) PROVE ServedOrPending'
    BY <1>8
       DEF TypeOK, ServedOrPending, CheckPort, Return, Goto, table, xray, handler,
           jobs, history, bounds
  <1>9. ASSUME NEW h \in Handlers, GetRow(h) PROVE ServedOrPending'
    BY <1>9
       DEF TypeOK, ServedOrPending, GetRow, Return, Goto, table, xray, handler,
           jobs, history, bounds
  <1>10. ASSUME NEW h \in Handlers, SaveNew(h) PROVE ServedOrPending'
    BY <1>10
       DEF TypeOK, ServedOrPending, SaveNew, Saved, Return, Goto, table, xray,
           handler, jobs, history, bounds
  <1>11. ASSUME NEW h \in Handlers, SaveOld(h) PROVE ServedOrPending'
    BY <1>11
       DEF TypeOK, ServedOrPending, SaveOld, Saved, Return, Goto, table, xray,
           handler, jobs, history, bounds
  <1>12. ASSUME NEW h \in Handlers, SetToNeedRestart(h) PROVE ServedOrPending'
    BY <1>12
       DEF TypeOK, ServedOrPending, SetToNeedRestart, Goto, table, xray, handler,
           jobs, history, bounds
  <1>13. ASSUME NEW h \in Handlers, StatementFails(h) PROVE ServedOrPending'
    BY <1>13
       DEF TypeOK, ServedOrPending, StatementFails, Return, Goto, table, xray,
           handler, jobs, history, bounds
  <1>14. ASSUME NEW j \in Jobs, Collect(j) PROVE ServedOrPending'
    BY <1>14
       DEF TypeOK, ServedOrPending, Collect, table, xray, handler, jobs, history,
           bounds
  <1>14a. ASSUME NEW j \in Jobs, CollectFails(j) PROVE ServedOrPending'
    BY <1>14a
       DEF TypeOK, ServedOrPending, CollectFails, Uncollected, table, xray, handler,
           jobs, history,
           bounds
  <1>15. ASSUME NEW j \in Jobs, AddTraffic(j) PROVE ServedOrPending'
    <2>1. Config(rows) = Config(rows')
      BY <1>15, CreditedTable, SameConfig
    <2>2. UNCHANGED <<running, need, disabling, pc>>
      BY <1>15 DEF AddTraffic, xray, handler
    <2>3. QED
      BY <2>1, <2>2 DEF ServedOrPending
  <1>16. ASSUME NEW j \in Jobs, AddTrafficFails(j) PROVE ServedOrPending'
    BY <1>16
       DEF TypeOK, ServedOrPending, AddTrafficFails, table, xray, handler, jobs,
           history, bounds
  <1>17. CASE DisableInvalid
    BY <1>17
       DEF TypeOK, ServedOrPending, DisableInvalid, Disabled, table, xray, handler,
           jobs, history, bounds
  <1>18. CASE DisabledNeedsRestart
    BY <1>18
       DEF TypeOK, ServedOrPending, DisabledNeedsRestart, table, xray, handler,
           jobs, history, bounds
  <1>19. CASE ExpiryPasses
    BY <1>19
       DEF TypeOK, ServedOrPending, ExpiryPasses, table, xray, handler, jobs,
           history, bounds
  <1>20. CASE PanelRestarts
    BY <1>20
       DEF TypeOK, ServedOrPending, PanelRestarts, Uncollected, table, xray, handler,
           jobs,
           history, bounds
  <1>21. CASE UNCHANGED vars
    BY <1>21
       DEF TypeOK, ServedOrPending, table, xray, handler, jobs, history, bounds,
           vars
  <1>22. QED
    BY <1>1, <1>2, <1>3, <1>4, <1>5, <1>6, <1>7, <1>8, <1>9, <1>10, <1>11, <1>12,
       <1>13, <1>14, <1>14a, <1>15, <1>16, <1>17, <1>18, <1>19, <1>20, <1>21
       DEF Next, Handle

\* A new installation, and any table of distinct ports.
LEMMA InitInv == Init => IInv
PROOF
  <1> SUFFICES ASSUME Init PROVE IInv
    OBVIOUS
  <1>1. PICK start \in [Ids -> Ports \cup {NoRow}] :
          /\ \A i, j \in Ids : i # j /\ start[i] = start[j] => start[i] = NoRow
          /\ rows = [i \in Ids |->
                        IF start[i] = NoRow THEN NoRow
                        ELSE [port |-> start[i], used |-> 0, total |-> 0,
                              expires |-> FALSE, enable |-> TRUE]]
          /\ given = {i \in Ids : start[i] # NoRow}
    BY DEF Init
  <1>2. \A i \in Ids : start[i] # NoRow =>
          /\ rows[i] = [port |-> start[i], used |-> 0, total |-> 0,
                        expires |-> FALSE, enable |-> TRUE]
          /\ rows[i] \in Row /\ rows[i].port = start[i]
    BY <1>1, StoreAssumption DEF Row
  <1>3. rows \in [Ids -> Row \cup {NoRow}]
    BY <1>1, <1>2
  <1>4. TypeOK
    <2>1. running \in [Ports -> Ids \cup {NoId}]
      BY ConfigTyped DEF Init
    <2>2. /\ form \in [Handlers -> Form \cup {Nothing}] /\ batch \in [Jobs -> Batch \cup {Nothing}]
          /\ carried \in [Ids -> Nat] /\ counter \in [Ports -> Nat]
          /\ given \subseteq Ids /\ disturbed \subseteq Ids
      BY <1>1 DEF Init
    <2>3. /\ pc \in [Handlers -> {"idle", "editing", "checkPort", "getRow", "save", "setNeed"}]
          /\ \A h \in Handlers : pc[h] = "idle" /\ form[h] = Nothing
          /\ need \in BOOLEAN /\ disabling \in BOOLEAN /\ late \in BOOLEAN
      BY DEF Init
    <2>4. ops \in 0..MaxOps /\ faults \in 0..MaxFaults
      BY StoreAssumption DEF Init
    <2>5. QED
      BY <1>3, <2>1, <2>2, <2>3, <2>4 DEF TypeOK
  <1>5. CountedAreServed /\ ServedOrPending
    BY DEF Init, CountedAreServed, ServedOrPending
  <1>6. PortsDistinct
    BY <1>1, <1>2 DEF PortsDistinct, Stored
  <1>7. QED
    BY <1>4, <1>5, <1>6 DEF IInv

\* The inductive invariant holds of every reachable state.
LEMMA Inductive == Spec => []IInv
PROOF
  <1>1. IInv /\ [Next]_vars => IInv'
    BY TypeStep, CountedStep, PortsStep, PendingStep DEF IInv
  <1>2. QED
    BY InitInv, <1>1, PTL DEF Spec

-----------------------------------------------------------------------------
(* The traffic *)

\* Units of inbound i that batches b hold, and all units that they hold, by job.
Waiting(b, i) ==
    [j \in Jobs |-> IF b[j] = Nothing THEN 0 ELSE Held(b[j].units, b[j].owner, i)]
Collected(b) ==
    [j \in Jobs |-> IF b[j] = Nothing THEN 0 ELSE SumFunctionOnSet(b[j].units, Ports)]

\* Keys that are in use were given out; a form without a key has no traffic.
InUse ==
    /\ Stored \subseteq given
    /\ \A q \in Ports : running[q] \in given \cup {NoId}
    /\ \A j \in Jobs, q \in Ports :
          batch[j] # Nothing => batch[j].owner[q] \in given \cup {NoId}
    /\ \A i \in Ids \ given : carried[i] = 0
    /\ \A h \in Handlers : form[h] # Nothing =>
          IF form[h].id = NoId THEN form[h].row.used = 0 ELSE form[h].id \in given

\* The first half of TrafficConserved.
Credited == \A i \in Stored \ disturbed : Account(i) = carried[i]

\* No row and no page ever showed more than peak.
Shown(peak) ==
    /\ \A i \in Stored : rows[i].used <= peak[i]
    /\ \A h \in Handlers : form[h] # Nothing /\ form[h].id # NoId =>
          form[h].row.used <= peak[form[h].id]

\* What was ever shown and what is still to be credited was carried.
Fits(peak) ==
    SumFunctionOnSet(peak, Ids) + SumFunctionOnSet(counter, Ports)
    + SumFunctionOnSet(Collected(batch), Jobs) <= SumFunctionOnSet(carried, Ids)
NotOvercharged == \E peak \in [Ids -> Nat] : Shown(peak) /\ Fits(peak)

-----------------------------------------------------------------------------

\* Parts that are not larger have a sum that is not larger.
LEMMA SumMono ==
  ASSUME NEW X, IsFiniteSet(X), NEW f, NEW g,
         \A x \in X : f[x] \in Nat /\ g[x] \in Nat /\ f[x] <= g[x]
  PROVE  SumFunctionOnSet(f, X) <= SumFunctionOnSet(g, X)
PROOF
  <1> DEFINE id == [x \in X |-> x]
  <1>1. /\ X \in SUBSET X /\ \A x \in X \ X : f[x] = 0
        /\ \A x \in X : id[x] \in X /\ f[x] <= g[id[x]]
        /\ \A x, y \in X : x # y => id[x] # id[y]
    OBVIOUS
  <1> HIDE DEF id
  <1>2. QED
    BY <1>1, SumDominated

\* The ports of an inbound are finitely many.
LEMMA PortsOf ==
  ASSUME NEW owner, NEW i
  PROVE  IsFiniteSet({q \in Ports : owner[q] = i})
PROOF
  BY StoreAssumption, FS_Subset

\* What is held is a natural number.
LEMMA HeldNat ==
  ASSUME NEW units, \A q \in Ports : units[q] \in Nat, NEW owner, NEW i
  PROVE  Held(units, owner, i) \in Nat
PROOF
  BY PortsOf, SumNat DEF Held

\* Who owns no unit holds none.
LEMMA HeldNone ==
  ASSUME NEW units, NEW owner, NEW i, \A q \in Ports : owner[q] = i => units[q] = 0
  PROVE  Held(units, owner, i) = 0
PROOF
  <1> DEFINE mine == {q \in Ports : owner[q] = i}
  <1>1. IsFiniteSet(mine) /\ \A q \in mine : units[q] = 0
    BY PortsOf
  <1> HIDE DEF mine
  <1>2. SumFunctionOnSet(units, mine) = 0
    BY <1>1, SumZero
  <1>3. QED
    BY <1>2 DEF Held, mine

\* Who holds units of one port only, holds those.
LEMMA HeldOne ==
  ASSUME NEW units, \A q \in Ports : units[q] \in Nat, NEW owner, NEW i,
         NEW p \in Ports, owner[p] = i,
         \A q \in Ports \ {p} : owner[q] = i => units[q] = 0
  PROVE  Held(units, owner, i) = units[p]
PROOF
  <1> DEFINE mine == {q \in Ports : owner[q] = i}
  <1>1. IsFiniteSet(mine) /\ IsFiniteSet(mine \ {p})
    <2>1. IsFiniteSet(mine)
      BY PortsOf
    <2> HIDE DEF mine
    <2>2. QED
      BY <2>1, FS_RemoveElement
  <1>2. p \in mine /\ \A q \in mine : units[q] \in Nat
    OBVIOUS
  <1>3. \A q \in mine \ {p} : units[q] = 0
    OBVIOUS
  <1> HIDE DEF mine
  <1>4. SumFunctionOnSet(units, mine) = units[p] + SumFunctionOnSet(units, mine \ {p})
    BY <1>1, <1>2, SumRemove
  <1>5. SumFunctionOnSet(units, mine \ {p}) = 0
    BY <1>1, <1>3, SumZero
  <1>6. units[p] \in Nat
    OBVIOUS
  <1>7. QED
    BY <1>4, <1>5, <1>6 DEF Held, mine

\* A unit counted at a port is held by its owner and nobody else.
LEMMA HeldMore ==
  ASSUME NEW units \in [Ports -> Nat], NEW more \in [Ports -> Nat], NEW owner, NEW i,
         NEW q \in Ports, more[q] = units[q] + 1, \A r \in Ports \ {q} : more[r] = units[r]
  PROVE  Held(more, owner, i) = Held(units, owner, i) + IF owner[q] = i THEN 1 ELSE 0
PROOF
  <1> DEFINE mine == {r \in Ports : owner[r] = i}
  <1>1. IsFiniteSet(mine)
    BY PortsOf
  <1>2. \A r \in mine : units[r] \in Nat /\ more[r] \in Nat /\ (r # q => more[r] = units[r])
    OBVIOUS
  <1>3. more[q] = units[q] + 1 /\ units[q] \in Nat
    OBVIOUS
  <1>4. owner[q] = i <=> q \in mine
    OBVIOUS
  <1> HIDE DEF mine
  <1>5. SumFunctionOnSet(units, mine) \in Nat /\ SumFunctionOnSet(more, mine) \in Nat
    BY <1>1, <1>2, SumNat
  <1>6. CASE q \in mine
    <2>1. SumFunctionOnSet(more, mine) + units[q] = SumFunctionOnSet(units, mine) + more[q]
      BY <1>1, <1>2, <1>6, SumChange
    <2>2. QED
      BY <1>3, <1>4, <1>5, <1>6, <2>1 DEF Held, mine
  <1>7. CASE q \notin mine
    <2>1. SumFunctionOnSet(more, mine) = SumFunctionOnSet(units, mine)
      BY <1>1, <1>2, <1>7, SumSame
    <2>2. QED
      BY <1>4, <1>5, <1>7, <2>1 DEF Held, mine
  <1>8. QED
    BY <1>6, <1>7

\* A batch holds natural numbers of units.
LEMMA BatchNat ==
  ASSUME NEW b \in [Jobs -> Batch \cup {Nothing}], NEW i
  PROVE  /\ \A j \in Jobs : Waiting(b, i)[j] \in Nat /\ Collected(b)[j] \in Nat
         /\ \A j \in Jobs : b[j] # Nothing => \A q \in Ports : b[j].units[q] \in Nat
         /\ SumFunctionOnSet(Waiting(b, i), Jobs) \in Nat
         /\ SumFunctionOnSet(Collected(b), Jobs) \in Nat
PROOF
  <1>1. \A j \in Jobs : b[j] # Nothing => \A q \in Ports : b[j].units[q] \in Nat
    BY DEF Batch
  <1>2. \A j \in Jobs : Waiting(b, i)[j] \in Nat
    BY <1>1, HeldNat DEF Waiting
  <1>3. \A j \in Jobs : Collected(b)[j] \in Nat
    BY <1>1, SumNat, StoreAssumption DEF Collected
  <1>4. QED
    BY <1>1, <1>2, <1>3, SumNat, StoreAssumption

\* One batch more or less.
LEMMA BatchChange ==
  ASSUME NEW b \in [Jobs -> Batch \cup {Nothing}], NEW c \in [Jobs -> Batch \cup {Nothing}],
         NEW i, NEW j \in Jobs, \A k \in Jobs \ {j} : c[k] = b[k]
  PROVE  /\ SumFunctionOnSet(Waiting(c, i), Jobs) + Waiting(b, i)[j] =
               SumFunctionOnSet(Waiting(b, i), Jobs) + Waiting(c, i)[j]
         /\ SumFunctionOnSet(Collected(c), Jobs) + Collected(b)[j] =
               SumFunctionOnSet(Collected(b), Jobs) + Collected(c)[j]
PROOF
  <1>1. \A k \in Jobs : /\ Waiting(b, i)[k] \in Nat /\ Waiting(c, i)[k] \in Nat
                        /\ Collected(b)[k] \in Nat /\ Collected(c)[k] \in Nat
    BY BatchNat
  <1>2. \A k \in Jobs \ {j} : /\ Waiting(c, i)[k] = Waiting(b, i)[k]
                              /\ Collected(c)[k] = Collected(b)[k]
    BY DEF Waiting, Collected
  <1>3. SumFunctionOnSet(Waiting(c, i), Jobs) + Waiting(b, i)[j] =
           SumFunctionOnSet(Waiting(b, i), Jobs) + Waiting(c, i)[j]
    <2> DEFINE f == Waiting(b, i)
               g == Waiting(c, i)
    <2>1. /\ \A k \in Jobs : f[k] \in Nat /\ g[k] \in Nat
          /\ \A k \in Jobs \ {j} : g[k] = f[k]
      BY <1>1, <1>2
    <2> HIDE DEF f, g
    <2>2. SumFunctionOnSet(g, Jobs) + f[j] = SumFunctionOnSet(f, Jobs) + g[j]
      BY <2>1, SumChange, StoreAssumption
    <2>3. QED
      BY <2>2 DEF f, g
  <1>4. SumFunctionOnSet(Collected(c), Jobs) + Collected(b)[j] =
           SumFunctionOnSet(Collected(b), Jobs) + Collected(c)[j]
    <2> DEFINE f == Collected(b)
               g == Collected(c)
    <2>1. /\ \A k \in Jobs : f[k] \in Nat /\ g[k] \in Nat
          /\ \A k \in Jobs \ {j} : g[k] = f[k]
      BY <1>1, <1>2
    <2> HIDE DEF f, g
    <2>2. SumFunctionOnSet(g, Jobs) + f[j] = SumFunctionOnSet(f, Jobs) + g[j]
      BY <2>1, SumChange, StoreAssumption
    <2>3. QED
      BY <2>2 DEF f, g
  <1>5. QED
    BY <1>3, <1>4

\* Account and its sums, before and after a step.
LEMMA Accounts ==
  ASSUME NEW i
  PROVE  /\ Account(i) = rows[i].used + Held(counter, running, i)
                         + SumFunctionOnSet(Waiting(batch, i), Jobs)
         /\ Account(i)' = rows'[i].used + Held(counter', running', i)
                          + SumFunctionOnSet(Waiting(batch', i), Jobs)
PROOF
  <1>1. DOMAIN Waiting(batch, i) = Jobs /\ DOMAIN Waiting(batch', i) = Jobs
    BY DEF Waiting
  <1>2. QED
    BY <1>1 DEF Account, SumFunction, Waiting

\* Xray is started with stored inbounds.
LEMMA ConfigStored ==
  ASSUME NEW q \in Ports
  PROVE  Config(rows)[q] \in Stored \cup {NoId}
PROOF
  <1>1. Config(rows)[q] = IF Enabled(rows, q) = {} THEN NoId
                          ELSE CHOOSE i \in Enabled(rows, q) : TRUE
    BY DEF Config
  <1>2. Enabled(rows, q) \subseteq Stored
    BY DEF Enabled, Stored
  <1>3. QED
    BY <1>1, <1>2

\* Keys in use stay keys that were given out.
LEMMA InUseStep ==
  ASSUME TypeOK, CountedAreServed, InUse, [Next]_vars
  PROVE  InUse'
PROOF
  <1>1. CASE Apply
    BY <1>1, ConfigStored, NothingAssumption, NoRowAssumption
       DEF TypeOK, CountedAreServed, InUse, Stored, Form, Row, Batch, Apply, Load,
           Uncollected,
           table, xray, handler,
           jobs, history, bounds
  <1>2. CASE ForceRestart
    BY <1>2, ConfigStored, NothingAssumption, NoRowAssumption
       DEF TypeOK, CountedAreServed, InUse, Stored, Form, Row, Batch, ForceRestart,
           Load, Uncollected, table, xray, handler,
           jobs, history, bounds
  <1>3. ASSUME NEW q \in Ports, Carry(q) PROVE InUse'
    BY <1>3, ConfigStored, NothingAssumption, NoRowAssumption
       DEF TypeOK, CountedAreServed, InUse, Stored, Form, Row, Batch, Carry, table,
           xray, handler,
           jobs, history, bounds
  <1>4. ASSUME NEW h \in Handlers, SubmitAdd(h) PROVE InUse'
    BY <1>4, ConfigStored, NothingAssumption, NoRowAssumption
       DEF TypeOK, CountedAreServed, InUse, Stored, Form, Row, Batch, SubmitAdd, Begin,
           Goto, table, xray, handler,
           jobs, history, bounds
  <1>5. ASSUME NEW h \in Handlers, List(h) PROVE InUse'
    <2>1. PICK i \in Stored : form' = [form EXCEPT ![h] = [id |-> i, row |-> rows[i]]]
      BY <1>5 DEF List
    <2>2. i \in given /\ i # NoId
      BY StoreAssumption DEF InUse, Stored
    <2>3. UNCHANGED <<rows, given, running, batch, carried>>
      BY <1>5 DEF List, table, xray, jobs, history
    <2>4. QED
      BY <2>1, <2>2, <2>3 DEF TypeOK, InUse, Stored
  <1>6. ASSUME NEW h \in Handlers, SubmitUpdate(h) PROVE InUse'
    BY <1>6, ConfigStored, NothingAssumption, NoRowAssumption
       DEF TypeOK, CountedAreServed, InUse, Stored, Form, Row, Batch, SubmitUpdate,
           Goto, table, xray, handler,
           jobs, history, bounds
  <1>7. ASSUME NEW h \in Handlers, DelInbound(h) PROVE InUse'
    BY <1>7, ConfigStored, NothingAssumption, NoRowAssumption
       DEF TypeOK, CountedAreServed, InUse, Stored, Form, Row, Batch, DelInbound,
           Begin, Goto, table, xray, handler,
           jobs, history, bounds
  <1>8. ASSUME NEW h \in Handlers, CheckPort(h) PROVE InUse'
    BY <1>8, ConfigStored, NothingAssumption, NoRowAssumption
       DEF TypeOK, CountedAreServed, InUse, Stored, Form, Row, Batch, CheckPort,
           Return, Goto, table, xray, handler,
           jobs, history, bounds
  <1>9. ASSUME NEW h \in Handlers, GetRow(h) PROVE InUse'
    BY <1>9, ConfigStored, NothingAssumption, NoRowAssumption
       DEF TypeOK, CountedAreServed, InUse, Stored, Form, Row, Batch, GetRow, Return,
           Goto, table, xray, handler,
           jobs, history, bounds
  <1>10. ASSUME NEW h \in Handlers, SaveNew(h) PROVE InUse'
    BY <1>10, ConfigStored, NothingAssumption, NoRowAssumption
       DEF TypeOK, CountedAreServed, InUse, Stored, Form, Row, Batch, SaveNew, Saved,
           Return, Goto, table, xray, handler,
           jobs, history, bounds
  <1>11. ASSUME NEW h \in Handlers, SaveOld(h) PROVE InUse'
    BY <1>11, ConfigStored, NothingAssumption, NoRowAssumption
       DEF TypeOK, CountedAreServed, InUse, Stored, Form, Row, Batch, SaveOld, Saved,
           Return, Goto, table, xray, handler,
           jobs, history, bounds
  <1>12. ASSUME NEW h \in Handlers, SetToNeedRestart(h) PROVE InUse'
    BY <1>12, ConfigStored, NothingAssumption, NoRowAssumption
       DEF TypeOK, CountedAreServed, InUse, Stored, Form, Row, Batch, SetToNeedRestart,
           Goto, table, xray, handler,
           jobs, history, bounds
  <1>13. ASSUME NEW h \in Handlers, StatementFails(h) PROVE InUse'
    BY <1>13, ConfigStored, NothingAssumption, NoRowAssumption
       DEF TypeOK, CountedAreServed, InUse, Stored, Form, Row, Batch, StatementFails,
           Return, Goto, table, xray, handler,
           jobs, history, bounds
  <1>14. ASSUME NEW j \in Jobs, Collect(j) PROVE InUse'
    BY <1>14, ConfigStored, NothingAssumption, NoRowAssumption
       DEF TypeOK, CountedAreServed, InUse, Stored, Form, Row, Batch, Collect, table,
           xray, handler,
           jobs, history, bounds
  <1>14a. ASSUME NEW j \in Jobs, CollectFails(j) PROVE InUse'
    BY <1>14a, ConfigStored, NothingAssumption, NoRowAssumption
       DEF TypeOK, CountedAreServed, InUse, Stored, Form, Row, Batch, CollectFails,
           Uncollected, table,
           xray, handler,
           jobs, history, bounds
  <1>15. ASSUME NEW j \in Jobs, AddTraffic(j) PROVE InUse'
    BY <1>15, ConfigStored, NothingAssumption, NoRowAssumption
       DEF TypeOK, CountedAreServed, InUse, Stored, Form, Row, Batch, AddTraffic,
           table, xray, handler,
           jobs, history, bounds
  <1>16. ASSUME NEW j \in Jobs, AddTrafficFails(j) PROVE InUse'
    BY <1>16, ConfigStored, NothingAssumption, NoRowAssumption
       DEF TypeOK, CountedAreServed, InUse, Stored, Form, Row, Batch, AddTrafficFails,
           table, xray, handler,
           jobs, history, bounds
  <1>17. CASE DisableInvalid
    <2>1. Stored' = Stored
      BY <1>17, DisabledTable DEF DisableInvalid, Stored
    <2>2. UNCHANGED <<given, running, batch, carried, form>>
      BY <1>17 DEF DisableInvalid, xray, handler, history
    <2>3. QED
      BY <2>1, <2>2 DEF InUse
  <1>18. CASE DisabledNeedsRestart
    BY <1>18, ConfigStored, NothingAssumption, NoRowAssumption
       DEF TypeOK, CountedAreServed, InUse, Stored, Form, Row, Batch,
           DisabledNeedsRestart, table, xray, handler,
           jobs, history, bounds
  <1>19. CASE ExpiryPasses
    BY <1>19, ConfigStored, NothingAssumption, NoRowAssumption
       DEF TypeOK, CountedAreServed, InUse, Stored, Form, Row, Batch, ExpiryPasses,
           table, xray, handler,
           jobs, history, bounds
  <1>20. CASE PanelRestarts
    BY <1>20, ConfigStored, NothingAssumption, NoRowAssumption
       DEF TypeOK, CountedAreServed, InUse, Stored, Form, Row, Batch, PanelRestarts,
           Uncollected,
           table, xray, handler,
           jobs, history, bounds
  <1>21. CASE UNCHANGED vars
    BY <1>21, ConfigStored, NothingAssumption, NoRowAssumption
       DEF TypeOK, CountedAreServed, InUse, Stored, Form, Row, Batch, vars, table,
           xray, handler,
           jobs, history, bounds
  <1>22. QED
    BY <1>1, <1>2, <1>3, <1>4, <1>5, <1>6, <1>7, <1>8, <1>9, <1>10, <1>11, <1>12,
       <1>13, <1>14, <1>14a, <1>15, <1>16, <1>17, <1>18, <1>19, <1>20, <1>21
       DEF Next, Handle

\* An account is made of its row, of Xray's counters and of the batches.
LEMMA AccountSame ==
  ASSUME NEW i, UNCHANGED <<counter, running, batch>>, rows'[i].used = rows[i].used
  PROVE  Account(i)' = Account(i)
PROOF
  BY Accounts

\* Rows that keep their units keep their accounts.
LEMMA CreditedSame ==
  ASSUME Credited, UNCHANGED <<counter, running, batch, carried>>, disturbed \subseteq disturbed',
         \A i \in Stored' \ disturbed' : i \in Stored /\ rows'[i].used = rows[i].used
  PROVE  Credited'
PROOF
  <1>1. SUFFICES ASSUME NEW i \in Stored' \ disturbed' PROVE Account(i)' = carried'[i]
    BY DEF Credited
  <1>2. i \in Stored \ disturbed /\ rows'[i].used = rows[i].used
    BY <1>1
  <1>3. QED
    BY <1>2, AccountSame DEF Credited

\* A unit that is carried is counted.
LEMMA CarryCredited ==
  ASSUME TypeOK, Credited, NEW q \in Ports, Carry(q)
  PROVE  Credited'
PROOF
  <1>1. /\ running[q] # NoId
        /\ counter' = [counter EXCEPT ![q] = counter[q] + 1]
        /\ carried' = [carried EXCEPT ![running[q]] = carried[running[q]] + 1]
        /\ UNCHANGED <<rows, running, batch, disturbed>>
    BY Zenon DEF Carry, table, jobs
  <1>2. /\ counter \in [Ports -> Nat] /\ batch \in [Jobs -> Batch \cup {Nothing}]
        /\ carried \in [Ids -> Nat] /\ running[q] \in Ids
    BY <1>1 DEF TypeOK
  <1>3. SUFFICES ASSUME NEW i \in Stored' \ disturbed' PROVE Account(i)' = carried'[i]
    BY DEF Credited
  <1>4. i \in Stored \ disturbed /\ i \in Ids /\ rows[i] \in Row
    BY <1>1, <1>3 DEF Stored, TypeOK
  <1>5. Account(i) = carried[i]
    BY <1>4 DEF Credited
  <1>6. Held(counter', running, i) =
           Held(counter, running, i) + IF running[q] = i THEN 1 ELSE 0
    <2>1. /\ counter' \in [Ports -> Nat] /\ counter'[q] = counter[q] + 1
          /\ \A r \in Ports \ {q} : counter'[r] = counter[r]
      BY <1>1, <1>2
    <2>2. QED
      BY <1>2, <2>1, HeldMore
  <1>7. carried'[i] = carried[i] + IF running[q] = i THEN 1 ELSE 0
    BY <1>1, <1>2, <1>4
  <1>8. /\ rows[i].used \in Nat /\ Held(counter, running, i) \in Nat
        /\ SumFunctionOnSet(Waiting(batch, i), Jobs) \in Nat
    <2>1. rows[i].used \in Nat
      BY <1>4 DEF Row
    <2>2. Held(counter, running, i) \in Nat
      BY <1>2, HeldNat
    <2>3. QED
      BY <2>1, <2>2, <1>2, BatchNat
  <1>9. /\ Account(i) = rows[i].used + Held(counter, running, i)
                        + SumFunctionOnSet(Waiting(batch, i), Jobs)
        /\ Account(i)' = rows[i].used + Held(counter', running, i)
                         + SumFunctionOnSet(Waiting(batch, i), Jobs)
    BY <1>1, Accounts
  <1> HIDE DEF Credited
  <1>10. QED
    BY <1>5, <1>6, <1>7, <1>8, <1>9

\* A start ends the accounts of those whose units the old Xray held.
LEMMA LoadCredited ==
  ASSUME TypeOK, Credited, NEW config, Load(config), UNCHANGED <<rows, batch, carried>>
  PROVE  Credited'
PROOF
  <1>1. SUFFICES ASSUME NEW i \in Stored' \ disturbed' PROVE Account(i)' = carried'[i]
    BY DEF Credited
  <1>2. i \in Stored \ disturbed
    BY <1>1 DEF Stored, Load, Uncollected
  <1>3. \A q \in Ports : running[q] = i => counter[q] = 0
    BY <1>1 DEF TypeOK, Load, Uncollected
  <1>4. Held(counter, running, i) = 0
    BY <1>3, HeldNone
  <1>5. Held(counter', running', i) = 0
    <2>1. \A q \in Ports : counter'[q] = 0
      BY DEF Load, Uncollected
    <2>2. QED
      BY <2>1, HeldNone
  <1>6. Account(i)' = Account(i)
    BY <1>4, <1>5, Accounts
  <1>7. QED
    BY <1>2, <1>6 DEF Credited

\* A collection moves the units from Xray into a batch.
LEMMA CollectCredited ==
  ASSUME TypeOK, Credited, NEW j \in Jobs, Collect(j)
  PROVE  Credited'
PROOF
  <1> DEFINE new == [units |-> counter, owner |-> running]
  <1>1. /\ batch[j] = Nothing /\ batch' = [batch EXCEPT ![j] = new]
        /\ UNCHANGED <<rows, running, carried, disturbed>>
        /\ \A q \in Ports : counter'[q] = 0
    BY DEF Collect, table, history
  <1>2. /\ batch \in [Jobs -> Batch \cup {Nothing}] /\ new \in Batch /\ new # Nothing
        /\ \A q \in Ports : counter[q] \in Nat
    BY NothingAssumption DEF TypeOK, Batch
  <1>3. SUFFICES ASSUME NEW i \in Stored' \ disturbed' PROVE Account(i)' = carried'[i]
    BY DEF Credited
  <1>4. i \in Stored \ disturbed /\ rows[i].used \in Nat
    BY <1>1, <1>3 DEF Stored, TypeOK, Row
  <1>5. Waiting(batch, i)[j] = 0 /\ Waiting(batch', i)[j] = Held(counter, running, i)
    BY <1>1, <1>2 DEF Waiting
  <1>6. Held(counter', running', i) = 0 /\ Held(counter, running, i) \in Nat
    BY <1>1, <1>2, HeldNone, HeldNat
  <1>7. SumFunctionOnSet(Waiting(batch', i), Jobs) + Waiting(batch, i)[j] =
           SumFunctionOnSet(Waiting(batch, i), Jobs) + Waiting(batch', i)[j]
    <2>1. /\ batch' \in [Jobs -> Batch \cup {Nothing}]
          /\ \A k \in Jobs \ {j} : batch'[k] = batch[k]
      BY <1>1, <1>2
    <2>2. QED
      BY <1>2, <2>1, BatchChange
  <1>8. /\ SumFunctionOnSet(Waiting(batch, i), Jobs) \in Nat
        /\ SumFunctionOnSet(Waiting(batch', i), Jobs) \in Nat
    <2>1. batch' \in [Jobs -> Batch \cup {Nothing}]
      BY <1>1, <1>2
    <2>2. QED
      BY <1>2, <2>1, BatchNat
  <1>9. Account(i)' = Account(i)
    <2>1. /\ Account(i) = rows[i].used + Held(counter, running, i)
                          + SumFunctionOnSet(Waiting(batch, i), Jobs)
          /\ Account(i)' = rows'[i].used + Held(counter', running', i)
                           + SumFunctionOnSet(Waiting(batch', i), Jobs)
      BY Accounts
    <2>2. QED
      BY <1>1, <1>4, <1>5, <1>6, <1>7, <1>8, <2>1
  <1>10. QED
    BY <1>1, <1>4, <1>9 DEF Credited

\* A query that fails after its reset sets apart those whose units it lost.
LEMMA CollectFailsCredited ==
  ASSUME TypeOK, Credited, NEW j \in Jobs, CollectFails(j)
  PROVE  Credited'
PROOF
  <1>1. /\ UNCHANGED <<rows, running, batch, carried>>
        /\ disturbed' = disturbed \cup Uncollected
        /\ \A q \in Ports : counter'[q] = 0
    BY DEF CollectFails, table, jobs
  <1>2. SUFFICES ASSUME NEW i \in Stored' \ disturbed' PROVE Account(i)' = carried'[i]
    BY DEF Credited
  <1>3. i \in Stored \ disturbed /\ i \notin Uncollected
    BY <1>1, <1>2 DEF Stored
  <1>4. \A q \in Ports : running[q] = i => counter[q] = 0
    BY <1>3 DEF TypeOK, Uncollected
  <1>5. Held(counter, running, i) = 0
    BY <1>4, HeldNone
  <1>6. Held(counter', running', i) = 0
    BY <1>1, HeldNone
  <1>7. Account(i)' = Account(i)
    BY <1>1, <1>5, <1>6, Accounts
  <1>8. QED
    BY <1>1, <1>3, <1>7 DEF Credited

\* Units that are not misled go to the row of the inbound that carried them.
LEMMA RightCredit ==
  ASSUME TypeOK, PortsDistinct, NEW j \in Jobs, batch[j] # Nothing,
         NEW i \in Stored, i \notin Misled(batch[j])
  PROVE  Held(batch[j].units, batch[j].owner, i) = batch[j].units[rows[i].port]
PROOF
  <1> DEFINE b == batch[j]
             p == rows[i].port
  <1>1. p \in Ports /\ \A q \in Ports : b.units[q] \in Nat
    BY DEF TypeOK, Stored, Row, Batch
  <1>2. \A q \in Ports : b.units[q] > 0 /\ b.owner[q] = i => q = p
    BY DEF Misled, Astray
  <1>3. b.units[p] > 0 => b.owner[p] = i
    BY <1>1 DEF Misled, Astray, PortsDistinct
  <1>4. CASE b.units[p] = 0
    <2>1. \A q \in Ports : b.owner[q] = i => b.units[q] = 0
      BY <1>1, <1>2, <1>4
    <2>2. QED
      BY <1>4, <2>1, HeldNone
  <1>5. CASE b.units[p] # 0
    <2>1. b.owner[p] = i /\ \A q \in Ports \ {p} : b.owner[q] = i => b.units[q] = 0
      BY <1>1, <1>2, <1>3, <1>5
    <2> HIDE DEF b, p
    <2>2. Held(b.units, b.owner, i) = b.units[p]
      BY <1>1, <2>1, HeldOne
    <2>3. QED
      BY <2>2 DEF b, p
  <1>6. QED
    BY <1>4, <1>5

\* A credit moves the units from the batch into the rows.
LEMMA AddTrafficCredited ==
  ASSUME TypeOK, PortsDistinct, Credited, NEW j \in Jobs, AddTraffic(j)
  PROVE  Credited'
PROOF
  <1>1. /\ batch[j] # Nothing /\ batch' = [batch EXCEPT ![j] = Nothing]
        /\ UNCHANGED <<counter, running, carried>>
        /\ disturbed' = disturbed \cup Misled(batch[j])
    BY DEF AddTraffic, xray
  <1>2. batch \in [Jobs -> Batch \cup {Nothing}] /\ batch' \in [Jobs -> Batch \cup {Nothing}]
    BY <1>1 DEF TypeOK
  <1>3. SUFFICES ASSUME NEW i \in Stored' \ disturbed' PROVE Account(i)' = carried'[i]
    BY DEF Credited
  <1>4. /\ i \in Stored \ disturbed /\ i \notin Misled(batch[j])
        /\ rows[i].used \in Nat /\ rows[i].port \in Ports
    BY <1>1, <1>3 DEF AddTraffic, Stored, TypeOK, Row
  <1> DEFINE b == batch[j]
             credit == b.units[rows[i].port]
  <1>5. rows'[i].used = rows[i].used + credit /\ credit \in Nat
    BY <1>1, <1>2, <1>4 DEF AddTraffic, Stored, TypeOK, Row, Batch
  <1>6. Waiting(batch, i)[j] = credit /\ Waiting(batch', i)[j] = 0
    BY <1>1, <1>2, <1>4, RightCredit DEF Waiting
  <1> HIDE DEF b, credit
  <1>7. SumFunctionOnSet(Waiting(batch', i), Jobs) + Waiting(batch, i)[j] =
           SumFunctionOnSet(Waiting(batch, i), Jobs) + Waiting(batch', i)[j]
    <2>1. \A k \in Jobs \ {j} : batch'[k] = batch[k]
      BY <1>1, <1>2
    <2>2. QED
      BY <1>2, <2>1, BatchChange
  <1>8. /\ SumFunctionOnSet(Waiting(batch, i), Jobs) \in Nat
        /\ SumFunctionOnSet(Waiting(batch', i), Jobs) \in Nat
        /\ Held(counter, running, i) \in Nat
    BY <1>2, BatchNat, HeldNat DEF TypeOK
  <1>9. Account(i)' = Account(i)
    <2>1. /\ Account(i) = rows[i].used + Held(counter, running, i)
                          + SumFunctionOnSet(Waiting(batch, i), Jobs)
          /\ Account(i)' = rows'[i].used + Held(counter', running', i)
                           + SumFunctionOnSet(Waiting(batch', i), Jobs)
      BY Accounts
    <2>2. QED
      BY <1>1, <1>4, <1>5, <1>6, <1>7, <1>8, <2>1
  <1>10. QED
    BY <1>1, <1>4, <1>9 DEF Credited

\* A failed credit ends the accounts of those who carried the units.
LEMMA AddTrafficFailsCredited ==
  ASSUME TypeOK, Credited, NEW j \in Jobs, AddTrafficFails(j)
  PROVE  Credited'
PROOF
  <1>1. /\ batch[j] # Nothing /\ batch' = [batch EXCEPT ![j] = Nothing]
        /\ UNCHANGED <<rows, counter, running, carried>>
        /\ disturbed' = disturbed \cup Carriers(batch[j])
    BY DEF AddTrafficFails, xray, table
  <1>2. batch \in [Jobs -> Batch \cup {Nothing}] /\ batch' \in [Jobs -> Batch \cup {Nothing}]
    BY <1>1 DEF TypeOK
  <1>3. SUFFICES ASSUME NEW i \in Stored' \ disturbed' PROVE Account(i)' = carried'[i]
    BY DEF Credited
  <1>4. i \in Stored \ disturbed /\ i \notin Carriers(batch[j])
    BY <1>1, <1>3 DEF Stored
  <1>5. Waiting(batch, i)[j] = 0 /\ Waiting(batch', i)[j] = 0
    <2>1. \A q \in Ports : batch[j].owner[q] = i => batch[j].units[q] = 0
      BY <1>1, <1>2, <1>4 DEF Carriers, Batch
    <2>2. QED
      BY <1>1, <1>2, <2>1, HeldNone DEF Waiting
  <1>6. SumFunctionOnSet(Waiting(batch', i), Jobs) + Waiting(batch, i)[j] =
           SumFunctionOnSet(Waiting(batch, i), Jobs) + Waiting(batch', i)[j]
    <2>1. \A k \in Jobs \ {j} : batch'[k] = batch[k]
      BY <1>1, <1>2
    <2>2. QED
      BY <1>2, <2>1, BatchChange
  <1>7. /\ SumFunctionOnSet(Waiting(batch, i), Jobs) \in Nat
        /\ SumFunctionOnSet(Waiting(batch', i), Jobs) \in Nat
    BY <1>2, BatchNat
  <1>8. Account(i)' = Account(i)
    <2>1. /\ Account(i) = rows[i].used + Held(counter, running, i)
                          + SumFunctionOnSet(Waiting(batch, i), Jobs)
          /\ Account(i)' = rows'[i].used + Held(counter', running', i)
                           + SumFunctionOnSet(Waiting(batch', i), Jobs)
      BY Accounts
    <2>2. QED
      BY <1>1, <1>5, <1>6, <1>7, <2>1
  <1>9. QED
    BY <1>1, <1>4, <1>8 DEF Credited

\* A crash ends the accounts of those whose units Xray or a job held.
LEMMA PanelRestartsCredited ==
  ASSUME TypeOK, Credited, PanelRestarts
  PROVE  Credited'
PROOF
  <1>1. SUFFICES ASSUME NEW i \in Stored' \ disturbed' PROVE Account(i)' = carried'[i]
    BY DEF Credited
  <1>2. /\ UNCHANGED <<rows, carried>> /\ i \in Stored \ disturbed
        /\ \A q \in Ports : counter'[q] = 0
        /\ \A k \in Jobs : batch'[k] = Nothing
    BY <1>1 DEF PanelRestarts, Uncollected, table, Stored
  <1>3. Held(counter, running, i) = 0 /\ Held(counter', running', i) = 0
    <2>1. \A q \in Ports : running[q] = i => counter[q] = 0
      BY <1>1 DEF TypeOK, PanelRestarts, Uncollected
    <2>2. QED
      BY <2>1, <1>2, HeldNone
  <1>4. \A k \in Jobs : Waiting(batch, i)[k] = 0 /\ Waiting(batch', i)[k] = 0
    <2>1. ASSUME NEW k \in Jobs, batch[k] # Nothing
          PROVE  Held(batch[k].units, batch[k].owner, i) = 0
      <3>1. i \notin Carriers(batch[k])
        BY <1>1, <2>1 DEF PanelRestarts, Uncollected
      <3>2. \A q \in Ports : batch[k].units[q] \in Nat
        BY <2>1 DEF TypeOK, Batch
      <3>3. \A q \in Ports : batch[k].owner[q] = i => batch[k].units[q] = 0
        BY <3>1, <3>2 DEF Carriers
      <3>4. QED
        BY <3>3, HeldNone
    <2>2. QED
      BY <1>2, <2>1 DEF Waiting
  <1>5. /\ SumFunctionOnSet(Waiting(batch, i), Jobs) = 0
        /\ SumFunctionOnSet(Waiting(batch', i), Jobs) = 0
    BY <1>4, SumZero, StoreAssumption
  <1>6. Account(i)' = Account(i)
    BY <1>2, <1>3, <1>5, Accounts
  <1>7. QED
    BY <1>2, <1>6 DEF Credited

\* A new key has no account yet.
LEMMA SaveNewCredited ==
  ASSUME TypeOK, InUse, Credited, NEW h \in Handlers, SaveNew(h)
  PROVE  Credited'
PROOF
  <1>1. UNCHANGED <<counter, running, batch, carried>>
    BY DEF SaveNew, xray, jobs
  <1>2. CASE UNCHANGED <<rows, given, disturbed>>
    BY <1>1, <1>2, CreditedSame DEF Stored
  <1>3. ASSUME NEW k \in Ids \ Stored, Saved(k, form[h].row), form[h].id = NoId,
               pc[h] = "save"
        PROVE  Credited'
    <2>1. /\ rows' = [rows EXCEPT ![k] = form[h].row] /\ disturbed \subseteq disturbed'
          /\ k \in given => k \in disturbed'
      BY <1>3 DEF Saved
    <2>2. form[h].row.used = 0
      BY <1>3 DEF InUse, TypeOK
    <2>3. SUFFICES ASSUME NEW i \in Stored' \ disturbed' PROVE Account(i)' = carried'[i]
      BY DEF Credited
    <2>4. CASE i # k
      <3>1. rows'[i] = rows[i] /\ i \in Stored \ disturbed
        BY <2>1, <2>3, <2>4 DEF Stored, TypeOK
      <3>2. QED
        BY <1>1, <3>1, AccountSame DEF Credited
    <2>5. CASE i = k
      <3>1. i \in Ids \ given /\ i # NoId
        BY <1>3, <2>1, <2>3, <2>5, StoreAssumption
      <3>2. carried[i] = 0 /\ rows'[i].used = 0
        BY <2>1, <2>2, <2>5, <3>1 DEF InUse, TypeOK
      <3>3. Held(counter, running, i) = 0
        BY <3>1, HeldNone DEF InUse
      <3>4. \A j \in Jobs : Waiting(batch, i)[j] = 0
        <4>1. ASSUME NEW j \in Jobs, batch[j] # Nothing
              PROVE  Held(batch[j].units, batch[j].owner, i) = 0
          <5>1. \A q \in Ports : batch[j].owner[q] # i
            BY <3>1, <4>1 DEF InUse
          <5>2. QED
            BY <5>1, HeldNone
        <4>2. QED
          BY <4>1 DEF Waiting
      <3>5. SumFunctionOnSet(Waiting(batch, i), Jobs) = 0
        BY <3>4, SumZero, StoreAssumption
      <3>6. QED
        BY <1>1, <3>2, <3>3, <3>5, Accounts
    <2>6. QED
      BY <2>4, <2>5
  <1>4. QED
    BY <1>2, <1>3 DEF SaveNew

\* The sums are natural numbers, before and after a step.
LEMMA SumsNat ==
  ASSUME TypeOK, TypeOK', NEW peak \in [Ids -> Nat]
  PROVE  /\ SumFunctionOnSet(peak, Ids) \in Nat
         /\ SumFunctionOnSet(counter, Ports) \in Nat
         /\ SumFunctionOnSet(counter', Ports) \in Nat
         /\ SumFunctionOnSet(Collected(batch), Jobs) \in Nat
         /\ SumFunctionOnSet(Collected(batch'), Jobs) \in Nat
         /\ SumFunctionOnSet(carried, Ids) \in Nat
PROOF
  <1>1. /\ counter \in [Ports -> Nat] /\ counter' \in [Ports -> Nat]
        /\ batch \in [Jobs -> Batch \cup {Nothing}]
        /\ batch' \in [Jobs -> Batch \cup {Nothing}]
        /\ carried \in [Ids -> Nat]
    BY DEF TypeOK
  <1>2. /\ SumFunctionOnSet(Collected(batch), Jobs) \in Nat
        /\ SumFunctionOnSet(Collected(batch'), Jobs) \in Nat
    BY <1>1, BatchNat
  <1>3. SumFunctionOnSet(counter, Ports) \in Nat /\ SumFunctionOnSet(counter', Ports) \in Nat
    BY <1>1, SumNat, StoreAssumption
  <1>4. SumFunctionOnSet(peak, Ids) \in Nat /\ SumFunctionOnSet(carried, Ids) \in Nat
    BY <1>1, SumNat, StoreAssumption
  <1>5. QED
    BY <1>2, <1>3, <1>4

\* Units that leave the counters and the batches leave room.
LEMMA FitsLess ==
  ASSUME TypeOK, TypeOK', NEW peak \in [Ids -> Nat], Fits(peak), carried' = carried,
         \A q \in Ports : counter'[q] \in {0, counter[q]},
         \A j \in Jobs : batch'[j] \in {Nothing, batch[j]}
  PROVE  Fits(peak)'
PROOF
  <1>1. SumFunctionOnSet(counter', Ports) <= SumFunctionOnSet(counter, Ports)
    <2>1. \A q \in Ports : /\ counter'[q] \in Nat /\ counter[q] \in Nat
                           /\ counter'[q] <= counter[q]
      BY DEF TypeOK
    <2>2. QED
      BY <2>1, SumMono, StoreAssumption
  <1>2. SumFunctionOnSet(Collected(batch'), Jobs) <= SumFunctionOnSet(Collected(batch), Jobs)
    <2>1. /\ batch \in [Jobs -> Batch \cup {Nothing}]
          /\ batch' \in [Jobs -> Batch \cup {Nothing}]
      BY DEF TypeOK
    <2>2. \A j \in Jobs : Collected(batch)[j] \in Nat /\ Collected(batch')[j] \in Nat
      BY <2>1, BatchNat
    <2>3. \A j \in Jobs : Collected(batch')[j] \in {0, Collected(batch)[j]}
      BY DEF Collected
    <2>4. \A j \in Jobs : Collected(batch')[j] <= Collected(batch)[j]
      BY <2>2, <2>3
    <2>5. QED
      BY <2>2, <2>4, SumMono, StoreAssumption
  <1>3. QED
    BY <1>1, <1>2, SumsNat DEF Fits

\* A unit that is carried is counted once.
LEMMA FitsCarry ==
  ASSUME TypeOK, TypeOK', NEW peak \in [Ids -> Nat], Fits(peak), NEW q \in Ports, Carry(q)
  PROVE  Fits(peak)'
PROOF
  <1>1. /\ running[q] # NoId
        /\ counter' = [counter EXCEPT ![q] = counter[q] + 1]
        /\ carried' = [carried EXCEPT ![running[q]] = carried[running[q]] + 1]
        /\ batch' = batch
    BY Zenon DEF Carry, jobs
  <1>2. /\ counter \in [Ports -> Nat] /\ counter' \in [Ports -> Nat]
        /\ carried \in [Ids -> Nat] /\ carried' \in [Ids -> Nat] /\ running[q] \in Ids
    BY <1>1 DEF TypeOK
  <1>3. SumFunctionOnSet(counter', Ports) = SumFunctionOnSet(counter, Ports) + 1
    <2>1. /\ \A r \in Ports : counter[r] \in Nat /\ counter'[r] \in Nat
          /\ \A r \in Ports \ {q} : counter'[r] = counter[r]
          /\ counter'[q] = counter[q] + 1
      BY <1>1, <1>2
    <2>2. SumFunctionOnSet(counter', Ports) + counter[q] =
             SumFunctionOnSet(counter, Ports) + counter'[q]
      BY <2>1, SumChange, StoreAssumption
    <2>3. QED
      BY <2>1, <2>2, SumsNat
  <1>4. SumFunctionOnSet(carried', Ids) = SumFunctionOnSet(carried, Ids) + 1
    <2> DEFINE i == running[q]
    <2>1. /\ \A k \in Ids : carried[k] \in Nat /\ carried'[k] \in Nat
          /\ \A k \in Ids \ {i} : carried'[k] = carried[k]
          /\ carried'[i] = carried[i] + 1 /\ i \in Ids
      BY <1>1, <1>2
    <2> HIDE DEF i
    <2>2. SumFunctionOnSet(carried', Ids) + carried[i] =
             SumFunctionOnSet(carried, Ids) + carried'[i]
      BY <2>1, SumChange, StoreAssumption
    <2>3. SumFunctionOnSet(carried', Ids) \in Nat
      BY <2>1, SumNat, StoreAssumption
    <2>4. QED
      BY <2>1, <2>2, <2>3, SumsNat
  <1>5. QED
    BY <1>1, <1>3, <1>4, SumsNat DEF Fits

\* A collection takes from Xray what it puts into the batch.
LEMMA FitsCollect ==
  ASSUME TypeOK, TypeOK', NEW peak \in [Ids -> Nat], Fits(peak), NEW j \in Jobs, Collect(j)
  PROVE  Fits(peak)'
PROOF
  <1>1. /\ batch[j] = Nothing /\ batch'[j] # Nothing /\ batch'[j].units = counter
        /\ \A k \in Jobs \ {j} : batch'[k] = batch[k]
        /\ \A q \in Ports : counter'[q] = 0
        /\ carried' = carried
    BY NothingAssumption DEF TypeOK, Batch, Collect, history
  <1>2. Collected(batch)[j] = 0 /\ Collected(batch')[j] = SumFunctionOnSet(counter, Ports)
    BY <1>1 DEF Collected
  <1>3. SumFunctionOnSet(Collected(batch'), Jobs) + Collected(batch)[j] =
           SumFunctionOnSet(Collected(batch), Jobs) + Collected(batch')[j]
    <2>1. /\ batch \in [Jobs -> Batch \cup {Nothing}]
          /\ batch' \in [Jobs -> Batch \cup {Nothing}]
      BY DEF TypeOK
    <2>2. QED
      BY <1>1, <2>1, BatchChange
  <1>4. SumFunctionOnSet(counter', Ports) = 0
    BY <1>1, SumZero, StoreAssumption
  <1>5. QED
    BY <1>1, <1>2, <1>3, <1>4, SumsNat DEF Fits

\* A credit gives the rows no more than the batch had: ports are distinct.
LEMMA AddTrafficOvercharge ==
  ASSUME TypeOK, TypeOK', PortsDistinct, NEW peak \in [Ids -> Nat], Shown(peak), Fits(peak),
         NEW j \in Jobs, AddTraffic(j)
  PROVE  NotOvercharged'
PROOF
  <1> DEFINE units == batch[j].units
             bonus == [i \in Ids |-> IF i \in Stored THEN units[rows[i].port] ELSE 0]
  <1>1. /\ batch[j] # Nothing /\ batch'[j] = Nothing
        /\ \A k \in Jobs \ {j} : batch'[k] = batch[k]
        /\ \A i \in Ids : i \notin Stored => rows'[i] = NoRow
        /\ \A i \in Stored : rows'[i] = [rows[i] EXCEPT !.used = @ + units[rows[i].port]]
        /\ UNCHANGED <<counter, carried, form>>
    BY DEF TypeOK, AddTraffic, xray, handler, Stored
  <1>2. \A q \in Ports : units[q] \in Nat
    BY <1>1 DEF TypeOK, Batch
  <1>3. \A i \in Stored : i \in Ids /\ rows[i].port \in Ports /\ rows[i].used \in Nat
    BY DEF TypeOK, Stored, Row
  <1>4. \A i \in Ids : bonus[i] \in Nat
    BY <1>2, <1>3
  <1>5. PICK higher \in [Ids -> Nat] : \A i \in Ids : higher[i] = peak[i] + bonus[i]
    <2>1. [i \in Ids |-> peak[i] + bonus[i]] \in [Ids -> Nat]
      BY <1>4
    <2> HIDE DEF bonus
    <2>2. QED
      BY <2>1
  <1>6. Shown(higher)'
    <2>1. ASSUME NEW i \in Stored' PROVE rows'[i].used <= higher[i]
      <3>1. i \in Stored /\ rows'[i].used = rows[i].used + units[rows[i].port]
        BY <1>1, <2>1 DEF Stored, TypeOK, Row
      <3>2. rows[i].used <= peak[i] /\ higher[i] = peak[i] + units[rows[i].port]
        BY <3>1, <1>3, <1>5 DEF Shown
      <3>3. units[rows[i].port] \in Nat
        BY <1>2, <1>3, <3>1
      <3>4. QED
        BY <3>1, <3>2, <3>3, <1>3
    <2>2. ASSUME NEW h \in Handlers, form'[h] # Nothing, form'[h].id # NoId
          PROVE  form'[h].row.used <= higher[form'[h].id]
      <3>1. form[h] \in Form /\ form'[h] = form[h]
        BY <1>1, <2>2 DEF TypeOK
      <3>2. form[h].id \in Ids /\ form[h].row.used \in Nat
        BY <2>2, <3>1 DEF Form, Row
      <3>3. form[h].row.used <= peak[form[h].id]
        BY <2>2, <3>1 DEF Shown
      <3>4. peak[form[h].id] <= higher[form[h].id] /\ peak[form[h].id] \in Nat
            /\ higher[form[h].id] \in Nat
        BY <3>2, <1>4, <1>5
      <3>5. QED
        BY <3>1, <3>2, <3>3, <3>4
    <2>3. QED
      BY <2>1, <2>2 DEF Shown
  <1>7. SumFunctionOnSet(bonus, Ids) <= SumFunctionOnSet(units, Ports)
    <2> DEFINE to == [i \in Stored |-> rows[i].port]
    <2>1. /\ Stored \in SUBSET Ids /\ \A i \in Ids \ Stored : bonus[i] = 0
          /\ \A i \in Stored : to[i] \in Ports /\ bonus[i] <= units[to[i]]
          /\ \A i, k \in Stored : i # k => to[i] # to[k]
      BY <1>2, <1>3 DEF Stored, PortsDistinct
    <2>2. \A i \in Ids : bonus[i] \in Nat
      BY <1>4
    <2> HIDE DEF bonus, to, units
    <2>3. QED
      BY <1>2, <2>1, <2>2, SumDominated, StoreAssumption
  <1>8. SumFunctionOnSet(higher, Ids) = SumFunctionOnSet(peak, Ids) + SumFunctionOnSet(bonus, Ids)
    <2>1. \A i \in Ids : peak[i] \in Nat /\ bonus[i] \in Nat /\ higher[i] = peak[i] + bonus[i]
      BY <1>4, <1>5
    <2> HIDE DEF bonus
    <2>2. QED
      BY <2>1, SumPlus, StoreAssumption
  <1>9. SumFunctionOnSet(Collected(batch'), Jobs) + SumFunctionOnSet(units, Ports) =
           SumFunctionOnSet(Collected(batch), Jobs)
    <2>1. /\ batch \in [Jobs -> Batch \cup {Nothing}]
          /\ batch' \in [Jobs -> Batch \cup {Nothing}]
      BY DEF TypeOK
    <2>2. SumFunctionOnSet(Collected(batch'), Jobs) + Collected(batch)[j] =
             SumFunctionOnSet(Collected(batch), Jobs) + Collected(batch')[j]
      BY <1>1, <2>1, BatchChange
    <2>3. Collected(batch)[j] = SumFunctionOnSet(units, Ports) /\ Collected(batch')[j] = 0
      BY <1>1 DEF Collected
    <2>4. QED
      BY <2>2, <2>3, SumsNat
  <1>10. SumFunctionOnSet(bonus, Ids) \in Nat /\ SumFunctionOnSet(units, Ports) \in Nat
    <2>1. \A i \in Ids : bonus[i] \in Nat
      BY <1>4
    <2> HIDE DEF bonus, units
    <2>2. QED
      BY <2>1, <1>2, SumNat, StoreAssumption
  <1> HIDE DEF bonus, units
  <1>11. Fits(higher)'
    BY <1>1, <1>7, <1>8, <1>9, <1>10, SumsNat DEF Fits
  <1>12. QED
    BY <1>5, <1>6, <1>11 DEF NotOvercharged

\* A unit stays on the account of the inbound that carried it, or the inbound
\* is set apart.
LEMMA CreditedStep ==
  ASSUME TypeOK, PortsDistinct, InUse, Credited, [Next]_vars
  PROVE  Credited'
PROOF
  <1>1. CASE Apply
    <2>1. CASE UNCHANGED <<running, counter, disturbed>>
      BY <1>1, <2>1, CreditedSame DEF Apply, Stored, table, jobs
    <2>2. CASE Load(Config(rows))
      BY <1>1, <2>2, LoadCredited DEF Apply, table, jobs
    <2>3. QED
      BY <1>1, <2>1, <2>2 DEF Apply
  <1>2. CASE ForceRestart
    BY <1>2, LoadCredited DEF ForceRestart, table, jobs
  <1>3. ASSUME NEW q \in Ports, Carry(q) PROVE Credited'
    BY <1>3, CarryCredited
  <1>4. ASSUME NEW h \in Handlers, SubmitAdd(h) PROVE Credited'
    BY <1>4, CreditedSame
       DEF SubmitAdd, Stored, table, xray, jobs, history, handler
  <1>5. ASSUME NEW h \in Handlers, List(h) PROVE Credited'
    BY <1>5, CreditedSame
       DEF List, Stored, table, xray, jobs, history, handler
  <1>6. ASSUME NEW h \in Handlers, SubmitUpdate(h) PROVE Credited'
    BY <1>6, CreditedSame
       DEF SubmitUpdate, Stored, table, xray, jobs, history, handler
  <1>7. ASSUME NEW h \in Handlers, DelInbound(h) PROVE Credited'
    <2>1. /\ UNCHANGED <<counter, running, batch, carried>> /\ disturbed \subseteq disturbed'
          /\ \A i \in Stored' \ disturbed' : i \in Stored /\ rows'[i].used = rows[i].used
      BY <1>7 DEF DelInbound, Stored, TypeOK, InUse, xray, jobs, history
    <2>2. QED
      BY <2>1, CreditedSame
  <1>8. ASSUME NEW h \in Handlers, CheckPort(h) PROVE Credited'
    BY <1>8, CreditedSame
       DEF CheckPort, Stored, table, xray, jobs, history, handler
  <1>9. ASSUME NEW h \in Handlers, GetRow(h) PROVE Credited'
    BY <1>9, CreditedSame
       DEF GetRow, Stored, table, xray, jobs, history, handler
  <1>10. ASSUME NEW h \in Handlers, SaveNew(h) PROVE Credited'
    BY <1>10, SaveNewCredited
  <1>11. ASSUME NEW h \in Handlers, SaveOld(h) PROVE Credited'
    <2>1. /\ UNCHANGED <<counter, running, batch, carried>> /\ disturbed \subseteq disturbed'
          /\ \A i \in Stored' \ disturbed' : i \in Stored /\ rows'[i].used = rows[i].used
      BY <1>11 DEF SaveOld, Saved, Stored, TypeOK, InUse, xray, jobs, history
    <2>2. QED
      BY <2>1, CreditedSame
  <1>12. ASSUME NEW h \in Handlers, SetToNeedRestart(h) PROVE Credited'
    BY <1>12, CreditedSame
       DEF SetToNeedRestart, Stored, table, xray, jobs, history, handler
  <1>13. ASSUME NEW h \in Handlers, StatementFails(h) PROVE Credited'
    BY <1>13, CreditedSame
       DEF StatementFails, Stored, table, xray, jobs, history, handler
  <1>14. ASSUME NEW j \in Jobs, Collect(j) PROVE Credited'
    BY <1>14, CollectCredited
  <1>14a. ASSUME NEW j \in Jobs, CollectFails(j) PROVE Credited'
    BY <1>14a, CollectFailsCredited
  <1>15. ASSUME NEW j \in Jobs, AddTraffic(j) PROVE Credited'
    BY <1>15, AddTrafficCredited
  <1>16. ASSUME NEW j \in Jobs, AddTrafficFails(j) PROVE Credited'
    BY <1>16, AddTrafficFailsCredited
  <1>17. CASE DisableInvalid
    <2>1. \A i \in Stored' : i \in Stored /\ rows'[i].used = rows[i].used
      <3>1. \A i \in Ids : rows'[i] \in {rows[i], [rows[i] EXCEPT !.enable = FALSE]}
        BY <1>17 DEF DisableInvalid, Disabled
      <3>2. \A i \in Ids : rows'[i] = NoRow <=> rows[i] = NoRow
        BY <1>17, DisabledTable DEF DisableInvalid
      <3>3. \A i \in Stored : rows[i] \in Row
        BY DEF Stored, TypeOK
      <3>4. QED
        BY <3>1, <3>2, <3>3 DEF Stored, Row
    <2>2. QED
      BY <1>17, <2>1, CreditedSame DEF DisableInvalid, xray, history
  <1>18. CASE DisabledNeedsRestart
    BY <1>18, CreditedSame
       DEF DisabledNeedsRestart, Stored, table, xray, jobs, history, handler
  <1>19. CASE ExpiryPasses
    BY <1>19, CreditedSame
       DEF ExpiryPasses, Stored, table, xray, jobs, history, handler
  <1>20. CASE PanelRestarts
    BY <1>20, PanelRestartsCredited
  <1>21. CASE UNCHANGED vars
    BY <1>21, CreditedSame
       DEF vars, Stored, table, xray, jobs, history, handler
  <1>22. QED
    BY <1>1, <1>2, <1>3, <1>4, <1>5, <1>6, <1>7, <1>8, <1>9, <1>10, <1>11, <1>12,
       <1>13, <1>14, <1>14a, <1>15, <1>16, <1>17, <1>18, <1>19, <1>20, <1>21
       DEF Next, Handle

\* No unit is counted twice.
LEMMA OverchargedStep ==
  ASSUME TypeOK, TypeOK', PortsDistinct, InUse, NotOvercharged, [Next]_vars
  PROVE  NotOvercharged'
PROOF
  <1>0. PICK peak \in [Ids -> Nat] : Shown(peak) /\ Fits(peak)
    BY DEF NotOvercharged
  <1>1. CASE Apply
    <2>1. Shown(peak)'
      BY <1>1, <1>0, StoreAssumption, NothingAssumption
         DEF Shown, Stored, Apply, table, handler
    <2>2. Fits(peak)'
      BY <1>1, <1>0, FitsLess DEF Apply, Load, Uncollected, jobs
    <2>3. QED
      BY <2>1, <2>2, <1>0 DEF NotOvercharged
  <1>2. CASE ForceRestart
    <2>1. Shown(peak)'
      BY <1>2, <1>0, StoreAssumption, NothingAssumption
         DEF Shown, Stored, ForceRestart, table, handler
    <2>2. Fits(peak)'
      BY <1>2, <1>0, FitsLess DEF ForceRestart, Load, Uncollected, jobs
    <2>3. QED
      BY <2>1, <2>2, <1>0 DEF NotOvercharged
  <1>3. ASSUME NEW q \in Ports, Carry(q) PROVE NotOvercharged'
    <2>1. Shown(peak)'
      BY <1>3, <1>0 DEF Carry, Shown, Stored, table, handler
    <2>2. QED
      BY <1>3, <1>0, <2>1, FitsCarry DEF NotOvercharged
  <1>4. ASSUME NEW h \in Handlers, SubmitAdd(h) PROVE NotOvercharged'
    <2>1. Shown(peak)'
      BY <1>4, <1>0, StoreAssumption, NothingAssumption
         DEF Shown, Stored, SubmitAdd, table, TypeOK
    <2>2. Fits(peak)'
      BY <1>4, <1>0, FitsLess DEF SubmitAdd, xray, jobs, history
    <2>3. QED
      BY <2>1, <2>2, <1>0 DEF NotOvercharged
  <1>5. ASSUME NEW h \in Handlers, List(h) PROVE NotOvercharged'
    <2>1. Shown(peak)'
      BY <1>5, <1>0, StoreAssumption, NothingAssumption
         DEF Shown, Stored, List, TypeOK, Row, table
    <2>2. Fits(peak)'
      BY <1>5, <1>0, FitsLess DEF List, xray, jobs, history
    <2>3. QED
      BY <2>1, <2>2, <1>0 DEF NotOvercharged
  <1>6. ASSUME NEW h \in Handlers, SubmitUpdate(h) PROVE NotOvercharged'
    <2>1. Shown(peak)'
      BY <1>6, <1>0, StoreAssumption, NothingAssumption
         DEF Shown, Stored, SubmitUpdate, Edits, TypeOK, Form, Row, table
    <2>2. Fits(peak)'
      BY <1>6, <1>0, FitsLess DEF SubmitUpdate, xray, jobs, history
    <2>3. QED
      BY <2>1, <2>2, <1>0 DEF NotOvercharged
  <1>7. ASSUME NEW h \in Handlers, DelInbound(h) PROVE NotOvercharged'
    <2>1. Shown(peak)'
      BY <1>7, <1>0, StoreAssumption, NothingAssumption
         DEF Shown, Stored, DelInbound, TypeOK
    <2>2. Fits(peak)'
      BY <1>7, <1>0, FitsLess DEF DelInbound, xray, jobs, history
    <2>3. QED
      BY <2>1, <2>2, <1>0 DEF NotOvercharged
  <1>8. ASSUME NEW h \in Handlers, CheckPort(h) PROVE NotOvercharged'
    <2>1. Shown(peak)'
      BY <1>8, <1>0, StoreAssumption, NothingAssumption
         DEF Shown, Stored, CheckPort, Return, table, TypeOK
    <2>2. Fits(peak)'
      BY <1>8, <1>0, FitsLess DEF CheckPort, xray, jobs, history
    <2>3. QED
      BY <2>1, <2>2, <1>0 DEF NotOvercharged
  <1>9. ASSUME NEW h \in Handlers, GetRow(h) PROVE NotOvercharged'
    <2>1. Shown(peak)'
      BY <1>9, <1>0, StoreAssumption, NothingAssumption
         DEF Shown, Stored, GetRow, Return, table, TypeOK
    <2>2. Fits(peak)'
      BY <1>9, <1>0, FitsLess DEF GetRow, xray, jobs, history
    <2>3. QED
      BY <2>1, <2>2, <1>0 DEF NotOvercharged
  <1>10. ASSUME NEW h \in Handlers, SaveNew(h) PROVE NotOvercharged'
    <2>1. Shown(peak)'
      BY <1>10, <1>0, StoreAssumption, NothingAssumption
         DEF Shown, Stored, SaveNew, Saved, Return, TypeOK, InUse, Form, Row
    <2>2. Fits(peak)'
      BY <1>10, <1>0, FitsLess DEF SaveNew, xray, jobs
    <2>3. QED
      BY <2>1, <2>2, <1>0 DEF NotOvercharged
  <1>11. ASSUME NEW h \in Handlers, SaveOld(h) PROVE NotOvercharged'
    <2>1. Shown(peak)'
      <3>1. /\ form[h] \in Form /\ form[h] # Nothing /\ form[h].id # NoId
            /\ form' = [form EXCEPT ![h] = Nothing]
        BY <1>11 DEF TypeOK, SaveOld, Return
      <3>2. form[h].id \in Ids /\ form[h].row.used <= peak[form[h].id]
        BY <1>0, <3>1 DEF Shown, Form
      <3>3. rows' = rows \/ rows' = [rows EXCEPT ![form[h].id] = form[h].row]
        BY <1>11 DEF SaveOld, Saved
      <3>4. \A i \in Stored' : rows'[i].used <= peak[i]
        BY <1>0, <3>2, <3>3 DEF Shown, Stored, TypeOK
      <3>5. \A g \in Handlers : form'[g] # Nothing => form'[g] = form[g]
        BY <3>1 DEF TypeOK
      <3>6. QED
        BY <1>0, <3>4, <3>5 DEF Shown
    <2>2. Fits(peak)'
      BY <1>11, <1>0, FitsLess DEF SaveOld, xray, jobs
    <2>3. QED
      BY <2>1, <2>2, <1>0 DEF NotOvercharged
  <1>12. ASSUME NEW h \in Handlers, SetToNeedRestart(h) PROVE NotOvercharged'
    <2>1. Shown(peak)'
      BY <1>12, <1>0, StoreAssumption, NothingAssumption
         DEF Shown, Stored, SetToNeedRestart, table
    <2>2. Fits(peak)'
      BY <1>12, <1>0, FitsLess DEF SetToNeedRestart, xray, jobs, history
    <2>3. QED
      BY <2>1, <2>2, <1>0 DEF NotOvercharged
  <1>13. ASSUME NEW h \in Handlers, StatementFails(h) PROVE NotOvercharged'
    <2>1. Shown(peak)'
      BY <1>13, <1>0, StoreAssumption, NothingAssumption
         DEF Shown, Stored, StatementFails, Return, table, TypeOK
    <2>2. Fits(peak)'
      BY <1>13, <1>0, FitsLess DEF StatementFails, xray, jobs, history
    <2>3. QED
      BY <2>1, <2>2, <1>0 DEF NotOvercharged
  <1>14. ASSUME NEW j \in Jobs, Collect(j) PROVE NotOvercharged'
    <2>1. Shown(peak)'
      BY <1>14, <1>0 DEF Collect, Shown, Stored, table, handler
    <2>2. QED
      BY <1>14, <1>0, <2>1, FitsCollect DEF NotOvercharged
  <1>14a. ASSUME NEW j \in Jobs, CollectFails(j) PROVE NotOvercharged'
    <2>1. Shown(peak)'
      BY <1>14a, <1>0, StoreAssumption, NothingAssumption
         DEF Shown, Stored, CollectFails, table, handler
    <2>2. Fits(peak)'
      BY <1>14a, <1>0, FitsLess DEF CollectFails, jobs
    <2>3. QED
      BY <2>1, <2>2, <1>0 DEF NotOvercharged
  <1>15. ASSUME NEW j \in Jobs, AddTraffic(j) PROVE NotOvercharged'
    BY <1>15, <1>0, AddTrafficOvercharge
  <1>16. ASSUME NEW j \in Jobs, AddTrafficFails(j) PROVE NotOvercharged'
    <2>1. Shown(peak)'
      BY <1>16, <1>0, StoreAssumption, NothingAssumption
         DEF Shown, Stored, AddTrafficFails, table, handler
    <2>2. Fits(peak)'
      BY <1>16, <1>0, FitsLess DEF AddTrafficFails, xray, TypeOK
    <2>3. QED
      BY <2>1, <2>2, <1>0 DEF NotOvercharged
  <1>17. CASE DisableInvalid
    <2>1. Shown(peak)'
      BY <1>17, <1>0, StoreAssumption, NothingAssumption
         DEF Shown, Stored, DisableInvalid, Disabled, TypeOK, Row, handler
    <2>2. Fits(peak)'
      BY <1>17, <1>0, FitsLess DEF DisableInvalid, xray, jobs, history
    <2>3. QED
      BY <2>1, <2>2, <1>0 DEF NotOvercharged
  <1>18. CASE DisabledNeedsRestart
    <2>1. Shown(peak)'
      BY <1>18, <1>0, StoreAssumption, NothingAssumption
         DEF Shown, Stored, DisabledNeedsRestart, table, handler
    <2>2. Fits(peak)'
      BY <1>18, <1>0, FitsLess DEF DisabledNeedsRestart, xray, jobs, history
    <2>3. QED
      BY <2>1, <2>2, <1>0 DEF NotOvercharged
  <1>19. CASE ExpiryPasses
    <2>1. Shown(peak)'
      BY <1>19, <1>0, StoreAssumption, NothingAssumption
         DEF Shown, Stored, ExpiryPasses, table, handler
    <2>2. Fits(peak)'
      BY <1>19, <1>0, FitsLess DEF ExpiryPasses, xray, jobs, history
    <2>3. QED
      BY <2>1, <2>2, <1>0 DEF NotOvercharged
  <1>20. CASE PanelRestarts
    <2>1. Shown(peak)'
      BY <1>20, <1>0, StoreAssumption, NothingAssumption
         DEF Shown, Stored, PanelRestarts, Uncollected, table, TypeOK
    <2>2. Fits(peak)'
      BY <1>20, <1>0, FitsLess DEF PanelRestarts, Uncollected
    <2>3. QED
      BY <2>1, <2>2, <1>0 DEF NotOvercharged
  <1>21. CASE UNCHANGED vars
    <2>1. Shown(peak)'
      BY <1>21, <1>0, StoreAssumption, NothingAssumption
         DEF Shown, Stored, vars, table, handler
    <2>2. Fits(peak)'
      BY <1>21, <1>0, FitsLess DEF vars, xray, jobs, history
    <2>3. QED
      BY <2>1, <2>2, <1>0 DEF NotOvercharged
  <1>22. QED
    BY <1>1, <1>2, <1>3, <1>4, <1>5, <1>6, <1>7, <1>8, <1>9, <1>10, <1>11, <1>12,
       <1>13, <1>14, <1>14a, <1>15, <1>16, <1>17, <1>18, <1>19, <1>20, <1>21
       DEF Next, Handle

\* A new table has carried nothing.
LEMMA TrafficInit ==
  ASSUME Init
  PROVE  InUse /\ Credited /\ NotOvercharged
PROOF
  <1>1. /\ \A i \in Stored : i \in given /\ rows[i].used = 0
        /\ \A i \in Ids : carried[i] = 0
        /\ \A q \in Ports : counter[q] = 0
        /\ \A j \in Jobs : batch[j] = Nothing
        /\ \A h \in Handlers : form[h] = Nothing
    BY DEF Init, Stored
  <1>2. InUse
    <2>1. \A q \in Ports : running[q] \in Stored \cup {NoId}
      BY ConfigStored DEF Init
    <2>2. QED
      BY <1>1, <2>1 DEF InUse
  <1>3. Credited
    <2>1. SUFFICES ASSUME NEW i \in Stored PROVE Account(i) = carried[i]
      BY DEF Credited
    <2>2. Held(counter, running, i) = 0
      BY <1>1, HeldNone
    <2>3. SumFunctionOnSet(Waiting(batch, i), Jobs) = 0
      <3>1. \A j \in Jobs : Waiting(batch, i)[j] = 0
        BY <1>1 DEF Waiting
      <3>2. QED
        BY <3>1, SumZero, StoreAssumption
    <2>4. rows[i].used = 0 /\ carried[i] = 0
      BY <1>1 DEF Stored
    <2>5. QED
      BY <2>2, <2>3, <2>4, Accounts
  <1>4. NotOvercharged
    <2>1. PICK peak \in [Ids -> Nat] : \A i \in Ids : peak[i] = 0
      <3>1. [i \in Ids |-> 0] \in [Ids -> Nat]
        OBVIOUS
      <3>2. QED
        BY <3>1
    <2>2. Shown(peak)
      BY <1>1, <2>1 DEF Shown, Stored
    <2>3. /\ SumFunctionOnSet(peak, Ids) = 0 /\ SumFunctionOnSet(counter, Ports) = 0
          /\ SumFunctionOnSet(carried, Ids) = 0
      BY <1>1, <2>1, SumZero, StoreAssumption
    <2>4. SumFunctionOnSet(Collected(batch), Jobs) = 0
      <3>1. \A j \in Jobs : Collected(batch)[j] = 0
        BY <1>1 DEF Collected
      <3>2. QED
        BY <3>1, SumZero, StoreAssumption
    <2>5. QED
      BY <2>2, <2>3, <2>4 DEF NotOvercharged, Fits
  <1>5. QED
    BY <1>2, <1>3, <1>4

\* The rows are charged for what they show, which is no more than the peak.
LEMMA ChargedLess ==
  ASSUME TypeOK, NotOvercharged
  PROVE  Charged <= SumFunction(carried)
PROOF
  <1> DEFINE used == [i \in Ids |-> IF i \in Stored THEN rows[i].used ELSE 0]
  <1>1. PICK peak \in [Ids -> Nat] : Shown(peak) /\ Fits(peak)
    BY DEF NotOvercharged
  <1>2. \A i \in Ids : used[i] \in Nat /\ peak[i] \in Nat /\ used[i] <= peak[i]
    BY <1>1 DEF Shown, Stored, TypeOK, Row
  <1>3. /\ Charged = SumFunctionOnSet(used, Ids) + SumFunctionOnSet(counter, Ports)
                     + SumFunctionOnSet(Collected(batch), Jobs)
        /\ SumFunction(carried) = SumFunctionOnSet(carried, Ids)
    <2>1. DOMAIN counter = Ports /\ DOMAIN carried = Ids
      BY DEF TypeOK
    <2>2. \A j \in Jobs : batch[j] # Nothing => DOMAIN batch[j].units = Ports
      BY DEF TypeOK, Batch
    <2>3. [j \in Jobs |-> IF batch[j] = Nothing THEN 0 ELSE SumFunction(batch[j].units)] =
             Collected(batch)
      BY <2>2 DEF Collected, SumFunction
    <2>4. DOMAIN Collected(batch) = Jobs /\ DOMAIN used = Ids
      BY DEF Collected
    <2> HIDE DEF used
    <2>5. Charged = SumFunction(used) + SumFunction(counter) + SumFunction(Collected(batch))
      BY <2>3 DEF Charged, used
    <2>6. QED
      BY <2>1, <2>4, <2>5 DEF SumFunction
  <1> HIDE DEF used
  <1>4. SumFunctionOnSet(used, Ids) <= SumFunctionOnSet(peak, Ids)
    BY <1>2, SumMono, StoreAssumption
  <1>5. /\ SumFunctionOnSet(used, Ids) \in Nat /\ SumFunctionOnSet(peak, Ids) \in Nat
        /\ SumFunctionOnSet(counter, Ports) \in Nat
        /\ SumFunctionOnSet(Collected(batch), Jobs) \in Nat
        /\ SumFunctionOnSet(carried, Ids) \in Nat
    <2>1. /\ \A q \in Ports : counter[q] \in Nat
          /\ \A i \in Ids : carried[i] \in Nat
          /\ batch \in [Jobs -> Batch \cup {Nothing}]
      BY DEF TypeOK
    <2>2. /\ SumFunctionOnSet(used, Ids) \in Nat /\ SumFunctionOnSet(peak, Ids) \in Nat
          /\ SumFunctionOnSet(counter, Ports) \in Nat
          /\ SumFunctionOnSet(carried, Ids) \in Nat
      BY <1>2, <2>1, SumNat, StoreAssumption
    <2>3. QED
      BY <2>1, <2>2, BatchNat
  <1>6. QED
    BY <1>1, <1>3, <1>4, <1>5 DEF Fits

-----------------------------------------------------------------------------
(* The theorems *)

\* Every variable keeps its type; traffic counts are never negative.
THEOREM TypeCorrect == Spec => []TypeOK
PROOF
  <1>1. IInv => TypeOK
    BY DEF IInv
  <1>2. QED
    BY <1>1, Inductive, PTL

\* However many adds, stale updates and resurrections overlap, no two inbounds
\* share a port.
THEOREM DistinctPorts == Spec => []PortsDistinct
PROOF
  <1>1. IInv => PortsDistinct
    BY DEF IInv
  <1>2. QED
    BY <1>1, Inductive, PTL

\* A change of what is to be served is always served or on its way to Xray.
THEOREM NothingUnserved == Spec => []ServedOrPending
PROOF
  <1>1. IInv => ServedOrPending
    BY DEF IInv
  <1>2. QED
    BY <1>1, Inductive, PTL

\* Every unit is on the account of the inbound that carried it exactly once,
\* unless a known race touched the account; and no unit is charged twice.
THEOREM TrafficKept == Spec => []TrafficConserved
PROOF
  <1> DEFINE TInv == InUse /\ Credited /\ NotOvercharged
  <1>1. Init => TInv
    BY TrafficInit
  <1>2. IInv /\ IInv' /\ TInv /\ [Next]_vars => TInv'
    BY InUseStep, CreditedStep, OverchargedStep DEF IInv
  <1>3. IInv /\ TInv => TrafficConserved
    BY ChargedLess DEF IInv, Credited, TrafficConserved
  <1> HIDE DEF TInv
  <1>4. QED
    BY <1>1, <1>2, <1>3, Inductive, PTL DEF Spec
=============================================================================
