------------------------------ MODULE Induction ------------------------------
(***************************************************************************)
(* Induction over data for the proofs of the other modules, in a form that *)
(* takes sets and functions instead of operators: the least number of a    *)
(* set of counterexamples, and the values of an iteration, which is what a *)
(* recursive function over an interval stands for.                         *)
(***************************************************************************)
EXTENDS FiniteSetTheorems, TLAPS

\* Every non-empty set of numbers has a least one.
LEMMA LeastNumber ==
    ASSUME NEW S, S \subseteq Nat, S # {}
    PROVE  \E n \in S : \A m \in S : n <= m
<1>. DEFINE Less == {p \in Nat \X Nat : p[1] < p[2]}
<1>1. IsWellFoundedOn(Less, Nat)
    BY NatLessThanWellFounded, Zenon DEF OpToRel
<1>2. PICK n \in S : \A m \in S : <<m, n>> \notin Less
    BY <1>1, WFMin, Zenon
<1>3. ASSUME NEW m \in S
      PROVE  n <= m
  <2>1. <<m, n>> \notin Less /\ <<m, n>> \in Nat \X Nat
      BY <1>2
  <2>2. ~(m < n)
      BY <2>1
  <2>. QED  BY <2>2
<1>. QED  BY <1>3

\* A non-empty set of numbers none of which passes N has a greatest one.
LEMMA GreatestNumber ==
    ASSUME NEW N \in Nat, NEW S, S \subseteq 0 .. N, S # {}
    PROVE  \E n \in S : \A m \in S : m <= n
<1>. DEFINE T == {N - m : m \in S}
<1>1. T \subseteq Nat
    OBVIOUS
<1>2. T # {}
  <2>1. PICK m : m \in S
      OBVIOUS
  <2>2. N - m \in T
      BY <2>1
  <2>. QED  BY <2>2
<1>3. PICK t \in T : \A u \in T : t <= u
  <2>. HIDE DEF T
  <2>. QED  BY <1>1, <1>2, LeastNumber
<1>4. PICK n \in S : t = N - n
    BY <1>3
<1>5. \A m \in S : m <= n
  <2>. TAKE m \in S
  <2>1. N - m \in T
      OBVIOUS
  <2>2. t <= N - m
      BY <1>3, <2>1
  <2>. QED  BY <1>4, <2>2
<1>. QED  BY <1>5

\* A set of numbers that has zero and, with a number, the next one up to n, has
\* them all.
LEMMA UpTo ==
    ASSUME NEW n \in Nat, NEW S, 0 \in S,
           \A i \in 0 .. n - 1 : i \in S => i + 1 \in S
    PROVE  \A i \in 0 .. n : i \in S
<1>. DEFINE Out == {i \in 0 .. n : i \notin S}
<1>. SUFFICES ASSUME Out # {} PROVE FALSE
    OBVIOUS
<1>1. PICK m \in Out : \A k \in Out : m <= k
  <2>1. Out \subseteq Nat
      OBVIOUS
  <2>. HIDE DEF Out
  <2>. QED  BY <2>1, LeastNumber
<1>2. m # 0 /\ m - 1 \in 0 .. n - 1
    OBVIOUS
<1>3. m - 1 \in S
    BY <1>1, <1>2
<1>4. (m - 1) + 1 \in S
    BY <1>2, <1>3
<1>. QED  BY <1>4

\* f is a at zero and takes step[i] at i, up to n.
Iterates(f, n, A, a, step) == /\ f \in [0 .. n -> A]
                              /\ f[0] = a
                              /\ \A i \in 1 .. n : f[i] = step[i][f[i - 1]]

\* Every step function has an iteration.
LEMMA IterationExists ==
    ASSUME NEW n \in Nat, NEW A, NEW a \in A, NEW step \in [1 .. n -> [A -> A]]
    PROVE  \E f : Iterates(f, n, A, a, step)
<1>. DEFINE Starts(f, m) == f[0] = a /\ \A i \in 1 .. m : f[i] = step[i][f[i - 1]]
            S == {m \in 0 .. n : \E f \in [0 .. m -> A] : Starts(f, m)}
<1>1. 0 \in S
  <2>. DEFINE f == [i \in 0 .. 0 |-> a]
  <2>1. f \in [0 .. 0 -> A] /\ Starts(f, 0)
      OBVIOUS
  <2>. HIDE DEF f, Starts
  <2>. QED  BY <2>1
<1>2. ASSUME NEW m \in 0 .. n - 1, m \in S
      PROVE  m + 1 \in S
  <2>1. PICK f \in [0 .. m -> A] : Starts(f, m)
      BY <1>2
  <2>. DEFINE g == [i \in 0 .. m + 1 |-> IF i <= m THEN f[i] ELSE step[m + 1][f[m]]]
  <2>2. m + 1 \in 1 .. n /\ f[m] \in A
      OBVIOUS
  <2>3. step[m + 1][f[m]] \in A
      BY <2>2
  <2>4. g \in [0 .. m + 1 -> A]
      BY <2>3
  <2>5. Starts(g, m + 1)
    <3>1. g[0] = a
        BY <2>1
    <3>2. ASSUME NEW i \in 1 .. m + 1
          PROVE  g[i] = step[i][g[i - 1]]
      <4>1. i - 1 \in 0 .. m /\ g[i - 1] = f[i - 1]
          OBVIOUS
      <4>2. CASE i = m + 1
          BY <4>1, <4>2
      <4>3. CASE i # m + 1
          BY <2>1, <4>1, <4>3
      <4>. QED  BY <4>2, <4>3
    <3>. QED  BY <3>1, <3>2
  <2>. HIDE DEF g, Starts
  <2>. QED  BY <2>2, <2>4, <2>5
<1>3. n \in S
  <2>. HIDE DEF S
  <2>1. \A m \in 0 .. n - 1 : m \in S => m + 1 \in S
      BY <1>2
  <2>2. \A i \in 0 .. n : i \in S
      BY <1>1, <2>1, UpTo, Zenon
  <2>. QED  BY <2>2
<1>. QED  BY <1>3 DEF Iterates

\* pick says which element of a set is next.
Picks(pick, N) == \A s \in SUBSET N : s # {} => pick[s] \in s

\* f folds the subsets of N: step[x] is taken for the element picked, after the
\* others.  The folds of the community modules are of this form.
Folds(f, N, A, a, step, pick) ==
    /\ f \in [SUBSET N -> A]
    /\ f[{}] = a
    /\ \A s \in SUBSET N : s # {} => f[s] = step[pick[s]][f[s \ {pick[s]}]]

\* Every step function has a fold over a finite set: start from any function and
\* recurse once more than there are elements.
LEMMA FoldExists ==
    ASSUME NEW N, IsFiniteSet(N), NEW A, NEW a \in A, NEW step \in [N -> [A -> A]],
           NEW pick, Picks(pick, N)
    PROVE  \E f : Folds(f, N, A, a, step, pick)
<1>. DEFINE n == Cardinality(N)
            F == [SUBSET N -> A]
            Once(g) == [s \in SUBSET N |-> IF s = {} THEN a ELSE step[pick[s]][g[s \ {pick[s]}]]]
            once == [g \in F |-> Once(g)]
            steps == [i \in 1 .. n + 1 |-> once]
            start == [s \in SUBSET N |-> a]
<1>1. n \in Nat /\ n + 1 \in Nat
    BY FS_CardinalityType
<1>2. \A s \in SUBSET N : s # {} => pick[s] \in s
    BY DEF Picks
<1>3. ASSUME NEW g \in F
      PROVE  Once(g) \in F
  <2>1. ASSUME NEW s \in SUBSET N, s # {}
        PROVE  step[pick[s]][g[s \ {pick[s]}]] \in A
    <3>1. g[s \ {pick[s]}] \in A /\ pick[s] \in N
        BY <1>2, <2>1
    <3>2. step[pick[s]] \in [A -> A]
        BY <3>1
    <3>. QED  BY <3>1, <3>2
  <2>. QED  BY <2>1
<1>4. start \in F
    OBVIOUS
<1>5. steps \in [1 .. n + 1 -> [F -> F]]
  <2>1. once \in [F -> F]
      BY <1>3
  <2>. HIDE DEF once
  <2>. QED  BY <2>1
<1>6. PICK f : Iterates(f, n + 1, F, start, steps)
  <2>. HIDE DEF F, start, steps, n
  <2>. QED  BY <1>1, <1>4, <1>5, IterationExists
<1>7. \A i \in 0 .. n + 1 : f[i] \in F
    BY <1>6 DEF Iterates
<1>8. \A i \in 0 .. n : f[i + 1] = Once(f[i])
  <2>. TAKE i \in 0 .. n
  <2>1. i + 1 \in 1 .. n + 1 /\ (i + 1) - 1 = i /\ i \in 0 .. n + 1
      BY <1>1
  <2>2. f[i + 1] = steps[i + 1][f[i]]
      BY <1>6, <2>1 DEF Iterates
  <2>3. steps[i + 1] = once
      BY <2>1
  <2>. HIDE DEF F, steps
  <2>4. f[i] \in F
      BY <1>7, <2>1
  <2>. QED  BY <2>2, <2>3, <2>4
<1>. DEFINE Stable == {i \in 0 .. n : \A s \in SUBSET N : Cardinality(s) <= i => f[i + 1][s] = f[i][s]}
<1>9. \A s \in SUBSET N : IsFiniteSet(s) /\ Cardinality(s) \in Nat /\ Cardinality(s) <= n
    BY FS_Subset, FS_CardinalityType
<1>10. 0 \in Stable
  <2>1. ASSUME NEW s \in SUBSET N, Cardinality(s) <= 0
        PROVE  f[0 + 1][s] = f[0][s]
    <3>1. s = {}
        BY <1>9, <2>1, FS_EmptySet
    <3>2. f[0 + 1] = Once(f[0])
      <4>1. 0 \in 0 .. n
          BY <1>1
      <4>. QED  BY <1>8, <4>1, Zenon
    <3>3. f[0] = start
        BY <1>6 DEF Iterates
    <3>. QED  BY <3>1, <3>2, <3>3
  <2>. QED  BY <1>1, <2>1
<1>11. ASSUME NEW i \in 0 .. n - 1, i \in Stable
       PROVE  i + 1 \in Stable
  <2>1. i + 1 \in 0 .. n /\ i \in 0 .. n
      BY <1>1
  <2>2. f[i + 1] = Once(f[i]) /\ f[(i + 1) + 1] = Once(f[i + 1])
      BY <1>8, <2>1
  <2>3. ASSUME NEW s \in SUBSET N, Cardinality(s) <= i + 1
        PROVE  f[(i + 1) + 1][s] = f[i + 1][s]
    <3>1. CASE s = {}
        BY <2>2, <3>1
    <3>2. CASE s # {}
      <4>1. Cardinality(s \ {pick[s]}) = Cardinality(s) - 1
          BY <1>2, <1>9, <3>2, FS_RemoveElement
      <4>2. Cardinality(s \ {pick[s]}) <= i
          BY <1>9, <2>3, <4>1
      <4>3. f[i + 1][s \ {pick[s]}] = f[i][s \ {pick[s]}]
          BY <1>11, <4>2
      <4>4. f[i + 1][s] = step[pick[s]][f[i][s \ {pick[s]}]]
          BY <2>2, <3>2
      <4>5. f[(i + 1) + 1][s] = step[pick[s]][f[i + 1][s \ {pick[s]}]]
          BY <2>2, <3>2
      <4>. QED  BY <4>3, <4>4, <4>5, Zenon
    <3>. QED  BY <3>1, <3>2
  <2>. QED  BY <2>1, <2>3
<1>12. n \in Stable
  <2>. HIDE DEF Stable, n
  <2>1. \A i \in 0 .. n - 1 : i \in Stable => i + 1 \in Stable
      BY <1>11
  <2>2. \A i \in 0 .. n : i \in Stable
      BY <1>1, <1>10, <2>1, UpTo, Zenon
  <2>. QED  BY <1>1, <2>2
<1>13. f[n] \in F /\ f[n + 1] \in F /\ f[n + 1] = Once(f[n])
  <2>1. n \in 0 .. n /\ n \in 0 .. n + 1 /\ n + 1 \in 0 .. n + 1
      BY <1>1
  <2>. QED  BY <1>7, <1>8, <2>1, Zenon
<1>14. \A s \in SUBSET N : f[n + 1][s] = f[n][s]
    BY <1>9, <1>12
<1>15. f[n] = Once(f[n])
    BY <1>13, <1>14
<1>16. \A s \in SUBSET N : f[n][s] = IF s = {} THEN a ELSE step[pick[s]][f[n][s \ {pick[s]}]]
    BY <1>15
<1>. HIDE DEF n, Once
<1>17. Folds(f[n], N, A, a, step, pick)
    BY <1>13, <1>16 DEF Folds
<1>. QED  BY <1>17

\* A finite set is reached from the empty one, one element at a time.
LEMMA OneByOne ==
    ASSUME NEW N, IsFiniteSet(N), NEW pick, Picks(pick, N), NEW C, {} \in C,
           \A s \in SUBSET N : s # {} /\ s \ {pick[s]} \in C => s \in C
    PROVE  N \in C
<1>. DEFINE n == Cardinality(N)
            S == {i \in 0 .. n : \A s \in SUBSET N : Cardinality(s) <= i => s \in C}
<1>1. \A s \in SUBSET N : IsFiniteSet(s) /\ Cardinality(s) \in Nat /\ Cardinality(s) <= n
    BY FS_Subset, FS_CardinalityType
<1>2. n \in Nat
    BY <1>1
<1>3. 0 \in S
  <2>1. ASSUME NEW s \in SUBSET N, Cardinality(s) <= 0
        PROVE  s \in C
    <3>1. s = {}
        BY <1>1, <2>1, FS_EmptySet
    <3>. QED  BY <3>1
  <2>. QED  BY <1>2, <2>1
<1>4. ASSUME NEW i \in 0 .. n - 1, i \in S
      PROVE  i + 1 \in S
  <2>1. i + 1 \in 0 .. n
      BY <1>2
  <2>2. ASSUME NEW s \in SUBSET N, Cardinality(s) <= i + 1
        PROVE  s \in C
    <3>1. CASE s = {}
        BY <3>1
    <3>2. CASE s # {}
      <4>1. pick[s] \in s
          BY <3>2 DEF Picks
      <4>2. Cardinality(s \ {pick[s]}) = Cardinality(s) - 1
          BY <1>1, <4>1, FS_RemoveElement
      <4>3. s \ {pick[s]} \in SUBSET N /\ Cardinality(s \ {pick[s]}) <= i
          BY <1>1, <2>2, <4>2
      <4>4. s \ {pick[s]} \in C
          BY <1>4, <4>3
      <4>. QED  BY <3>2, <4>4
    <3>. QED  BY <3>1, <3>2
  <2>. QED  BY <2>1, <2>2
<1>5. n \in S
  <2>. HIDE DEF S, n
  <2>1. \A i \in 0 .. n - 1 : i \in S => i + 1 \in S
      BY <1>4
  <2>2. \A i \in 0 .. n : i \in S
      BY <1>2, <1>3, <2>1, UpTo, Zenon
  <2>. QED  BY <1>2, <2>2
<1>. QED  BY <1>1, <1>5

=============================================================================
