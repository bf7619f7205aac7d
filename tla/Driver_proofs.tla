---------------------------- MODULE Driver_proofs ----------------------------
(***************************************************************************)
(* Proofs about module Driver, for every module, every number of threads   *)
(* and processors and every timeout: a result does not depend on the       *)
(* threads, progress counts every item once, the results come back in the  *)
(* order of the items, and the statistics agree with the printed summary.  *)
(***************************************************************************)
EXTENDS Driver, Induction

-----------------------------------------------------------------------------
(* Sums *)

Largest(s) == Max(s)

\* A non-empty set of numbers with a bound has a largest one.
LEMMA LargestIsMember ==
    ASSUME NEW n \in Nat, NEW s \in SUBSET (1 .. n), s # {}
    PROVE  Largest(s) \in s /\ \A x \in s : x <= Largest(s)
<1>1. s \subseteq 0 .. n
    OBVIOUS
<1>2. \E x \in s : \A y \in s : y <= x
    BY <1>1, GreatestNumber
<1>3. \E x \in s : \A y \in s : x >= y
    BY <1>2
<1>4. Largest(s) \in s /\ \A y \in s : Largest(s) >= y
    BY <1>3, Zenon DEF Largest, Max
<1>. QED  BY <1>4

TotalBy(f, seq) ==
    f = [s \in SUBSET DOMAIN seq |->
            IF s = {} THEN 0 ELSE f[s \ {Largest(s)}] + seq[Largest(s)]]

\* The fold of Total, once it is known that its recursion has a solution.
LEMMA TotalIsFold ==
    ASSUME NEW seq, \E f : TotalBy(f, seq)
    PROVE  \E f : TotalBy(f, seq) /\ Total(seq) = f[DOMAIN seq]
<1>. DEFINE f == CHOOSE g : TotalBy(g, seq)
<1>1. TotalBy(f, seq)
    BY Zenon
<1>2. Total(seq) = f[DOMAIN seq]
    BY Zenon DEF Total, FoldLeft, MapThenFoldSet, TotalBy, Largest
<1>. QED  BY <1>1, <1>2, Zenon

\* t has the sums of the first elements.
Sums(t, seq) == /\ t \in [0 .. Len(seq) -> Int]
                /\ t[0] = 0
                /\ \A i \in 1 .. Len(seq) : t[i] = t[i - 1] + seq[i]

\* The total of a sequence of numbers is the last of its partial sums.
LEMMA TotalIsSum ==
    ASSUME NEW seq \in Seq(Int)
    PROVE  \E t : Sums(t, seq) /\ Total(seq) = t[Len(seq)]
<1>. DEFINE n == Len(seq)
            N == 1 .. n
            step == [x \in N |-> [a \in Int |-> a + seq[x]]]
            pick == [s \in SUBSET N |-> Largest(s)]
<1>1. n \in Nat /\ DOMAIN seq = N /\ IsFiniteSet(N)
    BY FS_Interval
<1>2. Picks(pick, N)
    BY <1>1, LargestIsMember DEF Picks
<1>3. step \in [N -> [Int -> Int]]
    OBVIOUS
<1>4. PICK f : Folds(f, N, Int, 0, step, pick)
  <2>1. 0 \in Int
      OBVIOUS
  <2>. HIDE DEF step, pick, N, n
  <2>. QED  BY <1>1, <1>2, <1>3, <2>1, FoldExists, Zenon
<1>5. ASSUME NEW s \in SUBSET N
      PROVE  f[s] = IF s = {} THEN 0 ELSE f[s \ {Largest(s)}] + seq[Largest(s)]
  <2>1. CASE s = {}
      BY <1>4, <2>1 DEF Folds
  <2>2. CASE s # {}
    <3>1. f[s] = step[Largest(s)][f[s \ {Largest(s)}]] /\ Largest(s) \in N
        BY <1>2, <1>4, <2>2 DEF Folds, Picks
    <3>2. f[s \ {Largest(s)}] \in Int
        BY <1>4 DEF Folds
    <3>. QED  BY <2>2, <3>1, <3>2
  <2>. QED  BY <2>1, <2>2
<1>6. TotalBy(f, seq)
    BY <1>1, <1>4, <1>5 DEF Folds, TotalBy
<1>7. PICK g : TotalBy(g, seq) /\ Total(seq) = g[DOMAIN seq]
    BY <1>6, TotalIsFold
<1>. DEFINE C == {s \in SUBSET N : f[s] = g[s]}
<1>8. \A s \in SUBSET N : g[s] = IF s = {} THEN 0 ELSE g[s \ {Largest(s)}] + seq[Largest(s)]
    BY <1>1, <1>7 DEF TotalBy
<1>9. N \in C
  <2>1. {} \in C
      BY <1>5, <1>8
  <2>2. \A s \in SUBSET N : s # {} /\ s \ {pick[s]} \in C => s \in C
    <3>. SUFFICES ASSUME NEW s \in SUBSET N, s # {}, f[s \ {Largest(s)}] = g[s \ {Largest(s)}]
                  PROVE  f[s] = g[s]
        OBVIOUS
    <3>. QED  BY <1>5, <1>8, Zenon
  <2>. HIDE DEF C, pick, N
  <2>. QED  BY <1>1, <1>2, <2>1, <2>2, OneByOne
<1>. DEFINE t == [k \in 0 .. n |-> f[1 .. k]]
<1>10. t \in [0 .. n -> Int]
  <2>1. ASSUME NEW k \in 0 .. n
        PROVE  f[1 .. k] \in Int
    <3>1. 1 .. k \in SUBSET N
        BY <1>1
    <3>. QED  BY <1>4, <3>1 DEF Folds
  <2>. QED  BY <2>1
<1>11. t[0] = 0
  <2>1. 1 .. 0 = {} /\ 0 \in 0 .. n
      BY <1>1
  <2>2. f[{}] = 0
      BY <1>5
  <2>. QED  BY <2>1, <2>2, Zenon
<1>12. ASSUME NEW i \in 1 .. n
       PROVE  t[i] = t[i - 1] + seq[i]
  <2>1. 1 .. i \in SUBSET (1 .. n) /\ 1 .. i # {}
    <3>1. \A k \in Nat : \A j \in 1 .. k : 1 .. j \subseteq 1 .. k /\ j \in 1 .. j
        OBVIOUS
    <3>2. 1 .. i \subseteq 1 .. n /\ i \in 1 .. i
        BY <1>1, <3>1
    <3>. QED  BY <3>2, Zenon
  <2>2. Largest(1 .. i) = i
    <3>1. Largest(1 .. i) \in 1 .. i /\ \A x \in 1 .. i : x <= Largest(1 .. i)
      <4>1. n \in Nat
          BY <1>1
      <4>. HIDE DEF n
      <4>. QED  BY <2>1, <4>1, LargestIsMember
    <3>2. i \in 1 .. i
        BY <1>1
    <3>. QED  BY <3>1, <3>2
  <2>3. (1 .. i) \ {i} = 1 .. (i - 1) /\ i - 1 \in 0 .. n /\ i \in 0 .. n
      BY <1>1
  <2>4. f[1 .. i] = f[1 .. (i - 1)] + seq[i]
    <3>1. f[1 .. i] = f[(1 .. i) \ {Largest(1 .. i)}] + seq[Largest(1 .. i)]
        BY <1>5, <2>1
    <3>. QED  BY <2>2, <2>3, <3>1, Zenon
  <2>. QED  BY <2>3, <2>4
<1>13. Total(seq) = t[n]
    BY <1>1, <1>7, <1>9
<1>14. Sums(t, seq)
  <2>. HIDE DEF t
  <2>. QED  BY <1>10, <1>11, <1>12 DEF Sums
<1>. QED  BY <1>13, <1>14

\* Sums of sequences that are ordered element by element.
LEMMA TotalsOrdered ==
    ASSUME NEW n \in Nat, NEW a \in Seq(Int), NEW b \in Seq(Int), NEW c \in Seq(Int), NEW d \in Seq(Int),
           Len(a) = n, Len(b) = n, Len(c) = n, Len(d) = n,
           \A i \in 1 .. n : a[i] <= b[i] - c[i] + d[i]
    PROVE  Total(a) <= Total(b) - Total(c) + Total(d)
<1>1. PICK ta : Sums(ta, a) /\ Total(a) = ta[n]
    BY TotalIsSum
<1>2. PICK tb : Sums(tb, b) /\ Total(b) = tb[n]
    BY TotalIsSum
<1>3. PICK tc : Sums(tc, c) /\ Total(c) = tc[n]
    BY TotalIsSum
<1>4. PICK td : Sums(td, d) /\ Total(d) = td[n]
    BY TotalIsSum
<1>5. \A i \in 0 .. n : ta[i] \in Int /\ tb[i] \in Int /\ tc[i] \in Int /\ td[i] \in Int
    BY <1>1, <1>2, <1>3, <1>4 DEF Sums
<1>6. ta[0] = 0 /\ tb[0] = 0 /\ tc[0] = 0 /\ td[0] = 0
    BY <1>1, <1>2, <1>3, <1>4 DEF Sums
<1>7. \A i \in 0 .. n - 1 : /\ i \in 0 .. n /\ i + 1 \in 1 .. n
                            /\ ta[i + 1] = ta[i] + a[i + 1] /\ tb[i + 1] = tb[i] + b[i + 1]
                            /\ tc[i + 1] = tc[i] + c[i + 1] /\ td[i + 1] = td[i] + d[i + 1]
  <2>. TAKE i \in 0 .. n - 1
  <2>1. i \in 0 .. n /\ i + 1 \in 1 .. n /\ (i + 1) - 1 = i
      OBVIOUS
  <2>. QED  BY <1>1, <1>2, <1>3, <1>4, <2>1 DEF Sums
<1>8. \A i \in 1 .. n : a[i] \in Int /\ b[i] \in Int /\ c[i] \in Int /\ d[i] \in Int
    OBVIOUS
<1>9. ta[n] <= tb[n] - tc[n] + td[n]
  <2>. DEFINE S == {i \in 0 .. n : ta[i] <= tb[i] - tc[i] + td[i]}
  <2>1. 0 \in S
      BY <1>6
  <2>2. \A i \in 0 .. n - 1 : i \in S => i + 1 \in S
    <3>. SUFFICES ASSUME NEW i \in 0 .. n - 1, ta[i] <= tb[i] - tc[i] + td[i]
                  PROVE  i + 1 \in 0 .. n /\ ta[i + 1] <= tb[i + 1] - tc[i + 1] + td[i + 1]
        OBVIOUS
    <3>1. i \in 0 .. n /\ i + 1 \in 1 .. n /\ i + 1 \in 0 .. n
        OBVIOUS
    <3>2. a[i + 1] <= b[i + 1] - c[i + 1] + d[i + 1]
        BY <3>1
    <3>3. \A p, q, r, s, x, y, z, w \in Int :
              p <= q - r + s /\ x <= y - z + w => p + x <= (q + y) - (r + z) + (s + w)
        OBVIOUS
    <3>4. ta[i] + a[i + 1] <= (tb[i] + b[i + 1]) - (tc[i] + c[i + 1]) + (td[i] + d[i + 1])
        BY <1>5, <1>8, <3>1, <3>2, <3>3
    <3>. QED  BY <1>7, <3>1, <3>4, Zenon
  <2>. HIDE DEF S
  <2>3. \A i \in 0 .. n : i \in S
      BY <2>1, <2>2, UpTo, Zenon
  <2>. QED  BY <2>3 DEF S
<1>. QED  BY <1>1, <1>2, <1>3, <1>4, <1>9

\* A total is a number.
LEMMA TotalType ==
    ASSUME NEW a \in Seq(Int)
    PROVE  Total(a) \in Int
<1>1. PICK t : Sums(t, a) /\ Total(a) = t[Len(a)]
    BY TotalIsSum
<1>. QED  BY <1>1 DEF Sums

Numbers(n, a) == a \in Seq(Int) /\ Len(a) = n

\* Sums of sequences that agree element by element.
LEMMA TotalsEqual ==
    ASSUME NEW n \in Nat, NEW a, NEW b, NEW c, NEW d,
           Numbers(n, a), Numbers(n, b), Numbers(n, c), Numbers(n, d),
           \A i \in 1 .. n : a[i] = b[i] - c[i] + d[i]
    PROVE  Total(a) = Total(b) - Total(c) + Total(d)
<1>1. \A i \in 1 .. n : a[i] \in Int /\ b[i] \in Int /\ c[i] \in Int /\ d[i] \in Int
    BY DEF Numbers
<1>2. \A i \in 1 .. n : a[i] <= b[i] - c[i] + d[i] /\ b[i] <= a[i] - d[i] + c[i]
    BY <1>1
<1>3. Total(a) <= Total(b) - Total(c) + Total(d)
    BY <1>2, TotalsOrdered DEF Numbers
<1>4. Total(b) <= Total(a) - Total(d) + Total(c)
    BY <1>2, TotalsOrdered DEF Numbers
<1>5. Total(a) \in Int /\ Total(b) \in Int /\ Total(c) \in Int /\ Total(d) \in Int
    BY TotalType DEF Numbers
<1>. QED  BY <1>3, <1>4, <1>5

-----------------------------------------------------------------------------
(* The items of a module *)

ReadBy(f, m) == f = [n \in 0 .. Len(m.code) |->
                        IF n = 0 THEN <<>>
                        ELSE IF m.code[n].ok THEN Append(f[n - 1], n)
                        ELSE f[n - 1]]

Increasing(seq) == \A i, j \in DOMAIN seq : i < j => seq[i] < seq[j]

\* The functions read come in their order in the code section.
LEMMA ReadInOrder ==
    ASSUME NEW m, Len(m.code) \in Nat
    PROVE  \A n \in 0 .. Len(m.code) : /\ ReadUpTo(m)[n] \in Seq(1 .. n)
                                       /\ Increasing(ReadUpTo(m)[n])
<1>. DEFINE l == Len(m.code)
            step == [i \in 1 .. l |-> [s \in Seq(Nat) |-> IF m.code[i].ok THEN Append(s, i) ELSE s]]
            f == ReadUpTo(m)
<1>1. <<>> \in Seq(Nat) /\ step \in [1 .. l -> [Seq(Nat) -> Seq(Nat)]]
    OBVIOUS
<1>2. PICK g : Iterates(g, l, Seq(Nat), <<>>, step)
  <2>1. l \in Nat
      OBVIOUS
  <2>. HIDE DEF l, step
  <2>. QED  BY <1>1, <2>1, IterationExists, Zenon
<1>3. \A n \in 1 .. l : g[n] = IF m.code[n].ok THEN Append(g[n - 1], n) ELSE g[n - 1]
  <2>. TAKE n \in 1 .. l
  <2>1. n - 1 \in 0 .. l
      OBVIOUS
  <2>2. g[n - 1] \in Seq(Nat) /\ g[n] = step[n][g[n - 1]]
      BY <1>2, <2>1 DEF Iterates
  <2>. QED  BY <2>2
<1>4. \E h : ReadBy(h, m)
  <2>1. \A n \in 0 .. l : g[n] = IF n = 0 THEN <<>>
                                 ELSE IF m.code[n].ok THEN Append(g[n - 1], n)
                                 ELSE g[n - 1]
    <3>. TAKE n \in 0 .. l
    <3>1. n # 0 => n \in 1 .. l
        OBVIOUS
    <3>. QED  BY <1>2, <1>3, <3>1 DEF Iterates
  <2>2. g \in [0 .. l -> Seq(Nat)]
      BY <1>2 DEF Iterates
  <2>3. ReadBy(g, m)
      BY <2>1, <2>2 DEF ReadBy
  <2>. QED  BY <2>3
<1>5. ReadBy(f, m)
  <2>1. f = CHOOSE h : ReadBy(h, m)
      BY Zenon DEF ReadUpTo, ReadBy
  <2>. QED  BY <1>4, <2>1, Zenon
<1>6. f[0] = <<>> /\ \A n \in 1 .. l : f[n] = IF m.code[n].ok THEN Append(f[n - 1], n) ELSE f[n - 1]
  <2>. HIDE DEF f
  <2>1. f = [n \in 0 .. l |-> IF n = 0 THEN <<>>
                              ELSE IF m.code[n].ok THEN Append(f[n - 1], n)
                              ELSE f[n - 1]]
      BY <1>5, Zenon DEF ReadBy
  <2>2. 0 \in 0 .. l /\ \A n \in 1 .. l : n \in 0 .. l /\ n # 0
      OBVIOUS
  <2>. HIDE DEF l
  <2>. QED  BY <2>1, <2>2
<1>. HIDE DEF f
<1>. DEFINE S == {n \in 0 .. l : f[n] \in Seq(1 .. n) /\ Increasing(f[n])}
<1>7. 0 \in S
  <2>1. <<>> \in Seq(1 .. 0) /\ Increasing(<<>>) /\ 0 \in 0 .. l
      BY DEF Increasing
  <2>. QED  BY <1>6, <2>1, Zenon
<1>8. ASSUME NEW n \in 0 .. l - 1, n \in S
      PROVE  n + 1 \in S
  <2>1. n + 1 \in 1 .. l /\ n + 1 \in 0 .. l /\ n \in Nat
      OBVIOUS
  <2>2. f[n] \in Seq(1 .. n) /\ Increasing(f[n])
      BY <1>8
  <2>3. f[n] \in Seq(1 .. n + 1)
      BY <2>1, <2>2
  <2>4. f[n + 1] = Append(f[n], n + 1) \/ f[n + 1] = f[n]
    <3>1. (n + 1) - 1 = n
        BY <2>1
    <3>2. f[n + 1] = IF m.code[n + 1].ok THEN Append(f[(n + 1) - 1], n + 1) ELSE f[(n + 1) - 1]
        BY <1>6, <2>1
    <3>. QED  BY <3>1, <3>2, Zenon
  <2>5. Increasing(Append(f[n], n + 1))
      BY <2>1, <2>2, SMTT(20) DEF Increasing
  <2>6. Append(f[n], n + 1) \in Seq(1 .. n + 1)
      BY <2>1, <2>3
  <2>7. f[n + 1] \in Seq(1 .. n + 1) /\ Increasing(f[n + 1])
      BY <2>2, <2>3, <2>4, <2>5, <2>6, Zenon
  <2>. QED  BY <2>1, <2>7
<1>9. \A n \in 0 .. l : n \in S
  <2>1. l \in Nat /\ \A n \in 0 .. l - 1 : n \in S => n + 1 \in S
      BY <1>8
  <2>. HIDE DEF S, l
  <2>. QED  BY <1>7, <2>1, UpTo, Zenon
<1>. QED  BY <1>9 DEF f

FlattenBy(f, seqs) == f = [i \in 1 .. Len(seqs) |-> IF i = 1 THEN seqs[i] ELSE f[i - 1] \o seqs[i]]

\* Putting sequences one after the other makes a sequence of their elements.
LEMMA FlattenType ==
    ASSUME NEW A, NEW seqs \in Seq(Seq(A))
    PROVE  FlattenSeq(seqs) \in Seq(A)
<1>. DEFINE l == Len(seqs)
            step == [i \in 1 .. l |-> [s \in Seq(A) |-> s \o seqs[i]]]
            h == CHOOSE f : FlattenBy(f, seqs)
<1>1. CASE l = 0
    BY <1>1 DEF FlattenSeq
<1>2. CASE l # 0
  <2>1. l \in Nat /\ l \in 1 .. l /\ <<>> \in Seq(A) /\ step \in [1 .. l -> [Seq(A) -> Seq(A)]]
      BY <1>2
  <2>2. PICK g : Iterates(g, l, Seq(A), <<>>, step)
    <3>. HIDE DEF l, step
    <3>. QED  BY <2>1, IterationExists, Zenon
  <2>3. \A n \in 1 .. l : g[n] = g[n - 1] \o seqs[n] /\ g[n - 1] \in Seq(A)
    <3>. TAKE n \in 1 .. l
    <3>1. n - 1 \in 0 .. l
        OBVIOUS
    <3>2. g[n - 1] \in Seq(A) /\ g[n] = step[n][g[n - 1]]
        BY <2>2, <3>1 DEF Iterates
    <3>. QED  BY <3>2
  <2>. DEFINE f == [i \in 1 .. l |-> g[i]]
  <2>4. FlattenBy(f, seqs)
    <3>1. ASSUME NEW n \in 1 .. l
          PROVE  f[n] = IF n = 1 THEN seqs[n] ELSE f[n - 1] \o seqs[n]
      <4>1. CASE n = 1
        <5>1. n - 1 = 0
            BY <4>1
        <5>2. g[n - 1] = <<>>
            BY <2>2, <5>1, Zenon DEF Iterates
        <5>3. \A s \in Seq(A) : <<>> \o s = s
            OBVIOUS
        <5>4. seqs[n] \in Seq(A)
            OBVIOUS
        <5>. QED  BY <2>3, <4>1, <5>2, <5>3, <5>4
      <4>2. CASE n # 1
        <5>1. n - 1 \in 1 .. l
            BY <2>1, <4>2
        <5>. QED  BY <2>3, <4>2, <5>1
      <4>. QED  BY <4>1, <4>2
    <3>. QED  BY <3>1 DEF FlattenBy
  <2>5. FlattenBy(h, seqs)
    <3>. HIDE DEF f
    <3>. QED  BY <2>4, Zenon
  <2>6. FlattenSeq(seqs) = h[l]
      BY <1>2, Zenon DEF FlattenSeq, FlattenBy
  <2>7. \A n \in 1 .. l : h[n] = IF n = 1 THEN seqs[n] ELSE h[n - 1] \o seqs[n]
      BY <2>5 DEF FlattenBy
  <2>. HIDE DEF h
  <2>. DEFINE S == {n \in 0 .. l : n = 0 \/ h[n] \in Seq(A)}
  <2>8. 0 \in S
      BY <2>1
  <2>9. \A n \in 0 .. l - 1 : n \in S => n + 1 \in S
    <3>. SUFFICES ASSUME NEW n \in 0 .. l - 1, n = 0 \/ h[n] \in Seq(A)
                  PROVE  h[n + 1] \in Seq(A)
        BY <2>1
    <3>1. n + 1 \in 1 .. l /\ seqs[n + 1] \in Seq(A) /\ (n + 1) - 1 = n
        BY <2>1
    <3>2. h[n + 1] = IF n + 1 = 1 THEN seqs[n + 1] ELSE h[(n + 1) - 1] \o seqs[n + 1]
        BY <2>7, <3>1
    <3>3. n # 0 => h[n] \o seqs[n + 1] \in Seq(A)
        BY <3>1
    <3>4. n + 1 = 1 <=> n = 0
        BY <2>1
    <3>. QED  BY <3>1, <3>2, <3>3, <3>4, Zenon
  <2>10. \A n \in 0 .. l : n \in S
    <3>. HIDE DEF S, l
    <3>. QED  BY <2>1, <2>8, <2>9, UpTo, Zenon
  <2>. QED  BY <2>1, <2>6, <2>10
<1>. QED  BY <1>1, <1>2

-----------------------------------------------------------------------------
(* The inductive invariant *)

Results == [func : Nat, len : Nat, got : Nat \cup {None}, timedOut : BOOLEAN,
            proven : BOOLEAN, cost : Nat]

Outcomes == {"timeout", "no_solution", "non_optimal", "optimal"}

RowRecords == [checker : BOOLEAN, outcome : Outcomes, tag : {"astar", "original"},
               shownOptimal : BOOLEAN, length : Int, saved : Int]

Busy == {i \in Items : at[i] \in {"solving", "solved", "counted"}}
Counted == {i \in Items : at[i] = "counted"}
Numbered == {i \in Items : at[i] \in {"counted", "done"}}

ConfigInv ==
    /\ command \in {"segments", "locals"}
    /\ jobs \in Nat /\ fixed \in Nat \cup {None} /\ direct \in BOOLEAN
    /\ items \in Seq(Item)
    /\ command = "locals" => \A i, j \in Items : i < j => items[i].func < items[j].func

TypeInv ==
    /\ phase \in {"failed", "work", "rows", "end"}
    /\ at \in [Items -> {"waiting", "solving", "solved", "counted", "done"}]
    /\ began \in [Items -> Nat] /\ advanced \in [Items -> Nat] /\ clock \in Nat
    /\ answer \in [Items -> Results \cup {<<>>}]
    /\ drawn \in Nat /\ number \in [Items -> Nat]
    /\ lines \in Seq(Items)

\* A thread that has a processor has worked on its item since it took it.
TimeInv ==
    /\ \A i \in Items : at[i] = "waiting" => advanced[i] = 0
    /\ \A i \in Solving : began[i] <= clock /\ clock - began[i] <= Timeout(items[i])
    /\ jobs <= Cores => \A i \in Solving : /\ advanced[i] = clock - began[i]
                                           /\ items[i].fit => advanced[i] <= items[i].work

\* One thread has taken the items up to the one it is at.
InTurnInv ==
    jobs <= 1 =>
        /\ \A i \in Items : at[i] \in {"waiting", "solving", "done"}
        /\ \A i, j \in Items : j < i /\ at[i] # "waiting" => at[j] = "done"
        /\ \A i \in Items : at[i] # "waiting" <=> i <= Len(lines)
        /\ \A p \in DOMAIN lines : lines[p] = p /\ number[p] = p

\* Several draw a number for every item, and print every number drawn.
PoolInv ==
    jobs > 1 =>
        /\ Cardinality(Busy) <= jobs
        /\ Cardinality(Numbered) = drawn
        /\ Cardinality(Counted) = drawn - Len(lines)
        /\ \A i \in Numbered : number[i] \in 1 .. drawn
        /\ \A i, j \in Numbered : number[i] = number[j] => i = j
        /\ \A p \in DOMAIN lines : /\ at[lines[p]] = "done"
                                   /\ p >= number[lines[p]] - (jobs - 1)
        /\ \A p, q \in DOMAIN lines : lines[p] = lines[q] => p = q

AnswerInv ==
    /\ \A i \in Items : at[i] \in {"solved", "counted", "done"} =>
                            answer[i] \in PossibleResults(items[i])
    /\ AsAlone

ResultsInv ==
    /\ phase \in {"failed", "work"} => results = <<>> /\ rows = <<>>
    /\ phase \in {"rows", "end"} => /\ results = answer
                                    /\ \A i \in Items : at[i] = "done"
    /\ rows \in Seq(RowRecords) /\ Len(rows) <= Len(results)
    /\ \A i \in DOMAIN rows : \E a \in BOOLEAN : rows[i] = Row(results[i], a)

Inv == /\ ConfigInv /\ TypeInv /\ TimeInv /\ InTurnInv /\ PoolInv
       /\ AnswerInv /\ ResultsInv

-----------------------------------------------------------------------------
(* The items of a run *)

\* A function of a module.
Function == [ok : BOOLEAN, segs : Seq(Item), whole : Item]

\* A function on 1 .. n with values in A is a sequence over A.
LEMMA SeqByElements ==
    ASSUME NEW A, NEW n \in Nat, NEW f, f = [i \in 1 .. n |-> f[i]], \A i \in 1 .. n : f[i] \in A
    PROVE  f \in Seq(A) /\ Len(f) = n
<1>1. f \in [1 .. n -> A]
    BY Zenon
<1>. QED  BY <1>1

\* An item given another function index is still an item.
LEMMA ItemWith ==
    ASSUME NEW item \in Item, NEW n \in Nat
    PROVE  /\ [item EXCEPT !.func = n] \in Item /\ [item EXCEPT !.func = n].func = n
           /\ [item EXCEPT !.early = None] \in Item /\ [item EXCEPT !.early = None].func = item.func
<1>1. [item EXCEPT !.func = n] = [func |-> n, len |-> item.len, stores |-> item.stores,
                                    work |-> item.work, best |-> item.best, early |-> item.early,
                                    proven |-> item.proven, fit |-> item.fit, cost |-> item.cost]
    BY DEF Item
<1>2. [item EXCEPT !.early = None] = [func |-> item.func, len |-> item.len, stores |-> item.stores,
                                       work |-> item.work, best |-> item.best, early |-> None,
                                       proven |-> item.proven, fit |-> item.fit, cost |-> item.cost]
    BY DEF Item
<1>. QED  BY <1>1, <1>2 DEF Item

\* An item keeps its kind when it gets the index of its function.
LEMMA IndexedItem ==
    ASSUME NEW m \in Modules, NEW f \in DOMAIN m.code, NEW item \in Item
    PROVE  WithIndex(item, m, f) \in Item /\ WithIndex(item, m, f).func = m.imports + f - 1
<1>1. m.imports \in Nat /\ m.code \in Seq(Function)
    BY DriverAssumption DEF Function
<1>2. f \in Nat \ {0} /\ m.imports + f - 1 \in Nat
    BY <1>1
<1>3. WithIndex(item, m, f) = [item EXCEPT !.func = m.imports + f - 1]
    BY Zenon DEF WithIndex
<1>. DEFINE n == m.imports + f - 1
<1>. HIDE DEF n
<1>4. n \in Nat /\ WithIndex(item, m, f) = [item EXCEPT !.func = n]
    BY <1>2, <1>3, Zenon DEF n
<1>5. WithIndex(item, m, f) \in Item /\ WithIndex(item, m, f).func = n
    BY <1>4, ItemWith, ZenonT(30)
<1>. QED  BY <1>5 DEF n

\* What the segments command reads off a module is a sequence of items.
LEMMA SegmentsAreItems ==
    ASSUME NEW m \in Modules
    PROVE  SegmentItems(m) \in Seq(Item)
<1>. DEFINE seqs == [f \in DOMAIN m.code |->
                       [s \in DOMAIN m.code[f].segs |-> WithIndex(m.code[f].segs[s], m, f)]]
<1>1. m.code \in Seq(Function)
    BY DriverAssumption DEF Function
<1>2. ASSUME NEW f \in DOMAIN m.code
      PROVE  [s \in DOMAIN m.code[f].segs |-> WithIndex(m.code[f].segs[s], m, f)] \in Seq(Item)
  <2>1. m.code[f].segs \in Seq(Item)
    <3>1. m.code[f] \in Function
        BY <1>1
    <3>. QED  BY <3>1 DEF Function
  <2>2. \A s \in DOMAIN m.code[f].segs : m.code[f].segs[s] \in Item
      BY <2>1
  <2>3. \A s \in DOMAIN m.code[f].segs : WithIndex(m.code[f].segs[s], m, f) \in Item
      BY <2>2, IndexedItem
  <2>4. DOMAIN m.code[f].segs = 1 .. Len(m.code[f].segs) /\ Len(m.code[f].segs) \in Nat
      BY <2>1
  <2>. DEFINE its == [s \in DOMAIN m.code[f].segs |-> WithIndex(m.code[f].segs[s], m, f)]
  <2>5. its = [s \in 1 .. Len(m.code[f].segs) |-> its[s]] /\ \A s \in DOMAIN m.code[f].segs : its[s] \in Item
      BY <2>3, <2>4
  <2>. HIDE DEF its
  <2>6. its \in Seq(Item)
      BY <2>4, <2>5, SeqByElements, Zenon
  <2>. QED  BY <2>6 DEF its
<1>3. DOMAIN m.code = 1 .. Len(m.code) /\ Len(m.code) \in Nat
    BY <1>1
<1>4. seqs \in Seq(Seq(Item))
  <2>1. \A f \in DOMAIN m.code : seqs[f] \in Seq(Item)
      BY <1>2
  <2>2. seqs = [f \in 1 .. Len(m.code) |-> seqs[f]]
      BY <1>3
  <2>. HIDE DEF seqs
  <2>. QED  BY <1>3, <2>1, <2>2, SeqByElements, Zenon
<1>. HIDE DEF seqs
<1>5. FlattenSeq(seqs) \in Seq(Item)
    BY <1>4, FlattenType
<1>. QED  BY <1>5 DEF SegmentItems, seqs

\* What --opt-locals reads off a module is a sequence of items, one per
\* function at most, in the order of the functions.
LEMMA FunctionsAreItems ==
    ASSUME NEW m \in Modules, NEW max \in Nat
    PROVE  /\ FunctionItems(m, max) \in Seq(Item)
           /\ \A i, j \in DOMAIN FunctionItems(m, max) :
                 i < j => FunctionItems(m, max)[i].func < FunctionItems(m, max)[j].func
<1>. DEFINE l == Len(m.code)
            read == ReadUpTo(m)[l]
            taken == IF max = 0 \/ Len(read) < max THEN read ELSE SubSeq(read, 1, max)
            its == [i \in DOMAIN taken |->
                      [WithIndex(m.code[taken[i]].whole, m, taken[i]) EXCEPT !.early = None]]
<1>1. m.code \in Seq(Function) /\ m.imports \in Nat
    BY DriverAssumption DEF Function
<1>2. l \in Nat /\ l \in 0 .. l /\ DOMAIN m.code = 1 .. l
    BY <1>1
<1>3. read \in Seq(1 .. l) /\ Increasing(read)
    BY <1>2, ReadInOrder, Zenon
<1>. HIDE DEF read
<1>4. taken \in Seq(1 .. l) /\ Increasing(taken)
  <2>1. CASE max = 0 \/ Len(read) < max
      BY <1>3, <2>1
  <2>2. CASE ~(max = 0 \/ Len(read) < max)
    <3>1. max \in 1 .. Len(read) /\ taken = SubSeq(read, 1, max)
        BY <1>3, <2>2
    <3>2. Len(taken) = max /\ \A i \in 1 .. max : taken[i] = read[i] /\ taken[i] \in 1 .. l
        BY <1>3, <3>1
    <3>3. taken \in Seq(1 .. l)
      <4>1. \A i \in 1 .. max : taken[i] \in 1 .. l
          BY <3>2
      <4>2. taken = [i \in 1 .. max |-> read[i]]
          BY <1>3, <3>1
      <4>3. \A i \in 1 .. max : read[i] \in 1 .. l
          BY <3>2
      <4>4. max \in Nat /\ taken = [i \in 1 .. max |-> taken[i]] /\ \A i \in 1 .. max : taken[i] \in 1 .. l
          BY <3>1, <4>2, <4>3
      <4>. HIDE DEF taken, l
      <4>. QED  BY <4>4, SeqByElements, Zenon
    <3>4. \A i, j \in 1 .. max : i \in DOMAIN read /\ (i < j => read[i] < read[j])
        BY <1>3, <3>1 DEF Increasing
    <3>. HIDE DEF taken
    <3>5. DOMAIN taken = 1 .. max
        BY <3>2, <3>3
    <3>. QED  BY <3>2, <3>3, <3>4, <3>5 DEF Increasing
  <2>. QED  BY <2>1, <2>2
<1>. HIDE DEF taken
<1>5. \A i \in DOMAIN taken : taken[i] \in DOMAIN m.code /\ m.code[taken[i]].whole \in Item
  <2>. TAKE i \in DOMAIN taken
  <2>1. taken[i] \in 1 .. l
      BY <1>4
  <2>2. m.code[taken[i]] \in Function
      BY <1>1, <1>2, <2>1
  <2>. HIDE DEF l
  <2>. QED  BY <1>2, <2>1, <2>2 DEF Function
<1>6. \A i \in DOMAIN taken : its[i] \in Item /\ its[i].func = m.imports + taken[i] - 1
  <2>. TAKE i \in DOMAIN taken
  <2>. DEFINE w == WithIndex(m.code[taken[i]].whole, m, taken[i])
  <2>1. w \in Item /\ w.func = m.imports + taken[i] - 1
      BY <1>5, IndexedItem
  <2>2. its[i] = [w EXCEPT !.early = None]
      BY Zenon
  <2>. HIDE DEF w, its
  <2>3. 0 \in Nat
      OBVIOUS
  <2>4. its[i] \in Item /\ its[i].func = w.func
      BY <2>1, <2>2, <2>3, ItemWith, Zenon
  <2>. QED  BY <2>1, <2>4
<1>7. DOMAIN its = DOMAIN taken /\ DOMAIN taken = 1 .. Len(taken) /\ Len(taken) \in Nat
  <2>1. DOMAIN its = DOMAIN taken
      BY Zenon
  <2>. QED  BY <1>4, <2>1
<1>8. FunctionItems(m, max) = its
    BY Zenon DEF FunctionItems, its, taken, read
<1>9. its \in Seq(Item)
  <2>1. its = [i \in DOMAIN taken |-> its[i]]
      BY Zenon
  <2>. HIDE DEF its
  <2>. QED  BY <1>6, <1>7, <2>1
<1>. HIDE DEF its
<1>10. \A i, j \in DOMAIN its : i < j => its[i].func < its[j].func
  <2>1. \A i, j \in DOMAIN taken : i < j => taken[i] < taken[j] /\ taken[i] \in Nat /\ taken[j] \in Nat
      BY <1>4 DEF Increasing
  <2>. QED  BY <1>1, <1>6, <1>7, <2>1
<1>. QED  BY <1>8, <1>9, <1>10

\* The configuration a run starts from is well formed.
LEMMA ConfigHolds == Init => ConfigInv
<1>. SUFFICES ASSUME Init PROVE ConfigInv
    OBVIOUS
<1>1. /\ command \in {"segments", "locals"} /\ module \in Modules
      /\ fixed \in Nat \cup {None} /\ direct \in BOOLEAN /\ limit \in Nat /\ jobs \in Nat
    BY DriverAssumption DEF Init
<1>2. \/ items = <<>>
      \/ command = "segments" /\ items = SegmentItems(module)
      \/ command = "locals" /\ items = FunctionItems(module, limit)
    BY <1>1 DEF Init
<1>3. items \in Seq(Item)
  <2>1. <<>> \in Seq(Item)
      OBVIOUS
  <2>. QED  BY <1>1, <1>2, <2>1, SegmentsAreItems, FunctionsAreItems, Zenon
<1>4. command = "locals" => \A i, j \in Items : i < j => items[i].func < items[j].func
  <2>1. CASE items = <<>>
      BY <2>1 DEF Items
  <2>2. CASE command = "locals" /\ items = FunctionItems(module, limit)
      BY <1>1, <2>2, FunctionsAreItems DEF Items
  <2>. QED  BY <1>2, <2>1, <2>2
<1>. QED  BY <1>1, <1>3, <1>4 DEF ConfigInv

-----------------------------------------------------------------------------
(* The first state, and facts about every state *)

\* The items of a run are finitely many, each with a timeout.
LEMMA ItemFacts ==
    ASSUME ConfigInv
    PROVE  /\ Len(items) \in Nat /\ Items = 1 .. Len(items)
           /\ IsFiniteSet(Items) /\ Cardinality(Items) = Len(items)
           /\ \A i \in Items : items[i] \in Item /\ Timeout(items[i]) \in Nat
<1>1. Len(items) \in Nat /\ Items = 1 .. Len(items) /\ \A i \in Items : items[i] \in Item
    BY DEF ConfigInv, Items
<1>2. IsFiniteSet(Items) /\ Cardinality(Items) = Len(items)
  <2>1. 1 \in Int /\ Len(items) \in Int
      BY <1>1
  <2>2. /\ IsFiniteSet(1 .. Len(items))
        /\ Cardinality(1 .. Len(items)) = IF 1 > Len(items) THEN 0 ELSE Len(items) - 1 + 1
      BY <2>1, FS_Interval, Zenon
  <2>. QED  BY <1>1, <2>2
<1>3. \A i \in Items : Timeout(items[i]) \in Nat
  <2>1. \A i \in Items : items[i].stores \in Nat
      BY <1>1 DEF Item
  <2>. QED  BY <2>1, DriverAssumption DEF Timeout, ConfigInv
<1>. QED  BY <1>1, <1>2, <1>3

\* Whatever the solver gives back is a result, and one of the item's function.
LEMMA PossibleType ==
    ASSUME NEW item \in Item
    PROVE  \A r \in PossibleResults(item) : r \in Results /\ r.func = item.func
<1>1. /\ item.func \in Nat /\ item.len \in Nat /\ item.best \in Nat \cup {None}
      /\ item.early \in Nat \cup {None} /\ item.proven \in BOOLEAN /\ item.cost \in Nat
    BY DEF Item
<1>2. \A got \in Nat \cup {None}, t, v \in BOOLEAN :
          Answered(item, got, t, v) \in Results /\ Answered(item, got, t, v).func = item.func
    BY <1>1 DEF Answered, Results
<1>. QED  BY <1>1, <1>2 DEF PossibleResults, Refused, InTime, CutOff

\* The configuration never changes.
LEMMA ConfigSame ==
    ASSUME ConfigInv, UNCHANGED config
    PROVE  /\ ConfigInv' /\ Items' = Items /\ items' = items /\ jobs' = jobs /\ command' = command
           /\ \A item : Timeout(item)' = Timeout(item)
           /\ \A item : PossibleResults(item)' = PossibleResults(item)
           /\ \A item : Alone(item)' = Alone(item)
<1>1. /\ command' = command /\ jobs' = jobs /\ fixed' = fixed /\ direct' = direct /\ items' = items
    BY DEF config
<1>2. Items' = Items
    BY <1>1 DEF Items
<1>3. \A item : Timeout(item)' = Timeout(item)
    BY <1>1 DEF Timeout
<1>4. \A item : PossibleResults(item)' = PossibleResults(item)
    BY DEF PossibleResults
<1>5. \A item : Alone(item)' = Alone(item)
    BY <1>3, Zenon DEF Alone
<1>6. ConfigInv'
    BY <1>1, <1>2 DEF ConfigInv
<1>. QED  BY <1>1, <1>2, <1>3, <1>4, <1>5, <1>6

\* A function changed at one point keeps its domain and its other values.
LEMMA Updated ==
    ASSUME NEW f, NEW i, NEW x
    PROVE  /\ DOMAIN [f EXCEPT ![i] = x] = DOMAIN f
           /\ \A j \in DOMAIN f : [f EXCEPT ![i] = x][j] = IF j = i THEN x ELSE f[j]
    OBVIOUS

\* The invariant holds when main starts.
LEMMA InitInv == Init => Inv
<1>. SUFFICES ASSUME Init PROVE Inv
    OBVIOUS
<1>1. ConfigInv
    BY ConfigHolds
<1>2. /\ phase \in {"failed", "work"}
      /\ at = [i \in Items |-> "waiting"]
      /\ began = [i \in Items |-> 0] /\ advanced = [i \in Items |-> 0]
      /\ clock = 0 /\ answer = [i \in Items |-> <<>>]
      /\ drawn = 0 /\ number = [i \in Items |-> 0]
      /\ lines = <<>> /\ results = <<>> /\ rows = <<>>
    BY DEF Init
<1>3. Solving = {} /\ Busy = {} /\ Counted = {} /\ Numbered = {}
    BY <1>2 DEF Solving, Busy, Counted, Numbered
<1>4. TypeInv
    BY <1>2 DEF TypeInv
<1>5. TimeInv
    BY <1>2, <1>3 DEF TimeInv
<1>6. InTurnInv
    BY <1>1, <1>2, ItemFacts DEF InTurnInv
<1>7. PoolInv
    BY <1>1, <1>2, <1>3, FS_EmptySet DEF PoolInv, ConfigInv
<1>8. AnswerInv
    BY <1>2 DEF AnswerInv, AsAlone
<1>9. ResultsInv
    BY <1>2 DEF ResultsInv
<1>. QED  BY <1>1, <1>4, <1>5, <1>6, <1>7, <1>8, <1>9 DEF Inv

-----------------------------------------------------------------------------
(* One step of every thread *)

\* One thread taking the next item keeps the invariant.
LEMMA StartInTurnStep ==
    ASSUME Inv, NEW i \in Items, StartInTurn(i)
    PROVE  Inv'
<1>. USE DEF Inv
<1>1. /\ UNCHANGED config /\ phase' = phase /\ phase = "work" /\ jobs <= 1 /\ jobs \in Nat
      /\ at[i] = "waiting" /\ \A j \in 1 .. (i - 1) : at[j] = "done"
      /\ lines' = Append(lines, i) /\ number' = [number EXCEPT ![i] = i]
      /\ at' = [at EXCEPT ![i] = "solving"] /\ began' = [began EXCEPT ![i] = clock]
      /\ UNCHANGED <<advanced, clock, answer, drawn, results, rows>>
    BY DEF StartInTurn, ConfigInv
<1>2. /\ ConfigInv' /\ Items' = Items /\ items' = items /\ jobs' = jobs /\ command' = command
      /\ \A item : Timeout(item)' = Timeout(item)
      /\ \A item : PossibleResults(item)' = PossibleResults(item)
      /\ \A item : Alone(item)' = Alone(item)
    BY <1>1, ConfigSame
<1>3. /\ Len(items) \in Nat /\ Items = 1 .. Len(items)
      /\ \A j \in Items : items[j] \in Item /\ Timeout(items[j]) \in Nat
    BY ItemFacts
<1>4. TypeInv'
    BY <1>1, <1>2, <1>3 DEF TypeInv
<1>5. \A j \in Items : at'[j] = IF j = i THEN "solving" ELSE at[j]
  <2>1. DOMAIN at = Items /\ at' = [at EXCEPT ![i] = "solving"]
      BY <1>1 DEF TypeInv
  <2>. QED  BY <2>1, Updated, Zenon
<1>12. \A j \in Items : began'[j] = IF j = i THEN clock ELSE began[j]
  <2>1. DOMAIN began = Items /\ began' = [began EXCEPT ![i] = clock]
      BY <1>1 DEF TypeInv
  <2>. QED  BY <2>1, Updated, Zenon
<1>6. Solving' = Solving \cup {i}
    BY <1>1, <1>2, <1>5 DEF Solving
<1>7. TimeInv'
  <2>1. \A j \in Items : items[j].fit => items[j].work \in Nat
      BY <1>3 DEF Item
  <2>. QED  BY <1>1, <1>2, <1>3, <1>5, <1>12, <1>6, <2>1, SMTT(20) DEF TimeInv, Solving, TypeInv
<1>8. InTurnInv'
  <2>1. Len(lines) = i - 1
    <3>1. i > Len(lines)
        BY <1>1, <1>3 DEF InTurnInv, TypeInv
    <3>2. ASSUME i - 1 > Len(lines) PROVE FALSE
      <4>1. i - 1 \in Items /\ at[i - 1] = "done"
          BY <1>1, <1>3, <3>2 DEF TypeInv
      <4>. QED  BY <1>1, <1>3, <3>2, <4>1 DEF InTurnInv, TypeInv
    <3>. QED  BY <1>3, <3>1, <3>2 DEF TypeInv
  <2>2. Len(lines') = i /\ \A p \in 1 .. i : lines'[p] = IF p = i THEN i ELSE lines[p]
      BY <1>1, <1>3, <2>1 DEF TypeInv
  <2>3. \A p \in 1 .. i : lines'[p] = p /\ number'[p] = p
    <3>1. DOMAIN lines = 1 .. (i - 1) /\ DOMAIN number = Items
        BY <2>1 DEF TypeInv
    <3>2. \A p \in 1 .. (i - 1) : lines[p] = p /\ number[p] = p
        BY <1>1, <3>1 DEF InTurnInv
    <3>3. \A p \in Items : number'[p] = IF p = i THEN i ELSE number[p]
        BY <1>1, <3>1, Zenon
    <3>4. \A p \in 1 .. i : p \in Items /\ (p # i => p \in 1 .. (i - 1))
        BY <1>3
    <3>. QED  BY <2>2, <3>2, <3>3, <3>4
  <2>4. DOMAIN lines' = 1 .. i
      BY <1>4, <2>2 DEF TypeInv
  <2>5. \A j \in Items : at'[j] # "waiting" <=> j <= Len(lines')
      BY <1>1, <1>3, <1>5, <2>1, <2>2 DEF InTurnInv
  <2>6. \A j, k \in Items : k < j /\ at'[j] # "waiting" => at'[k] = "done"
      BY <1>1, <1>3, <1>5 DEF InTurnInv
  <2>7. \A j \in Items : at'[j] \in {"waiting", "solving", "done"}
      BY <1>1, <1>5 DEF InTurnInv
  <2>. QED  BY <1>2, <2>3, <2>4, <2>5, <2>6, <2>7 DEF InTurnInv
<1>9. PoolInv'
    BY <1>1, <1>2 DEF PoolInv
<1>10. AnswerInv'
    BY <1>1, <1>2, <1>5 DEF AnswerInv, AsAlone
<1>11. ResultsInv'
    BY <1>1 DEF ResultsInv
<1>. QED  BY <1>2, <1>4, <1>7, <1>8, <1>9, <1>10, <1>11

\* A thread of the pool taking any waiting item keeps the invariant.
LEMMA StartStep ==
    ASSUME Inv, NEW i \in Items, Start(i)
    PROVE  Inv'
<1>. USE DEF Inv
<1>1. /\ UNCHANGED config /\ phase' = phase /\ phase = "work" /\ jobs > 1 /\ jobs \in Nat
      /\ at[i] = "waiting" /\ Cardinality(Busy) < jobs
      /\ at' = [at EXCEPT ![i] = "solving"] /\ began' = [began EXCEPT ![i] = clock]
      /\ UNCHANGED <<advanced, clock, answer, drawn, number, lines, results, rows>>
    BY DEF Start, ConfigInv, Busy
<1>2. /\ ConfigInv' /\ Items' = Items /\ items' = items /\ jobs' = jobs /\ command' = command
      /\ \A item : Timeout(item)' = Timeout(item)
      /\ \A item : PossibleResults(item)' = PossibleResults(item)
      /\ \A item : Alone(item)' = Alone(item)
    BY <1>1, ConfigSame
<1>3. /\ Len(items) \in Nat /\ Items = 1 .. Len(items) /\ IsFiniteSet(Items)
      /\ \A j \in Items : items[j] \in Item /\ Timeout(items[j]) \in Nat
    BY ItemFacts
<1>4. TypeInv'
    BY <1>1, <1>2, <1>3 DEF TypeInv
<1>5. \A j \in Items : at'[j] = IF j = i THEN "solving" ELSE at[j]
  <2>1. DOMAIN at = Items /\ at' = [at EXCEPT ![i] = "solving"]
      BY <1>1 DEF TypeInv
  <2>. QED  BY <2>1, Updated, Zenon
<1>12. \A j \in Items : began'[j] = IF j = i THEN clock ELSE began[j]
  <2>1. DOMAIN began = Items /\ began' = [began EXCEPT ![i] = clock]
      BY <1>1 DEF TypeInv
  <2>. QED  BY <2>1, Updated, Zenon
<1>6. /\ Solving' = Solving \cup {i} /\ Busy' = Busy \cup {i} /\ i \notin Busy
      /\ Counted' = Counted /\ Numbered' = Numbered
    BY <1>1, <1>2, <1>5 DEF Solving, Busy, Counted, Numbered
<1>7. TimeInv'
  <2>1. \A j \in Items : items[j].fit => items[j].work \in Nat
      BY <1>3 DEF Item
  <2>. QED  BY <1>1, <1>2, <1>3, <1>5, <1>12, <1>6, <2>1, SMTT(20) DEF TimeInv, Solving, TypeInv
<1>8. InTurnInv'
    BY <1>1, <1>2 DEF InTurnInv
<1>9. PoolInv'
  <2>1. Cardinality(Busy \cup {i}) <= jobs
    <3>1. Busy \subseteq Items
        BY DEF Busy
    <3>2. IsFiniteSet(Busy)
        BY <1>3, <3>1, FS_Subset
    <3>3. Cardinality(Busy) \in Nat /\ Cardinality(Busy \cup {i}) = Cardinality(Busy) + 1
        BY <1>6, <3>2, FS_AddElement, FS_CardinalityType
    <3>. QED  BY <1>1, <3>3
  <2>2. \A p \in DOMAIN lines : lines[p] \in Items
      BY DEF TypeInv
  <2>3. \A p \in DOMAIN lines : at'[lines[p]] = "done"
      BY <1>1, <1>5, <2>2 DEF PoolInv
  <2>. QED  BY <1>1, <1>2, <1>6, <2>1, <2>3 DEF PoolInv
<1>10. AnswerInv'
    BY <1>1, <1>2, <1>5 DEF AnswerInv, AsAlone
<1>11. ResultsInv'
    BY <1>1 DEF ResultsInv
<1>. QED  BY <1>2, <1>4, <1>7, <1>8, <1>9, <1>10, <1>11

\* With a processor for every thread, no thread stands still while time goes by.
LEMMA EveryoneRuns ==
    ASSUME Inv, jobs <= Cores, NEW run \in SUBSET Solving,
           Cardinality(run) = IF Cardinality(Solving) < Cores THEN Cardinality(Solving) ELSE Cores
    PROVE  run = Solving
<1>1. IsFiniteSet(Items) /\ Items = 1 .. Len(items) /\ Len(items) \in Nat
    BY ItemFacts DEF Inv
<1>2. Solving \subseteq Busy /\ Busy \subseteq Items
    BY DEF Solving, Busy
<1>3. IsFiniteSet(Solving) /\ IsFiniteSet(Busy)
  <2>1. Solving \subseteq Items
      BY <1>2
  <2>. QED  BY <1>1, <1>2, <2>1, FS_Subset, Zenon
<1>4. Cardinality(Solving) \in Nat /\ Cardinality(run) \in Nat /\ Cardinality(run) <= Cardinality(Solving)
    BY <1>3, FS_Subset, FS_CardinalityType
<1>5. Cores \in Nat \ {0} /\ jobs \in Nat
    BY DriverAssumption DEF Inv, ConfigInv
<1>6. Cardinality(Solving) <= Cores
  <2>1. CASE jobs <= 1
    <3>1. \A i, j \in Solving : i = j
        BY <1>1, <2>1 DEF Inv, InTurnInv, Solving
    <3>2. CASE Solving = {}
        BY <1>5, <3>2, FS_EmptySet
    <3>3. CASE Solving # {}
      <4>1. PICK i : Solving = {i}
          BY <3>1, <3>3
      <4>2. Cardinality({i}) = 1
          BY FS_Singleton
      <4>. QED  BY <1>5, <4>1, <4>2
    <3>. QED  BY <3>2, <3>3
  <2>2. CASE jobs > 1
    <3>1. Cardinality(Busy) \in Nat /\ Cardinality(Solving) <= Cardinality(Busy)
        BY <1>2, <1>3, FS_Subset, FS_CardinalityType
    <3>2. Cardinality(Busy) <= jobs
        BY <2>2 DEF Inv, PoolInv
    <3>. QED  BY <1>4, <1>5, <3>1, <3>2
  <2>. QED  BY <1>5, <2>1, <2>2
<1>7. Cardinality(run) = Cardinality(Solving)
    BY <1>4, <1>5, <1>6
<1>. QED  BY <1>3, <1>7, FS_Subset

\* Time passing for the items being solved keeps the invariant.
LEMMA TickStep ==
    ASSUME Inv, Tick
    PROVE  Inv'
<1>. USE DEF Inv
<1>1. /\ UNCHANGED config /\ phase' = phase /\ clock' = clock + 1
      /\ UNCHANGED <<at, began, answer, drawn, number, lines, results, rows>>
    BY DEF Tick
<1>2. /\ ConfigInv' /\ Items' = Items /\ items' = items /\ jobs' = jobs /\ command' = command
      /\ \A item : Timeout(item)' = Timeout(item)
      /\ \A item : PossibleResults(item)' = PossibleResults(item)
      /\ \A item : Alone(item)' = Alone(item)
    BY <1>1, ConfigSame
<1>3. /\ Len(items) \in Nat /\ Items = 1 .. Len(items) /\ IsFiniteSet(Items)
      /\ \A j \in Items : items[j] \in Item /\ Timeout(items[j]) \in Nat
    BY ItemFacts
<1>4. PICK run \in SUBSET Solving :
          /\ Cardinality(run) = IF Cardinality(Solving) < Cores THEN Cardinality(Solving) ELSE Cores
          /\ advanced' = [i \in Items |-> IF i \in run THEN advanced[i] + 1 ELSE advanced[i]]
    BY DEF Tick
<1>5. /\ Solving' = Solving /\ Busy' = Busy /\ Counted' = Counted /\ Numbered' = Numbered
    BY <1>1, <1>2 DEF Solving, Busy, Counted, Numbered
<1>6. advanced' \in [Items -> Nat]
    BY <1>4 DEF TypeInv
<1>7. TypeInv'
    BY <1>1, <1>2, <1>6 DEF TypeInv
<1>8. TimeInv'
  <2>1. \A i \in Items : at'[i] = "waiting" => advanced'[i] = 0
      BY <1>1, <1>4 DEF TimeInv, Solving
  <2>2. \A i \in Solving : i \in Items /\ ~Ready(i) /\ ~Late(i)
      BY DEF Tick, Solving
  <2>3. \A i \in Solving : clock - began[i] < Timeout(items[i]) /\ items[i].fit /\ advanced[i] < items[i].work
    <3>1. \A i \in Items : began[i] \in Nat /\ advanced[i] \in Nat /\ items[i].work \in Nat
        BY <1>3 DEF TypeInv, Item
    <3>2. clock \in Nat
        BY DEF TypeInv
    <3>. QED  BY <1>3, <2>2, <3>1, <3>2 DEF Ready, Late
  <2>4. \A i \in Solving : began'[i] <= clock' /\ clock' - began'[i] <= Timeout(items[i])
    <3>1. \A i \in Solving : began[i] <= clock /\ began[i] \in Nat /\ clock \in Nat /\ Timeout(items[i]) \in Nat
        BY <1>3, <2>2 DEF TimeInv, TypeInv
    <3>. QED  BY <1>1, <2>3, <3>1
  <2>5. ASSUME jobs <= Cores, NEW i \in Solving
        PROVE  advanced'[i] = clock' - began'[i] /\ advanced'[i] <= items[i].work
    <3>1. run = Solving
        BY <1>4, <2>5, EveryoneRuns
    <3>2. advanced'[i] = advanced[i] + 1
        BY <1>4, <2>2, <3>1
    <3>3. advanced[i] = clock - began[i]
      <4>1. jobs <= Cores => \A j \in Solving : advanced[j] = clock - began[j]
          BY Zenon DEF TimeInv
      <4>. QED  BY <2>5, <4>1
    <3>5. advanced[i] \in Nat /\ began[i] \in Nat /\ clock \in Nat
        BY <2>2 DEF TypeInv
    <3>4. items[i].work \in Nat
        BY <1>3, <2>2 DEF Item
    <3>. QED  BY <1>1, <2>3, <3>2, <3>3, <3>4, <3>5
  <2>. QED  BY <1>1, <1>2, <1>5, <2>1, <2>4, <2>5 DEF TimeInv
<1>9. InTurnInv'
    BY <1>1, <1>2 DEF InTurnInv
<1>10. PoolInv'
    BY <1>1, <1>2, <1>5 DEF PoolInv
<1>11. AnswerInv'
    BY <1>1, <1>2 DEF AnswerInv, AsAlone
<1>12. ResultsInv'
    BY <1>1 DEF ResultsInv, Tick
<1>. QED  BY <1>2, <1>7, <1>8, <1>9, <1>10, <1>11, <1>12

\* A solver's answer keeps the invariant.
LEMMA ReturnStep ==
    ASSUME Inv, NEW i \in Items, Return(i)
    PROVE  Inv'
<1>. USE DEF Inv
<1>. DEFINE item == items[i]
<1>1. /\ UNCHANGED config /\ phase' = phase /\ phase = "work" /\ at[i] = "solving"
      /\ at' = [at EXCEPT ![i] = IF jobs <= 1 THEN "done" ELSE "solved"]
      /\ UNCHANGED <<began, advanced, clock, drawn, number, lines, results, rows>>
    BY DEF Return
<1>2. /\ ConfigInv' /\ Items' = Items /\ items' = items /\ jobs' = jobs /\ command' = command
      /\ \A x : Timeout(x)' = Timeout(x)
      /\ \A x : PossibleResults(x)' = PossibleResults(x)
      /\ \A x : Alone(x)' = Alone(x)
    BY <1>1, ConfigSame
<1>3. /\ Len(items) \in Nat /\ Items = 1 .. Len(items) /\ IsFiniteSet(Items)
      /\ \A j \in Items : items[j] \in Item /\ Timeout(items[j]) \in Nat
    BY ItemFacts
<1>4. PICK r : /\ answer' = [answer EXCEPT ![i] = r]
               /\ \/ Ready(i) /\ item.fit /\ r = InTime(item)
                  \/ Ready(i) /\ ~item.fit /\ r = Refused(item)
                  \/ item.fit /\ Late(i) /\ r = CutOff(item)
    BY DEF Return
<1>5. r \in PossibleResults(item) /\ r \in Results
    BY <1>3, <1>4, PossibleType DEF PossibleResults
<1>6. \A j \in Items : at'[j] = IF j = i THEN (IF jobs <= 1 THEN "done" ELSE "solved") ELSE at[j]
  <2>1. DOMAIN at = Items
      BY DEF TypeInv
  <2>. QED  BY <1>1, <2>1, Updated, Zenon
<1>7. \A j \in Items : answer'[j] = IF j = i THEN r ELSE answer[j]
  <2>1. DOMAIN answer = Items
      BY DEF TypeInv
  <2>. QED  BY <1>4, <2>1, Updated, Zenon
<1>8. TypeInv'
  <2>1. answer' \in [Items -> Results \cup {<<>>}]
      BY <1>4, <1>5 DEF TypeInv
  <2>2. at' \in [Items -> {"waiting", "solving", "solved", "counted", "done"}]
      BY <1>1 DEF TypeInv
  <2>. QED  BY <1>1, <1>2, <2>1, <2>2 DEF TypeInv
<1>9. TimeInv'
  <2>1. Solving' \subseteq Solving
      BY <1>1, <1>2, <1>6 DEF Solving
  <2>2. \A j \in Items : at'[j] = "waiting" => at[j] = "waiting"
      BY <1>6
  <2>. QED  BY <1>1, <1>2, <2>1, <2>2 DEF TimeInv
<1>10. InTurnInv'
    BY <1>1, <1>2, <1>3, <1>6 DEF InTurnInv
<1>11. PoolInv'
  <2>. SUFFICES ASSUME jobs > 1 PROVE PoolInv'
      BY <1>2 DEF PoolInv
  <2>1. jobs \in Nat
      BY DEF ConfigInv
  <2>2. \A j \in Items : at'[j] = IF j = i THEN "solved" ELSE at[j]
      BY <1>6, <2>1
  <2>3. Busy' = Busy /\ Counted' = Counted /\ Numbered' = Numbered
      BY <1>1, <1>2, <2>2 DEF Busy, Counted, Numbered
  <2>4. \A p \in DOMAIN lines : lines[p] \in Items /\ at'[lines[p]] = "done"
      BY <1>1, <2>2 DEF PoolInv, TypeInv
  <2>. QED  BY <1>1, <1>2, <2>3, <2>4 DEF PoolInv
<1>12. jobs <= Cores => r \in Alone(item)
  <2>. SUFFICES ASSUME jobs <= Cores PROVE r \in Alone(item)
      OBVIOUS
  <2>1. CASE ~item.fit
      BY <1>4, <2>1 DEF Alone
  <2>2. CASE item.fit
    <3>1. /\ item.work \in Nat /\ Timeout(item) \in Nat
          /\ advanced[i] \in Nat /\ began[i] \in Nat /\ clock \in Nat
        BY <1>3 DEF TypeInv, Item
    <3>2. /\ clock - began[i] <= Timeout(item)
          /\ advanced[i] = clock - began[i] /\ advanced[i] <= item.work
      <4>1. i \in Solving
          BY <1>1 DEF Solving
      <4>2. clock - began[i] <= Timeout(items[i])
          BY <4>1, Zenon DEF TimeInv
      <4>3. advanced[i] = clock - began[i] /\ (items[i].fit => advanced[i] <= items[i].work)
          BY <4>1, Zenon DEF TimeInv
      <4>. QED  BY <2>2, <4>2, <4>3, Zenon DEF item
    <3>3. Ready(i) => item.work <= Timeout(item)
        BY <2>2, <3>1, <3>2 DEF Ready
    <3>4. Late(i) => item.work >= Timeout(item)
        BY <3>1, <3>2 DEF Late
    <3>5. \/ item.work <= Timeout(item) /\ r = InTime(item)
          \/ item.work >= Timeout(item) /\ r = CutOff(item)
        BY <1>4, <2>2, <3>3, <3>4
    <3>. HIDE DEF item
    <3>. QED  BY <2>2, <3>5 DEF Alone
  <2>. QED  BY <2>1, <2>2
<1>13. AnswerInv'
  <2>1. \A j \in Items : at'[j] \in {"solved", "counted", "done"} => answer'[j] \in PossibleResults(items[j])
      BY <1>5, <1>6, <1>7 DEF AnswerInv
  <2>2. jobs <= Cores => \A j \in Items : at'[j] \in {"solved", "counted", "done"} =>
                                             answer'[j] \in Alone(items[j])
      BY <1>6, <1>7, <1>12 DEF AnswerInv, AsAlone
  <2>. QED  BY <1>2, <2>1, <2>2 DEF AnswerInv, AsAlone
<1>14. ResultsInv'
    BY <1>1 DEF ResultsInv
<1>. QED  BY <1>2, <1>8, <1>9, <1>10, <1>11, <1>13, <1>14

\* Drawing the number of a progress line keeps the invariant.
LEMMA CountStep ==
    ASSUME Inv, NEW i \in Items, Count(i)
    PROVE  Inv'
<1>. USE DEF Inv
<1>1. /\ UNCHANGED config /\ phase' = phase /\ phase = "work" /\ at[i] = "solved"
      /\ at' = [at EXCEPT ![i] = "counted"] /\ drawn' = drawn + 1
      /\ number' = [number EXCEPT ![i] = drawn + 1]
      /\ UNCHANGED <<began, advanced, clock, answer, lines, results, rows>>
    BY DEF Count
<1>2. /\ ConfigInv' /\ Items' = Items /\ items' = items /\ jobs' = jobs /\ command' = command
      /\ \A item : Timeout(item)' = Timeout(item)
      /\ \A item : PossibleResults(item)' = PossibleResults(item)
      /\ \A item : Alone(item)' = Alone(item)
    BY <1>1, ConfigSame
<1>3. \A j \in Items : at'[j] = IF j = i THEN "counted" ELSE at[j]
  <2>1. DOMAIN at = Items
      BY DEF TypeInv
  <2>. QED  BY <1>1, <2>1, Updated, Zenon
<1>4. \A j \in Items : number'[j] = IF j = i THEN drawn + 1 ELSE number[j]
  <2>1. DOMAIN number = Items
      BY DEF TypeInv
  <2>. QED  BY <1>1, <2>1, Updated, Zenon
<1>5. drawn \in Nat /\ jobs \in Nat /\ jobs > 1
  <2>1. jobs \in Nat /\ drawn \in Nat /\ lines \in Seq(Items)
      BY DEF TypeInv, ConfigInv
  <2>2. jobs <= 1 => at[i] \in {"waiting", "solving", "done"}
      BY Zenon DEF InTurnInv
  <2>. QED  BY <1>1, <2>1, <2>2
<1>6. TypeInv'
    BY <1>1, <1>2, <1>5 DEF TypeInv
<1>7. Solving' = Solving /\ Busy' = Busy
    BY <1>1, <1>2, <1>3 DEF Solving, Busy
<1>8. /\ Counted' = Counted \cup {i} /\ i \notin Counted
      /\ Numbered' = Numbered \cup {i} /\ i \notin Numbered
    BY <1>1, <1>2, <1>3 DEF Counted, Numbered
<1>9. TimeInv'
  <2>1. \A j \in Items : at'[j] = "waiting" => at[j] = "waiting"
      BY <1>3
  <2>. QED  BY <1>1, <1>2, <1>7, <2>1 DEF TimeInv
<1>10. InTurnInv'
    BY <1>2, <1>5 DEF InTurnInv
<1>11. PoolInv'
  <2>1. IsFiniteSet(Counted) /\ IsFiniteSet(Numbered)
    <3>1. IsFiniteSet(Items) /\ Counted \subseteq Items /\ Numbered \subseteq Items
        BY ItemFacts DEF Counted, Numbered
    <3>. QED  BY <3>1, FS_Subset, Zenon
  <2>2. /\ Cardinality(Counted \cup {i}) = Cardinality(Counted) + 1
        /\ Cardinality(Numbered \cup {i}) = Cardinality(Numbered) + 1
      BY <1>8, <2>1, FS_AddElement
  <2>3. Cardinality(Counted) = drawn - Len(lines) /\ Cardinality(Numbered) = drawn
      BY <1>5 DEF PoolInv
  <2>4. Cardinality(Counted') = drawn' - Len(lines') /\ Cardinality(Numbered') = drawn'
    <3>1. Len(lines) \in Nat
        BY DEF TypeInv
    <3>. QED  BY <1>1, <1>5, <1>8, <2>2, <2>3, <3>1
  <2>5. \A j \in Numbered : j \in Items /\ j # i /\ number[j] \in 1 .. drawn
      BY <1>5, <1>8 DEF PoolInv, Numbered
  <2>6. \A j \in Numbered' : number'[j] \in 1 .. drawn'
      BY <1>1, <1>4, <1>5, <1>8, <2>5
  <2>7. \A j, k \in Numbered' : number'[j] = number'[k] => j = k
    <3>1. \A j, k \in Numbered : number[j] = number[k] => j = k
        BY <1>5 DEF PoolInv
    <3>. QED  BY <1>4, <1>5, <1>8, <2>5, <3>1
  <2>8. \A p \in DOMAIN lines : lines[p] \in Items /\ at[lines[p]] = "done" /\ lines[p] # i
      BY <1>1, <1>5 DEF PoolInv, TypeInv
  <2>9. \A p \in DOMAIN lines' : at'[lines'[p]] = "done" /\ p >= number'[lines'[p]] - (jobs' - 1)
    <3>1. \A p \in DOMAIN lines : p >= number[lines[p]] - (jobs - 1)
        BY <1>5 DEF PoolInv
    <3>2. \A p \in DOMAIN lines : at'[lines[p]] = "done" /\ number'[lines[p]] = number[lines[p]]
        BY <1>3, <1>4, <2>8
    <3>. QED  BY <1>1, <1>2, <3>1, <3>2
  <2>10. \A p, q \in DOMAIN lines' : lines'[p] = lines'[q] => p = q
      BY <1>1, <1>5 DEF PoolInv
  <2>11. Cardinality(Busy') <= jobs'
      BY <1>2, <1>5, <1>7 DEF PoolInv
  <2>. QED  BY <2>4, <2>6, <2>7, <2>9, <2>10, <2>11 DEF PoolInv
<1>12. AnswerInv'
  <2>1. \A j \in Items : at'[j] \in {"solved", "counted", "done"} =>
                           at[j] \in {"solved", "counted", "done"}
      BY <1>1, <1>3
  <2>. QED  BY <1>1, <1>2, <2>1 DEF AnswerInv, AsAlone
<1>13. ResultsInv'
    BY <1>1 DEF ResultsInv
<1>. QED  BY <1>2, <1>6, <1>9, <1>10, <1>11, <1>12, <1>13

\* Printing a progress line keeps the invariant.
LEMMA PrintLineStep ==
    ASSUME Inv, NEW i \in Items, PrintLine(i)
    PROVE  Inv'
<1>. USE DEF Inv
<1>1. /\ UNCHANGED config /\ phase' = phase /\ phase = "work" /\ at[i] = "counted"
      /\ at' = [at EXCEPT ![i] = "done"] /\ lines' = Append(lines, i)
      /\ UNCHANGED <<began, advanced, clock, answer, drawn, number, results, rows>>
    BY DEF PrintLine
<1>2. /\ ConfigInv' /\ Items' = Items /\ items' = items /\ jobs' = jobs /\ command' = command
      /\ \A item : Timeout(item)' = Timeout(item)
      /\ \A item : PossibleResults(item)' = PossibleResults(item)
      /\ \A item : Alone(item)' = Alone(item)
    BY <1>1, ConfigSame
<1>3. \A j \in Items : at'[j] = IF j = i THEN "done" ELSE at[j]
  <2>1. DOMAIN at = Items
      BY DEF TypeInv
  <2>. QED  BY <1>1, <2>1, Updated, Zenon
<1>4. drawn \in Nat /\ jobs \in Nat /\ jobs > 1 /\ lines \in Seq(Items)
  <2>1. jobs \in Nat /\ drawn \in Nat /\ lines \in Seq(Items)
      BY DEF TypeInv, ConfigInv
  <2>2. jobs <= 1 => at[i] \in {"waiting", "solving", "done"}
      BY Zenon DEF InTurnInv
  <2>. QED  BY <1>1, <2>1, <2>2
<1>5. TypeInv'
    BY <1>1, <1>2, <1>4 DEF TypeInv
<1>6. /\ Solving' = Solving /\ Numbered' = Numbered /\ i \in Numbered
      /\ Busy' = Busy \ {i} /\ i \in Busy /\ Counted' = Counted \ {i} /\ i \in Counted
    BY <1>1, <1>2, <1>3 DEF Solving, Busy, Counted, Numbered
<1>7. TimeInv'
  <2>1. \A j \in Items : at'[j] = "waiting" => at[j] = "waiting"
      BY <1>3
  <2>. QED  BY <1>1, <1>2, <1>6, <2>1 DEF TimeInv
<1>8. InTurnInv'
    BY <1>2, <1>4 DEF InTurnInv
<1>9. PoolInv'
  <2>1. IsFiniteSet(Counted) /\ IsFiniteSet(Busy)
    <3>1. IsFiniteSet(Items) /\ Counted \subseteq Items /\ Busy \subseteq Items
        BY ItemFacts DEF Counted, Busy
    <3>. QED  BY <3>1, FS_Subset, Zenon
  <2>2. /\ Cardinality(Counted \ {i}) = Cardinality(Counted) - 1
        /\ Cardinality(Busy \ {i}) = Cardinality(Busy) - 1
      BY <1>6, <2>1, FS_RemoveElement
  <2>3. Cardinality(Counted) \in Nat /\ Cardinality(Busy) \in Nat /\ Cardinality(Counted) <= Cardinality(Busy)
    <3>1. Counted \subseteq Busy
        BY DEF Counted, Busy
    <3>. QED  BY <2>1, <3>1, FS_Subset, FS_CardinalityType
  <2>4. /\ Cardinality(Counted) = drawn - Len(lines) /\ Cardinality(Numbered) = drawn
        /\ Cardinality(Busy) <= jobs
      BY <1>4 DEF PoolInv
  <2>. DEFINE n == Len(lines)
  <2>5. /\ n \in Nat /\ DOMAIN lines = 1 .. n /\ DOMAIN lines' = 1 .. n + 1
        /\ \A p \in 1 .. n : lines'[p] = lines[p] /\ lines[p] \in Items
        /\ lines'[n + 1] = i /\ Len(lines') = n + 1
      BY <1>1, <1>4
  <2>. HIDE DEF n
  <2>6. /\ Cardinality(Counted') = drawn' - Len(lines') /\ Cardinality(Numbered') = drawn'
        /\ Cardinality(Busy') <= jobs'
      BY <1>1, <1>2, <1>4, <1>6, <2>2, <2>3, <2>4, <2>5 DEF n
  <2>7. number[i] \in 1 .. drawn /\ drawn <= n + jobs
      BY <1>4, <1>6, <2>3, <2>4, <2>5 DEF PoolInv, n
  <2>8. \A p \in 1 .. n : at[lines[p]] = "done" /\ lines[p] # i /\ p >= number[lines[p]] - (jobs - 1)
      BY <1>1, <1>4, <2>5 DEF PoolInv
  <2>9. \A p \in 1 .. n + 1 : at'[lines'[p]] = "done" /\ p >= number[lines'[p]] - (jobs - 1)
    <3>. TAKE p \in 1 .. n + 1
    <3>1. CASE p \in 1 .. n
        BY <1>3, <2>5, <2>8, <3>1
    <3>2. CASE p = n + 1
      <4>1. at'[lines'[p]] = "done" /\ lines'[p] = i
          BY <1>3, <2>5, <3>2
      <4>2. p >= number[i] - (jobs - 1)
          BY <1>4, <2>5, <2>7, <3>2
      <4>. QED  BY <4>1, <4>2
    <3>. QED  BY <2>5, <3>1, <3>2
  <2>10. \A p, q \in 1 .. n + 1 : lines'[p] = lines'[q] => p = q
    <3>1. \A p, q \in 1 .. n : lines[p] = lines[q] => p = q
        BY <1>4, <2>5 DEF PoolInv
    <3>2. \A p \in 1 .. n + 1 : p \in 1 .. n \/ p = n + 1
        BY <2>5
    <3>. QED  BY <2>5, <2>8, <3>1, <3>2
  <2>11. /\ \A j \in Numbered' : number'[j] \in 1 .. drawn'
         /\ \A j, k \in Numbered' : number'[j] = number'[k] => j = k
      BY <1>1, <1>4, <1>6 DEF PoolInv
  <2>. QED  BY <1>1, <1>2, <2>5, <2>6, <2>9, <2>10, <2>11 DEF PoolInv
<1>10. AnswerInv'
  <2>1. \A j \in Items : at'[j] \in {"solved", "counted", "done"} =>
                           at[j] \in {"solved", "counted", "done"}
      BY <1>1, <1>3
  <2>. QED  BY <1>1, <1>2, <2>1 DEF AnswerInv, AsAlone
<1>11. ResultsInv'
    BY <1>1 DEF ResultsInv
<1>. QED  BY <1>2, <1>5, <1>7, <1>8, <1>9, <1>10, <1>11

-----------------------------------------------------------------------------
(* The results and their rows *)

\* A permutation that is nowhere out of order is the identity.
LEMMA InOrderIsIdentity ==
    ASSUME NEW n \in Nat, NEW p \in [1 .. n -> 1 .. n],
           \A i, j \in 1 .. n : i < j => p[i] < p[j]
    PROVE  \A i \in 1 .. n : p[i] = i
<1>. DEFINE Up == {i \in 0 .. n : i = 0 \/ p[i] >= i}
            Down == {k \in 0 .. n : k = 0 \/ p[n + 1 - k] <= n + 1 - k}
<1>1. \A i \in 0 .. n : i \in Up
  <2>1. 0 \in Up
      OBVIOUS
  <2>2. ASSUME NEW i \in 0 .. n - 1, i \in Up
        PROVE  i + 1 \in Up
    <3>1. CASE i = 0
        BY <3>1
    <3>2. CASE i # 0
      <4>1. i \in 1 .. n /\ i + 1 \in 1 .. n /\ i < i + 1 /\ p[i] >= i
          BY <2>2, <3>2
      <4>2. p[i] < p[i + 1] /\ p[i] \in Int /\ p[i + 1] \in Int
          BY <4>1
      <4>3. p[i + 1] >= i + 1
          BY <4>1, <4>2
      <4>. QED  BY <4>1, <4>3
    <3>. QED  BY <3>1, <3>2
  <2>3. \A i \in 0 .. n - 1 : i \in Up => i + 1 \in Up
      BY <2>2
  <2>. HIDE DEF Up
  <2>. QED  BY <2>1, <2>3, UpTo, Zenon
<1>2. \A k \in 0 .. n : k \in Down
  <2>1. 0 \in Down
      OBVIOUS
  <2>2. ASSUME NEW k \in 0 .. n - 1, k \in Down
        PROVE  k + 1 \in Down
    <3>. DEFINE i == n + 1 - k
                j == n + 1 - (k + 1)
    <3>0. j \in 1 .. n /\ k + 1 \in 0 .. n /\ j + 1 = i
        OBVIOUS
    <3>. SUFFICES p[j] <= j
        BY <3>0
    <3>1. CASE k = 0
        BY <3>0, <3>1
    <3>2. CASE k # 0
      <4>1. i \in 1 .. n /\ p[i] <= i
          BY <2>2, <3>2
      <4>. HIDE DEF i, j
      <4>2. j < i
          BY <3>0, <4>1
      <4>3. p[j] < p[i] /\ p[i] \in Int /\ p[j] \in Int
          BY <3>0, <4>1, <4>2
      <4>. QED  BY <3>0, <4>1, <4>3
    <3>. QED  BY <3>1, <3>2
  <2>3. \A k \in 0 .. n - 1 : k \in Down => k + 1 \in Down
      BY <2>2
  <2>. HIDE DEF Down
  <2>. QED  BY <2>1, <2>3, UpTo, Zenon
<1>. TAKE i \in 1 .. n
<1>3. p[i] >= i
    BY <1>1
<1>4. p[i] <= i
  <2>1. n + 1 - i \in 0 .. n /\ n + 1 - i # 0 /\ n + 1 - (n + 1 - i) = i
      OBVIOUS
  <2>2. n + 1 - i \in Down
      BY <1>2, <2>1
  <2>3. p[n + 1 - (n + 1 - i)] <= n + 1 - (n + 1 - i)
      BY <2>1, <2>2
  <2>. QED  BY <2>1, <2>3, Zenon
<1>5. p[i] \in Int
    OBVIOUS
<1>. QED  BY <1>3, <1>4, <1>5

\* Sorting by the function changes nothing when the functions are in order.
LEMMA SortedAlready ==
    ASSUME NEW n \in Nat, NEW seq, seq = [i \in 1 .. n |-> seq[i]],
           \A i \in 1 .. n : seq[i].func \in Nat,
           \A i, j \in 1 .. n : i < j => seq[i].func < seq[j].func
    PROVE  ByFunc(seq) = seq
<1>. DEFINE Sorts(p) == \A i, j \in DOMAIN seq : i < j => seq[p[i]].func <= seq[p[j]].func
            order == CHOOSE p \in SetToSeqs(DOMAIN seq) : Sorts(p)
<1>1. DOMAIN seq = 1 .. n
    OBVIOUS
<1>2. Cardinality(1 .. n) = n
    BY FS_Interval
<1>3. SetToSeqs(DOMAIN seq) = {p \in [1 .. n -> 1 .. n] : \A i, j \in 1 .. n : i # j => p[i] # p[j]}
    BY <1>1, <1>2, Zenon DEF SetToSeqs
<1>4. \E p \in SetToSeqs(DOMAIN seq) : Sorts(p)
  <2>. DEFINE id == [i \in 1 .. n |-> i]
  <2>1. id \in [1 .. n -> 1 .. n] /\ \A i \in 1 .. n : id[i] = i
      OBVIOUS
  <2>. HIDE DEF id
  <2>2. Sorts(id)
      BY <1>1, <2>1
  <2>. HIDE DEF Sorts
  <2>3. id \in SetToSeqs(DOMAIN seq)
    <3>1. \A j, k \in 1 .. n : j # k => id[j] # id[k]
        BY <2>1
    <3>. QED  BY <1>3, <2>1, <3>1, SMTT(20)
  <2>. QED  BY <2>2, <2>3
<1>5. order \in SetToSeqs(DOMAIN seq) /\ Sorts(order)
  <2>. HIDE DEF Sorts
  <2>. QED  BY <1>4, Zenon
<1>6. ByFunc(seq) = [i \in DOMAIN seq |-> seq[order[i]]]
    BY Zenon DEF ByFunc
<1>. HIDE DEF order
<1>7. order \in [1 .. n -> 1 .. n] /\ \A i, j \in 1 .. n : i # j => order[i] # order[j]
    BY <1>3, <1>5
<1>8. \A i, j \in 1 .. n : i < j => order[i] < order[j]
  <2>. SUFFICES ASSUME NEW i \in 1 .. n, NEW j \in 1 .. n, i < j
                PROVE  order[i] < order[j]
      OBVIOUS
  <2>1. order[i] \in 1 .. n /\ order[j] \in 1 .. n /\ order[i] # order[j]
      BY <1>7
  <2>2. seq[order[i]].func <= seq[order[j]].func
      BY <1>1, <1>5
  <2>3. ASSUME order[j] < order[i] PROVE FALSE
    <3>1. seq[order[j]].func < seq[order[i]].func /\ seq[order[j]].func \in Nat /\ seq[order[i]].func \in Nat
        BY <2>1, <2>3
    <3>. QED  BY <2>2, <3>1
  <2>. QED  BY <2>1, <2>3
<1>9. \A i \in 1 .. n : order[i] = i
    BY <1>7, <1>8, InOrderIsIdentity, Zenon
<1>10. ByFunc(seq) = [i \in 1 .. n |-> seq[i]]
    BY <1>1, <1>6, <1>9
<1>. QED  BY <1>10, Zenon

\* Collecting the answers, sorted where the code sorts, keeps the invariant.
LEMMA CollectStep ==
    ASSUME Inv, Collect
    PROVE  Inv'
<1>. USE DEF Inv
<1>1. /\ UNCHANGED config /\ phase' = "rows" /\ phase = "work" /\ results' = Collected
      /\ \A i \in Items : at[i] = "done"
      /\ UNCHANGED <<at, began, advanced, clock, answer, drawn, number, lines, rows>>
    BY DEF Collect, threads
<1>2. /\ ConfigInv' /\ Items' = Items /\ items' = items /\ jobs' = jobs /\ command' = command
      /\ \A item : Timeout(item)' = Timeout(item)
      /\ \A item : PossibleResults(item)' = PossibleResults(item)
      /\ \A item : Alone(item)' = Alone(item)
    BY <1>1, ConfigSame
<1>3. /\ Len(items) \in Nat /\ Items = 1 .. Len(items) /\ \A i \in Items : items[i] \in Item
    BY ItemFacts
<1>4. \A i \in Items : answer[i] \in Results /\ answer[i].func = items[i].func /\ answer[i].func \in Nat
  <2>1. \A i \in Items : answer[i] \in PossibleResults(items[i])
      BY <1>1 DEF AnswerInv
  <2>2. \A i \in Items : items[i].func \in Nat
      BY <1>3 DEF Item
  <2>. QED  BY <1>3, <2>1, <2>2, PossibleType
<1>5. Collected = answer
  <2>1. CASE command = "locals" /\ jobs > 1
    <3>1. \A i, j \in Items : i < j => answer[i].func < answer[j].func
        BY <1>4, <2>1 DEF ConfigInv
    <3>2. answer = [i \in 1 .. Len(items) |-> answer[i]]
        BY <1>3 DEF TypeInv
    <3>3. ByFunc(answer) = answer
        BY <1>3, <1>4, <3>1, <3>2, SortedAlready, Zenon
    <3>. QED  BY <2>1, <3>3 DEF Collected
  <2>2. CASE ~(command = "locals" /\ jobs > 1)
      BY <2>2 DEF Collected
  <2>. QED  BY <2>1, <2>2
<1>6. /\ Solving' = Solving /\ Busy' = Busy /\ Counted' = Counted /\ Numbered' = Numbered
    BY <1>1, <1>2 DEF Solving, Busy, Counted, Numbered
<1>7. TypeInv'
    BY <1>1, <1>2 DEF TypeInv
<1>8. TimeInv'
    BY <1>1, <1>2, <1>6 DEF TimeInv
<1>9. InTurnInv'
    BY <1>1, <1>2 DEF InTurnInv
<1>10. PoolInv'
    BY <1>1, <1>2, <1>6 DEF PoolInv
<1>11. AnswerInv'
    BY <1>1, <1>2 DEF AnswerInv, AsAlone
<1>12. ResultsInv'
  <2>1. rows = <<>> /\ rows \in Seq(RowRecords)
      BY <1>1 DEF ResultsInv
  <2>2. Len(answer) \in Nat
    <3>. DEFINE R == Results \cup {<<>>}
    <3>1. answer \in [1 .. Len(items) -> R]
        BY <1>3 DEF TypeInv
    <3>. HIDE DEF R
    <3>2. answer \in Seq(R)
        BY <1>3, <3>1
    <3>. QED  BY <3>2
  <2>3. rows' = <<>> /\ results' = answer' /\ phase' = "rows" /\ Len(results') \in Nat
      BY <1>1, <1>5, <2>1, <2>2
  <2>. QED  BY <1>1, <1>2, <2>1, <2>3 DEF ResultsInv
<1>. QED  BY <1>2, <1>7, <1>8, <1>9, <1>10, <1>11, <1>12

\* What one result adds to the printed total, and what it takes from it.
After(r) == IF Found(r) THEN r.got ELSE r.len
LostBy(r) == IF r.got > r.len THEN r.got - r.len ELSE 0

\* One row against its result (statistics_row).
HonestRow(row, r) ==
    /\ row.saved <= r.len - After(r) + LostBy(r)
    /\ (Found(r) => row.checker) => row.saved = r.len - After(r) + LostBy(r)
    /\ \/ row.saved = r.len - row.length
       \/ row.saved = 0 /\ row.length = r.got /\ row.length > r.len
    /\ \/ row.tag = "astar" <=> row.length < r.len
       \/ Found(r) /\ ~row.checker /\ ~r.timedOut
    /\ row.shownOptimal => Found(r) /\ ~r.timedOut

\* The row written for a result says no more than the result and the checker.
LEMMA RowIsHonest ==
    ASSUME NEW r \in Results, NEW accepted \in BOOLEAN
    PROVE  Row(r, accepted) \in RowRecords /\ HonestRow(Row(r, accepted), r)
<1>. DEFINE checker == Found(r) /\ accepted
            row == Row(r, accepted)
<1>1. /\ r.len \in Nat /\ r.got \in Nat \cup {-1} /\ r.timedOut \in BOOLEAN /\ r.proven \in BOOLEAN
      /\ Found(r) \in BOOLEAN /\ (Found(r) <=> r.got # -1)
    BY DEF Results, None, Found
<1>2. Outcome(r) \in Outcomes /\ (Outcome(r) = "optimal" => Found(r) /\ ~r.timedOut)
    BY <1>1 DEF Outcome, Outcomes
<1>3. Improved(r) <=> Found(r) /\ r.got < r.len
    BY DEF Improved
<1>4. Tag(r, checker) \in {"astar", "original"} /\
      (Tag(r, checker) = "astar" <=> Found(r) /\ ((Improved(r) /\ checker) \/ (~checker /\ ~r.timedOut)))
  <2>. DEFINE keeps == Found(r) /\ ((Improved(r) /\ checker) \/ (~checker /\ ~r.timedOut))
  <2>. HIDE DEF checker
  <2>1. CASE keeps
    <3>1. Tag(r, checker) = "astar"
        BY <2>1, Zenon DEF Tag
    <3>. QED  BY <2>1, <3>1
  <2>2. CASE ~keeps
    <3>1. Tag(r, checker) = "original"
        BY <2>2 DEF Tag
    <3>2. "original" # "astar"
        OBVIOUS
    <3>. QED  BY <2>2, <3>1, <3>2, Zenon
  <2>. QED  BY <2>1, <2>2
<1>5. Saved(r, checker) = IF checker /\ Improved(r) THEN r.len - r.got ELSE 0
    BY DEF Saved
<1>6. row = [checker |-> checker, outcome |-> Outcome(r), tag |-> Tag(r, checker),
             shownOptimal |-> Outcome(r) = "optimal",
             length |-> IF checker THEN r.got ELSE r.len, saved |-> Saved(r, checker)]
    BY Zenon DEF Row
<1>7. /\ row.checker = checker /\ row.outcome = Outcome(r) /\ row.tag = Tag(r, checker)
      /\ row.shownOptimal = (Outcome(r) = "optimal")
      /\ row.length = (IF checker THEN r.got ELSE r.len) /\ row.saved = Saved(r, checker)
    BY <1>6
<1>8. row \in RowRecords
  <2>1. checker \in BOOLEAN /\ (Outcome(r) = "optimal") \in BOOLEAN
      OBVIOUS
  <2>2. (IF checker THEN r.got ELSE r.len) \in Int /\ Saved(r, checker) \in Int
      BY <1>1, <1>5
  <2>. HIDE DEF checker, row
  <2>. QED  BY <1>2, <1>4, <1>6, <2>1, <2>2, Zenon DEF RowRecords
<1>9. HonestRow(row, r)
  <2>. HIDE DEF row
  <2>1. row.saved <= r.len - After(r) + LostBy(r)
      BY <1>1, <1>3, <1>5, <1>7 DEF After, LostBy
  <2>2. (Found(r) => row.checker) => row.saved = r.len - After(r) + LostBy(r)
      BY <1>1, <1>3, <1>5, <1>7 DEF After, LostBy
  <2>3. \/ row.saved = r.len - row.length
        \/ row.saved = 0 /\ row.length = r.got /\ row.length > r.len
      BY <1>1, <1>3, <1>5, <1>7
  <2>4. \/ row.tag = "astar" <=> row.length < r.len
        \/ Found(r) /\ ~row.checker /\ ~r.timedOut
    <3>1. CASE checker
      <4>1. row.length = r.got /\ (row.tag = "astar" <=> r.got < r.len)
        <5>1. row.length = r.got
            BY <1>7, <3>1
        <5>2. row.tag = "astar" <=> r.got < r.len
          <6>. HIDE DEF checker
          <6>1. row.tag = Tag(r, checker) /\ (checker => Found(r))
              BY <1>7 DEF checker
          <6>2. Tag(r, checker) = "astar" <=> Improved(r)
              BY <1>3, <1>4, <3>1, <6>1
          <6>3. Improved(r) <=> r.got < r.len
              BY <1>3, <3>1, <6>1
          <6>. QED  BY <6>1, <6>2, <6>3, Zenon
        <5>. QED  BY <5>1, <5>2
      <4>. QED  BY <4>1
    <3>2. CASE ~checker /\ Found(r) /\ ~r.timedOut
        BY <1>7, <3>2
    <3>3. CASE ~checker /\ ~(Found(r) /\ ~r.timedOut)
      <4>1. row.length = r.len /\ row.tag # "astar"
          BY <1>4, <1>7, <3>3
      <4>2. ~(r.len < r.len)
          BY <1>1
      <4>. QED  BY <4>1, <4>2
    <3>. QED  BY <3>1, <3>2, <3>3
  <2>5. row.shownOptimal => Found(r) /\ ~r.timedOut
      BY <1>2, <1>7
  <2>. QED  BY <2>1, <2>2, <2>3, <2>4, <2>5 DEF HonestRow
<1>. QED  BY <1>8, <1>9

\* The results are there when the rows are written.
HaveResults == phase \in {"rows", "end"}

ResultsFit ==
    /\ results \in Seq(Results) /\ Len(results) = Len(items)
    /\ \A i \in DOMAIN items : results[i] \in PossibleResults(items[i])

\* Once the answers are collected, each is one its item may have.
LEMMA ResultType ==
    ASSUME Inv, HaveResults
    PROVE  ResultsFit
<1>. USE DEF HaveResults
<1>1. Len(items) \in Nat /\ Items = 1 .. Len(items) /\ \A i \in Items : items[i] \in Item
    BY ItemFacts DEF Inv
<1>2. results = answer /\ \A i \in Items : at[i] = "done"
    BY DEF Inv, ResultsInv
<1>3. \A i \in Items : answer[i] \in PossibleResults(items[i]) /\ answer[i] \in Results
  <2>1. \A i \in Items : answer[i] \in PossibleResults(items[i])
      BY <1>2 DEF Inv, AnswerInv
  <2>. QED  BY <1>1, <2>1, PossibleType
<1>4. answer = [i \in 1 .. Len(items) |-> answer[i]]
    BY <1>1 DEF Inv, TypeInv
<1>5. answer \in Seq(Results) /\ Len(answer) = Len(items)
    BY <1>1, <1>3, <1>4, SeqByElements, Zenon
<1>. QED  BY <1>2, <1>3, <1>5 DEF Items, ResultsFit

\* Writing the row of one result keeps the invariant.
LEMMA WriteRowStep ==
    ASSUME Inv, WriteRow
    PROVE  Inv'
<1>. USE DEF Inv
<1>1. /\ UNCHANGED config /\ phase' = phase /\ phase = "rows" /\ results' = results
      /\ Len(rows) < Len(results)
      /\ UNCHANGED <<at, began, advanced, clock, answer, drawn, number, lines>>
    BY DEF WriteRow, threads
<1>2. /\ ConfigInv' /\ Items' = Items /\ items' = items /\ jobs' = jobs /\ command' = command
      /\ \A item : Timeout(item)' = Timeout(item)
      /\ \A item : PossibleResults(item)' = PossibleResults(item)
      /\ \A item : Alone(item)' = Alone(item)
    BY <1>1, ConfigSame
<1>6. /\ Solving' = Solving /\ Busy' = Busy /\ Counted' = Counted /\ Numbered' = Numbered
    BY <1>1, <1>2 DEF Solving, Busy, Counted, Numbered
<1>7. TypeInv'
    BY <1>1, <1>2 DEF TypeInv
<1>8. TimeInv'
    BY <1>1, <1>2, <1>6 DEF TimeInv
<1>9. InTurnInv'
    BY <1>1, <1>2 DEF InTurnInv
<1>10. PoolInv'
    BY <1>1, <1>2, <1>6 DEF PoolInv
<1>11. AnswerInv'
    BY <1>1, <1>2 DEF AnswerInv, AsAlone
<1>12. ResultsInv'
  <2>. DEFINE n == Len(rows)
              r == results[n + 1]
  <2>1. PICK accepted \in BOOLEAN : rows' = Append(rows, Row(r, accepted))
    <3>1. \E a \in IF spent + r.cost <= Room THEN {TRUE} ELSE BOOLEAN : rows' = Append(rows, Row(r, a))
        BY Zenon DEF WriteRow
    <3>. QED  BY <3>1
  <2>2. rows \in Seq(RowRecords) /\ n \in Nat /\ results \in Seq(Results) /\ Len(results) \in Nat
      BY <1>1, ResultType DEF ResultsInv, HaveResults, ResultsFit
  <2>3. r \in Results
      BY <1>1, <2>2
  <2>4. Row(r, accepted) \in RowRecords
      BY <2>3, RowIsHonest
  <2>5. /\ rows' \in Seq(RowRecords) /\ Len(rows') = n + 1 /\ n + 1 <= Len(results)
        /\ rows'[n + 1] = Row(r, accepted) /\ \A i \in 1 .. n : rows'[i] = rows[i]
        /\ DOMAIN rows' = 1 .. n + 1 /\ DOMAIN rows = 1 .. n
    <3>. HIDE DEF r
    <3>. QED  BY <1>1, <2>1, <2>2, <2>4
  <2>6. \A i \in DOMAIN rows' : \E a \in BOOLEAN : rows'[i] = Row(results[i], a)
    <3>. HIDE DEF n
    <3>. TAKE i \in DOMAIN rows'
    <3>1. CASE i \in 1 .. n
        BY <2>5, <3>1 DEF ResultsInv
    <3>2. CASE i = n + 1
        BY <2>1, <2>5, <3>2
    <3>. QED  BY <2>2, <2>5, <3>1, <3>2
  <2>7. \A x, a : Row(x, a)' = Row(x, a)
      BY Zenon DEF Row, Found, Outcome, Tag, Saved, Improved
  <2>8. \A i \in Items' : at'[i] = "done"
      BY <1>1, <1>2 DEF ResultsInv
  <2>9. results' = answer'
      BY <1>1 DEF ResultsInv
  <2>. QED  BY <1>1, <2>5, <2>6, <2>7, <2>8, <2>9 DEF ResultsInv
<1>. QED  BY <1>2, <1>7, <1>8, <1>9, <1>10, <1>11, <1>12

\* The end of the run keeps the invariant.
LEMMA FinishStep ==
    ASSUME Inv, Finish
    PROVE  Inv'
<1>. USE DEF Inv
<1>1. /\ UNCHANGED config /\ phase' = "end" /\ phase = "rows"
      /\ UNCHANGED <<at, began, advanced, clock, answer, drawn, number, lines, results, rows>>
    BY DEF Finish, threads
<1>2. /\ ConfigInv' /\ Items' = Items /\ items' = items /\ jobs' = jobs /\ command' = command
      /\ \A item : Timeout(item)' = Timeout(item)
      /\ \A item : PossibleResults(item)' = PossibleResults(item)
      /\ \A item : Alone(item)' = Alone(item)
    BY <1>1, ConfigSame
<1>6. /\ Solving' = Solving /\ Busy' = Busy /\ Counted' = Counted /\ Numbered' = Numbered
    BY <1>1, <1>2 DEF Solving, Busy, Counted, Numbered
<1>7. TypeInv'
    BY <1>1, <1>2 DEF TypeInv
<1>8. TimeInv'
    BY <1>1, <1>2, <1>6 DEF TimeInv
<1>9. InTurnInv'
    BY <1>1, <1>2 DEF InTurnInv
<1>10. PoolInv'
    BY <1>1, <1>2, <1>6 DEF PoolInv
<1>11. AnswerInv'
    BY <1>1, <1>2 DEF AnswerInv, AsAlone
<1>12. ResultsInv'
    BY <1>1, <1>2 DEF ResultsInv
<1>. QED  BY <1>2, <1>7, <1>8, <1>9, <1>10, <1>11, <1>12

\* A step that changes nothing keeps the invariant.
LEMMA StutterStep ==
    ASSUME Inv, UNCHANGED vars
    PROVE  Inv'
<1>. USE DEF Inv
<1>1. /\ UNCHANGED config /\ phase' = phase
      /\ UNCHANGED <<at, began, advanced, clock, answer, drawn, number, lines, results, rows>>
    BY DEF vars, threads
<1>2. /\ ConfigInv' /\ Items' = Items /\ items' = items /\ jobs' = jobs /\ command' = command
      /\ \A item : Timeout(item)' = Timeout(item)
      /\ \A item : PossibleResults(item)' = PossibleResults(item)
      /\ \A item : Alone(item)' = Alone(item)
    BY <1>1, ConfigSame
<1>6. /\ Solving' = Solving /\ Busy' = Busy /\ Counted' = Counted /\ Numbered' = Numbered
    BY <1>1, <1>2 DEF Solving, Busy, Counted, Numbered
<1>7. TypeInv'
    BY <1>1, <1>2 DEF TypeInv
<1>8. TimeInv'
    BY <1>1, <1>2, <1>6 DEF TimeInv
<1>9. InTurnInv'
    BY <1>1, <1>2 DEF InTurnInv
<1>10. PoolInv'
    BY <1>1, <1>2, <1>6 DEF PoolInv
<1>11. AnswerInv'
    BY <1>1, <1>2 DEF AnswerInv, AsAlone
<1>12. ResultsInv'
    BY <1>1, <1>2 DEF ResultsInv
<1>. QED  BY <1>2, <1>7, <1>8, <1>9, <1>10, <1>11, <1>12

-----------------------------------------------------------------------------
(* What holds of every run *)

\* The invariant of optimize_segments and optimize_module_functions holds in
\* every state of every run.
THEOREM DriverInvariant == Spec => []Inv
<1>1. Inv /\ [Next]_vars => Inv'
  <2>. SUFFICES ASSUME Inv, [Next]_vars PROVE Inv'
      OBVIOUS
  <2>1. ASSUME NEW i \in Items, StartInTurn(i) \/ Start(i) \/ Return(i) \/ Count(i) \/ PrintLine(i)
        PROVE  Inv'
      BY <2>1, StartInTurnStep, StartStep, ReturnStep, CountStep, PrintLineStep
  <2>2. CASE Tick
      BY <2>2, TickStep
  <2>3. CASE Collect
      BY <2>3, CollectStep
  <2>4. CASE WriteRow
      BY <2>4, WriteRowStep
  <2>5. CASE Finish
      BY <2>5, FinishStep
  <2>6. CASE UNCHANGED vars
      BY <2>6, StutterStep
  <2>. QED  BY <2>1, <2>2, <2>3, <2>4, <2>5, <2>6 DEF Next
<1>. QED  BY InitInv, <1>1, PTL DEF Spec

\* With a processor for every thread, what an item gets does not depend on the
\* number of threads or on the turn it waits for (optimize_segment_with_trace).
THEOREM ResultsAsAlone == Spec => []AsAlone
<1>1. Inv => AsAlone
    BY DEF Inv, AnswerInv
<1>. QED  BY <1>1, DriverInvariant, PTL

\* Lines of progress are numbered once each, close to their turn, and none is
\* missing in the end (optimize_segments, optimize_functions_parallel).
THEOREM LinesAreInSight == Spec => []LinesInSight
<1>1. ASSUME Inv PROVE LinesInSight
  <2>. USE <1>1 DEF Inv
  <2>1. /\ Len(items) \in Nat /\ Items = 1 .. Len(items) /\ IsFiniteSet(Items)
        /\ Cardinality(Items) = Len(items)
      BY ItemFacts
  <2>2. /\ jobs \in Nat /\ lines \in Seq(Items) /\ Len(lines) \in Nat /\ DOMAIN lines = 1 .. Len(lines)
        /\ \A i \in Items : number[i] \in Nat
      BY DEF ConfigInv, TypeInv
  <2>3. phase \in {"rows", "end"} => \A i \in Items : at[i] = "done"
      BY DEF ResultsInv
  <2>4. CASE jobs <= 1
    <3>1. \A p \in DOMAIN lines : lines[p] = p /\ number[p] = p /\ lines[p] \in Items
        BY <2>2, <2>4 DEF InTurnInv
    <3>2. Threads = 1
        BY <2>4 DEF Threads
    <3>3. ASSUME phase \in {"rows", "end"} PROVE Len(lines) = Len(items)
      <4>1. \A i \in Items : i <= Len(lines)
          BY <2>3, <2>4, <3>3 DEF InTurnInv
      <4>2. \A p \in 1 .. Len(lines) : p \in 1 .. Len(items)
          BY <2>1, <2>2, <3>1
      <4>3. Len(items) <= Len(lines)
          BY <2>1, <2>2, <4>1
      <4>4. Len(lines) <= Len(items)
          BY <2>1, <2>2, <4>2
      <4>. QED  BY <2>1, <2>2, <4>3, <4>4
    <3>. QED  BY <2>1, <2>2, <3>1, <3>2, <3>3 DEF LinesInSight
  <2>5. CASE jobs > 1
    <3>1. \A p \in DOMAIN lines : lines[p] \in Numbered
        BY <2>2, <2>5 DEF PoolInv, Numbered
    <3>2. \A p, q \in DOMAIN lines : p # q => lines[p] # lines[q] /\ number[lines[p]] # number[lines[q]]
        BY <2>5, <3>1 DEF PoolInv
    <3>3. drawn \in Nat /\ drawn <= Len(items)
      <4>1. Numbered \subseteq Items /\ drawn = Cardinality(Numbered) /\ drawn \in Nat
          BY <2>5 DEF PoolInv, Numbered, TypeInv
      <4>. QED  BY <2>1, <4>1, FS_Subset
    <3>4. \A p \in DOMAIN lines : number[lines[p]] \in 1 .. drawn /\ p >= number[lines[p]] - (jobs - 1)
        BY <2>5, <3>1 DEF PoolInv
    <3>5. Threads = jobs
        BY <2>2, <2>5 DEF Threads
    <3>6. ASSUME phase \in {"rows", "end"} PROVE Len(lines) = Len(items)
      <4>1. Counted = {} /\ Numbered = Items
          BY <2>3, <3>6 DEF Counted, Numbered
      <4>2. Cardinality(Counted) = drawn - Len(lines) /\ Cardinality(Numbered) = drawn
          BY <2>5 DEF PoolInv
      <4>3. Cardinality({}) = 0
          BY FS_EmptySet
      <4>4. drawn - Len(lines) = 0 /\ drawn = Len(items)
          BY <2>1, <4>1, <4>2, <4>3, Zenon
      <4>5. \A x, y, z \in Int : x - y = 0 /\ x = z => y = z
          OBVIOUS
      <4>6. drawn \in Int /\ Len(lines) \in Int /\ Len(items) \in Int
          BY <2>1, <2>2, <3>3
      <4>. QED  BY <4>4, <4>5, <4>6, Zenon
    <3>7. \A p \in DOMAIN lines : number[lines[p]] \in 1 .. Len(items)
        BY <2>1, <3>3, <3>4
    <3>. QED  BY <3>2, <3>4, <3>5, <3>6, <3>7 DEF LinesInSight
  <2>. QED  BY <2>2, <2>4, <2>5
<1>. QED  BY <1>1, DriverInvariant, PTL

\* The statistics agree with the printed summary, row by row and in sum
\* (statistics_row, accumulate_result, summarize).
THEOREM RowsAgree == Spec => []RowsAreHonest
<1>1. ASSUME Inv PROVE RowsAreHonest
  <2>. USE <1>1
  <2>. DEFINE n == Len(rows)
              done == SubSeq(results, 1, n)
              a == [i \in DOMAIN rows |-> rows[i].saved]
              b == [i \in DOMAIN done |-> done[i].len]
              c == [i \in DOMAIN done |-> IF Found(done[i]) THEN done[i].got ELSE done[i].len]
              d == [i \in DOMAIN done |-> IF done[i].got > done[i].len THEN done[i].got - done[i].len ELSE 0]
  <2>1. /\ rows \in Seq(RowRecords) /\ n \in Nat /\ DOMAIN rows = 1 .. n
        /\ results \in Seq(Results) /\ n <= Len(results) /\ Len(results) \in Nat
        /\ DOMAIN results = 1 .. Len(results)
    <3>1. rows \in Seq(RowRecords) /\ n <= Len(results)
        BY DEF Inv, ResultsInv
    <3>2. results \in Seq(Results)
      <4>1. CASE phase \in {"rows", "end"}
          BY <4>1, ResultType DEF HaveResults, ResultsFit
      <4>2. CASE phase \in {"failed", "work"}
          BY <4>2 DEF Inv, ResultsInv
      <4>. QED  BY <4>1, <4>2 DEF Inv, TypeInv
    <3>. QED  BY <3>1, <3>2
  <2>2. DOMAIN done = 1 .. n /\ \A i \in 1 .. n : done[i] = results[i] /\ results[i] \in Results
      BY <2>1
  <2>3. \A i \in 1 .. n : HonestRow(rows[i], results[i]) /\ rows[i].saved \in Int
    <3>. TAKE i \in 1 .. n
    <3>1. PICK accepted \in BOOLEAN : rows[i] = Row(results[i], accepted)
        BY <2>1 DEF Inv, ResultsInv
    <3>2. rows[i] \in RowRecords
        BY <2>1
    <3>. QED  BY <2>2, <3>1, <3>2, RowIsHonest DEF RowRecords
  <2>. HIDE DEF done
  <2>4. \A i \in 1 .. n : /\ results[i].len \in Int
                           /\ (IF Found(results[i]) THEN results[i].got ELSE results[i].len) \in Int
                           /\ (IF results[i].got > results[i].len
                               THEN results[i].got - results[i].len ELSE 0) \in Int
      BY <2>2 DEF Results, None
  <2>5. \A i \in 1 .. n : /\ a[i] = rows[i].saved /\ b[i] = results[i].len
                           /\ c[i] = After(results[i]) /\ d[i] = LostBy(results[i])
      BY <2>1, <2>2 DEF After, LostBy
  <2>6. \A i \in 1 .. n : a[i] \in Int /\ b[i] \in Int /\ c[i] \in Int /\ d[i] \in Int
    <3>. TAKE i \in 1 .. n
    <3>1. a[i] \in Int
        BY <2>3, <2>5
    <3>2. b[i] \in Int
        BY <2>4, <2>5
    <3>3. c[i] \in Int
        BY <2>4, <2>5, Zenon DEF After
    <3>4. d[i] \in Int
        BY <2>4, <2>5, Zenon DEF LostBy
    <3>. QED  BY <3>1, <3>2, <3>3, <3>4
  <2>7. /\ a = [i \in 1 .. n |-> a[i]] /\ b = [i \in 1 .. n |-> b[i]]
        /\ c = [i \in 1 .. n |-> c[i]] /\ d = [i \in 1 .. n |-> d[i]]
      BY <2>1, <2>2
  <2>8. Summary(done).before = Total(b) /\ Summary(done).after = Total(c) /\ Lost(done) = Total(d)
      BY Zenon DEF Summary, Lost
  <2>. HIDE DEF a, b, c, d, n
  <2>9. Numbers(n, a) /\ Numbers(n, b) /\ Numbers(n, c) /\ Numbers(n, d)
      BY <2>1, <2>6, <2>7, SeqByElements, Zenon DEF Numbers
  <2>10. Total(a) <= Total(b) - Total(c) + Total(d)
    <3>1. \A i \in 1 .. n : a[i] <= b[i] - c[i] + d[i]
        BY <2>3, <2>5 DEF HonestRow
    <3>. QED  BY <2>1, <2>9, <3>1, TotalsOrdered DEF Numbers
  <2>11. ASSUME \A i \in DOMAIN rows : Found(results[i]) => rows[i].checker
         PROVE  Total(a) = Total(b) - Total(c) + Total(d)
    <3>1. \A i \in 1 .. n : a[i] = b[i] - c[i] + d[i]
        BY <2>1, <2>3, <2>5, <2>11 DEF HonestRow
    <3>2. n \in Nat
        BY <2>1
    <3>3. Numbers(n, a) /\ Numbers(n, b) /\ Numbers(n, c) /\ Numbers(n, d)
        BY <2>9
    <3>. QED  BY <3>1, <3>2, <3>3, TotalsEqual
  <2>12. \A i \in DOMAIN rows : HonestRow(rows[i], results[i])
      BY <2>1, <2>3
  <2>13. /\ Total(a) <= Summary(done).before - Summary(done).after + Lost(done)
         /\ (\A i \in DOMAIN rows : Found(results[i]) => rows[i].checker) =>
                Total(a) = Summary(done).before - Summary(done).after + Lost(done)
      BY <2>8, <2>10, <2>11, Zenon
  <2>. QED  BY <2>12, <2>13, Zenon DEF RowsAreHonest, HonestRow, a, done, n
<1>. QED  BY <1>1, DriverInvariant, PTL

\* A run reports once, a result for every item and in the items' order: every
\* step is one of the batch's (optimize_segments, optimize_module_functions).
THEOREM ImplementsBatch == Spec => TheBatch!Init /\ [][TheBatch!Report]_(TheBatch!vars)
<1>1. Init => TheBatch!Init
    BY DEF Init, TheBatch!Init
<1>2. Inv /\ HaveResults => ResultsFit
    BY ResultType
<1>3. Inv' /\ HaveResults' => ResultsFit'
    BY <1>2, PTL
<1>4. Inv /\ Inv' /\ [Next]_vars => [TheBatch!Report]_(TheBatch!vars)
  <2>. SUFFICES ASSUME Inv, Inv', [Next]_vars
                PROVE  TheBatch!Report \/ UNCHANGED TheBatch!vars
      OBVIOUS
  <2>1. CASE Collect
    <3>1. UNCHANGED config /\ phase = "work" /\ phase' = "rows" /\ results = <<>>
        BY <2>1 DEF Collect, Inv, ResultsInv
    <3>2. items' = items
        BY <3>1 DEF config
    <3>3. ResultsFit'
        BY <1>3, <3>1 DEF HaveResults
    <3>4. Results' = Results
        BY DEF Results
    <3>5. \A item : PossibleResults(item)' = PossibleResults(item)
        BY DEF PossibleResults
    <3>6. /\ results' \in Seq(Results) /\ Len(results') = Len(items)
          /\ \A i \in DOMAIN items : results'[i] \in PossibleResults(items[i])
        BY <3>2, <3>3, <3>4, <3>5 DEF ResultsFit
    <3>7. CASE items = <<>>
      <4>1. results' = <<>>
          BY <3>6, <3>7
      <4>. QED  BY <3>1, <3>2, <4>1 DEF TheBatch!vars
    <3>8. CASE items # <<>>
        BY <3>1, <3>2, <3>6, <3>8, Zenon DEF TheBatch!Report
    <3>. QED  BY <3>7, <3>8
  <2>2. CASE ~Collect
    <3>1. UNCHANGED <<items, results>>
        BY <2>2 DEF Next, vars, config, StartInTurn, Start, Return, Count, PrintLine, Tick, WriteRow, Finish
    <3>. QED  BY <3>1 DEF TheBatch!vars
  <2>. QED  BY <2>1, <2>2
<1>. QED  BY <1>1, <1>4, DriverInvariant, PTL DEF Spec

=============================================================================
