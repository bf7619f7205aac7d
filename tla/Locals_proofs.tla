---------------------------- MODULE Locals_proofs ----------------------------
(***************************************************************************)
(* Three facts of --opt-locals, for every function and any number of       *)
(* steps.                                                                  *)
(*                                                                         *)
(* The data-flow iteration is sound: the write a read sees is one the      *)
(* analysis says reaches it, while the execution follows the edges drawn   *)
(* (ReachingSound).  The iteration stops in a fixpoint of the equations of *)
(* the blocks; from there on every definition that is current in the       *)
(* execution is one of those that reach the instruction it has come to.    *)
(*                                                                         *)
(* An optimum never costs more than the function had (NeverCostsMore).     *)
(* The webs are a partition of reads and writes into sets of one local     *)
(* each; so the allocation that leaves every local in a slot of its own is *)
(* one the hard clauses allow, unless webs of one local interfere; and its *)
(* cost bounds that of an optimum, as the copies left and the copies       *)
(* merged remove different instructions.                                   *)
(*                                                                         *)
(* And the rewritten function computes the same, but for the exceptions    *)
(* OnlyKnownMiscompilations names.  The two executions have the same       *)
(* operands, except between a read and a write that were removed together; *)
(* and a definition whose web is read or written further on has its value  *)
(* in the web's slot.  A write of another web could only destroy it if     *)
(* that web had the same slot; but the two meet at that instruction, and   *)
(* the hard clauses keep them apart.                                       *)
(***************************************************************************)
EXTENDS Locals, Induction

-----------------------------------------------------------------------------
(* The inductive invariant *)

\* The equations of block b hold.
Balanced(b) == /\ ins[b] = NewIn(func, outs, b)
               /\ outs[b] = NewOut(func, ins[b], b)

TypeInv == /\ func \in Functions
           /\ phase \in {"flow", "webs", "solve", "apply", "run", "done", "skipped"}
           /\ at \in Blocks(func)
           /\ changed \in BOOLEAN
           /\ DOMAIN ins = Blocks(func)
           /\ DOMAIN outs = Blocks(func)

\* In a round that has changed nothing yet, the blocks it visited are balanced.
FlowInv == phase = "flow" /\ ~changed => \A b \in Blocks(func) : b < at => Balanced(b)

\* After the last round they all are.
FixInv == phase \notin {"flow", "skipped"} => \A b \in Blocks(func) : Balanced(b)

Locs == 0 .. Len(func.types) - 1

Unset == <<"zero">>

\* What a local has was written to that local.
LastInv ==
    phase = "run" =>
        /\ DOMAIN run.last = Locs
        /\ \A l \in Locs : run.last[l] # Unset =>
               run.last[l] \in Defs(func) /\ LocalOf(func, run.last[l]) = l

\* It is a write the analysis says reaches the instruction to come.
CurrentInv ==
    phase = "run" /\ ~run.left /\ run.pc \in Ix(func) =>
        \A l \in Locs : run.last[l] # Unset => run.last[l] \in Reaching(func, ins, run.pc)

Inv == TypeInv /\ FlowInv /\ FixInv /\ LastInv /\ CurrentInv

-----------------------------------------------------------------------------
(* Blocks *)

\* What Max and Min choose.
LEMMA MaxIsGreatest ==
    ASSUME NEW N \in Nat, NEW S, S \subseteq 0 .. N, S # {}
    PROVE  Max(S) \in S /\ \A m \in S : m <= Max(S)
<1>1. \E n \in S : \A m \in S : m <= n
    BY GreatestNumber
<1>2. \E n \in S : \A m \in S : n >= m
    BY <1>1
<1>3. Max(S) \in S /\ \A m \in S : Max(S) >= m
    BY <1>2, Zenon DEF Max
<1>. QED  BY <1>3

\* A nonempty set of naturals has its minimum as least member.
LEMMA MinIsLeast ==
    ASSUME NEW S, S \subseteq Nat, S # {}
    PROVE  Min(S) \in S /\ \A m \in S : Min(S) <= m
<1>1. \E n \in S : \A m \in S : n <= m
    BY LeastNumber
<1>. QED  BY <1>1, Zenon DEF Min

\* The minimum of one number is that number.
LEMMA MinOfOne ==
    ASSUME NEW c \in Nat
    PROVE  Min({c}) = c
<1>1. {c} \subseteq Nat /\ {c} # {}
    OBVIOUS
<1>2. Min({c}) \in {c}
    BY <1>1, MinIsLeast, Zenon
<1>. QED  BY <1>2

\* Every block is named by an instruction, the first one among them.
LEMMA BlocksAreInstructions ==
    ASSUME NEW f, Valid(f)
    PROVE  /\ Len(f.instrs) \in Nat \ {0} /\ Ix(f) = 1 .. Len(f.instrs)
           /\ Blocks(f) \subseteq Ix(f) /\ 1 \in Blocks(f)
BY DEF Valid, Blocks

\* The block of an instruction is the last that starts no later.
LEMMA BlockOfStarts ==
    ASSUME NEW f, Valid(f), NEW i \in Ix(f)
    PROVE  /\ BlockOf(f, i) \in Blocks(f) /\ BlockOf(f, i) <= i
           /\ \A c \in Blocks(f) : c <= i => c <= BlockOf(f, i)
<1>. DEFINE S == {b \in Blocks(f) : b <= i}
<1>1. i \in Nat /\ S \subseteq 0 .. i /\ S # {}
    BY BlocksAreInstructions
<1>2. BlockOf(f, i) = Max(S)
    BY DEF BlockOf
<1>3. Max(S) \in S /\ \A m \in S : m <= Max(S)
  <2>. HIDE DEF S
  <2>. QED  BY <1>1, MaxIsGreatest
<1>. QED  BY <1>2, <1>3

\* The first instruction of a block is in that block.
LEMMA BlockOfItself ==
    ASSUME NEW f, Valid(f), NEW b \in Blocks(f)
    PROVE  BlockOf(f, b) = b
<1>1. b \in Ix(f) /\ b \in Nat /\ Blocks(f) \subseteq Nat
    BY BlocksAreInstructions
<1>2. BlockOf(f, b) \in Blocks(f) /\ BlockOf(f, b) <= b /\ b <= BlockOf(f, b)
    BY <1>1, BlockOfStarts
<1>. QED  BY <1>1, <1>2

\* The next block, if there is one, starts after the last instruction of this
\* one.
LEMMA NextBlockFollows ==
    ASSUME NEW f, Valid(f), NEW b \in Blocks(f)
    PROVE  \/ /\ NextBlock(f, b) = {} /\ LastOf(f, b) = Len(f.instrs)
              /\ \A c \in Blocks(f) : c <= b
           \/ \E n \in Blocks(f) : /\ NextBlock(f, b) = {n} /\ LastOf(f, b) = n - 1 /\ b < n
                                   /\ \A c \in Blocks(f) : b < c => n <= c
<1>. DEFINE S == {c \in Blocks(f) : c > b}
<1>1. Blocks(f) \subseteq Nat
    BY BlocksAreInstructions
<1>2. NextBlock(f, b) = IF S = {} THEN {} ELSE {Min(S)}
    BY DEF NextBlock
<1>3. CASE S = {}
  <2>1. NextBlock(f, b) = {} /\ LastOf(f, b) = Len(f.instrs)
      BY <1>2, <1>3 DEF LastOf
  <2>2. \A c \in Blocks(f) : c <= b
      BY <1>1, <1>3
  <2>. QED  BY <2>1, <2>2
<1>4. CASE S # {}
  <2>1. Min(S) \in S /\ \A m \in S : Min(S) <= m
    <3>1. S \subseteq Nat
        BY <1>1
    <3>. HIDE DEF S
    <3>. QED  BY <1>4, <3>1, MinIsLeast
  <2>2. NextBlock(f, b) = {Min(S)}
      BY <1>2, <1>4
  <2>3. LastOf(f, b) = Min(S) - 1
    <3>1. Min(S) \in Nat
        BY <1>1, <2>1
    <3>. HIDE DEF S
    <3>2. Min({Min(S)}) = Min(S)
        BY <3>1, MinOfOne
    <3>3. LastOf(f, b) = Min({Min(S)}) - 1
        BY <2>2 DEF LastOf
    <3>. QED  BY <3>2, <3>3
  <2>4. Min(S) \in Blocks(f) /\ b < Min(S)
      BY <1>1, <2>1
  <2>5. \A c \in Blocks(f) : b < c => Min(S) <= c
      BY <1>1, <2>1
  <2>. QED  BY <2>2, <2>3, <2>4, <2>5
<1>. QED  BY <1>3, <1>4

\* A block reaches to its last instruction.
LEMMA BlockExtends ==
    ASSUME NEW f, Valid(f), NEW i \in Ix(f)
    PROVE  /\ LastOf(f, BlockOf(f, i)) \in Ix(f) /\ i <= LastOf(f, BlockOf(f, i))
           /\ \A k \in BlockOf(f, i) .. LastOf(f, BlockOf(f, i)) : k \in Ix(f)
<1>1. Blocks(f) \subseteq Ix(f) /\ Ix(f) = 1 .. Len(f.instrs) /\ Len(f.instrs) \in Nat
    BY BlocksAreInstructions
<1>2. PICK b : b = BlockOf(f, i)
    OBVIOUS
<1>3. b \in Blocks(f) /\ b <= i /\ \A c \in Blocks(f) : c <= i => c <= b
    BY <1>2, BlockOfStarts
<1>4. \/ LastOf(f, b) = Len(f.instrs)
      \/ \E n \in Blocks(f) : LastOf(f, b) = n - 1 /\ b < n
    BY <1>3, NextBlockFollows, Zenon
<1>5. LastOf(f, b) \in Ix(f) /\ i <= LastOf(f, b)
    BY <1>1, <1>3, <1>4
<1>6. \A k \in b .. LastOf(f, b) : k \in Ix(f)
    BY <1>1, <1>3, <1>5
<1>. QED  BY <1>2, <1>5, <1>6

-----------------------------------------------------------------------------
(* Definitions along a block *)

\* The local function of Reaching, for the block that starts at b.
Scan(f, d, b, i, g) ==
    g = [j \in b .. i |-> IF j = b THEN d[b] ELSE (g[j - 1] \ Kill(f, j - 1)) \cup Gen(f, j - 1)]

\* What an instruction generates is among the definitions of the function.
LEMMA GenIsDefs ==
    ASSUME NEW f, NEW i \in Ix(f)
    PROVE  Gen(f, i) \subseteq Defs(f)
BY DEF Gen, Defs

\* There is such a function, and Reaching is its value.
LEMMA ReachingIsScan ==
    ASSUME NEW f, Valid(f), NEW d, NEW i \in Ix(f)
    PROVE  \E g : Scan(f, d, BlockOf(f, i), i, g) /\ Reaching(f, d, i) = g[i]
<1>. DEFINE b == BlockOf(f, i)
            n == i - b
            A == SUBSET (d[b] \cup Defs(f))
            Past(X, j) == (X \ Kill(f, j)) \cup Gen(f, j)
            step == [k \in 1 .. n |-> [X \in A |-> Past(X, b + k - 1)]]
<1>1. b \in Nat \ {0} /\ i \in Nat /\ b <= i /\ n \in Nat /\ \A j \in b .. i : j \in Ix(f)
    BY BlocksAreInstructions, BlockOfStarts
<1>2. step \in [1 .. n -> [A -> A]]
  <2>1. ASSUME NEW k \in 1 .. n, NEW X \in A
        PROVE  Past(X, b + k - 1) \in A
    <3>1. b + k - 1 \in Ix(f)
        BY <1>1
    <3>2. Gen(f, b + k - 1) \subseteq Defs(f)
        BY <3>1, GenIsDefs
    <3>. QED  BY <3>2
  <2>. HIDE DEF A, Past, b, n
  <2>. QED  BY <2>1
<1>3. PICK t : Iterates(t, n, A, d[b], step)
  <2>1. d[b] \in A
      OBVIOUS
  <2>. HIDE DEF A, step, b, n
  <2>. QED  BY <1>1, <1>2, <2>1, IterationExists
<1>. DEFINE g == [j \in b .. i |-> t[j - b]]
<1>4. \A j \in b .. i : g[j] = IF j = b THEN d[b] ELSE Past(g[j - 1], j - 1)
  <2>. TAKE j \in b .. i
  <2>1. CASE j = b
    <3>1. g[j] = t[0]
        BY <1>1, <2>1
    <3>. QED  BY <1>3, <2>1, <3>1 DEF Iterates
  <2>2. CASE j # b
    <3>1. j - b \in 1 .. n /\ j - 1 \in b .. i /\ (j - b) - 1 = (j - 1) - b /\ (j - b) - 1 \in 0 .. n
          /\ b + (j - b) - 1 = j - 1
        BY <1>1, <2>2
    <3>2. t[j - b] = step[j - b][t[(j - b) - 1]] /\ t[(j - b) - 1] \in A
      <4>. HIDE DEF step, A, n, b
      <4>. QED  BY <1>3, <3>1 DEF Iterates
    <3>3. step[j - b][t[(j - b) - 1]] = Past(t[(j - b) - 1], j - 1)
      <4>. HIDE DEF Past, A, n, b
      <4>. QED  BY <3>1, <3>2
    <3>4. g[j] = t[j - b] /\ g[j - 1] = t[(j - b) - 1]
      <4>. HIDE DEF n, b
      <4>. QED  BY <3>1
    <3>. HIDE DEF step, A, g, Past
    <3>. QED  BY <2>2, <3>2, <3>3, <3>4
  <2>. QED  BY <2>1, <2>2
<1>5. Scan(f, d, b, i, g)
  <2>. HIDE DEF b
  <2>. QED  BY <1>4 DEF Scan
<1>6. Reaching(f, d, i) = (CHOOSE h : Scan(f, d, b, i, h))[i]
    BY Zenon DEF Reaching, Scan
<1>7. Scan(f, d, b, i, CHOOSE h : Scan(f, d, b, i, h))
  <2>. HIDE DEF g, b
  <2>. QED  BY <1>5, Zenon
<1>. QED  BY <1>6, <1>7

\* A scan, instruction by instruction.
Scanned(f, d, b, i, g) ==
    \A j \in b .. i : g[j] = IF j = b THEN d[b] ELSE (g[j - 1] \ Kill(f, j - 1)) \cup Gen(f, j - 1)

\* The recursive scan, read one instruction at a time.
LEMMA ScanIsScanned ==
    ASSUME NEW f, NEW d, NEW b, NEW i, NEW g, Scan(f, d, b, i, g)
    PROVE  Scanned(f, d, b, i, g)
BY DEF Scan, Scanned

Agree(g, h, b, i) == \A j \in b .. i : g[j] = h[j]

\* What scans of one block say of an instruction is the same.
LEMMA ScansAgree ==
    ASSUME NEW f, NEW d, NEW b \in Nat, NEW i \in Nat, NEW k \in Nat, b <= i, i <= k,
           NEW g, Scan(f, d, b, i, g), NEW h, Scan(f, d, b, k, h)
    PROVE  Agree(g, h, b, i)
<1>. DEFINE n == i - b
            S == {m \in 0 .. n : g[b + m] = h[b + m]}
<1>1. (\A j \in b .. i : g[j] = IF j = b THEN d[b] ELSE (g[j - 1] \ Kill(f, j - 1)) \cup Gen(f, j - 1))
      /\ (\A j \in b .. i : h[j] = IF j = b THEN d[b] ELSE (h[j - 1] \ Kill(f, j - 1)) \cup Gen(f, j - 1))
  <2>1. Scanned(f, d, b, i, g) /\ Scanned(f, d, b, k, h)
      BY ScanIsScanned
  <2>2. \A j \in b .. i : j \in b .. k
      OBVIOUS
  <2>. QED  BY <2>1, <2>2, Zenon DEF Scanned
<1>2. 0 \in S
  <2>1. b + 0 = b /\ b \in b .. i /\ 0 \in 0 .. n
      OBVIOUS
  <2>2. g[b] = d[b] /\ h[b] = d[b]
      BY <1>1, <2>1, Zenon
  <2>. QED  BY <2>1, <2>2
<1>3. ASSUME NEW m \in 0 .. n - 1, m \in S
      PROVE  m + 1 \in S
  <2>1. b + (m + 1) \in b .. i /\ b + (m + 1) # b /\ (b + (m + 1)) - 1 = b + m /\ m + 1 \in 0 .. n
      OBVIOUS
  <2>2. g[b + m] = h[b + m]
      BY <1>3
  <2>3. g[b + (m + 1)] = h[b + (m + 1)]
    <3>. HIDE DEF S, n
    <3>. QED  BY <1>1, <2>1, <2>2
  <2>. QED  BY <2>1, <2>3
<1>4. n \in Nat /\ \A m \in 0 .. n - 1 : m \in S => m + 1 \in S
  <2>1. n \in Nat
      OBVIOUS
  <2>. HIDE DEF S, n
  <2>. QED  BY <1>3, <2>1
<1>5. \A m \in 0 .. n : m \in S
  <2>. HIDE DEF S, n
  <2>. QED  BY <1>2, <1>4, UpTo, Zenon
<1>6. ASSUME NEW j \in b .. i
      PROVE  g[j] = h[j]
  <2>1. j - b \in 0 .. n /\ b + (j - b) = j
      OBVIOUS
  <2>2. j - b \in S
      BY <1>5, <2>1
  <2>. QED  BY <2>1, <2>2
<1>. QED  BY <1>6 DEF Agree

\* A block starts with the definitions that enter it.
LEMMA ReachingStarts ==
    ASSUME NEW f, Valid(f), NEW d, NEW b \in Blocks(f)
    PROVE  Reaching(f, d, b) = d[b]
<1>1. b \in Ix(f) /\ b \in Nat /\ BlockOf(f, b) = b
    BY BlocksAreInstructions, BlockOfItself
<1>2. PICK g : Scan(f, d, b, b, g) /\ Reaching(f, d, b) = g[b]
    BY <1>1, ReachingIsScan
<1>3. g[b] = d[b]
    BY <1>1, <1>2 DEF Scan
<1>. QED  BY <1>2, <1>3

\* An instruction removes those it overwrites and adds its own.
LEMMA ReachingPasses ==
    ASSUME NEW f, Valid(f), NEW d, NEW i \in Ix(f), i + 1 \in Ix(f),
           BlockOf(f, i + 1) = BlockOf(f, i)
    PROVE  Reaching(f, d, i + 1) = (Reaching(f, d, i) \ Kill(f, i)) \cup Gen(f, i)
<1>. DEFINE b == BlockOf(f, i)
<1>1. b \in Nat /\ i \in Nat /\ i + 1 \in Nat /\ b <= i
  <2>1. b \in Blocks(f) /\ b <= i
      BY BlockOfStarts
  <2>2. Blocks(f) \subseteq Ix(f) /\ Ix(f) \subseteq Nat
      BY BlocksAreInstructions
  <2>. HIDE DEF b
  <2>. QED  BY <2>1, <2>2
<1>2. PICK g : Scan(f, d, b, i, g) /\ Reaching(f, d, i) = g[i]
    BY ReachingIsScan
<1>3. PICK h : Scan(f, d, b, i + 1, h) /\ Reaching(f, d, i + 1) = h[i + 1]
    BY ReachingIsScan
<1>. HIDE DEF b
<1>4. i <= i + 1
    BY <1>1
<1>5. Agree(g, h, b, i)
  <2>1. Scan(f, d, b, i, g) /\ Scan(f, d, b, i + 1, h)
      BY <1>2, <1>3 DEF b
  <2>. QED  BY <1>1, <1>4, <2>1, ScansAgree, Zenon
<1>6. g[i] = h[i]
    BY <1>1, <1>5 DEF Agree
<1>7. h[i + 1] = (h[i] \ Kill(f, i)) \cup Gen(f, i)
    BY <1>1, <1>3 DEF Scan
<1>. QED  BY <1>2, <1>3, <1>6, <1>7

\* A definition that reaches an instruction entered its block and was not
\* overwritten since, or was made in between.
LEMMA ReachingComesFrom ==
    ASSUME NEW f, Valid(f), NEW d, NEW i \in Ix(f), NEW x \in Reaching(f, d, i)
    PROVE  \/ \E k \in BlockOf(f, i) .. i - 1 : x \in Gen(f, k)
           \/ /\ x \in d[BlockOf(f, i)]
              /\ \A k \in BlockOf(f, i) .. i - 1 : x \notin Kill(f, k)
<1>. DEFINE b == BlockOf(f, i)
            n == i - b
<1>1. b \in Nat /\ i \in Nat /\ n \in Nat /\ b <= i
    BY BlocksAreInstructions, BlockOfStarts
<1>2. PICK g : Scan(f, d, b, i, g) /\ Reaching(f, d, i) = g[i]
    BY ReachingIsScan
<1>. HIDE DEF b
<1>. DEFINE From(j) == x \in g[j] =>
                           \/ \E k \in b .. j - 1 : x \in Gen(f, k)
                           \/ x \in d[b] /\ \A k \in b .. j - 1 : x \notin Kill(f, k)
            S == {m \in 0 .. n : From(b + m)}
<1>3. \A j \in b .. i : g[j] = IF j = b THEN d[b] ELSE (g[j - 1] \ Kill(f, j - 1)) \cup Gen(f, j - 1)
    BY <1>2 DEF Scan
<1>4. 0 \in S
  <2>1. b + 0 = b /\ b \in b .. i /\ ~\E k \in b .. b + 0 - 1 : TRUE
      BY <1>1
  <2>2. g[b] = d[b]
      BY <1>3, <2>1, Zenon
  <2>3. From(b + 0)
      BY <2>1, <2>2
  <2>. QED  BY <1>1, <2>3
<1>5. ASSUME NEW m \in 0 .. n - 1, m \in S
      PROVE  m + 1 \in S
  <2>1. /\ b + (m + 1) \in b .. i /\ b + (m + 1) # b /\ (b + (m + 1)) - 1 = b + m /\ m + 1 \in 0 .. n
        /\ b + m \in b .. b + (m + 1) - 1
        /\ \A k \in b .. b + (m + 1) - 1 : (k = b + m \/ k \in b .. b + m - 1)
        /\ \A k \in b .. b + m - 1 : k \in b .. b + (m + 1) - 1
      BY <1>1
  <2>2. g[b + (m + 1)] = (g[b + m] \ Kill(f, b + m)) \cup Gen(f, b + m)
    <3>. HIDE DEF S, n
    <3>. QED  BY <1>3, <2>1
  <2>3. From(b + m)
      BY <1>5
  <2>4. From(b + (m + 1))
    <3>. HIDE DEF n
    <3>. QED  BY <2>1, <2>2, <2>3
  <2>. QED  BY <2>1, <2>4
<1>6. \A m \in 0 .. n - 1 : m \in S => m + 1 \in S
  <2>. HIDE DEF S
  <2>. QED  BY <1>5
<1>7. \A m \in 0 .. n : m \in S
  <2>. HIDE DEF S, n
  <2>. QED  BY <1>1, <1>4, <1>6, UpTo, Zenon
<1>8. From(i)
  <2>1. n \in 0 .. n /\ b + n = i
      BY <1>1
  <2>2. From(b + n)
      BY <1>7, <2>1
  <2>. HIDE DEF From, n
  <2>. QED  BY <2>1, <2>2
<1>9. x \in g[i]
    BY <1>2
<1>. QED  BY <1>8, <1>9 DEF b

-----------------------------------------------------------------------------
(* Definitions along an edge, in a solution of the equations *)

Solved(f, d, o) == \A b \in Blocks(f) : d[b] = NewIn(f, o, b) /\ o[b] = NewOut(f, d[b], b)

\* The definitions after an instruction.
After(f, d, i) == (Reaching(f, d, i) \ Kill(f, i)) \cup Gen(f, i)

\* After the last write of a block they are among those that leave it.
LEMMA LeavesBlock ==
    ASSUME NEW f, Valid(f), NEW d, NEW o, Solved(f, d, o), NEW i \in Ix(f),
           \A k \in i + 1 .. LastOf(f, BlockOf(f, i)) : ~IsDef(f, k)
    PROVE  After(f, d, i) \subseteq o[BlockOf(f, i)]
<1>. DEFINE b == BlockOf(f, i)
            e == LastOf(f, b)
<1>1. /\ b \in Blocks(f) /\ b \in Nat /\ i \in Nat /\ e \in Nat /\ b <= i /\ i <= e
      /\ Blocks(f) \subseteq Nat
  <2>1. b \in Blocks(f) /\ b <= i
      BY BlockOfStarts
  <2>2. e \in Ix(f) /\ i <= e
      BY BlockExtends
  <2>3. Blocks(f) \subseteq Ix(f) /\ Ix(f) \subseteq Nat
      BY BlocksAreInstructions
  <2>. HIDE DEF b, e
  <2>. QED  BY <2>1, <2>2, <2>3
<1>2. o[b] = (d[b] \ BlockKill(f, b)) \cup BlockGen(f, b)
    BY <1>1 DEF Solved, NewOut
<1>3. \A k \in b .. i : Gen(f, k) \subseteq o[b]
  <2>1. \A k \in b .. i : k \in b .. e
      BY <1>1
  <2>. HIDE DEF b
  <2>. QED  BY <1>2, <2>1 DEF BlockGen
<1>4. ASSUME NEW x \in d[b], \A k \in b .. i : x \notin Kill(f, k)
      PROVE  x \in o[b]
  <2>1. \A k \in i + 1 .. e : Kill(f, k) = {}
      BY DEF Kill
  <2>2. \A k \in b .. e : k \in b .. i \/ k \in i + 1 .. e
      BY <1>1
  <2>3. x \notin BlockKill(f, b)
    <3>. HIDE DEF b
    <3>. QED  BY <1>4, <2>1, <2>2 DEF BlockKill
  <2>. QED  BY <1>2, <2>3
<1>5. ASSUME NEW x \in Reaching(f, d, i), x \notin Kill(f, i)
      PROVE  x \in o[b]
  <2>1. \/ \E k \in b .. i - 1 : x \in Gen(f, k)
        \/ x \in d[b] /\ \A k \in b .. i - 1 : x \notin Kill(f, k)
      BY ReachingComesFrom
  <2>2. \A k \in b .. i - 1 : k \in b .. i
      BY <1>1
  <2>3. \A k \in b .. i : k \in b .. i - 1 \/ k = i
      BY <1>1
  <2>. HIDE DEF b
  <2>4. CASE \E k \in b .. i - 1 : x \in Gen(f, k)
      BY <1>3, <2>2, <2>4
  <2>5. CASE x \in d[b] /\ \A k \in b .. i - 1 : x \notin Kill(f, k)
    <3>1. \A k \in b .. i : x \notin Kill(f, k)
        BY <1>5, <2>3, <2>5
    <3>. QED  BY <1>4, <2>5, <3>1
  <2>. QED  BY <2>1, <2>4, <2>5
<1>6. Gen(f, i) \subseteq o[b]
  <2>1. i \in b .. i
      BY <1>1
  <2>. HIDE DEF b
  <2>. QED  BY <1>3, <2>1
<1>. HIDE DEF b
<1>7. After(f, d, i) \subseteq o[b]
    BY <1>5, <1>6 DEF After
<1>. QED  BY <1>7 DEF b

\* What leaves a block enters those its edges lead to.
LEMMA EntersBlock ==
    ASSUME NEW f, NEW d, NEW o, Solved(f, d, o), NEW b, NEW j \in Blocks(f),
           <<b, j>> \in Edges(f)
    PROVE  o[b] \subseteq d[j]
<1>1. b \in Preds(f, j)
  <2>1. <<b, j>>[1] = b /\ <<b, j>>[2] = j
      OBVIOUS
  <2>. QED  BY <2>1 DEF Preds
<1>2. d[j] = UNION {o[p] : p \in Preds(f, j)}
    BY <1>1 DEF Solved, NewIn
<1>. QED  BY <1>1, <1>2

\* Control falls from a block that ends with no branch into the next one.
LEMMA FallsThrough ==
    ASSUME NEW f, Valid(f), NEW h \in Blocks(f), LastOf(f, h) + 1 \in Ix(f)
    PROVE  LastOf(f, h) + 1 \in Blocks(f) /\ <<h, LastOf(f, h) + 1>> \in Edges(f)
<1>1. Ix(f) = 1 .. Len(f.instrs) /\ Len(f.instrs) \in Nat /\ Blocks(f) \subseteq Ix(f) /\ h \in Ix(f)
    BY BlocksAreInstructions
<1>2. PICK n \in Blocks(f) : NextBlock(f, h) = {n} /\ LastOf(f, h) = n - 1 /\ h < n
  <2>1. LastOf(f, h) # Len(f.instrs)
      BY <1>1
  <2>. QED  BY <2>1, NextBlockFollows, Zenon
<1>3. LastOf(f, h) + 1 = n
    BY <1>1, <1>2
<1>4. Kind(f, n - 1) \in Openers \cup {"else"}
    BY <1>1, <1>2 DEF Blocks
<1>5. FallThrough(f, h) = {h} \X {n}
  <2>1. Kind(f, LastOf(f, h)) \notin Terminators
      BY <1>2, <1>4 DEF Openers, Terminators
  <2>. QED  BY <1>2, <2>1 DEF FallThrough
<1>6. <<h, n>> \in FallThrough(f, h) /\ h # n /\ <<h, n>>[1] = h /\ <<h, n>>[2] = n
    BY <1>1, <1>2, <1>5
<1>7. <<h, n>> \in Edges(f)
  <2>1. <<h, n>> \in UNION ({EdgesOf(f, i) : i \in Ix(f)} \cup {FallThrough(f, b) : b \in Blocks(f)})
      BY <1>6, Zenon
  <2>. QED  BY <1>6, <2>1, Zenon DEF Edges
<1>. QED  BY <1>3, <1>7

\* A block that writes nothing lets every definition through.
LEMMA PassesThrough ==
    ASSUME NEW f, NEW d, NEW o, Solved(f, d, o), NEW h \in Blocks(f), BlockGen(f, h) = {}
    PROVE  o[h] = d[h]
<1>1. \A k \in h .. LastOf(f, h) : Gen(f, k) = {}
    BY DEF BlockGen
<1>2. \A k \in h .. LastOf(f, h) : Kill(f, k) = {}
    BY <1>1 DEF Gen, Kill
<1>3. BlockKill(f, h) = {}
    BY <1>2 DEF BlockKill
<1>. QED  BY <1>3 DEF Solved, NewOut

\* What is there after an instruction reaches the next one executed.
LEMMA StepCarries ==
    ASSUME NEW f, Valid(f), NEW d, NEW o, Solved(f, d, o),
           NEW i \in Ix(f), NEW j \in Ix(f), Follows(f, i, j)
    PROVE  After(f, d, i) \subseteq Reaching(f, d, j)
<1>. DEFINE b == BlockOf(f, i)
            Last == \A k \in i + 1 .. LastOf(f, b) : ~IsDef(f, k)
<1>1. CASE j = i + 1 /\ BlockOf(f, j) = b
  <2>1. Reaching(f, d, i + 1) = (Reaching(f, d, i) \ Kill(f, i)) \cup Gen(f, i)
      BY <1>1, ReachingPasses
  <2>. QED  BY <1>1, <2>1 DEF After
<1>2. CASE Last /\ j \in Blocks(f) /\ <<b, j>> \in Edges(f)
  <2>1. After(f, d, i) \subseteq o[b]
      BY <1>2, LeavesBlock
  <2>2. o[b] \subseteq d[j]
      BY <1>2, EntersBlock
  <2>3. Reaching(f, d, j) = d[j]
      BY <1>2, ReachingStarts
  <2>. QED  BY <2>1, <2>2, <2>3
<1>3. CASE Last /\ \E h \in Blocks(f) : /\ <<b, h>> \in Edges(f) /\ j = LastOf(f, h) + 1
                                        /\ BlockGen(f, h) = {}
  <2>1. PICK h \in Blocks(f) : <<b, h>> \in Edges(f) /\ j = LastOf(f, h) + 1 /\ BlockGen(f, h) = {}
      BY <1>3
  <2>2. After(f, d, i) \subseteq o[b]
      BY <1>3, LeavesBlock
  <2>3. o[b] \subseteq d[h]
      BY <2>1, EntersBlock
  <2>4. o[h] = d[h]
      BY <2>1, PassesThrough
  <2>5. j \in Blocks(f) /\ <<h, j>> \in Edges(f)
      BY <2>1, FallsThrough
  <2>6. o[h] \subseteq d[j]
      BY <2>5, EntersBlock
  <2>7. Reaching(f, d, j) = d[j]
      BY <2>5, ReachingStarts
  <2>. QED  BY <2>2, <2>3, <2>4, <2>6, <2>7
<1>. QED  BY <1>1, <1>2, <1>3 DEF Follows

-----------------------------------------------------------------------------
(* The invariant holds *)

\* The invariant holds of every function the analysis may be given.
LEMMA InitInv == Init => Inv
<1>. SUFFICES ASSUME Init PROVE Inv
    OBVIOUS
<1>1. func \in Functions /\ Valid(func) /\ phase = "flow"
    BY LocalsAssumption DEF Init
<1>2. 1 \in Blocks(func) /\ Blocks(func) \subseteq Nat \ {0}
    BY <1>1, BlocksAreInstructions
<1>3. TypeInv
    BY <1>1, <1>2 DEF Init, TypeInv
<1>4. FlowInv
    BY <1>2 DEF Init, FlowInv
<1>5. FixInv /\ LastInv /\ CurrentInv
    BY <1>1 DEF FixInv, LastInv, CurrentInv
<1>. QED  BY <1>3, <1>4, <1>5 DEF Inv

\* A round that changed nothing finds every block balanced at its end.
LEMMA VisitStep == Inv /\ Visit => Inv'
<1>. SUFFICES ASSUME Inv, Visit PROVE Inv'
    OBVIOUS
<1>1. func' = func /\ func \in Functions /\ Valid(func) /\ phase = "flow"
    BY LocalsAssumption DEF Inv, TypeInv, Visit
<1>. DEFINE new == changed \/ ins' # ins \/ outs' # outs
            next == NextBlock(func, at)
<1>2. at \in Blocks(func) /\ Blocks(func) \subseteq Nat /\ 1 \in Blocks(func)
    BY <1>1, BlocksAreInstructions DEF Inv, TypeInv
<1>3. /\ ins' = [ins EXCEPT ![at] = NewIn(func, outs, at)]
      /\ outs' = [outs EXCEPT ![at] = NewOut(func, ins'[at], at)]
      /\ DOMAIN ins = Blocks(func) /\ DOMAIN outs = Blocks(func)
    BY DEF Visit, Inv, TypeInv
<1>4. /\ at' = IF next = {} THEN 1 ELSE Min(next)
      /\ changed' = (next # {} /\ new)
      /\ phase' = IF next = {} /\ ~new THEN "webs" ELSE "flow"
    BY DEF Visit
<1>5. ins'[at] = NewIn(func, outs, at) /\ outs'[at] = NewOut(func, ins'[at], at)
    BY <1>2, <1>3
<1>6. \/ next = {} /\ \A c \in Blocks(func) : c <= at
      \/ \E n \in Blocks(func) : next = {n} /\ \A c \in Blocks(func) : at < c => n <= c
    BY <1>1, <1>2, NextBlockFollows, Zenon
<1>7. TypeInv'
  <2>1. at' \in Blocks(func)
    <3>1. CASE next = {}
        BY <1>2, <1>4, <3>1
    <3>2. CASE next # {}
      <4>1. PICK n \in Blocks(func) : next = {n}
          BY <1>6, <3>2
      <4>2. Min({n}) = n
          BY <1>2, MinOfOne
      <4>. HIDE DEF next
      <4>3. at' = n
          BY <1>4, <3>2, <4>1, <4>2
      <4>. QED  BY <4>3
    <3>. QED  BY <3>1, <3>2
  <2>2. DOMAIN ins' = Blocks(func) /\ DOMAIN outs' = Blocks(func)
      BY <1>3
  <2>3. changed' \in BOOLEAN
      BY <1>4
  <2>4. phase' \in {"flow", "webs"}
      BY <1>4
  <2>. HIDE DEF next, new
  <2>. QED  BY <1>1, <2>1, <2>2, <2>3, <2>4 DEF TypeInv
<1>8. ~new => \A b \in Blocks(func) : b < at \/ b = at => Balanced(b)'
  <2>. SUFFICES ASSUME ~new, NEW b \in Blocks(func), b < at \/ b = at PROVE Balanced(b)'
      OBVIOUS
  <2>1. ins' = ins /\ outs' = outs /\ ~changed
      OBVIOUS
  <2>2. b < at => Balanced(b)
      BY <1>1, <2>1 DEF Inv, FlowInv
  <2>3. b = at => Balanced(b)
      BY <1>5, <2>1 DEF Balanced
  <2>. QED  BY <1>1, <2>1, <2>2, <2>3 DEF Balanced
<1>9. FlowInv'
  <2>. SUFFICES ASSUME phase' = "flow", ~changed', NEW b \in Blocks(func)', b < at' PROVE Balanced(b)'
      BY DEF FlowInv
  <2>0. b \in Blocks(func)
      BY <1>1
  <2>1. CASE next = {}
    <3>1. at' = 1 /\ b \in Nat \ {0}
        BY <1>1, <1>4, <2>0, <2>1, BlocksAreInstructions
    <3>. QED  BY <3>1
  <2>2. CASE next # {}
    <3>1. ~new
        BY <1>4, <2>2
    <3>2. PICK n \in Blocks(func) : next = {n} /\ \A c \in Blocks(func) : at < c => n <= c
        BY <1>6, <2>2
    <3>3. Min({n}) = n
        BY <1>2, MinOfOne
    <3>4. at' = n
      <4>. HIDE DEF next
      <4>. QED  BY <1>4, <2>2, <3>2, <3>3
    <3>5. b < at \/ b = at
        BY <1>2, <2>0, <3>2, <3>4
    <3>. QED  BY <1>8, <2>0, <3>1, <3>5
  <2>. QED  BY <2>1, <2>2
<1>10. FixInv'
  <2>. SUFFICES ASSUME phase' \notin {"flow", "skipped"}, NEW b \in Blocks(func)' PROVE Balanced(b)'
      BY DEF FixInv
  <2>1. next = {} /\ ~new
      BY <1>4
  <2>2. b \in Blocks(func) /\ b <= at
      BY <1>1, <1>6, <2>1
  <2>3. b < at \/ b = at
      BY <1>2, <2>2
  <2>. QED  BY <1>8, <2>1, <2>2, <2>3
<1>11. LastInv' /\ CurrentInv'
  <2>1. phase' # "run"
      BY <1>4
  <2>. QED  BY <2>1 DEF LastInv, CurrentInv
<1>. QED  BY <1>7, <1>9, <1>10, <1>11 DEF Inv

\* The parameters are what an execution starts with.
LEMMA ApplyStep == Inv /\ Apply => Inv'
<1>. SUFFICES ASSUME Inv, Apply PROVE Inv'
    OBVIOUS
<1>1. /\ func' = func /\ ins' = ins /\ outs' = outs /\ at' = at /\ changed' = changed
      /\ phase = "apply" /\ phase' = "run" /\ func \in Functions /\ Valid(func)
    BY LocalsAssumption DEF Inv, TypeInv, Apply
<1>2. /\ run'.pc = 1 /\ run'.left = (Preds(func, 1) # {})
      /\ run'.last = [l \in Locs |-> IF l < func.params THEN <<"param", l>> ELSE Unset]
    BY DEF Apply, Locs, Unset
<1>3. TypeInv' /\ FlowInv'
    BY <1>1 DEF Inv, TypeInv, FlowInv
<1>4. \A b \in Blocks(func) : Balanced(b)
    BY <1>1 DEF Inv, FixInv
<1>5. FixInv'
    BY <1>1, <1>4 DEF FixInv, Balanced
<1>6. Locs' = Locs /\ Unset' = Unset /\ Defs(func)' = Defs(func)
    BY <1>1 DEF Locs, Unset
<1>7. ASSUME NEW l \in Locs, run'.last[l] # Unset
      PROVE  run'.last[l] \in ParamDefs(func) /\ LocalOf(func, run'.last[l]) = l
  <2>1. l < func.params /\ run'.last[l] = <<"param", l>>
      BY <1>2, <1>7
  <2>2. l \in 0 .. (func.params - 1)
      BY <1>1, <2>1 DEF Locs, Valid
  <2>3. <<"param", l>>[1] = "param" /\ <<"param", l>>[2] = l
      OBVIOUS
  <2>. QED  BY <2>1, <2>2, <2>3 DEF ParamDefs, LocalOf
<1>8. LastInv'
  <2>1. DOMAIN run'.last = Locs
      BY <1>2
  <2>2. ParamDefs(func) \subseteq Defs(func)
      BY DEF Defs
  <2>. QED  BY <1>1, <1>6, <1>7, <2>1, <2>2 DEF LastInv
<1>9. CurrentInv'
  <2>. SUFFICES ASSUME ~run'.left PROVE \A l \in Locs : run'.last[l] # Unset =>
                                            run'.last[l] \in Reaching(func, ins, 1)
      BY <1>1, <1>2, <1>6 DEF CurrentInv
  <2>1. Preds(func, 1) = {}
      BY <1>2
  <2>2. 1 \in Blocks(func)
      BY <1>1, BlocksAreInstructions
  <2>3. ins[1] = ParamDefs(func)
      BY <1>4, <2>1, <2>2 DEF Balanced, NewIn
  <2>4. Reaching(func, ins, 1) = ins[1]
      BY <1>1, <2>2, ReachingStarts
  <2>. QED  BY <1>7, <2>3, <2>4
<1>. QED  BY <1>3, <1>5, <1>8, <1>9 DEF Inv

\* What is current before an instruction and not overwritten, or written by it,
\* reaches the next one.
LEMMA StepStep == Inv /\ Step => Inv'
<1>. SUFFICES ASSUME Inv, Step PROVE Inv'
    OBVIOUS
<1>1. /\ func' = func /\ ins' = ins /\ outs' = outs /\ at' = at /\ changed' = changed
      /\ phase = "run" /\ phase' = "run" /\ func \in Functions /\ Valid(func)
    BY LocalsAssumption DEF Inv, TypeInv, Step
<1>. DEFINE i == run.pc
            l == func.instrs[i].l
<1>2. i \in Ix(func)
    BY DEF Step
<1>3. PICK j : /\ run'.pc = j /\ run'.left = (run.left \/ ~Follows(func, i, j))
               /\ run'.last = IF IsDef(func, i) THEN [run.last EXCEPT ![l] = <<"at", i>>] ELSE run.last
    BY SMTT(30) DEF Step
<1>. HIDE DEF i, l
<1>4. TypeInv' /\ FlowInv'
    BY <1>1 DEF Inv, TypeInv, FlowInv
<1>5. \A b \in Blocks(func) : Balanced(b)
    BY <1>1 DEF Inv, FixInv
<1>6. FixInv'
    BY <1>1, <1>5 DEF FixInv, Balanced
<1>7. Locs' = Locs /\ Unset' = Unset /\ Defs(func)' = Defs(func)
    BY <1>1 DEF Locs, Unset
<1>8. /\ DOMAIN run.last = Locs
      /\ \A m \in Locs : run.last[m] # Unset =>
             run.last[m] \in Defs(func) /\ LocalOf(func, run.last[m]) = m
    BY <1>1 DEF Inv, LastInv
<1>9. IsDef(func, i) => <<"at", i>> \in Defs(func) /\ LocalOf(func, <<"at", i>>) = l
  <2>1. <<"at", i>>[1] = "at" /\ <<"at", i>>[2] = i
      OBVIOUS
  <2>. QED  BY <1>2, <2>1 DEF Defs, LocalOf, l
<1>10. ASSUME NEW m \in Locs
       PROVE  run'.last[m] = IF IsDef(func, i) /\ m = l THEN <<"at", i>> ELSE run.last[m]
    BY <1>3, <1>8
<1>11. LastInv'
  <2>1. DOMAIN run'.last = Locs
      BY <1>3, <1>8
  <2>2. ASSUME NEW m \in Locs, run'.last[m] # Unset
        PROVE  run'.last[m] \in Defs(func) /\ LocalOf(func, run'.last[m]) = m
    <3>1. CASE IsDef(func, i) /\ m = l
        BY <1>9, <1>10, <3>1
    <3>2. CASE ~(IsDef(func, i) /\ m = l)
      <4>1. run'.last[m] = run.last[m]
          BY <1>10, <3>2
      <4>. QED  BY <1>8, <2>2, <4>1
    <3>. QED  BY <3>1, <3>2
  <2>. QED  BY <1>1, <1>7, <2>1, <2>2 DEF LastInv
<1>12. CurrentInv'
  <2>. SUFFICES ASSUME ~run'.left, run'.pc \in Ix(func), NEW m \in Locs, run'.last[m] # Unset
                PROVE  run'.last[m] \in Reaching(func, ins, run'.pc)
      BY <1>1, <1>7 DEF CurrentInv
  <2>1. ~run.left /\ Follows(func, i, j) /\ j \in Ix(func) /\ run'.pc = j
      BY <1>3
  <2>2. Solved(func, ins, outs)
      BY <1>5 DEF Solved, Balanced
  <2>3. After(func, ins, i) \subseteq Reaching(func, ins, j)
      BY <1>1, <1>2, <2>1, <2>2, StepCarries
  <2>4. run'.last[m] \in After(func, ins, i)
    <3>1. CASE IsDef(func, i) /\ m = l
        BY <1>10, <3>1 DEF After, Gen
    <3>2. CASE ~(IsDef(func, i) /\ m = l)
      <4>1. run'.last[m] = run.last[m] /\ run.last[m] # Unset
          BY <1>10, <3>2
      <4>2. run.last[m] \in Reaching(func, ins, i)
          BY <1>1, <1>2, <2>1, <4>1 DEF Inv, CurrentInv, i
      <4>3. LocalOf(func, run.last[m]) = m
          BY <1>8, <4>1
      <4>4. run.last[m] \notin Kill(func, i)
          BY <3>2, <4>3 DEF Kill, l
      <4>. QED  BY <4>1, <4>2, <4>4 DEF After
    <3>. QED  BY <3>1, <3>2
  <2>. QED  BY <2>1, <2>3, <2>4
<1>. QED  BY <1>4, <1>6, <1>11, <1>12 DEF Inv

\* The other steps leave the sets as they are and start no execution.
LEMMA OtherSteps == Inv /\ (Refuse \/ Build \/ Solve \/ SolveFails \/ Stop \/ UNCHANGED vars) => Inv'
<1>. SUFFICES ASSUME Inv, Refuse \/ Build \/ Solve \/ SolveFails \/ Stop \/ UNCHANGED vars PROVE Inv'
    OBVIOUS
<1>1. func' = func /\ ins' = ins /\ outs' = outs /\ at' = at /\ changed' = changed /\ run' = run
    BY DEF Refuse, Build, Solve, SolveFails, Stop, vars
<1>2. \/ phase' = phase
      \/ phase' = "skipped"
      \/ phase \notin {"flow", "skipped"} /\ phase' \in {"solve", "apply", "done"}
    BY DEF Refuse, Build, Solve, SolveFails, Stop, vars
<1>3. TypeInv'
    BY <1>1, <1>2 DEF Inv, TypeInv
<1>4. FlowInv' /\ FixInv'
    BY <1>1, <1>2 DEF Inv, FlowInv, FixInv, Balanced
<1>5. LastInv' /\ CurrentInv'
  <2>1. phase' = "run" => phase = "run"
      BY <1>2
  <2>2. Locs' = Locs
      BY <1>1 DEF Locs
  <2>. QED  BY <1>1, <2>1, <2>2 DEF Inv, LastInv, CurrentInv, Unset
<1>. QED  BY <1>3, <1>4, <1>5 DEF Inv

\* The invariant holds in every state, whatever the functions given.
THEOREM LocalsInvariant == Spec => []Inv
<1>1. Init => Inv
    BY InitInv
<1>2. Inv /\ [Next]_vars => Inv'
    BY VisitStep, ApplyStep, StepStep, OtherSteps DEF Next
<1>. QED  BY <1>1, <1>2, PTL DEF Spec

\* The write whose value a read sees is one the analysis says reaches the read
\* (reaching_defs_per_local), for every function and any number of steps, while
\* the execution follows the edges drawn.
THEOREM ReadsSeeReachingWrites == Spec => []ReachingSound
<1>1. Inv => ReachingSound
  <2>. SUFFICES ASSUME Inv, phase = "run", ~run.left, run.pc \in Ix(func), Kind(func, run.pc) = "get",
                       run.last[func.instrs[run.pc].l] # <<"zero">>
                PROVE  run.last[func.instrs[run.pc].l] \in DefsFor(func, ins, run.pc)
      BY DEF ReachingSound
  <2>. DEFINE l == func.instrs[run.pc].l
  <2>1. Valid(func)
      BY LocalsAssumption DEF Inv, TypeInv
  <2>2. l \in Locs
      BY <2>1 DEF Valid, IsLocal, Locs
  <2>3. run.last[l] \in Reaching(func, ins, run.pc) /\ LocalOf(func, run.last[l]) = l
      BY <2>2 DEF Inv, LastInv, CurrentInv, Unset
  <2>. QED  BY <2>3 DEF DefsFor
<1>. QED  BY <1>1, LocalsInvariant, PTL

-----------------------------------------------------------------------------
(* Finite sets of numbers, images and sums *)

\* The image of a finite set is finite and no larger.
LEMMA ImageOfFinite ==
    ASSUME NEW S, IsFiniteSet(S), NEW h, S \subseteq DOMAIN h
    PROVE  /\ IsFiniteSet({h[x] : x \in S})
           /\ Cardinality({h[x] : x \in S}) <= Cardinality(S)
<1>. DEFINE T == {h[x] : x \in S}
            g == [x \in S |-> h[x]]
<1>1. g \in Surjection(S, T)
    BY DEF Surjection
<1>. HIDE DEF g, T
<1>2. IsFiniteSet(T) /\ Cardinality(T) <= Cardinality(S)
    BY <1>1, FS_Surjection
<1>. QED  BY <1>2 DEF T

\* The instructions that go when the copies of X are removed.
Removed(f, X) == X \cup {i + 1 : i \in {i \in X : Kind(f, i + 1) = "set"}}

\* What the copies of X cost when they stay.
CostOfCopies(f, X) == MapThenSumSet(LAMBDA i : Saved(f, i), X)

\* h is the sum over each part of X.
SumBy(h, f, X) ==
    h = [s \in SUBSET X |-> IF s = {} THEN 0
                            ELSE Saved(f, CHOOSE x \in s : TRUE) + h[s \ {CHOOSE x \in s : TRUE}]]

\* The sum of CostOfCopies, once it is known that its recursion has a solution.
LEMMA CostIsSum ==
    ASSUME NEW f, NEW X, \E h : SumBy(h, f, X)
    PROVE  \E h : SumBy(h, f, X) /\ CostOfCopies(f, X) = h[X]
<1>. DEFINE h == CHOOSE g : SumBy(g, f, X)
<1>1. SumBy(h, f, X)
    BY Zenon
<1>2. CostOfCopies(f, X) = h[X]
    BY Zenon DEF CostOfCopies, MapThenSumSet, MapThenFoldSet, SumBy
<1>. QED  BY <1>1, <1>2, Zenon

\* Copies are reads followed by writes, so no two of them share an instruction.
LEMMA CopiesAreInstructions ==
    ASSUME NEW f, Valid(f)
    PROVE  /\ Copies(f) \subseteq Ix(f) /\ IsFiniteSet(Ix(f)) /\ IsFiniteSet(Copies(f))
           /\ Cardinality(Ix(f)) = Len(f.instrs)
           /\ \A i \in Copies(f) : i \in Nat /\ i + 1 \in Ix(f) /\ i + 1 \notin Copies(f)
<1>1. Len(f.instrs) \in Nat \ {0} /\ Ix(f) = 1 .. Len(f.instrs)
    BY BlocksAreInstructions
<1>2. IsFiniteSet(Ix(f)) /\ Cardinality(Ix(f)) = Len(f.instrs)
    BY <1>1, FS_Interval
<1>3. Copies(f) \subseteq Ix(f)
    BY DEF Copies
<1>4. \A i \in Copies(f) : i \in Nat /\ i + 1 \in Ix(f) /\ i + 1 \notin Copies(f)
    BY <1>1 DEF Copies, IsDef
<1>. QED  BY <1>2, <1>3, <1>4, FS_Subset

\* What is removed with some of the copies are instructions.
LEMMA RemovedIsFinite ==
    ASSUME NEW f, Valid(f), NEW X \in SUBSET Copies(f)
    PROVE  /\ Removed(f, X) \subseteq Ix(f) /\ IsFiniteSet(Removed(f, X))
           /\ Cardinality(Removed(f, X)) \in Nat
<1>1. Removed(f, X) \subseteq Ix(f)
    BY CopiesAreInstructions DEF Removed
<1>. QED  BY <1>1, CopiesAreInstructions, FS_Subset, FS_CardinalityType

\* Different copies remove different instructions.
LEMMA RemovedOfBoth ==
    ASSUME NEW f, Valid(f), NEW X \in SUBSET Copies(f), NEW Y \in SUBSET Copies(f), X \cap Y = {}
    PROVE  Cardinality(Removed(f, X \cup Y)) = Cardinality(Removed(f, X)) + Cardinality(Removed(f, Y))
<1>1. Removed(f, X \cup Y) = Removed(f, X) \cup Removed(f, Y)
    BY DEF Removed
<1>2. Removed(f, X) \cap Removed(f, Y) = {}
  <2>. SUFFICES ASSUME NEW i \in Removed(f, X), i \in Removed(f, Y) PROVE FALSE
      OBVIOUS
  <2>1. i \in X \/ \E j \in X : i = j + 1
      BY DEF Removed
  <2>2. i \in Y \/ \E j \in Y : i = j + 1
      BY DEF Removed
  <2>3. \A j \in Copies(f) : j \in Nat /\ j + 1 \notin Copies(f)
      BY CopiesAreInstructions
  <2>. QED  BY <2>1, <2>2, <2>3
<1>3. IsFiniteSet(Removed(f, X)) /\ IsFiniteSet(Removed(f, Y))
    BY RemovedIsFinite
<1>4. Cardinality(Removed(f, X)) \in Nat /\ Cardinality(Removed(f, Y)) \in Nat
    BY RemovedIsFinite
<1>5. Cardinality(Removed(f, X) \cup Removed(f, Y))
          = Cardinality(Removed(f, X)) + Cardinality(Removed(f, Y)) - Cardinality({})
    BY <1>2, <1>3, FS_Union
<1>6. Cardinality({}) = 0
    BY FS_EmptySet
<1>7. Cardinality(Removed(f, X) \cup Removed(f, Y))
          = Cardinality(Removed(f, X)) + Cardinality(Removed(f, Y))
    BY <1>4, <1>5, <1>6
<1>. QED  BY <1>1, <1>7, Zenon

\* One copy removes as many instructions as it saves.
LEMMA RemovedOfOne ==
    ASSUME NEW f, Valid(f), NEW i \in Copies(f)
    PROVE  Cardinality(Removed(f, {i})) = Saved(f, i) /\ Saved(f, i) \in Nat
<1>1. i \in Nat
    BY CopiesAreInstructions
<1>2. CASE Kind(f, i + 1) = "set"
  <2>1. Removed(f, {i}) = {i} \cup {i + 1}
      BY <1>2 DEF Removed
  <2>2. IsFiniteSet({i}) /\ Cardinality({i}) = 1 /\ i + 1 \notin {i}
      BY <1>1, FS_Singleton
  <2>3. Cardinality({i} \cup {i + 1}) = 2
      BY <2>2, FS_AddElement
  <2>. QED  BY <1>2, <2>1, <2>3 DEF Saved
<1>3. CASE Kind(f, i + 1) # "set"
  <2>1. Removed(f, {i}) = {i}
      BY <1>3 DEF Removed
  <2>. QED  BY <1>3, <2>1, FS_Singleton DEF Saved
<1>. QED  BY <1>2, <1>3

\* Copies that stay cost as many instructions as would go with them.
LEMMA CostOfCopiesIs ==
    ASSUME NEW f, Valid(f), NEW X \in SUBSET Copies(f)
    PROVE  CostOfCopies(f, X) = Cardinality(Removed(f, X))
<1>. DEFINE pick == [s \in SUBSET X |-> CHOOSE x \in s : TRUE]
            h == [s \in SUBSET X |-> Cardinality(Removed(f, s))]
<1>1. IsFiniteSet(X) /\ Picks(pick, X)
  <2>1. IsFiniteSet(X)
      BY CopiesAreInstructions, FS_Subset
  <2>2. \A s \in SUBSET X : s # {} => (CHOOSE x \in s : TRUE) \in s
      BY Zenon
  <2>. QED  BY <2>1, <2>2 DEF Picks
<1>2. \A s \in SUBSET X : h[s] = IF s = {} THEN 0
                                 ELSE Saved(f, CHOOSE x \in s : TRUE) + h[s \ {CHOOSE x \in s : TRUE}]
  <2>. SUFFICES ASSUME NEW s \in SUBSET X
                PROVE  Cardinality(Removed(f, s)) = IF s = {} THEN 0
                           ELSE Saved(f, CHOOSE x \in s : TRUE)
                                + Cardinality(Removed(f, s \ {CHOOSE x \in s : TRUE}))
      OBVIOUS
  <2>. DEFINE x == CHOOSE y \in s : TRUE
  <2>1. CASE s = {}
    <3>1. Removed(f, {}) = {}
        BY DEF Removed
    <3>. QED  BY <2>1, <3>1, FS_EmptySet
  <2>2. CASE s # {}
    <3>1. x \in s
        BY <2>2, Zenon
    <3>. HIDE DEF x
    <3>2. /\ {x} \in SUBSET Copies(f) /\ s \ {x} \in SUBSET Copies(f)
          /\ {x} \cap (s \ {x}) = {} /\ {x} \cup (s \ {x}) = s /\ x \in Copies(f)
        BY <3>1
    <3>3. Cardinality(Removed(f, {x} \cup (s \ {x})))
              = Cardinality(Removed(f, {x})) + Cardinality(Removed(f, s \ {x}))
        BY <3>2, RemovedOfBoth
    <3>4. Cardinality(Removed(f, {x})) = Saved(f, x)
        BY <3>2, RemovedOfOne
    <3>5. Cardinality(Removed(f, s)) = Saved(f, x) + Cardinality(Removed(f, s \ {x}))
        BY <3>2, <3>3, <3>4
    <3>. QED  BY <2>2, <3>5 DEF x
  <2>. QED  BY <2>1, <2>2
<1>3. SumBy(h, f, X)
    BY <1>2 DEF SumBy
<1>4. PICK g : SumBy(g, f, X) /\ CostOfCopies(f, X) = g[X]
    BY <1>3, CostIsSum
<1>5. \A s \in SUBSET X : g[s] = IF s = {} THEN 0
                                 ELSE Saved(f, CHOOSE x \in s : TRUE) + g[s \ {CHOOSE x \in s : TRUE}]
    BY <1>4, Zenon DEF SumBy
<1>. DEFINE C == {s \in SUBSET X : h[s] = g[s]}
<1>6. X \in C
  <2>1. {} \in C
    <3>1. h[{}] = 0 /\ g[{}] = 0
        BY <1>2, <1>5
    <3>. QED  BY <3>1
  <2>2. \A s \in SUBSET X : s # {} /\ s \ {pick[s]} \in C => s \in C
    <3>. SUFFICES ASSUME NEW s \in SUBSET X, s # {}, s \ {pick[s]} \in C
                  PROVE  h[s] = g[s]
        OBVIOUS
    <3>1. pick[s] = CHOOSE x \in s : TRUE
        OBVIOUS
    <3>2. h[s \ {CHOOSE x \in s : TRUE}] = g[s \ {CHOOSE x \in s : TRUE}]
        BY <3>1
    <3>. HIDE DEF h
    <3>. QED  BY <1>2, <1>5, <3>2, Zenon
  <2>. HIDE DEF C, pick
  <2>. QED  BY <1>1, <2>1, <2>2, OneByOne
<1>. QED  BY <1>4, <1>6

-----------------------------------------------------------------------------
(* Webs *)

\* The webs are a partition of the nodes, and every web is of one local.
AreWebs(f, ws) ==
    /\ \A n \in Nodes(f) : \E w \in ws : n \in w
    /\ \A w \in ws : w # {} /\ w \subseteq Nodes(f)
    /\ \A v, w \in ws : v # w => v \cap w = {}
    /\ \A w \in ws : \A n, m \in w : LocalOf(f, n) = LocalOf(f, m)

\* A node is one of a local of the function.
LEMMA NodeHasLocal ==
    ASSUME NEW f, Valid(f), NEW n \in Nodes(f)
    PROVE  LocalOf(f, n) \in 0 .. Len(f.types) - 1
<1>1. \/ \E p \in 0 .. f.params - 1 : n = <<"param", p>>
      \/ \E i \in Ix(f) : n = <<"at", i>> /\ IsLocal(f, i)
    BY DEF Nodes, Defs, ParamDefs, IsLocal
<1>2. f.params \in 0 .. Len(f.types) /\ Len(f.types) \in Nat
    BY DEF Valid
<1>3. ASSUME NEW p \in 0 .. f.params - 1, n = <<"param", p>>
      PROVE  LocalOf(f, n) \in 0 .. Len(f.types) - 1
    BY <1>2, <1>3 DEF LocalOf
<1>4. ASSUME NEW i \in Ix(f), n = <<"at", i>>, IsLocal(f, i)
      PROVE  LocalOf(f, n) \in 0 .. Len(f.types) - 1
    BY <1>4 DEF LocalOf, Valid
<1>. QED  BY <1>1, <1>3, <1>4

\* There are finitely many nodes.
LEMMA NodesAreFinite ==
    ASSUME NEW f, Valid(f)
    PROVE  IsFiniteSet(Nodes(f))
<1>1. f.params \in Int /\ IsFiniteSet(0 .. f.params - 1)
  <2>1. f.params \in Int
      BY DEF Valid
  <2>. QED  BY <2>1, FS_Interval
<1>2. IsFiniteSet(ParamDefs(f))
  <2>. DEFINE h == [p \in 0 .. f.params - 1 |-> <<"param", p>>]
  <2>1. ParamDefs(f) = {h[p] : p \in 0 .. f.params - 1}
      BY DEF ParamDefs
  <2>2. 0 .. f.params - 1 \subseteq DOMAIN h
      OBVIOUS
  <2>. HIDE DEF h
  <2>. QED  BY <1>1, <2>1, <2>2, ImageOfFinite
<1>. DEFINE node == [i \in Ix(f) |-> <<"at", i>>]
<1>3. IsFiniteSet({node[i] : i \in Ix(f)})
  <2>1. IsFiniteSet(Ix(f)) /\ Ix(f) \subseteq DOMAIN node
      BY CopiesAreInstructions
  <2>. HIDE DEF node
  <2>. QED  BY <2>1, ImageOfFinite
<1>4. Nodes(f) \subseteq ParamDefs(f) \cup {node[i] : i \in Ix(f)}
    BY DEF Nodes, Defs
<1>5. IsFiniteSet(ParamDefs(f) \cup {node[i] : i \in Ix(f)})
  <2>. HIDE DEF node
  <2>. QED  BY <1>2, <1>3, FS_Union
<1>. QED  BY <1>4, <1>5, FS_Subset

\* What a read joins.
Joined(f, is, i, ws) ==
    LET mine == {<<"at", i>>} \cup DefsFor(f, is, i)
        hit == {w \in ws : w \cap mine # {}}
    IN  (ws \ hit) \cup {UNION hit}

\* Joining keeps the webs of one local each: a read and the definitions for it
\* are of the local it reads.
LEMMA JoiningKeepsWebs ==
    ASSUME NEW f, NEW is, NEW i \in Ix(f), Kind(f, i) = "get", NEW ws, AreWebs(f, ws)
    PROVE  AreWebs(f, Joined(f, is, i, ws))
<1>. DEFINE mine == {<<"at", i>>} \cup DefsFor(f, is, i)
            hit == {w \in ws : w \cap mine # {}}
            new == Joined(f, is, i, ws)
<1>1. new = (ws \ hit) \cup {UNION hit}
    BY DEF Joined
<1>2. \A n \in mine : LocalOf(f, n) = f.instrs[i].l
    BY DEF DefsFor, LocalOf
<1>3. <<"at", i>> \in Nodes(f) /\ <<"at", i>> \in mine
    BY DEF Nodes
<1>4. PICK w0 \in ws : <<"at", i>> \in w0
    BY <1>3 DEF AreWebs
<1>5. w0 \in hit
    BY <1>3, <1>4
<1>. HIDE DEF mine, new
<1>6. \A n \in Nodes(f) : \E w \in new : n \in w
  <2>. SUFFICES ASSUME NEW n \in Nodes(f) PROVE \E w \in new : n \in w
      OBVIOUS
  <2>1. PICK w \in ws : n \in w
      BY DEF AreWebs
  <2>2. CASE w \in hit
      BY <1>1, <2>1, <2>2
  <2>3. CASE w \notin hit
      BY <1>1, <2>1, <2>3
  <2>. QED  BY <2>2, <2>3
<1>7. UNION hit # {} /\ UNION hit \subseteq Nodes(f)
    BY <1>4, <1>5 DEF AreWebs
<1>8. \A w \in new : w # {} /\ w \subseteq Nodes(f)
    BY <1>1, <1>7 DEF AreWebs
<1>9. \A v \in ws \ hit : v \cap UNION hit = {}
    BY DEF AreWebs
<1>10. \A v, w \in new : v # w => v \cap w = {}
  <2>. SUFFICES ASSUME NEW v \in new, NEW w \in new, v # w PROVE v \cap w = {}
      OBVIOUS
  <2>1. CASE v \in ws \ hit /\ w \in ws \ hit
      BY <2>1 DEF AreWebs
  <2>2. CASE v \in ws \ hit /\ w = UNION hit
      BY <1>9, <2>2
  <2>3. CASE v = UNION hit /\ w \in ws \ hit
    <3>1. w \cap UNION hit = {}
        BY <1>9, <2>3
    <3>. QED  BY <2>3, <3>1
  <2>. QED  BY <1>1, <2>1, <2>2, <2>3
<1>11. \A n \in UNION hit : LocalOf(f, n) = f.instrs[i].l
  <2>. SUFFICES ASSUME NEW w \in hit, NEW n \in w PROVE LocalOf(f, n) = f.instrs[i].l
      OBVIOUS
  <2>1. PICK m \in w : m \in mine
      OBVIOUS
  <2>2. LocalOf(f, n) = LocalOf(f, m)
      BY DEF AreWebs
  <2>. QED  BY <1>2, <2>1, <2>2
<1>12. \A w \in new : \A n, m \in w : LocalOf(f, n) = LocalOf(f, m)
  <2>1. \A w \in ws \ hit : \A n, m \in w : LocalOf(f, n) = LocalOf(f, m)
      BY DEF AreWebs
  <2>. QED  BY <1>1, <1>11, <2>1
<1>13. AreWebs(f, new)
    BY <1>6, <1>8, <1>10, <1>12 DEF AreWebs
<1>. QED  BY <1>13 DEF new

\* Each of the reads of s is in one web with the definitions for it.
ReadsJoined(f, is, s, ws) ==
    \A i \in s : \E w \in ws : <<"at", i>> \in w /\ DefsFor(f, is, i) \cap Nodes(f) \subseteq w

\* Joining puts a read into one web with the definitions for it, and leaves
\* together what was.
LEMMA JoiningJoins ==
    ASSUME NEW f, NEW is, NEW i \in Ix(f), Kind(f, i) = "get", NEW ws, AreWebs(f, ws),
           NEW s, ReadsJoined(f, is, s \ {i}, ws)
    PROVE  ReadsJoined(f, is, s, Joined(f, is, i, ws))
<1>. DEFINE mine == {<<"at", i>>} \cup DefsFor(f, is, i)
            hit == {w \in ws : w \cap mine # {}}
            new == Joined(f, is, i, ws)
<1>1. new = (ws \ hit) \cup {UNION hit}
    BY DEF Joined
<1>2. \A w \in ws : \E v \in new : w \subseteq v
  <2>. SUFFICES ASSUME NEW w \in ws PROVE \E v \in new : w \subseteq v
      OBVIOUS
  <2>1. CASE w \in hit
    <3>1. w \subseteq UNION hit
        BY <2>1
    <3>. QED  BY <1>1, <3>1
  <2>2. CASE w \notin hit
      BY <1>1, <2>2
  <2>. QED  BY <2>1, <2>2
<1>3. \A n \in mine \cap Nodes(f) : n \in UNION hit
    BY DEF AreWebs
<1>4. <<"at", i>> \in mine \cap Nodes(f) /\ DefsFor(f, is, i) \subseteq mine
    BY DEF Nodes
<1>. HIDE DEF mine, hit, new
<1>5. ASSUME NEW k \in s
      PROVE  \E v \in new : <<"at", k>> \in v /\ DefsFor(f, is, k) \cap Nodes(f) \subseteq v
  <2>1. CASE k = i
      BY <1>1, <1>3, <1>4, <2>1
  <2>2. CASE k # i
    <3>1. PICK w \in ws : <<"at", k>> \in w /\ DefsFor(f, is, k) \cap Nodes(f) \subseteq w
        BY <2>2 DEF ReadsJoined
    <3>. QED  BY <1>2, <3>1
  <2>. QED  BY <2>1, <2>2
<1>. QED  BY <1>5 DEF ReadsJoined, new

\* h has the webs once the reads of each part of N are joined.
JoinedBy(h, f, is, N) ==
    h = [s \in SUBSET N |-> IF s = {} THEN {{n} : n \in Nodes(f)}
                            ELSE Joined(f, is, CHOOSE x \in s : TRUE, h[s \ {CHOOSE x \in s : TRUE}])]

\* The fold of Webs, once it is known that its recursion has a solution.
LEMMA WebsAreFold ==
    ASSUME NEW f, NEW is, NEW N, N = {i \in Ix(f) : Kind(f, i) = "get"}, \E h : JoinedBy(h, f, is, N)
    PROVE  \E h : JoinedBy(h, f, is, N) /\ Webs(f, is) = h[N]
<1>. DEFINE h == CHOOSE g : JoinedBy(g, f, is, N)
<1>1. JoinedBy(h, f, is, N)
    BY Zenon
<1>2. Webs(f, is) = h[N]
    BY Zenon DEF Webs, FoldSet, MapThenFoldSet, JoinedBy, Joined
<1>. QED  BY <1>1, <1>2, Zenon

\* The webs of a function, whatever definitions are said to reach its blocks;
\* a read is in one web with the definitions for it.
LEMMA WebsAreWebs ==
    ASSUME NEW f, Valid(f), NEW is
    PROVE  /\ AreWebs(f, Webs(f, is))
           /\ ReadsJoined(f, is, {i \in Ix(f) : Kind(f, i) = "get"}, Webs(f, is))
<1>. DEFINE N == {i \in Ix(f) : Kind(f, i) = "get"}
            A == {ws \in SUBSET SUBSET Nodes(f) : AreWebs(f, ws)}
            a == {{n} : n \in Nodes(f)}
            step == [x \in N |-> [ws \in A |-> Joined(f, is, x, ws)]]
            pick == [s \in SUBSET N |-> CHOOSE x \in s : TRUE]
<1>1. IsFiniteSet(N) /\ Picks(pick, N)
  <2>1. IsFiniteSet(N)
      BY CopiesAreInstructions, FS_Subset
  <2>2. \A s \in SUBSET N : s # {} => (CHOOSE x \in s : TRUE) \in s
      BY Zenon
  <2>. QED  BY <2>1, <2>2 DEF Picks
<1>2. a \in A
    BY DEF AreWebs
<1>3. step \in [N -> [A -> A]]
  <2>. SUFFICES ASSUME NEW x \in N, NEW ws \in A PROVE Joined(f, is, x, ws) \in A
      OBVIOUS
  <2>1. AreWebs(f, Joined(f, is, x, ws))
      BY JoiningKeepsWebs
  <2>. QED  BY <2>1 DEF AreWebs
<1>4. PICK h : Folds(h, N, A, a, step, pick)
  <2>. HIDE DEF step, pick, N, A, a
  <2>. QED  BY <1>1, <1>2, <1>3, FoldExists, Zenon
<1>5. ASSUME NEW s \in SUBSET N
      PROVE  h[s] = IF s = {} THEN a
                    ELSE Joined(f, is, CHOOSE x \in s : TRUE, h[s \ {CHOOSE x \in s : TRUE}])
  <2>1. CASE s = {}
    <3>1. h[{}] = a
        BY <1>4, Zenon DEF Folds
    <3>. QED  BY <2>1, <3>1
  <2>2. CASE s # {}
    <3>. DEFINE x == CHOOSE y \in s : TRUE
    <3>1. pick[s] = x /\ x \in N
        BY <1>1, <2>2 DEF Picks
    <3>. HIDE DEF x
    <3>2. h[s] = step[x][h[s \ {x}]]
      <4>. HIDE DEF step, pick, a, A, N
      <4>. QED  BY <1>4, <2>2, <3>1 DEF Folds
    <3>3. h[s \ {x}] \in A
      <4>. HIDE DEF step, pick, a, A, N
      <4>. QED  BY <1>4 DEF Folds
    <3>4. h[s] = Joined(f, is, x, h[s \ {x}])
      <4>. HIDE DEF pick, a, A
      <4>. QED  BY <3>1, <3>2, <3>3
    <3>. QED  BY <2>2, <3>4 DEF x
  <2>. QED  BY <2>1, <2>2
<1>6. DOMAIN h = SUBSET N
    BY <1>4 DEF Folds
<1>7. h = [s \in SUBSET N |-> h[s]]
    BY <1>4 DEF Folds
<1>8. JoinedBy(h, f, is, N)
  <2>. HIDE DEF a, N
  <2>1. h = [s \in SUBSET N |-> IF s = {} THEN a
                    ELSE Joined(f, is, CHOOSE x \in s : TRUE, h[s \ {CHOOSE x \in s : TRUE}])]
      BY <1>5, <1>7
  <2>. QED  BY <2>1 DEF JoinedBy, a
<1>9. PICK g : JoinedBy(g, f, is, N) /\ Webs(f, is) = g[N]
    BY <1>8, WebsAreFold
<1>10. \A s \in SUBSET N :
          g[s] = IF s = {} THEN a
                 ELSE Joined(f, is, CHOOSE x \in s : TRUE, g[s \ {CHOOSE x \in s : TRUE}])
    BY <1>9, Zenon DEF JoinedBy
<1>. DEFINE C == {s \in SUBSET N : g[s] \in A /\ ReadsJoined(f, is, s, g[s])}
<1>11. N \in C
  <2>1. {} \in C
    <3>1. g[{}] = a
      <4>. HIDE DEF a, N
      <4>. QED  BY <1>10
    <3>2. ReadsJoined(f, is, {}, g[{}])
        BY DEF ReadsJoined
    <3>. QED  BY <1>2, <3>1, <3>2
  <2>2. \A s \in SUBSET N : s # {} /\ s \ {pick[s]} \in C => s \in C
    <3>. SUFFICES ASSUME NEW s \in SUBSET N, s # {}, g[s \ {pick[s]}] \in A,
                         ReadsJoined(f, is, s \ {pick[s]}, g[s \ {pick[s]}])
                  PROVE  g[s] \in A /\ ReadsJoined(f, is, s, g[s])
        OBVIOUS
    <3>. DEFINE x == CHOOSE y \in s : TRUE
    <3>1. pick[s] = x /\ x \in N
        BY <1>1 DEF Picks
    <3>2. g[s] = Joined(f, is, x, g[s \ {x}])
        BY <1>10, Zenon
    <3>. HIDE DEF x, pick
    <3>3. AreWebs(f, g[s])
        BY <3>1, <3>2, JoiningKeepsWebs
    <3>4. ReadsJoined(f, is, s, g[s])
        BY <3>1, <3>2, JoiningJoins
    <3>. QED  BY <3>3, <3>4 DEF AreWebs
  <2>. HIDE DEF C, pick, N
  <2>. QED  BY <1>1, <2>1, <2>2, OneByOne
<1>. QED  BY <1>9, <1>11

-----------------------------------------------------------------------------
(* The allocation that leaves every local in a slot of its own *)

\* The place of a number among those of L.
RankIn(L, l) == Cardinality({m \in L : m < l})

\* The elements of L take the places from 0 on, in order.
LEMMA RankIsBelow ==
    ASSUME NEW L, IsFiniteSet(L), L \subseteq Nat, NEW l \in L
    PROVE  RankIn(L, l) \in Nat /\ RankIn(L, l) < Cardinality(L)
<1>1. IsFiniteSet(L \ {l}) /\ Cardinality(L \ {l}) = Cardinality(L) - 1
    BY FS_RemoveElement
<1>2. {m \in L : m < l} \subseteq L \ {l}
    OBVIOUS
<1>3. IsFiniteSet({m \in L : m < l}) /\ Cardinality({m \in L : m < l}) <= Cardinality(L \ {l})
    BY <1>1, <1>2, FS_Subset
<1>4. Cardinality({m \in L : m < l}) \in Nat /\ Cardinality(L) \in Nat
    BY <1>3, FS_CardinalityType
<1>. DEFINE r == Cardinality({m \in L : m < l})
            c == Cardinality(L)
            d == Cardinality(L \ {l})
<1>5. r \in Nat /\ c \in Nat /\ d = c - 1 /\ r <= d
    BY <1>1, <1>3, <1>4
<1>6. RankIn(L, l) = r
    BY DEF RankIn
<1>. HIDE DEF r, c, d
<1>7. r < c
    BY <1>5
<1>. QED  BY <1>5, <1>6, <1>7 DEF c

\* No two of them share a place.
LEMMA RankIsInjective ==
    ASSUME NEW L, IsFiniteSet(L), L \subseteq Nat, NEW k \in L, NEW l \in L, k # l
    PROVE  RankIn(L, k) # RankIn(L, l)
<1>1. ASSUME NEW x \in L, NEW y \in L, x < y
      PROVE  RankIn(L, x) < RankIn(L, y)
  <2>. DEFINE M == {m \in L : m < y}
  <2>1. IsFiniteSet(M) /\ M \subseteq Nat /\ x \in M
      BY <1>1, FS_Subset
  <2>2. {m \in M : m < x} = {m \in L : m < x}
    <3>1. \A m \in L : m < x => m < y
        BY <1>1
    <3>. QED  BY <3>1
  <2>. HIDE DEF M
  <2>3. RankIn(M, x) < Cardinality(M)
      BY <2>1, RankIsBelow
  <2>. QED  BY <2>2, <2>3 DEF RankIn, M
<1>2. k < l \/ l < k
    OBVIOUS
<1>3. RankIn(L, k) \in Nat /\ RankIn(L, l) \in Nat
    BY RankIsBelow
<1>4. RankIn(L, k) < RankIn(L, l) \/ RankIn(L, l) < RankIn(L, k)
    BY <1>1, <1>2
<1>. QED  BY <1>3, <1>4

\* Where all the numbers below p are in L, each of them has its own place.
LEMMA RankOfFirst ==
    ASSUME NEW L, L \subseteq Nat, NEW p \in Nat, 0 .. p - 1 \subseteq L, NEW l \in 0 .. p - 1
    PROVE  RankIn(L, l) = l
<1>1. {m \in L : m < l} = 0 .. l - 1
  <2>1. \A m \in L : m \in Nat /\ (m < l <=> m \in 0 .. l - 1)
      OBVIOUS
  <2>2. \A m \in 0 .. l - 1 : m \in L
      OBVIOUS
  <2>. QED  BY <2>1, <2>2, Zenon
<1>2. Cardinality(0 .. l - 1) = l
  <2>1. Cardinality(0 .. l - 1) = IF 0 > l - 1 THEN 0 ELSE (l - 1) - 0 + 1
      BY FS_Interval
  <2>. QED  BY <2>1
<1>. QED  BY <1>1, <1>2 DEF RankIn

\* The locals that have a web.
LocalsOf(f, ws) == {WebLocal(f, w) : w \in ws}

\* The local of a web is that of each of its nodes.
LEMMA WebIsOfOneLocal ==
    ASSUME NEW f, NEW ws, AreWebs(f, ws), NEW w \in ws, NEW n \in w
    PROVE  WebLocal(f, w) = LocalOf(f, n)
<1>1. (CHOOSE m \in w : TRUE) \in w
    BY Zenon
<1>. DEFINE m == CHOOSE x \in w : TRUE
<1>2. m \in w /\ WebLocal(f, w) = LocalOf(f, m)
    BY <1>1, Zenon DEF WebLocal
<1>. HIDE DEF m
<1>. QED  BY <1>2, Zenon DEF AreWebs

\* There are at most as many locals with a web as webs, and as locals; each
\* parameter has one.
LEMMA LocalsOfWebs ==
    ASSUME NEW f, Valid(f), NEW ws, AreWebs(f, ws)
    PROVE  /\ IsFiniteSet(ws) /\ Cardinality(ws) \in Nat
           /\ IsFiniteSet(LocalsOf(f, ws)) /\ Cardinality(LocalsOf(f, ws)) \in Nat
           /\ Cardinality(LocalsOf(f, ws)) <= Cardinality(ws)
           /\ Cardinality(LocalsOf(f, ws)) <= Len(f.types)
           /\ LocalsOf(f, ws) \subseteq 0 .. Len(f.types) - 1
           /\ 0 .. f.params - 1 \subseteq LocalsOf(f, ws)
<1>1. IsFiniteSet(ws)
  <2>1. IsFiniteSet(SUBSET Nodes(f))
      BY NodesAreFinite, FS_SUBSET
  <2>2. ws \subseteq SUBSET Nodes(f)
      BY DEF AreWebs
  <2>. QED  BY <2>1, <2>2, FS_Subset
<1>. DEFINE h == [w \in ws |-> WebLocal(f, w)]
<1>2. LocalsOf(f, ws) = {h[w] : w \in ws}
    BY DEF LocalsOf
<1>3. IsFiniteSet(LocalsOf(f, ws)) /\ Cardinality(LocalsOf(f, ws)) <= Cardinality(ws)
  <2>1. ws \subseteq DOMAIN h
      OBVIOUS
  <2>. HIDE DEF h
  <2>. QED  BY <1>1, <1>2, <2>1, ImageOfFinite
<1>4. LocalsOf(f, ws) \subseteq 0 .. Len(f.types) - 1
  <2>. SUFFICES ASSUME NEW w \in ws PROVE WebLocal(f, w) \in 0 .. Len(f.types) - 1
      BY DEF LocalsOf
  <2>1. PICK n : n \in w /\ n \in Nodes(f)
      BY DEF AreWebs
  <2>. QED  BY <2>1, WebIsOfOneLocal, NodeHasLocal
<1>5. Cardinality(LocalsOf(f, ws)) <= Len(f.types)
  <2>1. Len(f.types) \in Nat
      BY DEF Valid
  <2>2. IsFiniteSet(0 .. Len(f.types) - 1)
        /\ Cardinality(0 .. Len(f.types) - 1)
              = IF 0 > Len(f.types) - 1 THEN 0 ELSE (Len(f.types) - 1) - 0 + 1
      BY <2>1, FS_Interval
  <2>3. Cardinality(0 .. Len(f.types) - 1) = Len(f.types)
      BY <2>1, <2>2
  <2>4. Cardinality(LocalsOf(f, ws)) <= Cardinality(0 .. Len(f.types) - 1)
      BY <1>4, <2>2, FS_Subset
  <2>. QED  BY <2>3, <2>4
<1>6. 0 .. f.params - 1 \subseteq LocalsOf(f, ws)
  <2>. SUFFICES ASSUME NEW p \in 0 .. f.params - 1 PROVE p \in LocalsOf(f, ws)
      OBVIOUS
  <2>1. <<"param", p>> \in Nodes(f)
      BY DEF Nodes, Defs, ParamDefs
  <2>2. PICK w \in ws : <<"param", p>> \in w
      BY <2>1 DEF AreWebs
  <2>3. WebLocal(f, w) = LocalOf(f, <<"param", p>>)
      BY <2>2, WebIsOfOneLocal
  <2>4. LocalOf(f, <<"param", p>>) = p
      BY DEF LocalOf
  <2>. QED  BY <2>3, <2>4 DEF LocalsOf
<1>7. Cardinality(ws) \in Nat /\ Cardinality(LocalsOf(f, ws)) \in Nat
    BY <1>1, <1>3, FS_CardinalityType
<1>. QED  BY <1>1, <1>3, <1>4, <1>5, <1>6, <1>7

\* A web with a parameter is of that parameter, and has a slot for it.
LEMMA ParamOfWeb ==
    ASSUME NEW f, Valid(f), NEW ws, AreWebs(f, ws), NEW w \in ws, IsParamWeb(f, w)
    PROVE  /\ Param(f, w) = WebLocal(f, w) /\ Param(f, w) \in 0 .. f.params - 1
           /\ RankIn(LocalsOf(f, ws), Param(f, w)) = Param(f, w)
           /\ Param(f, w) \in Slots(ws)
<1>. DEFINE n == CHOOSE x \in w \cap ParamDefs(f) : TRUE
            L == LocalsOf(f, ws)
<1>1. n \in w \cap ParamDefs(f) /\ Param(f, w) = n[2]
    BY Zenon DEF IsParamWeb, Param
<1>. HIDE DEF n, L
<1>2. LocalOf(f, n) = n[2] /\ n[2] \in 0 .. f.params - 1
    BY <1>1 DEF ParamDefs, LocalOf
<1>3. WebLocal(f, w) = n[2]
    BY <1>1, <1>2, WebIsOfOneLocal
<1>4. /\ IsFiniteSet(L) /\ L \subseteq Nat /\ Cardinality(L) <= Cardinality(ws)
      /\ Cardinality(ws) \in Nat /\ Cardinality(L) \in Nat /\ 0 .. f.params - 1 \subseteq L
      /\ f.params \in Nat
  <2>1. f.params \in 0 .. Len(f.types) /\ Len(f.types) \in Nat
      BY DEF Valid
  <2>2. 0 .. Len(f.types) - 1 \subseteq Nat
      BY <2>1
  <2>. QED  BY <2>1, <2>2, LocalsOfWebs DEF L
<1>. DEFINE p == n[2]
<1>5. p \in 0 .. f.params - 1 /\ p \in L
    BY <1>2, <1>4
<1>. HIDE DEF p
<1>6. RankIn(L, p) = p
    BY <1>4, <1>5, RankOfFirst
<1>7. p < Cardinality(L)
    BY <1>4, <1>5, <1>6, RankIsBelow
<1>8. p \in 0 .. Cardinality(ws) - 1
  <2>1. p \in Nat
      BY <1>4, <1>5
  <2>. DEFINE c == Cardinality(L)
              d == Cardinality(ws)
  <2>2. c \in Nat /\ d \in Nat /\ c <= d /\ p < c
      BY <1>4, <1>7
  <2>. HIDE DEF c, d
  <2>3. p \in 0 .. d - 1
      BY <2>1, <2>2
  <2>. QED  BY <2>3 DEF d
<1>. QED  BY <1>1, <1>3, <1>5, <1>6, <1>8 DEF Slots, p, L

\* Every web has the place its local takes.
Own(f, ws) == [w \in ws |-> RankIn(LocalsOf(f, ws), WebLocal(f, w))]

\* No two webs of one local interfere.
OneEach(f, ws) == \A v, w \in ws : WebLocal(f, v) = WebLocal(f, w) => ~Interferes(v, w)

\* Then the hard clauses allow it.
LEMMA OwnIsAssignment ==
    ASSUME NEW f, Valid(f), NEW ws, AreWebs(f, ws), OneEach(f, ws)
    PROVE  Own(f, ws) \in Assignments(f, ws)
<1>. DEFINE L == LocalsOf(f, ws)
            a == Own(f, ws)
            own == {w \in ws : IsParamWeb(f, w)}
<1>1. /\ IsFiniteSet(L) /\ L \subseteq Nat /\ Cardinality(L) <= Cardinality(ws)
      /\ Cardinality(ws) \in Nat /\ Cardinality(L) \in Nat
  <2>1. Len(f.types) \in Nat
      BY DEF Valid
  <2>2. 0 .. Len(f.types) - 1 \subseteq Nat
      BY <2>1
  <2>. QED  BY <2>2, LocalsOfWebs
<1>2. \A w \in ws : WebLocal(f, w) \in L /\ a[w] = RankIn(L, WebLocal(f, w))
    BY DEF LocalsOf, Own
<1>3. DOMAIN a = ws /\ a = [w \in ws |-> a[w]]
    BY DEF Own
<1>. HIDE DEF L, a
<1>4. \A w \in ws : a[w] \in Slots(ws)
  <2>. SUFFICES ASSUME NEW w \in ws PROVE a[w] \in 0 .. Cardinality(ws) - 1
      BY DEF Slots
  <2>1. a[w] \in Nat /\ a[w] < Cardinality(L)
      BY <1>1, <1>2, RankIsBelow
  <2>. DEFINE c == Cardinality(L)
              d == Cardinality(ws)
              r == a[w]
  <2>2. c \in Nat /\ d \in Nat /\ c <= d /\ r \in Nat /\ r < c
      BY <1>1, <2>1
  <2>. HIDE DEF c, d, r
  <2>3. r \in 0 .. d - 1
      BY <2>2
  <2>. QED  BY <2>3 DEF r, d
<1>5. \A w \in own : a[w] = Param(f, w)
  <2>. SUFFICES ASSUME NEW w \in ws, IsParamWeb(f, w) PROVE a[w] = Param(f, w)
      OBVIOUS
  <2>1. Param(f, w) = WebLocal(f, w) /\ RankIn(L, Param(f, w)) = Param(f, w)
      BY ParamOfWeb DEF L
  <2>. QED  BY <1>2, <2>1
<1>6. \A v, w \in ws : a[v] = a[w] => WebLocal(f, v) = WebLocal(f, w)
    BY <1>1, <1>2, RankIsInjective
<1>7. TypesApart(f, a)
    BY <1>3, <1>6 DEF TypesApart, WebType
<1>8. KeepApart(a)
    BY <1>3, <1>6 DEF KeepApart, OneEach
<1>. DEFINE g == [w \in ws \ own |-> a[w]]
<1>9. g \in [ws \ own -> Slots(ws)]
    BY <1>4
<1>10. \A w \in ws : a[w] = IF w \in own THEN Param(f, w) ELSE g[w]
  <2>1. \A w \in ws \ own : g[w] = a[w]
      OBVIOUS
  <2>. HIDE DEF g, own
  <2>. QED  BY <1>5, <2>1
<1>11. a = [w \in ws |-> IF w \in own THEN Param(f, w) ELSE g[w]]
  <2>. HIDE DEF g, own
  <2>. QED  BY <1>3, <1>10
<1>. HIDE DEF g
<1>12. a \in {[w \in ws |-> IF w \in own THEN Param(f, w) ELSE h[w]] : h \in [ws \ own -> Slots(ws)]}
    BY <1>9, <1>11, Zenon
<1>. QED  BY <1>7, <1>8, <1>12, Zenon DEF Assignments, a

\* It uses no more slots than the function has locals.
LEMMA OwnUsesLocals ==
    ASSUME NEW f, Valid(f), NEW ws, AreWebs(f, ws)
    PROVE  Cardinality(Used(f, Own(f, ws))) <= Len(f.types)
<1>. DEFINE L == LocalsOf(f, ws)
            a == Own(f, ws)
            c == Cardinality(L)
            n == Len(f.types)
<1>1. IsFiniteSet(L) /\ L \subseteq Nat /\ c \in Nat /\ c <= n /\ n \in Nat
  <2>1. Len(f.types) \in Nat
      BY DEF Valid
  <2>2. 0 .. Len(f.types) - 1 \subseteq Nat
      BY <2>1
  <2>. QED  BY <2>1, <2>2, LocalsOfWebs
<1>2. \A w \in ws : WebLocal(f, w) \in L /\ a[w] = RankIn(L, WebLocal(f, w))
    BY DEF LocalsOf, Own
<1>3. DOMAIN a = ws
    BY DEF Own
<1>. HIDE DEF L, a
<1>4. \A w \in ws : a[w] \in Nat /\ a[w] < c
    BY <1>1, <1>2, RankIsBelow
<1>5. Slots(ws) \subseteq Nat
  <2>1. Cardinality(ws) \in Nat
      BY LocalsOfWebs
  <2>. QED  BY <2>1 DEF Slots
<1>. HIDE DEF c, n
<1>6. Used(f, a) \subseteq 0 .. c - 1
  <2>. SUFFICES ASSUME NEW s \in Used(f, a) PROVE s \in 0 .. c - 1
      OBVIOUS
  <2>1. s \in Nat /\ \E w \in ws : a[w] = s \/ a[w] > s
      BY <1>3, <1>5 DEF Used
  <2>2. PICK w \in ws : a[w] = s \/ a[w] > s
      BY <2>1
  <2>3. s < c
      BY <1>1, <1>4, <2>1, <2>2
  <2>. QED  BY <1>1, <2>1, <2>3
<1>7. IsFiniteSet(0 .. c - 1) /\ Cardinality(0 .. c - 1) = c
  <2>1. /\ IsFiniteSet(0 .. c - 1)
        /\ Cardinality(0 .. c - 1) = IF 0 > c - 1 THEN 0 ELSE (c - 1) - 0 + 1
      BY <1>1, FS_Interval
  <2>. QED  BY <1>1, <2>1
<1>8. IsFiniteSet(Used(f, a)) /\ Cardinality(Used(f, a)) <= c
    BY <1>6, <1>7, FS_Subset
<1>9. Cardinality(Used(f, a)) \in Nat
    BY <1>8, FS_CardinalityType
<1>10. Cardinality(Used(f, a)) <= n
  <2>. DEFINE u == Cardinality(Used(f, a))
  <2>1. u \in Nat /\ u <= c
      BY <1>8, <1>9
  <2>. HIDE DEF u
  <2>2. u <= n
      BY <1>1, <2>1
  <2>. QED  BY <2>2 DEF u
<1>. QED  BY <1>10 DEF a, n

-----------------------------------------------------------------------------
(* What an optimum costs *)

\* The copies the solver merges, and those it leaves.
MergedCopies(f, a) == {i \in Copies(f) : Merged(f, a, i)}

OtherCopies(f, a) == {i \in Copies(f) : ~Merged(f, a, i)}

\* Every slot of a web counts as used.
LEMMA SlotsAreUsed ==
    ASSUME NEW f, Valid(f), NEW ws, AreWebs(f, ws), NEW a \in Assignments(f, ws)
    PROVE  /\ DOMAIN a = ws
           /\ IsFiniteSet(Used(f, a)) /\ {a[w] : w \in DOMAIN a} \subseteq Used(f, a)
<1>. DEFINE own == {w \in ws : IsParamWeb(f, w)}
<1>1. PICK g \in [ws \ own -> Slots(ws)] :
          a = [w \in ws |-> IF w \in own THEN Param(f, w) ELSE g[w]]
    BY DEF Assignments
<1>2. DOMAIN a = ws
    BY <1>1
<1>3. \A w \in ws : a[w] \in Slots(ws)
  <2>. SUFFICES ASSUME NEW w \in ws PROVE a[w] \in Slots(ws)
      OBVIOUS
  <2>1. CASE w \in own
    <3>1. a[w] = Param(f, w)
        BY <1>1, <2>1
    <3>. QED  BY <2>1, <3>1, ParamOfWeb
  <2>2. CASE w \notin own
    <3>1. a[w] = g[w]
        BY <1>1, <2>2
    <3>. QED  BY <2>2, <3>1
  <2>. QED  BY <2>1, <2>2
<1>4. IsFiniteSet(Slots(ws))
  <2>1. Cardinality(ws) \in Nat
      BY LocalsOfWebs
  <2>2. 0 \in Int /\ Cardinality(ws) - 1 \in Int
      BY <2>1
  <2>. QED  BY <2>2, FS_Interval DEF Slots
<1>5. Used(f, a) \subseteq Slots(ws)
    BY <1>2 DEF Used
<1>6. {a[w] : w \in DOMAIN a} \subseteq Used(f, a)
    BY <1>2, <1>3 DEF Used
<1>. QED  BY <1>2, <1>4, <1>5, <1>6, FS_Subset

\* The cost of an assignment counts slots and the instructions that would go
\* with the copies left.
LEMMA CostCounts ==
    ASSUME NEW f, Valid(f), NEW ws, AreWebs(f, ws), NEW a \in Assignments(f, ws)
    PROVE  /\ Cost(f, a) = Cardinality(Used(f, a)) + Cardinality(Removed(f, OtherCopies(f, a)))
           /\ Cost(f, a) \in Nat
<1>1. Cost(f, a) = Cardinality(Used(f, a)) + CostOfCopies(f, OtherCopies(f, a))
    BY Zenon DEF Cost, CostOfCopies, OtherCopies
<1>2. OtherCopies(f, a) \in SUBSET Copies(f)
    BY DEF OtherCopies
<1>3. CostOfCopies(f, OtherCopies(f, a)) = Cardinality(Removed(f, OtherCopies(f, a)))
    BY <1>2, CostOfCopiesIs
<1>4. Cardinality(Removed(f, OtherCopies(f, a))) \in Nat
    BY <1>2, RemovedIsFinite
<1>5. Cardinality(Used(f, a)) \in Nat
    BY SlotsAreUsed, FS_CardinalityType
<1>. QED  BY <1>1, <1>3, <1>4, <1>5

\* An optimum is an assignment, and none costs less.
LEMMA OptimumIsLeast ==
    ASSUME NEW f, Valid(f), NEW ws, AreWebs(f, ws), NEW a \in Optima(f, ws),
           NEW b \in Assignments(f, ws)
    PROVE  a \in Assignments(f, ws) /\ Cost(f, a) <= Cost(f, b)
<1>. DEFINE all == Assignments(f, ws)
            C == {Cost(f, x) : x \in all}
            m == Min(C)
            costing == [c \in Nat |-> {x \in all : Cost(f, x) = c}]
<1>1. C \subseteq Nat
    BY CostCounts
<1>2. Cost(f, b) \in C
    OBVIOUS
<1>3. Optima(f, ws) = costing[m]
    BY Zenon DEF Optima
<1>. HIDE DEF C
<1>4. m \in C /\ \A c \in C : m <= c
    BY <1>1, <1>2, MinIsLeast
<1>. HIDE DEF m
<1>5. costing[m] = {x \in all : Cost(f, x) = m}
    BY <1>1, <1>4
<1>. QED  BY <1>2, <1>3, <1>4, <1>5

-----------------------------------------------------------------------------
(* What an optimum pays *)

\* The instructions left are those no merged copy removes: a merged read is
\* never put back, as a tee is never skipped.
LEMMA KeptAreLeft ==
    ASSUME NEW f, Valid(f), NEW a
    PROVE  Kept(f, a) = Ix(f) \ Removed(f, MergedCopies(f, a))
<1>1. Skip(f, a) = Removed(f, MergedCopies(f, a))
    BY DEF Skip, Removed, MergedCopies
<1>2. PutBack(f, a) = {}
  <2>. SUFFICES ASSUME NEW i \in Skip(f, a), Kind(f, i) = "get", Kind(f, i + 1) = "tee",
                       i + 1 \in Skip(f, a)
                PROVE  FALSE
      BY DEF PutBack
  <2>1. i \in Ix(f) /\ i \in Nat
    <3>1. MergedCopies(f, a) \in SUBSET Copies(f)
        BY DEF MergedCopies
    <3>2. i \in Ix(f)
        BY <1>1, <3>1, RemovedIsFinite
    <3>. QED  BY <3>2, BlocksAreInstructions
  <2>2. \A j \in Copies(f) : j \in Nat /\ Kind(f, j) = "get"
      BY CopiesAreInstructions DEF Copies
  <2>3. CASE i + 1 \in MergedCopies(f, a)
      BY <2>2, <2>3 DEF MergedCopies
  <2>4. CASE \E j \in MergedCopies(f, a) : Kind(f, j + 1) = "set" /\ i + 1 = j + 1
      BY <2>4
  <2>. QED  BY <1>1, <2>3, <2>4 DEF Removed
<1>. QED  BY <1>1, <1>2 DEF Kept

\* So what the instructions left and the copies left would come to is all
\* instructions but those of the copies.
LEMMA KeptCounts ==
    ASSUME NEW f, Valid(f), NEW a
    PROVE  \E m, o, r \in Nat :
              /\ o = Cardinality(Removed(f, OtherCopies(f, a)))
              /\ r = Cardinality(Removed(f, Copies(f)))
              /\ m + o = r
              /\ Cardinality(Kept(f, a)) = Len(f.instrs) - m
<1>. DEFINE M == MergedCopies(f, a)
            O == OtherCopies(f, a)
<1>1. M \in SUBSET Copies(f) /\ O \in SUBSET Copies(f) /\ M \cap O = {} /\ M \cup O = Copies(f)
    BY DEF MergedCopies, OtherCopies
<1>. HIDE DEF M, O
<1>2. Cardinality(Removed(f, M \cup O)) = Cardinality(Removed(f, M)) + Cardinality(Removed(f, O))
    BY <1>1, RemovedOfBoth
<1>3. /\ Cardinality(Removed(f, M)) \in Nat /\ Removed(f, M) \subseteq Ix(f)
      /\ Cardinality(Removed(f, O)) \in Nat
      /\ Cardinality(Removed(f, Copies(f))) \in Nat
    BY <1>1, RemovedIsFinite
<1>4. Cardinality(Ix(f) \ Removed(f, M)) = Cardinality(Ix(f)) - Cardinality(Ix(f) \cap Removed(f, M))
    BY CopiesAreInstructions, FS_Difference
<1>5. Ix(f) \cap Removed(f, M) = Removed(f, M) /\ Cardinality(Ix(f)) = Len(f.instrs)
    BY <1>3, CopiesAreInstructions
<1>6. Kept(f, a) = Ix(f) \ Removed(f, M)
    BY KeptAreLeft DEF M
<1>7. Cardinality(Kept(f, a)) = Len(f.instrs) - Cardinality(Removed(f, M))
    BY <1>4, <1>5, <1>6
<1>. QED  BY <1>1, <1>2, <1>3, <1>7 DEF O

\* Where no two webs of a local interfere, the cost of leaving every local
\* alone bounds that of an optimum.
LEMMA OptimumPays ==
    ASSUME NEW f, Valid(f), NEW ws, AreWebs(f, ws), OneEach(f, ws), NEW a \in Optima(f, ws)
    PROVE  Cardinality(Kept(f, a)) + Len(NewTypes(f, a)) <= Len(f.instrs) + Len(f.types)
<1>. DEFINE id == Own(f, ws)
<1>1. id \in Assignments(f, ws)
    BY OwnIsAssignment
<1>2. Cardinality(Used(f, id)) <= Len(f.types)
    BY OwnUsesLocals
<1>. HIDE DEF id
<1>3. a \in Assignments(f, ws) /\ Cost(f, a) <= Cost(f, id)
    BY <1>1, OptimumIsLeast
<1>. DEFINE u == Cardinality(Used(f, a))
            v == Cardinality(Used(f, id))
            t == Len(NewTypes(f, a))
            n == Len(f.instrs)
            k == Cardinality(Kept(f, a))
            types == Len(f.types)
<1>4. u \in Nat /\ v \in Nat
    BY <1>1, <1>3, SlotsAreUsed, FS_CardinalityType
<1>5. t \in Nat /\ t <= u
  <2>. DEFINE slots == {a[w] : w \in DOMAIN a}
              On(s) == CHOOSE w \in DOMAIN a : Remap(a, a[w]) = s - 1
              c == Cardinality(slots)
  <2>1. IsFiniteSet(Used(f, a)) /\ slots \subseteq Used(f, a)
      BY <1>3, SlotsAreUsed
  <2>2. IsFiniteSet(slots) /\ c <= u
      BY <2>1, FS_Subset
  <2>3. c \in Nat
      BY <2>2, FS_CardinalityType
  <2>4. NewTypes(f, a) = [s \in 1 .. c |-> WebType(f, On(s))]
      BY Zenon DEF NewTypes
  <2>. HIDE DEF c, On
  <2>5. DOMAIN NewTypes(f, a) = 1 .. c
      BY <2>4
  <2>6. Len(NewTypes(f, a)) = c
      BY <2>3, <2>4
  <2>. QED  BY <2>2, <2>3, <2>6
<1>6. n \in Nat /\ types \in Nat
    BY DEF Valid
<1>7. PICK m, o, r \in Nat : /\ o = Cardinality(Removed(f, OtherCopies(f, a)))
                             /\ r = Cardinality(Removed(f, Copies(f)))
                             /\ m + o = r /\ k = n - m
    BY KeptCounts
<1>8. PICK p, q, s \in Nat : /\ q = Cardinality(Removed(f, OtherCopies(f, id)))
                             /\ s = Cardinality(Removed(f, Copies(f)))
                             /\ p + q = s
                             /\ Cardinality(Kept(f, id)) = n - p
    BY KeptCounts, Zenon
<1>9. Cost(f, a) = u + o /\ Cost(f, id) = v + q
    BY <1>1, <1>3, <1>7, <1>8, CostCounts
<1>10. u + o <= v + q /\ r = s /\ v <= types
    BY <1>2, <1>3, <1>7, <1>8, <1>9
<1>. HIDE DEF u, v, t, n, k, types
<1>11. k + t <= n + types
    BY <1>4, <1>5, <1>6, <1>7, <1>8, <1>10
<1>. QED  BY <1>11 DEF k, t, n, types

\* The solver is given the webs of the function and answers with an optimum.
AllocInv ==
    /\ phase \in {"solve", "apply", "run", "done"} => webs = Webs(func, ins)
    /\ phase \in {"apply", "run", "done"} => alloc \in Optima(func, webs)

LEMMA AllocStep == AllocInv /\ [Next]_vars => AllocInv'
<1>. SUFFICES ASSUME AllocInv, [Next]_vars PROVE AllocInv'
    OBVIOUS
<1>1. CASE Refuse
    BY <1>1 DEF Refuse, AllocInv
<1>2. CASE Visit
  <2>1. phase' \in {"webs", "flow"}
      BY <1>2 DEF Visit
  <2>. QED  BY <2>1 DEF AllocInv
<1>3. CASE Build
  <2>1. /\ phase' \in {"skipped", "solve"} /\ webs' = Webs(func, ins)
        /\ func' = func /\ ins' = ins
      BY <1>3 DEF Build
  <2>. QED  BY <2>1 DEF AllocInv
<1>4. CASE Solve
    BY <1>4 DEF Solve, AllocInv
<1>5. CASE SolveFails
    BY <1>5 DEF SolveFails, AllocInv
<1>6. CASE Apply
    BY <1>6 DEF Apply, AllocInv
<1>7. CASE Step
    BY <1>7 DEF Step, AllocInv
<1>8. CASE Stop
    BY <1>8 DEF Stop, AllocInv
<1>9. CASE UNCHANGED vars
    BY <1>9 DEF vars, AllocInv
<1>. QED  BY <1>1, <1>2, <1>3, <1>4, <1>5, <1>6, <1>7, <1>8, <1>9 DEF Next

\* Where the allocation that leaves every local in a slot of its own is one the
\* hard clauses allow, no function gets more locals than the instructions it
\* loses pay for, whatever its control flow and whatever optimum the solver
\* answers with (solve_allocation, apply_allocation).
THEOREM OptimumCostsNoMore == Spec => []NeverCostsMore
<1>1. Init => AllocInv
    BY DEF Init, AllocInv
<1>2. Inv /\ AllocInv => NeverCostsMore
  <2>. SUFFICES ASSUME Inv, AllocInv, phase = "done", IdentityIsAllowed
                PROVE  Cardinality(Kept(func, alloc)) + Len(NewTypes(func, alloc))
                           <= Len(func.instrs) + Len(func.types)
      BY DEF NeverCostsMore
  <2>1. Valid(func)
      BY LocalsAssumption DEF Inv, TypeInv
  <2>2. AreWebs(func, webs) /\ alloc \in Optima(func, webs)
      BY <2>1, WebsAreWebs DEF AllocInv
  <2>3. OneEach(func, webs)
      BY DEF IdentityIsAllowed, OneEach
  <2>. QED  BY <2>1, <2>2, <2>3, OptimumPays
<1>. QED  BY <1>1, <1>2, LocalsInvariant, AllocStep, PTL DEF Spec
-----------------------------------------------------------------------------
(* Execution *)

\* What a local or an operand can be: an argument, zero or the result of a const.
Values == ({"arg"} \X Nat) \cup {<<"zero">>} \cup ({"made"} \X Nat)

\* The machines over the locals in D.
Machines(D) == [stack : Seq(Values), ok : BOOLEAN, locs : [D -> Values]]

\* The operands after an instruction that names no local.
Operands(i, k, s) == IF k = "const" THEN <<<<"made", i>>>> \o s
                     ELSE IF k \in Pops THEN Tail(s) ELSE s

\* What e is when m read l, and when it wrote l by an instruction of kind k.
HasRead(m, l, e) == e.ok /\ e.stack = <<m.locs[l]>> \o m.stack /\ e.locs = m.locs

HasWritten(m, k, l, e) == /\ e.ok
                          /\ e.stack = IF k = "set" THEN Tail(m.stack) ELSE m.stack
                          /\ e.locs = [m.locs EXCEPT ![l] = Head(m.stack)]

\* An instruction either stops the machine, or works on its operands and locals.
LEMMA ExecuteStops ==
    ASSUME NEW i, NEW instr, NEW m, ~m.ok \/ Len(m.stack) < Needs(instr.k)
    PROVE  Execute(i, instr, m) = [m EXCEPT !.ok = FALSE]
BY DEF Execute

\* A local.get puts its local on top of the operands.
LEMMA ExecuteGet ==
    ASSUME NEW i, NEW instr, NEW D, NEW m \in Machines(D), m.ok, instr.k = "get", instr.l \in D
    PROVE  /\ Execute(i, instr, m) \in Machines(D)
           /\ HasRead(m, instr.l, Execute(i, instr, m))
<1>1. Needs(instr.k) = 0
    BY DEF Needs, Pops
<1>2. Len(m.stack) \in Nat
    BY DEF Machines
<1>3. Execute(i, instr, m) = [m EXCEPT !.stack = <<m.locs[instr.l]>> \o m.stack]
    BY <1>1, <1>2 DEF Execute, Pops
<1>4. m.locs[instr.l] \in Values /\ m.stack \in Seq(Values)
    BY DEF Machines
<1>5. <<m.locs[instr.l]>> \o m.stack \in Seq(Values)
    BY <1>4
<1>. HIDE DEF Values
<1>. QED  BY <1>3, <1>5 DEF Machines, HasRead

\* A local.set or local.tee takes its local's value from there.
LEMMA ExecuteSet ==
    ASSUME NEW i, NEW instr, NEW D, NEW m \in Machines(D), m.ok, m.stack # <<>>,
           instr.k \in {"set", "tee"}, instr.l \in D
    PROVE  /\ Execute(i, instr, m) \in Machines(D)
           /\ HasWritten(m, instr.k, instr.l, Execute(i, instr, m))
<1>1. Needs(instr.k) = 1
    BY DEF Needs
<1>2. Len(m.stack) \in Nat /\ ~(Len(m.stack) < 1)
    BY DEF Machines
<1>3. Head(m.stack) \in Values /\ Tail(m.stack) \in Seq(Values) /\ m.stack \in Seq(Values)
    BY DEF Machines
<1>. DEFINE x == Head(m.stack)
            t == Tail(m.stack)
            locs == [m.locs EXCEPT ![instr.l] = x]
<1>4. locs \in [D -> Values]
  <2>. HIDE DEF Values, x
  <2>1. m.locs \in [D -> Values] /\ x \in Values
      BY <1>3 DEF Machines, x
  <2>. QED  BY <2>1
<1>5. m \in Machines(D) /\ m.stack \in Seq(Values) /\ t \in Seq(Values)
    BY <1>3
<1>6. CASE instr.k = "set"
  <2>1. Execute(i, instr, m) = [m EXCEPT !.stack = t, !.locs[instr.l] = x]
      BY <1>1, <1>2, <1>6 DEF Execute, Pops
  <2>2. Execute(i, instr, m) = [m EXCEPT !.stack = t, !.locs = locs]
      BY <2>1 DEF Machines
  <2>. HIDE DEF Values, locs, t
  <2>. QED  BY <1>4, <1>5, <1>6, <2>2 DEF Machines, HasWritten, locs, t
<1>7. CASE instr.k = "tee"
  <2>1. Execute(i, instr, m) = [m EXCEPT !.locs[instr.l] = x]
      BY <1>1, <1>2, <1>7 DEF Execute, Pops
  <2>2. Execute(i, instr, m) = [m EXCEPT !.locs = locs]
      BY <2>1 DEF Machines
  <2>. HIDE DEF Values, locs
  <2>. QED  BY <1>4, <1>5, <1>7, <2>2 DEF Machines, HasWritten, locs
<1>. QED  BY <1>6, <1>7

\* Any other instruction leaves the locals alone.
LEMMA ExecuteOther ==
    ASSUME NEW i \in Nat, NEW instr, NEW D, NEW m \in Machines(D), m.ok,
           ~(Len(m.stack) < Needs(instr.k)), instr.k \notin {"get", "set", "tee"}
    PROVE  /\ Execute(i, instr, m) \in Machines(D)
           /\ Execute(i, instr, m).ok
           /\ Execute(i, instr, m).stack = Operands(i, instr.k, m.stack)
           /\ Execute(i, instr, m).locs = m.locs
<1>1. m.stack \in Seq(Values)
    BY DEF Machines
<1>2. CASE instr.k = "const"
  <2>1. Execute(i, instr, m) = [m EXCEPT !.stack = <<<<"made", i>>>> \o m.stack]
      BY <1>2 DEF Execute, Machines, Pops
  <2>2. <<<<"made", i>>>> \o m.stack \in Seq(Values)
    <3>1. <<"made", i>> \in Values
        BY DEF Values
    <3>. HIDE DEF Values
    <3>. QED  BY <1>1, <3>1
  <2>. HIDE DEF Values
  <2>. QED  BY <1>2, <2>1, <2>2 DEF Machines, Operands
<1>3. CASE instr.k \in Pops
  <2>1. Execute(i, instr, m) = [m EXCEPT !.stack = Tail(m.stack)]
      BY <1>3 DEF Execute, Machines, Pops
  <2>2. m.stack # <<>>
    <3>1. Needs(instr.k) = 1
        BY <1>3 DEF Needs
    <3>. QED  BY <1>1, <3>1
  <2>. HIDE DEF Values
  <2>3. Tail(m.stack) \in Seq(Values)
      BY <1>1, <2>2
  <2>. QED  BY <1>3, <2>1, <2>3 DEF Machines, Operands, Pops
<1>4. CASE instr.k # "const" /\ instr.k \notin Pops
  <2>1. Execute(i, instr, m) = m
      BY <1>4 DEF Execute
  <2>. QED  BY <1>4, <2>1 DEF Operands
<1>. QED  BY <1>2, <1>3, <1>4

\* A machine stays one, whatever it executes.
LEMMA ExecuteMachine ==
    ASSUME NEW i \in Nat, NEW instr, NEW D, NEW m \in Machines(D),
           instr.k \in {"get", "set", "tee"} => instr.l \in D
    PROVE  /\ Execute(i, instr, m) \in Machines(D)
           /\ Execute(i, instr, m).ok => m.ok /\ ~(Len(m.stack) < Needs(instr.k))
<1>1. CASE ~m.ok \/ Len(m.stack) < Needs(instr.k)
  <2>1. Execute(i, instr, m) = [m EXCEPT !.ok = FALSE]
      BY <1>1, ExecuteStops
  <2>. HIDE DEF Values
  <2>. QED  BY <2>1 DEF Machines
<1>2. CASE m.ok /\ ~(Len(m.stack) < Needs(instr.k))
  <2>1. CASE instr.k = "get"
      BY <1>2, <2>1, ExecuteGet DEF HasRead
  <2>2. CASE instr.k \in {"set", "tee"}
    <3>1. m.stack # <<>>
        BY <1>2, <2>2 DEF Needs, Machines
    <3>. QED  BY <1>2, <2>2, <3>1, ExecuteSet DEF HasWritten
  <2>3. CASE instr.k \notin {"get", "set", "tee"}
      BY <1>2, <2>3, ExecuteOther
  <2>. QED  BY <1>2, <2>1, <2>2, <2>3
<1>3. m.ok \in BOOLEAN
    BY DEF Machines
<1>. QED  BY <1>1, <1>2, <1>3

\* Control comes to an instruction from the one before it, or stands behind an
\* else, an end or a loop.
LEMMA JumpsLandBehind ==
    ASSUME NEW f, Valid(f), NEW i \in Ix(f), NEW j \in Goto(f, i), j \in Ix(f)
    PROVE  j = i + 1 \/ (j - 1 \in Ix(f) /\ Kind(f, j - 1) \in {"else", "end", "loop"})
<1>1. Ix(f) \subseteq Nat /\ Len(f.instrs) + 1 \notin Ix(f)
  <2>1. Len(f.instrs) \in Nat /\ Ix(f) = 1 .. Len(f.instrs)
      BY BlocksAreInstructions
  <2>. QED  BY <2>1
<1>2. ASSUME NEW o, Ends(f, o) # {}, j = EndOf(f, o) + 1
      PROVE  j - 1 \in Ix(f) /\ Kind(f, j - 1) = "end"
  <2>1. Ends(f, o) \subseteq Ix(f) /\ \A e \in Ends(f, o) : Kind(f, e) = "end"
      BY DEF Ends
  <2>2. Min(Ends(f, o)) \in Ends(f, o)
      BY <1>1, <1>2, <2>1, MinIsLeast
  <2>3. EndOf(f, o) \in Nat /\ EndOf(f, o) \in Ix(f) /\ Kind(f, EndOf(f, o)) = "end"
      BY <1>1, <2>1, <2>2 DEF EndOf
  <2>4. j - 1 = EndOf(f, o)
      BY <1>2, <2>3
  <2>. QED  BY <2>3, <2>4
<1>3. ASSUME NEW d \in Targets(f, i), j = Label(f, i, d)
      PROVE  j - 1 \in Ix(f) /\ Kind(f, j - 1) \in {"end", "loop"}
  <2>. DEFINE s == Frames(f, i)
              o == s[d + 1]
  <2>1. d >= Len(s) \/ (o \in Ix(f) /\ (Kind(f, o) = "loop" \/ Ends(f, o) # {}))
      BY DEF Valid, JumpsLand
  <2>2. j = IF d >= Len(s) THEN Len(f.instrs) + 1
            ELSE IF Kind(f, o) = "loop" THEN o + 1 ELSE EndOf(f, o) + 1
      BY <1>3 DEF Label
  <2>. HIDE DEF s, o
  <2>3. ~(d >= Len(s))
      BY <1>1, <2>2
  <2>4. CASE Kind(f, o) = "loop"
    <3>1. j = o + 1 /\ o \in Nat
        BY <1>1, <2>1, <2>2, <2>3, <2>4
    <3>2. j - 1 = o
        BY <3>1
    <3>. QED  BY <2>1, <2>3, <2>4, <3>2
  <2>5. CASE Kind(f, o) # "loop"
      BY <1>2, <2>1, <2>2, <2>3, <2>5
  <2>. QED  BY <2>4, <2>5
<1>4. CASE Kind(f, i) = "if"
  <2>. DEFINE else == {e \in Ix(f) : Kind(f, e) = "else" /\ Head(Frames(f, e)) = i}
  <2>1. j \in {i + 1, IF else = {} THEN EndOf(f, i) + 1 ELSE Min(else) + 1}
      BY <1>4 DEF Goto
  <2>2. Ends(f, i) # {}
      BY <1>4 DEF Valid, JumpsLand
  <2>3. CASE j = i + 1
      BY <2>3
  <2>4. CASE else = {} /\ j = EndOf(f, i) + 1
      BY <1>2, <2>2, <2>4
  <2>5. CASE else # {} /\ j = Min(else) + 1
    <3>1. else \subseteq Nat /\ else \subseteq Ix(f) /\ \A e \in else : Kind(f, e) = "else"
        BY <1>1
    <3>. HIDE DEF else
    <3>2. Min(else) \in else
        BY <2>5, <3>1, MinIsLeast
    <3>3. Min(else) \in Nat /\ j = Min(else) + 1
        BY <2>5, <3>1, <3>2
    <3>. DEFINE m == Min(else)
    <3>4. m \in Nat /\ j = m + 1
        BY <3>3
    <3>. HIDE DEF m
    <3>5. j - 1 = m
        BY <3>4
    <3>. QED  BY <3>1, <3>2, <3>5 DEF m
  <2>. QED  BY <2>1, <2>3, <2>4, <2>5
<1>5. CASE Kind(f, i) = "else"
  <2>1. j = EndOf(f, Head(Frames(f, i))) + 1
      BY <1>5 DEF Goto
  <2>2. Ends(f, Head(Frames(f, i))) # {}
      BY <1>5 DEF Valid, JumpsLand
  <2>. QED  BY <1>2, <2>1, <2>2
<1>6. CASE Kind(f, i) = "br"
  <2>1. j = Label(f, i, f.instrs[i].d)
      BY <1>6 DEF Goto
  <2>2. f.instrs[i].d \in Targets(f, i)
      BY <1>6 DEF Targets, Depths
  <2>. QED  BY <1>3, <2>1, <2>2
<1>7. CASE Kind(f, i) = "brif"
  <2>1. j \in {i + 1, Label(f, i, f.instrs[i].d)}
      BY <1>7 DEF Goto
  <2>2. f.instrs[i].d \in Targets(f, i)
      BY <1>7 DEF Targets, Depths
  <2>. QED  BY <1>3, <2>1, <2>2
<1>8. CASE Kind(f, i) = "brtable"
  <2>1. j \in {Label(f, i, d) : d \in Targets(f, i)}
      BY <1>8 DEF Goto
  <2>. QED  BY <1>3, <2>1
<1>9. CASE Kind(f, i) \in {"return", "unreachable"}
  <2>1. j = Len(f.instrs) + 1
      BY <1>9 DEF Goto
  <2>. QED  BY <1>1, <2>1
<1>10. CASE Kind(f, i) \notin {"if", "else", "br", "brif", "brtable", "return", "unreachable"}
  <2>1. j = i + 1
      BY <1>10 DEF Goto
  <2>. QED  BY <2>1
<1>. QED  BY <1>4, <1>5, <1>6, <1>7, <1>8, <1>9, <1>10

\* Skipped are reads that were merged, and the writes behind them.
LEMMA SkippedIs ==
    ASSUME NEW f, Valid(f), NEW a
    PROVE  /\ Skip(f, a) \subseteq Ix(f)
           /\ MergedCopies(f, a) \subseteq Skip(f, a)
           /\ \A i \in Skip(f, a) :
                 \/ i \in MergedCopies(f, a) /\ Kind(f, i) = "get"
                 \/ Kind(f, i) = "set" /\ i - 1 \in MergedCopies(f, a)
           /\ \A i \in MergedCopies(f, a) : Kind(f, i + 1) = "set" => i + 1 \in Skip(f, a)
<1>1. MergedCopies(f, a) \subseteq Copies(f)
    BY DEF MergedCopies
<1>2. \A i \in Copies(f) : i \in Nat /\ i + 1 \in Ix(f) /\ i \in Ix(f) /\ Kind(f, i) = "get"
    BY CopiesAreInstructions DEF Copies
<1>3. \A i \in Copies(f) : (i + 1) - 1 = i
    BY <1>2
<1>4. Skip(f, a) = MergedCopies(f, a) \cup {i + 1 : i \in {i \in MergedCopies(f, a) : Kind(f, i + 1) = "set"}}
    BY DEF Skip, MergedCopies
<1>. QED  BY <1>1, <1>2, <1>3, <1>4

\* Kept is what is not skipped.
LEMMA KeptIs ==
    ASSUME NEW f, Valid(f), NEW a
    PROVE  Kept(f, a) = Ix(f) \ Skip(f, a)
BY KeptAreLeft DEF Skip, Removed, MergedCopies

\* A write that is skipped is reached from the read it was merged with alone.
LEMMA SkippedSetFollowsGet ==
    ASSUME NEW f, Valid(f), NEW a, NEW i \in Ix(f), NEW j \in Goto(f, i),
           j \in Skip(f, a), Kind(f, j) = "set"
    PROVE  j = i + 1 /\ i \in MergedCopies(f, a)
<1>1. j \in Ix(f) /\ j - 1 \in MergedCopies(f, a)
    BY SkippedIs DEF MergedCopies, Copies
<1>2. Kind(f, j - 1) = "get"
    BY <1>1 DEF MergedCopies, Copies
<1>3. j = i + 1
    BY <1>1, <1>2, JumpsLandBehind
<1>4. i \in Nat
    BY BlocksAreInstructions
<1>. QED  BY <1>1, <1>3, <1>4

-----------------------------------------------------------------------------
(* The slots of an assignment *)

\* A read or a write is in one web, which is of its local.
LEMMA WebOfAccess ==
    ASSUME NEW f, Valid(f), NEW ws, AreWebs(f, ws), NEW i \in Ix(f), IsLocal(f, i)
    PROVE  /\ WebAt(ws, i) \in ws /\ <<"at", i>> \in WebAt(ws, i)
           /\ \A w \in ws : <<"at", i>> \in w => w = WebAt(ws, i)
           /\ i \in Sites(WebAt(ws, i))
           /\ WebLocal(f, WebAt(ws, i)) = f.instrs[i].l
<1>1. <<"at", i>> \in Nodes(f)
    BY DEF Nodes, Defs, IsLocal
<1>2. \E w \in ws : <<"at", i>> \in w
    BY <1>1 DEF AreWebs
<1>3. WebAt(ws, i) \in ws /\ <<"at", i>> \in WebAt(ws, i)
    BY <1>2, Zenon DEF WebAt
<1>4. \A w \in ws : <<"at", i>> \in w => w = WebAt(ws, i)
    BY <1>3 DEF AreWebs
<1>5. i \in Sites(WebAt(ws, i))
    BY <1>3 DEF Sites
<1>6. WebLocal(f, WebAt(ws, i)) = LocalOf(f, <<"at", i>>)
    BY <1>3, WebIsOfOneLocal
<1>7. LocalOf(f, <<"at", i>>) = f.instrs[i].l
    BY DEF LocalOf
<1>. QED  BY <1>3, <1>4, <1>5, <1>6, <1>7

\* The sites of a web are instructions.
LEMMA SitesAreInstructions ==
    ASSUME NEW f, Valid(f), NEW ws, AreWebs(f, ws), NEW w \in ws
    PROVE  Sites(w) \subseteq Ix(f)
<1>. SUFFICES ASSUME NEW n \in w, n[1] = "at" PROVE n[2] \in Ix(f)
    BY DEF Sites
<1>1. n \in Nodes(f)
    BY DEF AreWebs
<1>2. \/ \E p \in 0 .. f.params - 1 : n = <<"param", p>>
      \/ \E i \in Ix(f) : n = <<"at", i>>
    BY <1>1 DEF Nodes, Defs, ParamDefs
<1>. QED  BY <1>2

\* What the hard clauses say.
LEMMA HardClauses ==
    ASSUME NEW f, NEW ws, NEW a \in Assignments(f, ws)
    PROVE  /\ DOMAIN a = ws
           /\ \A w \in ws : IsParamWeb(f, w) => a[w] = Param(f, w)
           /\ TypesApart(f, a) /\ KeepApart(a)
<1>. DEFINE own == {w \in ws : IsParamWeb(f, w)}
<1>1. PICK g \in [ws \ own -> Slots(ws)] :
          a = [w \in ws |-> IF w \in own THEN Param(f, w) ELSE g[w]]
    BY DEF Assignments
<1>2. TypesApart(f, a) /\ KeepApart(a)
    BY DEF Assignments
<1>. QED  BY <1>1, <1>2

\* The slots with a web are renumbered from 0 on, each with a number of its own.
LEMMA RemapIsOneToOne ==
    ASSUME NEW f, Valid(f), NEW ws, AreWebs(f, ws), NEW a \in Assignments(f, ws)
    PROVE  /\ Len(NewTypes(f, a)) \in Nat
           /\ \A w \in ws : Remap(a, a[w]) \in 0 .. Len(NewTypes(f, a)) - 1
           /\ \A v, w \in ws : Remap(a, a[v]) = Remap(a, a[w]) => a[v] = a[w]
<1>. DEFINE L == {a[w] : w \in DOMAIN a}
            c == Cardinality(L)
            On(s) == CHOOSE w \in DOMAIN a : Remap(a, a[w]) = s - 1
<1>1. IsFiniteSet(L) /\ L \subseteq Nat /\ c \in Nat
  <2>1. DOMAIN a = ws /\ IsFiniteSet(Used(f, a)) /\ L \subseteq Used(f, a)
      BY SlotsAreUsed
  <2>2. Used(f, a) \subseteq Slots(ws)
      BY <2>1 DEF Used
  <2>3. Slots(ws) \subseteq Nat
    <3>1. Cardinality(ws) \in Nat
        BY LocalsOfWebs
    <3>. QED  BY <3>1 DEF Slots
  <2>. QED  BY <2>1, <2>2, <2>3, FS_Subset, FS_CardinalityType
<1>2. DOMAIN a = ws
    BY SlotsAreUsed
<1>3. \A s : Remap(a, s) = RankIn(L, s)
    BY DEF Remap, RankIn
<1>4. \A w \in ws : a[w] \in L
    BY <1>2
<1>5. NewTypes(f, a) = [s \in 1 .. c |-> WebType(f, On(s))]
    BY Zenon DEF NewTypes
<1>. HIDE DEF L, c, On
<1>6. Len(NewTypes(f, a)) = c
    BY <1>1, <1>5
<1>7. \A w \in ws : Remap(a, a[w]) \in 0 .. c - 1
  <2>. SUFFICES ASSUME NEW w \in ws PROVE Remap(a, a[w]) \in 0 .. c - 1
      OBVIOUS
  <2>1. RankIn(L, a[w]) \in Nat /\ RankIn(L, a[w]) < c
      BY <1>1, <1>4, RankIsBelow DEF c
  <2>. QED  BY <1>1, <1>3, <2>1
<1>8. \A v, w \in ws : Remap(a, a[v]) = Remap(a, a[w]) => a[v] = a[w]
    BY <1>1, <1>3, <1>4, RankIsInjective
<1>. QED  BY <1>1, <1>6, <1>7, <1>8

\* A parameter's web is at the parameter's place.
LEMMA RemapOfParam ==
    ASSUME NEW f, Valid(f), NEW ws, AreWebs(f, ws), NEW a \in Assignments(f, ws),
           NEW p \in 0 .. f.params - 1
    PROVE  /\ \A w \in ws : <<"param", p>> \in w => Remap(a, a[w]) = p /\ IsParamWeb(f, w)
           /\ p \in 0 .. Len(NewTypes(f, a)) - 1
<1>. DEFINE L == {a[w] : w \in DOMAIN a}
<1>1. DOMAIN a = ws /\ IsFiniteSet(Used(f, a)) /\ L \subseteq Used(f, a)
    BY SlotsAreUsed
<1>2. L \subseteq Nat
  <2>1. Cardinality(ws) \in Nat
      BY LocalsOfWebs
  <2>2. Used(f, a) \subseteq Slots(ws)
      BY <1>1 DEF Used
  <2>. QED  BY <1>1, <2>1, <2>2 DEF Slots
<1>3. ASSUME NEW q \in 0 .. f.params - 1, NEW w \in ws, <<"param", q>> \in w
      PROVE  a[w] = q /\ IsParamWeb(f, w)
  <2>1. IsParamWeb(f, w)
      BY <1>3 DEF IsParamWeb, ParamDefs
  <2>2. a[w] = WebLocal(f, w)
      BY <2>1, HardClauses, ParamOfWeb
  <2>3. WebLocal(f, w) = LocalOf(f, <<"param", q>>)
      BY <1>3, WebIsOfOneLocal
  <2>4. LocalOf(f, <<"param", q>>) = q
      BY DEF LocalOf
  <2>. QED  BY <2>1, <2>2, <2>3, <2>4
<1>4. \A q \in 0 .. f.params - 1 : \E w \in ws : <<"param", q>> \in w
  <2>1. \A q \in 0 .. f.params - 1 : <<"param", q>> \in Nodes(f)
      BY DEF Nodes, Defs, ParamDefs
  <2>. QED  BY <2>1 DEF AreWebs
<1>5. 0 .. f.params - 1 \subseteq L
    BY <1>1, <1>3, <1>4
<1>6. f.params \in Nat
    BY DEF Valid
<1>7. Remap(a, p) = p
  <2>1. Remap(a, p) = RankIn(L, p)
      BY DEF Remap, RankIn
  <2>. HIDE DEF L
  <2>. QED  BY <1>2, <1>5, <1>6, <2>1, RankOfFirst
<1>8. \A w \in ws : <<"param", p>> \in w => Remap(a, a[w]) = p /\ IsParamWeb(f, w)
    BY <1>3, <1>7
<1>. QED  BY <1>4, <1>8, RemapIsOneToOne

\* Where the web of an access goes.
SlotOf(ws, a, i) == Remap(a, a[WebAt(ws, i)])

\* An access is rewritten to one of that slot; the rest stays as it was.
LEMMA RewrittenIs ==
    ASSUME NEW f, Valid(f), NEW ws, NEW a, DOMAIN a = ws, NEW i \in Ix(f)
    PROVE  /\ IsLocal(f, i) => /\ Rewritten(f, a, i).k = Kind(f, i)
                               /\ Rewritten(f, a, i).l = SlotOf(ws, a, i)
           /\ ~IsLocal(f, i) => Rewritten(f, a, i) = f.instrs[i]
<1>1. IsLocal(f, i) => DOMAIN f.instrs[i] = {"k", "l"}
    BY DEF Valid
<1>2. ASSUME IsLocal(f, i)
      PROVE  Rewritten(f, a, i) = [f.instrs[i] EXCEPT !.l = SlotOf(ws, a, i)]
    BY <1>2 DEF Rewritten, SlotOf
<1>. HIDE DEF SlotOf
<1>3. ASSUME IsLocal(f, i)
      PROVE  /\ Rewritten(f, a, i).k = Kind(f, i)
             /\ Rewritten(f, a, i).l = SlotOf(ws, a, i)
    BY <1>1, <1>2, <1>3 DEF Kind
<1>. QED  BY <1>3 DEF Rewritten

\* A slot has the type of every local that is put into it.
LEMMA SlotsHaveTypes ==
    ASSUME NEW f, Valid(f), NEW ws, AreWebs(f, ws), NEW a \in Assignments(f, ws),
           NEW i \in Ix(f), IsLocal(f, i)
    PROVE  NewTypes(f, a)[Rewritten(f, a, i).l + 1] = f.types[f.instrs[i].l + 1]
<1>. DEFINE c == Cardinality({a[w] : w \in DOMAIN a})
            On(s) == CHOOSE w \in DOMAIN a : Remap(a, a[w]) = s - 1
            v == WebAt(ws, i)
            r == Remap(a, a[v])
<1>1. v \in ws /\ WebLocal(f, v) = f.instrs[i].l /\ DOMAIN a = ws /\ TypesApart(f, a)
  <2>1. v \in ws /\ WebLocal(f, v) = f.instrs[i].l
      BY WebOfAccess
  <2>2. DOMAIN a = ws /\ TypesApart(f, a)
      BY HardClauses
  <2>. QED  BY <2>1, <2>2
<1>. HIDE DEF v
<1>2. NewTypes(f, a) = [s \in 1 .. c |-> WebType(f, On(s))]
    BY Zenon DEF NewTypes
<1>3. Len(NewTypes(f, a)) \in Nat /\ r \in 0 .. Len(NewTypes(f, a)) - 1
    BY <1>1, RemapIsOneToOne
<1>4. Len(NewTypes(f, a)) = c
  <2>1. c \in Nat
      BY SlotsAreUsed, FS_Subset, FS_CardinalityType
  <2>. HIDE DEF c, On
  <2>. QED  BY <1>2, <2>1
<1>5. On(r + 1) \in ws /\ Remap(a, a[On(r + 1)]) = r
  <2>. HIDE DEF r
  <2>1. (r + 1) - 1 = r
      BY <1>3
  <2>2. \E w \in DOMAIN a : Remap(a, a[w]) = (r + 1) - 1
      BY <1>1, <2>1 DEF r
  <2>3. On(r + 1) \in DOMAIN a /\ Remap(a, a[On(r + 1)]) = (r + 1) - 1
      BY <2>2, Zenon
  <2>. QED  BY <1>1, <2>1, <2>3
<1>6. a[On(r + 1)] = a[v]
  <2>. HIDE DEF On
  <2>. QED  BY <1>1, <1>5, RemapIsOneToOne
<1>7. WebType(f, On(r + 1)) = WebType(f, v)
  <2>. HIDE DEF On, r
  <2>. QED  BY <1>1, <1>5, <1>6 DEF TypesApart
<1>8. NewTypes(f, a)[r + 1] = WebType(f, On(r + 1))
  <2>1. r + 1 \in 1 .. c
    <3>. HIDE DEF r, c
    <3>. QED  BY <1>3, <1>4
  <2>. HIDE DEF On, r, c
  <2>. QED  BY <1>2, <2>1
<1>9. WebType(f, v) = f.types[f.instrs[i].l + 1]
    BY <1>1 DEF WebType
<1>10. Rewritten(f, a, i).l = r
    BY <1>1, RewrittenIs DEF SlotOf, v
<1>. QED  BY <1>7, <1>8, <1>9, <1>10

-----------------------------------------------------------------------------
(* The two executions side by side, where the analysis covers them *)

\* The exception ParamTaken, of any function and assignment.
Taken(f, a) ==
    \E v, w \in DOMAIN a :
        /\ v # w /\ a[v] = a[w] /\ IsParamWeb(f, v)
        /\ Sites(v) # {} /\ Sites(w) # {} /\ Min(Sites(w)) < Min(Sites(v))

\* An access leaves the slot of another web alone, if that web is read or
\* written later on and has its value from before.
LEMMA OtherWebKeepsItsSlot ==
    ASSUME NEW f, Valid(f), NEW ws, AreWebs(f, ws), NEW a \in Assignments(f, ws), ~Taken(f, a),
           NEW i \in Ix(f), IsLocal(f, i), NEW w \in ws, w # WebAt(ws, i),
           NEW s \in Sites(w), s > i,
           NEW d \in w, d \in ParamDefs(f) \/ \E k \in Ix(f) : d = <<"at", k>> /\ k < i
    PROVE  Remap(a, a[w]) # SlotOf(ws, a, i)
<1>. SUFFICES ASSUME Remap(a, a[w]) = SlotOf(ws, a, i) PROVE FALSE
    OBVIOUS
<1>. DEFINE v == WebAt(ws, i)
            S == Sites(v)
            T == Sites(w)
            n == Len(f.instrs)
<1>1. v \in ws /\ i \in S /\ s \in T
    BY WebOfAccess
<1>2. a[w] = a[v]
    BY <1>1, RemapIsOneToOne DEF SlotOf
<1>3. DOMAIN a = ws /\ KeepApart(a)
    BY HardClauses
<1>4. n \in Nat /\ Ix(f) = 1 .. n
    BY BlocksAreInstructions
<1>5. S \subseteq 1 .. n /\ T \subseteq 1 .. n
    BY <1>1, <1>4, SitesAreInstructions
<1>. HIDE DEF v, n
<1>6. S \subseteq Nat /\ T \subseteq Nat /\ S \subseteq 0 .. n /\ T \subseteq 0 .. n
    BY <1>4, <1>5
<1>7. ~Interferes(v, w)
    BY <1>1, <1>2, <1>3 DEF KeepApart
<1>8. Min(S) > Max(T) \/ Min(T) > Max(S) \/ ~(Min(S) <= Max(T)) \/ ~(Min(T) <= Max(S))
    BY <1>1, <1>7 DEF Interferes, v
<1>. HIDE DEF S, T
<1>9. Min(S) \in Nat /\ Min(S) <= i /\ Min(T) \in Nat /\ \A m \in T : Min(T) <= m
    BY <1>1, <1>6, MinIsLeast
<1>10. Max(S) \in Nat /\ Max(S) >= i /\ Max(T) \in Nat /\ Max(T) >= s
    BY <1>1, <1>4, <1>6, MaxIsGreatest
<1>11. i \in Nat /\ s \in Nat
    BY <1>1, <1>6
<1>12. Min(T) > i /\ Min(S) < Min(T)
    BY <1>8, <1>9, <1>10, <1>11
<1>13. CASE d \in ParamDefs(f)
  <2>1. IsParamWeb(f, w)
      BY <1>13 DEF IsParamWeb
  <2>2. S # {} /\ T # {} /\ w # v
      BY <1>1 DEF v
  <2>. QED  BY <1>1, <1>2, <1>3, <1>12, <2>1, <2>2 DEF Taken, S, T
<1>14. CASE \E k \in Ix(f) : d = <<"at", k>> /\ k < i
  <2>1. PICK k \in Ix(f) : d = <<"at", k>> /\ k < i
      BY <1>14
  <2>2. k \in T
      BY <2>1 DEF Sites, T
  <2>. QED  BY <1>6, <1>9, <1>11, <1>12, <2>1, <2>2
<1>. QED  BY <1>13, <1>14

\* The locals of f.
LocalsIn(f) == 0 .. Len(f.types) - 1

\* Between a read and a write that were removed together.
Between(f, a, r) == r.pc \in Skip(f, a) /\ Kind(f, r.pc) = "set"

\* The operands are the same, but between the two: then the operand the write
\* would take is in its slot already.
Stacks(f, ws, a, r) ==
    IF Between(f, a, r)
    THEN /\ r.old.stack # <<>> /\ r.new.stack = Tail(r.old.stack)
         /\ Head(r.old.stack) = r.new.locs[SlotOf(ws, a, r.pc)]
    ELSE r.new.stack = r.old.stack

\* What a local has, the slot of the web it was written in has, as long as the
\* web is read or written later on.
Tracked(f, ws, a, r) ==
    \A l \in LocalsIn(f), w \in ws :
        r.last[l] \in w /\ (\E s \in Sites(w) : s >= r.pc)
        => r.new.locs[Remap(a, a[w])] = r.old.locs[l]

\* What a local has was written further up.
Behind(f, r) == \A l \in LocalsIn(f), k \in Ix(f) : r.last[l] = <<"at", k>> => k < r.pc

\* The two executions are alike: that is the invariant of the simulation.
Alike(f, ws, a, r) == /\ r.new.ok
                      /\ Stacks(f, ws, a, r)
                      /\ r.pc \in Ix(f) => Tracked(f, ws, a, r) /\ Behind(f, r)

\* The original has f's locals, the rewritten function has its slots.
BothMachines(f, a, r) == /\ r.old \in Machines(LocalsIn(f))
                         /\ r.new \in Machines(0 .. Len(NewTypes(f, a)) - 1)

\* The definitions that are current, and what the analysis says of them.
Current(f, is, r) ==
    /\ DOMAIN r.last = LocalsIn(f)
    /\ \A l \in LocalsIn(f) : r.last[l] # Unset =>
           r.last[l] \in Defs(f) /\ LocalOf(f, r.last[l]) = l
                                 /\ r.last[l] \in Reaching(f, is, r.pc)

\* One step of the two executions.
StepOf(f, a, r, q) ==
    /\ r.pc \in Ix(f) /\ q.pc \in Goto(f, r.pc)
    /\ q.old = Execute(r.pc, f.instrs[r.pc], r.old)
    /\ q.new = IF r.pc \in Kept(f, a) THEN Execute(r.pc, Rewritten(f, a, r.pc), r.new) ELSE r.new
    /\ q.last = IF IsDef(f, r.pc) THEN [r.last EXCEPT ![f.instrs[r.pc].l] = <<"at", r.pc>>]
                                  ELSE r.last

\* Both machines stay machines.
LEMMA MachinesStay ==
    ASSUME NEW f, Valid(f), NEW ws, AreWebs(f, ws), NEW a \in Assignments(f, ws),
           NEW r, NEW q, BothMachines(f, a, r), StepOf(f, a, r, q)
    PROVE  BothMachines(f, a, q)
<1>. DEFINE i == r.pc
            instr == f.instrs[i]
            re == Rewritten(f, a, i)
            D == LocalsIn(f)
            E == 0 .. Len(NewTypes(f, a)) - 1
<1>1. i \in Ix(f) /\ i \in Nat /\ DOMAIN a = ws
    BY BlocksAreInstructions, HardClauses DEF StepOf
<1>2. instr.k \in {"get", "set", "tee"} <=> IsLocal(f, i)
    BY DEF IsLocal, IsDef, Kind
<1>3. IsLocal(f, i) => instr.l \in D
    BY <1>1 DEF Valid, LocalsIn
<1>4. IsLocal(f, i) => re.k = instr.k /\ re.l \in E
  <2>. SUFFICES ASSUME IsLocal(f, i) PROVE re.k = instr.k /\ re.l \in E
      OBVIOUS
  <2>1. re.k = instr.k /\ re.l = SlotOf(ws, a, i)
      BY <1>1, RewrittenIs DEF Kind
  <2>2. WebAt(ws, i) \in ws
      BY <1>1, WebOfAccess
  <2>3. SlotOf(ws, a, i) \in E
      BY <2>2, RemapIsOneToOne DEF SlotOf
  <2>. QED  BY <2>1, <2>3
<1>5. ~IsLocal(f, i) => re = instr
    BY <1>1, RewrittenIs
<1>6. q.old \in Machines(D)
  <2>1. q.old = Execute(i, instr, r.old) /\ r.old \in Machines(D)
      BY DEF StepOf, BothMachines
  <2>. HIDE DEF instr, D, i
  <2>. QED  BY <1>1, <1>2, <1>3, <2>1, ExecuteMachine
<1>7. q.new \in Machines(E)
  <2>1. q.new \in {r.new, Execute(i, re, r.new)} /\ r.new \in Machines(E)
      BY DEF StepOf, BothMachines
  <2>. HIDE DEF instr, re, E, i
  <2>2. re.k \in {"get", "set", "tee"} => re.l \in E
      BY <1>2, <1>4, <1>5
  <2>3. Execute(i, re, r.new) \in Machines(E)
      BY <1>1, <2>1, <2>2, ExecuteMachine
  <2>. QED  BY <2>1, <2>3
<1>. QED  BY <1>6, <1>7 DEF BothMachines

\* The two executions stay alike through a step the exceptions leave in.
LEMMA AlikeStays ==
    ASSUME NEW f, Valid(f), NEW is, NEW ws, AreWebs(f, ws),
           ReadsJoined(f, is, {i \in Ix(f) : Kind(f, i) = "get"}, ws),
           NEW a \in Assignments(f, ws), ~Taken(f, a),
           NEW r, NEW q, BothMachines(f, a, r), StepOf(f, a, r, q), Current(f, is, r),
           Alike(f, ws, a, r), q.old.ok, ~(q.pc <= r.pc),
           Kind(f, r.pc) = "get" => r.last[f.instrs[r.pc].l] # Unset,
           ~(r.pc \in Copies(f) /\ Kind(f, r.pc + 1) = "tee" /\ Merged(f, a, r.pc))
    PROVE  Alike(f, ws, a, q)
<1>. DEFINE i == r.pc
            j == q.pc
            instr == f.instrs[i]
            l == instr.l
            D == LocalsIn(f)
            E == 0 .. Len(NewTypes(f, a)) - 1
            re == Rewritten(f, a, i)
            slot == SlotOf(ws, a, i)
<1>1. i \in Ix(f) /\ i \in Nat /\ DOMAIN a = ws /\ j \in Goto(f, i)
    BY BlocksAreInstructions, HardClauses DEF StepOf
<1>2. /\ r.old \in Machines(D) /\ r.new \in Machines(E)
      /\ q.old = Execute(i, instr, r.old)
      /\ i \in Skip(f, a) => q.new = r.new
      /\ i \notin Skip(f, a) => q.new = Execute(i, re, r.new)
      /\ q.last = IF IsDef(f, i) THEN [r.last EXCEPT ![l] = <<"at", i>>] ELSE r.last
      /\ DOMAIN r.last = D
    BY <1>1, KeptIs DEF BothMachines, StepOf, Current
<1>3. r.new.ok /\ Stacks(f, ws, a, r) /\ Tracked(f, ws, a, r) /\ Behind(f, r)
    BY <1>1 DEF Alike
<1>4. IsLocal(f, i) => /\ l \in D /\ re.k = instr.k /\ re.l = slot /\ slot \in E
                       /\ WebAt(ws, i) \in ws /\ <<"at", i>> \in WebAt(ws, i)
                       /\ i \in Sites(WebAt(ws, i)) /\ LocalOf(f, <<"at", i>>) = l
  <2>. SUFFICES ASSUME IsLocal(f, i)
                PROVE  /\ l \in D /\ re.k = instr.k /\ re.l = slot /\ slot \in E
                       /\ WebAt(ws, i) \in ws /\ <<"at", i>> \in WebAt(ws, i)
                       /\ i \in Sites(WebAt(ws, i)) /\ LocalOf(f, <<"at", i>>) = l
      OBVIOUS
  <2>1. l \in D
      BY <1>1 DEF Valid, LocalsIn
  <2>2. re.k = instr.k /\ re.l = slot
      BY <1>1, RewrittenIs DEF Kind
  <2>3. WebAt(ws, i) \in ws /\ <<"at", i>> \in WebAt(ws, i) /\ i \in Sites(WebAt(ws, i))
      BY <1>1, WebOfAccess
  <2>4. slot \in E
      BY <2>3, RemapIsOneToOne DEF SlotOf
  <2>5. LocalOf(f, <<"at", i>>) = l
      BY DEF LocalOf
  <2>. QED  BY <2>1, <2>2, <2>3, <2>4, <2>5
<1>5. Kind(f, i) = instr.k
    BY DEF Kind
<1>6. r.old.ok /\ ~(Len(r.old.stack) < Needs(instr.k))
  <2>1. instr.k \in {"get", "set", "tee"} => l \in D
      BY <1>4, <1>5 DEF IsLocal, IsDef
  <2>. HIDE DEF instr, l, i, D
  <2>. QED  BY <1>1, <1>2, <2>1, ExecuteMachine DEF l
<1>7. j \in Ix(f) => j > i /\ j \in Nat
  <2>1. j \in Ix(f) => j \in Nat
      BY BlocksAreInstructions
  <2>. QED  BY <1>1, <2>1
<1>. HIDE DEF i, j, instr, l, D, E, re, slot
\* Where no local changes, what was tracked is tracked.
<1>8. ASSUME ~IsDef(f, i), q.old.locs = r.old.locs, q.new.locs = r.new.locs, j \in Ix(f)
      PROVE  Tracked(f, ws, a, q) /\ Behind(f, q)
  <2>1. q.last = r.last
      BY <1>2, <1>8
  <2>2. j > i /\ j \in Nat /\ Ix(f) \subseteq Nat
      BY <1>7, <1>8, BlocksAreInstructions
  <2>3. ASSUME NEW k \in LocalsIn(f), NEW w \in ws, q.last[k] \in w, NEW s \in Sites(w), s >= q.pc
        PROVE  q.new.locs[Remap(a, a[w])] = q.old.locs[k]
    <3>1. s \in Nat
        BY <2>2, SitesAreInstructions
    <3>2. s >= r.pc
        BY <1>1, <2>2, <2>3, <3>1 DEF i, j
    <3>. QED  BY <1>3, <1>8, <2>1, <2>3, <3>2 DEF Tracked
  <2>4. ASSUME NEW k \in LocalsIn(f), NEW m \in Ix(f), q.last[k] = <<"at", m>>
        PROVE  m < q.pc
    <3>1. m < r.pc /\ m \in Nat
        BY <1>3, <2>1, <2>2, <2>4 DEF Behind
    <3>. QED  BY <1>1, <2>2, <3>1 DEF i, j
  <2>5. Tracked(f, ws, a, q)
      BY <2>3 DEF Tracked
  <2>. QED  BY <2>4, <2>5 DEF Behind
\* A step is between a read and a write only from the read.
<1>9. Between(f, a, q) => j = i + 1 /\ i \in MergedCopies(f, a)
    BY <1>1, SkippedSetFollowsGet DEF Between, i, j
\* The slot of a read has the value of its local.
<1>10. ASSUME Kind(f, i) = "get"
       PROVE  r.new.locs[slot] = r.old.locs[l]
  <2>1. IsLocal(f, i)
      BY <1>10 DEF IsLocal
  <2>2. l \in D /\ r.last[l] # Unset
      BY <1>4, <1>10, <2>1 DEF i, l, instr
  <2>3. r.last[l] \in DefsFor(f, is, i) \cap Nodes(f)
      BY <2>2 DEF Current, DefsFor, Nodes, D, i, l, instr
  <2>4. PICK w \in ws : <<"at", i>> \in w /\ r.last[l] \in w
      BY <1>1, <1>10, <2>3 DEF ReadsJoined
  <2>5. w = WebAt(ws, i)
      BY <1>1, <2>1, <2>4, WebOfAccess
  <2>6. i \in Sites(w) /\ i >= r.pc
      BY <1>1, <1>4, <2>1, <2>5 DEF i
  <2>. QED  BY <1>3, <2>2, <2>4, <2>5, <2>6 DEF Tracked, slot, SlotOf, D
<1>11. CASE Kind(f, i) = "get"
  <2>1. IsLocal(f, i) /\ ~IsDef(f, i) /\ instr.k = "get" /\ ~Between(f, a, r)
      BY <1>5, <1>11 DEF IsLocal, IsDef, Between, i
  <2>2. r.new.stack = r.old.stack
      BY <1>3, <2>1 DEF Stacks
  <2>. DEFINE v == r.old.locs[l]
  <2>3. q.old.stack = <<v>> \o r.old.stack /\ q.old.locs = r.old.locs
    <3>1. r.old \in Machines(D) /\ r.old.ok /\ instr.k = "get" /\ instr.l \in D
        BY <1>2, <1>4, <1>6, <2>1 DEF l
    <3>2. HasRead(r.old, instr.l, Execute(i, instr, r.old))
        BY <3>1, ExecuteGet, Zenon
    <3>. QED  BY <1>2, <3>2 DEF l, HasRead
  <2>4. CASE i \notin Skip(f, a)
    <3>1. q.new = Execute(i, re, r.new)
        BY <1>2, <2>4
    <3>2. q.new.ok /\ q.new.stack = <<r.new.locs[slot]>> \o r.new.stack /\ q.new.locs = r.new.locs
      <4>1. r.new \in Machines(E) /\ r.new.ok /\ re.k = "get" /\ re.l \in E /\ re.l = slot
          BY <1>2, <1>3, <1>4, <2>1
      <4>2. HasRead(r.new, re.l, Execute(i, re, r.new))
          BY <4>1, ExecuteGet, Zenon
      <4>. QED  BY <3>1, <4>1, <4>2 DEF HasRead
    <3>3. q.new.stack = q.old.stack
        BY <1>10, <1>11, <2>2, <2>3, <3>2
    <3>4. ~Between(f, a, q)
        BY <1>9, <2>4, SkippedIs
    <3>5. Stacks(f, ws, a, q)
        BY <3>3, <3>4 DEF Stacks
    <3>. QED  BY <1>8, <2>1, <2>3, <3>2, <3>5 DEF Alike, j
  <2>5. CASE i \in Skip(f, a)
    <3>1. i \in MergedCopies(f, a)
        BY <1>11, <2>5, SkippedIs
    <3>2. Kind(f, i + 1) = "set" /\ Merged(f, a, i)
        BY <3>1 DEF MergedCopies, Copies, IsDef, i
    <3>3. i + 1 \in Skip(f, a)
        BY <3>1, <3>2, SkippedIs
    <3>4. j = i + 1
      <4>1. j \in {i + 1}
          BY <1>1, <1>11 DEF Goto
      <4>. QED  BY <4>1
    <3>5. Between(f, a, q)
        BY <3>2, <3>3, <3>4 DEF Between, j
    <3>6. SlotOf(ws, a, j) = slot
        BY <1>1, <3>2, <3>4 DEF Merged, SlotOf, slot
    <3>7. q.new = r.new
        BY <1>2, <2>5
    <3>8. /\ q.old.stack # <<>> /\ Tail(q.old.stack) = r.old.stack
          /\ Head(q.old.stack) = v
      <4>1. r.old.stack \in Seq(Values) /\ r.old.locs[l] \in Values
          BY <1>2, <1>4, <2>1 DEF Machines
      <4>. HIDE DEF Values, v
      <4>2. v \in Values
          BY <4>1 DEF v
      <4>. QED  BY <2>3, <4>1, <4>2
    <3>9. Stacks(f, ws, a, q)
        BY <1>10, <1>11, <2>2, <3>5, <3>6, <3>7, <3>8 DEF Stacks, j
    <3>. QED  BY <1>3, <1>8, <2>1, <2>3, <3>7, <3>9 DEF Alike, j
  <2>. QED  BY <2>4, <2>5
\* The local written has the value of its slot, and the others are left alone.
<1>12. ASSUME IsDef(f, i), NEW x, j \in Ix(f),
              q.old.locs = [r.old.locs EXCEPT ![l] = x], q.new.locs[slot] = x,
              \A s \in E : s # slot => q.new.locs[s] = r.new.locs[s]
       PROVE  Tracked(f, ws, a, q) /\ Behind(f, q)
  <2>1. IsLocal(f, i)
      BY <1>12 DEF IsLocal
  <2>2. l \in D /\ q.last = [r.last EXCEPT ![l] = <<"at", i>>] /\ DOMAIN r.last = D
      BY <1>2, <1>4, <1>12, <2>1
  <2>3. j > i /\ j \in Nat /\ Ix(f) \subseteq Nat
      BY <1>7, <1>12, BlocksAreInstructions
  <2>4. DOMAIN r.old.locs = D
      BY <1>2 DEF Machines
  <2>5. ASSUME NEW k \in D, NEW w \in ws, q.last[k] \in w, NEW s \in Sites(w), s >= q.pc
        PROVE  q.new.locs[Remap(a, a[w])] = q.old.locs[k]
    <3>0. s \in Nat /\ s > i /\ s >= r.pc
      <4>1. s \in Nat
          BY <2>3, SitesAreInstructions
      <4>. QED  BY <1>1, <2>3, <2>5, <4>1 DEF i, j
    <3>1. CASE k = l
      <4>1. <<"at", i>> \in w
          BY <2>2, <2>5, <3>1
      <4>2. w = WebAt(ws, i)
          BY <1>1, <2>1, <4>1, WebOfAccess
      <4>. QED  BY <1>12, <2>2, <2>4, <3>1, <4>2 DEF slot, SlotOf
    <3>2. CASE k # l
      <4>1. q.last[k] = r.last[k] /\ q.old.locs[k] = r.old.locs[k]
          BY <1>12, <2>2, <2>4, <3>2
      <4>2. r.last[k] \in w
          BY <2>5, <4>1
      <4>3. r.new.locs[Remap(a, a[w])] = r.old.locs[k]
          BY <1>3, <2>5, <3>0, <4>2 DEF Tracked, D
      <4>4. r.last[k] # Unset
        <5>1. r.last[k] \in Nodes(f)
            BY <4>2 DEF AreWebs
        <5>2. \/ \E p \in 0 .. f.params - 1 : r.last[k] = <<"param", p>>
              \/ \E m \in Ix(f) : r.last[k] = <<"at", m>>
            BY <5>1 DEF Nodes, Defs, ParamDefs
        <5>. QED  BY <5>2 DEF Unset
      <4>5. r.last[k] \in Defs(f) /\ LocalOf(f, r.last[k]) = k
          BY <4>4 DEF Current, D
      <4>6. w # WebAt(ws, i)
        <5>. SUFFICES ASSUME w = WebAt(ws, i) PROVE FALSE
            OBVIOUS
        <5>1. <<"at", i>> \in w /\ LocalOf(f, <<"at", i>>) = l
            BY <1>4, <2>1
        <5>2. LocalOf(f, r.last[k]) = LocalOf(f, <<"at", i>>)
            BY <4>2, <5>1 DEF AreWebs
        <5>. QED  BY <3>2, <4>5, <5>1, <5>2
      <4>7. r.last[k] \in ParamDefs(f) \/ \E m \in Ix(f) : r.last[k] = <<"at", m>> /\ m < i
        <5>1. r.last[k] \in ParamDefs(f) \/ \E m \in Ix(f) : r.last[k] = <<"at", m>>
            BY <4>5 DEF Defs
        <5>. QED  BY <1>3, <5>1 DEF Behind, D, i
      <4>. DEFINE d == r.last[k]
      <4>8. /\ d \in w
            /\ d \in ParamDefs(f) \/ \E m \in Ix(f) : d = <<"at", m>> /\ m < i
          BY <4>2, <4>7
      <4>. HIDE DEF d
      <4>9. Remap(a, a[w]) # slot
          BY <1>1, <2>1, <3>0, <4>6, <4>8, OtherWebKeepsItsSlot DEF slot
      <4>10. Remap(a, a[w]) \in E
          BY RemapIsOneToOne DEF E
      <4>. QED  BY <1>12, <4>1, <4>3, <4>9, <4>10
    <3>. QED  BY <3>1, <3>2
  <2>6. ASSUME NEW k \in D, NEW m \in Ix(f), q.last[k] = <<"at", m>>
        PROVE  m < q.pc
    <3>1. CASE k = l
      <4>1. m = i
          BY <2>2, <2>6, <3>1
      <4>. QED  BY <2>3, <4>1 DEF j
    <3>2. CASE k # l
      <4>1. r.last[k] = <<"at", m>>
          BY <2>2, <2>6, <3>2
      <4>2. m < r.pc /\ m \in Nat
          BY <1>3, <2>3, <4>1 DEF Behind, D
      <4>. QED  BY <1>1, <2>3, <4>2 DEF i, j
    <3>. QED  BY <3>1, <3>2
  <2>. QED  BY <2>5, <2>6 DEF Tracked, Behind, D
<1>13. CASE Kind(f, i) = "set" /\ i \in Skip(f, a)
  <2>1. IsLocal(f, i) /\ IsDef(f, i) /\ instr.k = "set" /\ Between(f, a, r)
      BY <1>5, <1>13 DEF IsLocal, IsDef, Between, i
  <2>2. /\ r.old.stack # <<>> /\ r.new.stack = Tail(r.old.stack)
        /\ Head(r.old.stack) = r.new.locs[slot]
      BY <1>3, <2>1 DEF Stacks, slot, i
  <2>3. q.old.stack = Tail(r.old.stack) /\ q.old.locs = [r.old.locs EXCEPT ![l] = Head(r.old.stack)]
    <3>1. /\ r.old \in Machines(D) /\ r.old.ok /\ instr.k = "set" /\ instr.l \in D
          /\ r.old.stack # <<>>
        BY <1>2, <1>4, <1>6, <2>1, <2>2 DEF l
    <3>2. HasWritten(r.old, instr.k, instr.l, Execute(i, instr, r.old))
        BY <3>1, ExecuteSet, Zenon
    <3>. QED  BY <1>2, <3>1, <3>2 DEF l, HasWritten
  <2>4. q.new = r.new
      BY <1>2, <1>13
  <2>5. ~Between(f, a, q)
      BY <1>9, <1>13 DEF MergedCopies, Copies
  <2>6. Stacks(f, ws, a, q)
      BY <2>2, <2>3, <2>4, <2>5 DEF Stacks
  <2>7. j \in Ix(f) => Tracked(f, ws, a, q) /\ Behind(f, q)
      BY <1>12, <2>1, <2>2, <2>3, <2>4
  <2>. QED  BY <1>3, <2>4, <2>6, <2>7 DEF Alike, j
<1>14. CASE Kind(f, i) \in {"set", "tee"} /\ i \notin Skip(f, a)
  <2>1. /\ IsLocal(f, i) /\ IsDef(f, i) /\ instr.k \in {"set", "tee"} /\ ~Between(f, a, r)
        /\ Kind(f, i) # "get"
      BY <1>5, <1>14 DEF IsLocal, IsDef, Between, i
  <2>2. r.new.stack = r.old.stack
      BY <1>3, <2>1 DEF Stacks
  <2>3. r.old.stack # <<>>
    <3>1. Needs(instr.k) = 1
        BY <2>1 DEF Needs
    <3>2. r.old.stack \in Seq(Values)
        BY <1>2 DEF Machines
    <3>. QED  BY <1>6, <3>1, <3>2
  <2>. DEFINE x == Head(r.old.stack)
  <2>4. /\ q.old.stack = IF instr.k = "set" THEN Tail(r.old.stack) ELSE r.old.stack
        /\ q.old.locs = [r.old.locs EXCEPT ![l] = x]
    <3>1. /\ r.old \in Machines(D) /\ r.old.ok /\ instr.k \in {"set", "tee"} /\ instr.l \in D
          /\ r.old.stack # <<>>
        BY <1>2, <1>4, <1>6, <2>1, <2>3 DEF l
    <3>2. HasWritten(r.old, instr.k, instr.l, Execute(i, instr, r.old))
        BY <3>1, ExecuteSet, Zenon
    <3>. QED  BY <1>2, <3>1, <3>2 DEF l, HasWritten
  <2>5. q.new = Execute(i, re, r.new)
      BY <1>2, <1>14
  <2>6. re.k \in {"set", "tee"} /\ re.l \in E /\ re.k = instr.k /\ re.l = slot
      BY <1>4, <2>1
  <2>7. /\ q.new.ok
        /\ q.new.stack = IF instr.k = "set" THEN Tail(r.new.stack) ELSE r.new.stack
        /\ q.new.locs = [r.new.locs EXCEPT ![slot] = Head(r.new.stack)]
    <3>1. r.new.stack # <<>>
        BY <2>2, <2>3
    <3>2. HasWritten(r.new, re.k, re.l, Execute(i, re, r.new))
        BY <1>2, <1>3, <2>6, <3>1, ExecuteSet
    <3>. QED  BY <2>5, <2>6, <3>2 DEF HasWritten
  <2>8. ~Between(f, a, q)
      BY <1>9, <2>1 DEF MergedCopies, Copies
  <2>9. Stacks(f, ws, a, q)
      BY <2>2, <2>4, <2>7, <2>8 DEF Stacks
  <2>10. DOMAIN r.new.locs = E
      BY <1>2 DEF Machines
  <2>11. q.new.locs[slot] = x /\ \A s \in E : s # slot => q.new.locs[s] = r.new.locs[s]
      BY <2>2, <2>6, <2>7, <2>10
  <2>. HIDE DEF x
  <2>12. j \in Ix(f) => Tracked(f, ws, a, q) /\ Behind(f, q)
      BY <1>12, <2>1, <2>4, <2>11
  <2>. QED  BY <2>7, <2>9, <2>12 DEF Alike, j
<1>15. CASE Kind(f, i) \notin {"get", "set", "tee"}
  <2>1. ~IsLocal(f, i) /\ ~IsDef(f, i) /\ ~Between(f, a, r) /\ instr.k \notin {"get", "set", "tee"}
      BY <1>5, <1>15 DEF IsLocal, IsDef, Between, i
  <2>2. r.new.stack = r.old.stack
      BY <1>3, <2>1 DEF Stacks
  <2>3. i \notin Skip(f, a)
      BY <1>15, SkippedIs
  <2>4. q.new = Execute(i, instr, r.new)
    <3>1. re = instr
        BY <2>1 DEF Rewritten, re, instr
    <3>. QED  BY <1>2, <2>3, <3>1
  <2>5. q.old.stack = Operands(i, instr.k, r.old.stack) /\ q.old.locs = r.old.locs
      BY <1>1, <1>2, <1>6, <2>1, ExecuteOther
  <2>6. ~(Len(r.new.stack) < Needs(instr.k))
      BY <1>6, <2>2
  <2>7. /\ q.new.ok /\ q.new.stack = Operands(i, instr.k, r.new.stack) /\ q.new.locs = r.new.locs
      BY <1>1, <1>2, <1>3, <2>1, <2>4, <2>6, ExecuteOther
  <2>8. ~Between(f, a, q)
      BY <1>9, <1>15 DEF MergedCopies, Copies
  <2>9. Stacks(f, ws, a, q)
      BY <2>2, <2>5, <2>7, <2>8 DEF Stacks
  <2>. QED  BY <1>8, <2>1, <2>5, <2>7, <2>9 DEF Alike, j
<1>16. ~(Kind(f, i) = "tee" /\ i \in Skip(f, a))
    BY SkippedIs
<1>. QED  BY <1>11, <1>13, <1>14, <1>15, <1>16

-----------------------------------------------------------------------------
(* The hard clauses always have a solution *)

\* Webs in slots of their own, the parameters' in theirs, satisfy them.
LEMMA AssignmentExists ==
    ASSUME NEW f, Valid(f), NEW ws, AreWebs(f, ws)
    PROVE  Assignments(f, ws) # {}
<1>. DEFINE own == {w \in ws : IsParamWeb(f, w)}
            rest == ws \ own
            P == f.params
            n == Cardinality(ws)
            m == Cardinality(rest)
            high == P .. P + m - 1
<1>1. IsFiniteSet(ws) /\ n \in Nat /\ P \in Nat
  <2>1. f.params \in 0 .. Len(f.types) /\ Len(f.types) \in Nat
      BY DEF Valid
  <2>. QED  BY <2>1, LocalsOfWebs
<1>2. IsFiniteSet(own) /\ IsFiniteSet(rest) /\ Cardinality(own) \in Nat /\ m \in Nat
    BY <1>1, FS_Subset, FS_CardinalityType
<1>3. Cardinality(own) + m = n
  <2>1. ws \cap own = own
      OBVIOUS
  <2>2. m = n - Cardinality(ws \cap own)
      BY <1>1, FS_Difference
  <2>. DEFINE c == Cardinality(own)
  <2>3. m = n - c /\ c \in Nat
      BY <1>2, <2>1, <2>2
  <2>. HIDE DEF c, m, n
  <2>. QED  BY <1>1, <2>3 DEF c
<1>4. \A p \in 0 .. P - 1 : \E w \in own : Param(f, w) = p
  <2>. SUFFICES ASSUME NEW p \in 0 .. P - 1 PROVE \E w \in own : Param(f, w) = p
      OBVIOUS
  <2>1. <<"param", p>> \in Nodes(f) /\ <<"param", p>> \in ParamDefs(f)
      BY DEF Nodes, Defs, ParamDefs
  <2>2. PICK w \in ws : <<"param", p>> \in w
      BY <2>1 DEF AreWebs
  <2>3. w \in own
      BY <2>1, <2>2 DEF IsParamWeb
  <2>4. Param(f, w) = WebLocal(f, w)
      BY <2>3, ParamOfWeb
  <2>5. WebLocal(f, w) = LocalOf(f, <<"param", p>>)
      BY <2>2, WebIsOfOneLocal
  <2>6. LocalOf(f, <<"param", p>>) = p
      BY DEF LocalOf
  <2>. QED  BY <2>3, <2>4, <2>5, <2>6
<1>5. P <= Cardinality(own)
  <2>. DEFINE h == [w \in own |-> Param(f, w)]
              T == {h[w] : w \in own}
  <2>1. 0 .. P - 1 \subseteq T
      BY <1>4
  <2>2. IsFiniteSet(T) /\ Cardinality(T) <= Cardinality(own)
    <3>1. own \subseteq DOMAIN h
        OBVIOUS
    <3>. HIDE DEF h, own
    <3>. QED  BY <1>2, <3>1, ImageOfFinite
  <2>. HIDE DEF T
  <2>3. Cardinality(0 .. P - 1) <= Cardinality(T) /\ Cardinality(T) \in Nat
      BY <2>1, <2>2, FS_Subset, FS_CardinalityType
  <2>4. Cardinality(0 .. P - 1) = P
    <3>. HIDE DEF P
    <3>0. 0 \in Int /\ P - 1 \in Int
        BY <1>1
    <3>1. Cardinality(0 .. P - 1) = IF 0 > P - 1 THEN 0 ELSE (P - 1) - 0 + 1
        BY <3>0, FS_Interval
    <3>. QED  BY <1>1, <3>1
  <2>. DEFINE c == Cardinality(own)
              t == Cardinality(T)
  <2>5. P <= t /\ t <= c /\ t \in Nat /\ c \in Nat
      BY <1>2, <2>2, <2>3, <2>4
  <2>. HIDE DEF c, t, P
  <2>6. P <= c
      BY <1>1, <2>5
  <2>. QED  BY <2>6 DEF c
<1>6. high \subseteq Slots(ws)
  <2>. DEFINE c == Cardinality(own)
  <2>1. c \in Nat /\ P <= c /\ c + m = n
      BY <1>2, <1>3, <1>5
  <2>2. high \subseteq 0 .. n - 1
    <3>. HIDE DEF c, m, n, P
    <3>. QED  BY <1>1, <1>2, <2>1
  <2>. QED  BY <2>2 DEF Slots
<1>7. PICK g : g \in Bijection(rest, high)
  <2>1. IsFiniteSet(high) /\ Cardinality(high) = m
    <3>. HIDE DEF m, P
    <3>0. P \in Int /\ P + m - 1 \in Int
        BY <1>1, <1>2
    <3>1. /\ IsFiniteSet(P .. P + m - 1)
          /\ Cardinality(P .. P + m - 1) = IF P > P + m - 1 THEN 0 ELSE (P + m - 1) - P + 1
        BY <3>0, FS_Interval
    <3>. QED  BY <1>1, <1>2, <3>1
  <2>. HIDE DEF rest, high
  <2>2. ExistsBijection(rest, high)
      BY <1>2, <2>1, FS_SameCardinalityBij
  <2>. QED  BY <2>2 DEF ExistsBijection
<1>8. g \in [rest -> high] /\ \A v, w \in rest : g[v] = g[w] => v = w
    BY <1>7 DEF Bijection, Injection, IsInjective
<1>. DEFINE a == [w \in ws |-> IF w \in own THEN Param(f, w) ELSE g[w]]
<1>9. /\ \A w \in own : a[w] = Param(f, w) /\ Param(f, w) \in 0 .. P - 1
      /\ \A w \in rest : a[w] = g[w] /\ g[w] \in high
  <2>1. \A w \in own : Param(f, w) \in 0 .. P - 1
      BY ParamOfWeb
  <2>. HIDE DEF P, high
  <2>. QED  BY <1>8, <2>1
<1>10. \A v, w \in own : Param(f, v) = Param(f, w) => v = w
  <2>. SUFFICES ASSUME NEW v \in ws, NEW w \in ws, IsParamWeb(f, v), IsParamWeb(f, w),
                       Param(f, v) = Param(f, w)
                PROVE  v = w
      OBVIOUS
  <2>1. ASSUME NEW u \in ws, IsParamWeb(f, u)
        PROVE  <<"param", Param(f, u)>> \in u
    <3>. DEFINE x == CHOOSE y \in u \cap ParamDefs(f) : TRUE
    <3>1. x \in u \cap ParamDefs(f) /\ Param(f, u) = x[2]
        BY <2>1, Zenon DEF IsParamWeb, Param
    <3>. HIDE DEF x
    <3>2. PICK p \in 0 .. f.params - 1 : x = <<"param", p>>
        BY <3>1 DEF ParamDefs
    <3>3. Param(f, u) = p
        BY <3>1, <3>2
    <3>. QED  BY <3>1, <3>2, <3>3
  <2>2. <<"param", Param(f, v)>> \in v /\ <<"param", Param(f, v)>> \in w
      BY <2>1
  <2>. QED  BY <2>2 DEF AreWebs
<1>11. \A v, w \in ws : a[v] = a[w] => v = w
  <2>1. \A x \in 0 .. P - 1 : x \notin high
    <3>. HIDE DEF P, m
    <3>. QED  BY <1>1, <1>2
  <2>2. \A w \in ws : w \in own \/ w \in rest
      OBVIOUS
  <2>. HIDE DEF a, own, rest, high, P
  <2>. QED  BY <1>8, <1>9, <1>10, <2>1, <2>2
<1>12. TypesApart(f, a) /\ KeepApart(a)
    BY <1>11 DEF TypesApart, KeepApart, Interferes
<1>13. g \in [ws \ own -> Slots(ws)]
    BY <1>6, <1>8
<1>14. a \in {[w \in ws |-> IF w \in own THEN Param(f, w) ELSE h[w]] : h \in [ws \ own -> Slots(ws)]}
  <2>. HIDE DEF own
  <2>. QED  BY <1>13, Zenon
<1>15. a \in Assignments(f, ws)
    BY <1>12, <1>14, Zenon DEF Assignments
<1>. QED  BY <1>15

\* So what the solver answers with satisfies them.
LEMMA OptimumIsAssignment ==
    ASSUME NEW f, Valid(f), NEW ws, AreWebs(f, ws), NEW a \in Optima(f, ws)
    PROVE  a \in Assignments(f, ws)
BY AssignmentExists, OptimumIsLeast

-----------------------------------------------------------------------------
(* The rewritten function computes the same *)

\* The executions OnlyKnownMiscompilations exempts.
Exempt == run.left \/ run.back \/ run.unset \/ run.teed \/ ParamTaken

\* Until the operands give out or an exception occurs, they are alike.
AlikeInv ==
    phase \in {"run", "done"} =>
        /\ BothMachines(func, alloc, run)
        /\ run.old.ok /\ ~Exempt => Alike(func, webs, alloc, run)

\* A machine starts as one.
LEMMA MachineStarts ==
    ASSUME NEW f, Valid(f), NEW count \in Nat
    PROVE  Machine(f, count) \in Machines(0 .. count - 1)
<1>1. \A l \in 0 .. count - 1 : <<"arg", l>> \in Values
    BY DEF Values
<1>2. <<"zero">> \in Values
    BY DEF Values
<1>. HIDE DEF Values
<1>3. [l \in 0 .. count - 1 |-> IF l < f.params THEN <<"arg", l>> ELSE <<"zero">>]
          \in [0 .. count - 1 -> Values]
    BY <1>1, <1>2
<1>4. <<>> \in Seq(Values)
    OBVIOUS
<1>. QED  BY <1>3, <1>4 DEF Machine, Machines

\* They start out alike.
LEMMA ApplyAlike == Inv /\ AllocInv /\ Apply => AlikeInv'
<1>. SUFFICES ASSUME Inv, AllocInv, Apply PROVE AlikeInv'
    OBVIOUS
<1>1. Valid(func)
    BY LocalsAssumption DEF Inv, TypeInv
<1>2. AreWebs(func, webs)
    BY <1>1, WebsAreWebs DEF AllocInv, Apply
<1>3. alloc \in Assignments(func, webs)
    BY <1>1, <1>2, OptimumIsAssignment DEF AllocInv, Apply
<1>. DEFINE c == Len(NewTypes(func, alloc))
            n == Len(func.types)
<1>4. /\ func' = func /\ webs' = webs /\ alloc' = alloc
      /\ run'.pc = 1 /\ run'.old = Machine(func, n) /\ run'.new = Machine(func, c)
      /\ run'.last = [l \in 0 .. n - 1 |-> IF l < func.params THEN <<"param", l>> ELSE <<"zero">>]
    BY DEF Apply
<1>5. c \in Nat /\ n \in Nat /\ func.params \in 0 .. n
    BY <1>1, <1>2, <1>3, RemapIsOneToOne DEF Valid
<1>6. BothMachines(func, alloc, run')
    BY <1>1, <1>4, <1>5, MachineStarts DEF BothMachines, LocalsIn
<1>7. ~Between(func, alloc, run')
  <2>. SUFFICES ASSUME 1 \in Skip(func, alloc), Kind(func, 1) = "set" PROVE FALSE
      BY <1>4 DEF Between
  <2>1. 1 - 1 \in MergedCopies(func, alloc)
      BY <1>1, SkippedIs DEF MergedCopies, Copies
  <2>2. 1 - 1 \in Ix(func)
      BY <2>1 DEF MergedCopies, Copies
  <2>3. Ix(func) = 1 .. Len(func.instrs) /\ Len(func.instrs) \in Nat
      BY <1>1, BlocksAreInstructions
  <2>. QED  BY <2>2, <2>3
<1>8. run'.new.ok /\ Stacks(func, webs, alloc, run')
    BY <1>4, <1>7 DEF Stacks, Machine
<1>. HIDE DEF c, n
<1>9. ASSUME NEW l \in 0 .. n - 1
      PROVE  run'.last[l] = IF l < func.params THEN <<"param", l>> ELSE <<"zero">>
    BY <1>4
<1>10. ASSUME NEW l \in LocalsIn(func), NEW w \in webs, run'.last[l] \in w
       PROVE  run'.new.locs[Remap(alloc, alloc[w])] = run'.old.locs[l]
  <2>1. l \in 0 .. n - 1
      BY DEF LocalsIn, n
  <2>2. run'.last[l] \in Nodes(func)
      BY <1>2, <1>10 DEF AreWebs
  <2>3. l < func.params /\ run'.last[l] = <<"param", l>>
    <3>1. \/ \E p \in 0 .. func.params - 1 : run'.last[l] = <<"param", p>>
          \/ \E i \in Ix(func) : run'.last[l] = <<"at", i>>
        BY <2>2 DEF Nodes, Defs, ParamDefs
    <3>2. run'.last[l] # <<"zero">>
        BY <3>1
    <3>. QED  BY <1>9, <2>1, <3>2
  <2>4. l \in 0 .. func.params - 1
      BY <1>5, <2>1, <2>3
  <2>5. Remap(alloc, alloc[w]) = l /\ l \in 0 .. c - 1
      BY <1>1, <1>2, <1>3, <1>10, <2>3, <2>4, RemapOfParam DEF c
  <2>6. run'.new.locs[l] = <<"arg", l>> /\ run'.old.locs[l] = <<"arg", l>>
      BY <1>4, <2>1, <2>3, <2>5 DEF Machine
  <2>. QED  BY <2>5, <2>6
<1>11. Tracked(func, webs, alloc, run')
    BY <1>10 DEF Tracked
<1>12. Behind(func, run')
  <2>1. \A l \in 0 .. n - 1 : run'.last[l] \in {<<"param", l>>, <<"zero">>}
      BY <1>9
  <2>. QED  BY <2>1 DEF Behind, LocalsIn, n
<1>13. Alike(func, webs, alloc, run')
    BY <1>8, <1>11, <1>12 DEF Alike
<1>. QED  BY <1>4, <1>6, <1>13 DEF AlikeInv

\* They stay alike through a step of the model.
LEMMA StepAlike == Inv /\ AllocInv /\ AlikeInv /\ Step => AlikeInv'
<1>. SUFFICES ASSUME Inv, AllocInv, AlikeInv, Step PROVE AlikeInv'
    OBVIOUS
<1>1. Valid(func) /\ phase = "run"
    BY LocalsAssumption DEF Inv, TypeInv, Step
<1>2. /\ AreWebs(func, webs)
      /\ ReadsJoined(func, ins, {i \in Ix(func) : Kind(func, i) = "get"}, webs)
    BY <1>1, WebsAreWebs DEF AllocInv
<1>3. alloc \in Assignments(func, webs)
    BY <1>1, <1>2, OptimumIsAssignment DEF AllocInv
<1>4. BothMachines(func, alloc, run)
    BY <1>1 DEF AlikeInv
<1>5. func' = func /\ webs' = webs /\ alloc' = alloc /\ phase' = phase
    BY DEF Step
<1>6. StepOf(func, alloc, run, run')
    BY DEF Step, StepOf
<1>7. BothMachines(func, alloc, run')
    BY <1>1, <1>2, <1>3, <1>4, <1>6, MachinesStay
<1>8. ASSUME run'.old.ok, ~Exempt'
      PROVE  Alike(func, webs, alloc, run')
  <2>1. /\ ~run'.left /\ ~run'.back /\ ~run'.unset /\ ~run'.teed /\ ~ParamTaken'
      BY <1>8 DEF Exempt
  <2>2. ~ParamTaken
      BY <1>5, <2>1 DEF ParamTaken
  <2>3. /\ ~run.left /\ ~run.back /\ ~run.unset /\ ~run.teed
        /\ ~(run'.pc <= run.pc)
        /\ ~(Kind(func, run.pc) = "get" /\ run.last[func.instrs[run.pc].l] = <<"zero">>)
        /\ ~(run.pc \in Copies(func) /\ Kind(func, run.pc + 1) = "tee" /\ Merged(func, alloc, run.pc))
    <3>. DEFINE i == run.pc
                instr == func.instrs[i]
                steps == run.steps + 1
                old == Execute(i, instr, run.old)
                new == IF i \in Kept(func, alloc)
                       THEN Execute(i, Rewritten(func, alloc, i), run.new) ELSE run.new
                last == IF IsDef(func, i) THEN [run.last EXCEPT ![instr.l] = <<"at", i>>]
                                          ELSE run.last
                left(j) == run.left \/ ~Follows(func, i, j)
                back(j) == run.back \/ j <= i
                teed == \/ run.teed
                        \/ /\ i \in Copies(func) /\ Kind(func, i + 1) = "tee"
                           /\ Merged(func, alloc, i)
                unset == run.unset \/ (Kind(func, i) = "get" /\ run.last[instr.l] = <<"zero">>)
    <3>1. PICK j \in Goto(func, run.pc) :
              run' = [pc |-> j, steps |-> steps, old |-> old, new |-> new, last |-> last,
                      left |-> left(j), back |-> back(j), teed |-> teed, unset |-> unset]
        BY Zenon DEF Step
    <3>. HIDE DEF steps, old, new, last, left, back, teed, unset
    <3>2. /\ run'.pc = j /\ run'.left = left(j) /\ run'.back = back(j)
          /\ run'.teed = teed /\ run'.unset = unset
        BY <3>1
    <3>3. ~left(j) /\ ~back(j) /\ ~teed /\ ~unset
        BY <2>1, <3>2, Zenon
    <3>4. ~run.left /\ ~run.back /\ ~(run'.pc <= run.pc)
        BY <3>2, <3>3, Zenon DEF left, back
    <3>5. /\ ~run.teed
          /\ ~(run.pc \in Copies(func) /\ Kind(func, run.pc + 1) = "tee" /\ Merged(func, alloc, run.pc))
        BY <3>3, Zenon DEF teed
    <3>6. /\ ~run.unset
          /\ ~(Kind(func, run.pc) = "get" /\ run.last[func.instrs[run.pc].l] = <<"zero">>)
        BY <3>3, Zenon DEF unset
    <3>. QED  BY <3>4, <3>5, <3>6
  <2>4. run.old.ok
    <3>. DEFINE D == LocalsIn(func)
                i == run.pc
                instr == func.instrs[i]
    <3>1. run.old \in Machines(D) /\ run'.old = Execute(i, instr, run.old) /\ i \in Nat
        BY <1>1, <1>4, <1>6, BlocksAreInstructions DEF BothMachines, StepOf
    <3>2. instr.k \in {"get", "set", "tee"} => instr.l \in D
        BY <1>1, <1>6 DEF Valid, LocalsIn, StepOf, IsLocal, IsDef, Kind
    <3>. HIDE DEF D, i, instr
    <3>3. Execute(i, instr, run.old).ok
        BY <1>8, <3>1
    <3>. QED  BY <3>1, <3>2, <3>3, ExecuteMachine
  <2>5. Alike(func, webs, alloc, run)
      BY <1>1, <2>2, <2>3, <2>4 DEF AlikeInv, Exempt
  <2>6. Current(func, ins, run)
    <3>1. run.pc \in Ix(func) /\ Locs = LocalsIn(func)
        BY <1>6 DEF StepOf, Locs, LocalsIn
    <3>. QED  BY <1>1, <2>3, <3>1 DEF Inv, LastInv, CurrentInv, Current
  <2>7. ~Taken(func, alloc)
      BY <2>2 DEF ParamTaken, Taken
  <2>8. Kind(func, run.pc) = "get" => run.last[func.instrs[run.pc].l] # Unset
      BY <2>3 DEF Unset
  <2>. DEFINE r == run
              q == run'
  <2>9. /\ BothMachines(func, alloc, r) /\ StepOf(func, alloc, r, q) /\ Current(func, ins, r)
        /\ Alike(func, webs, alloc, r) /\ q.old.ok /\ ~(q.pc <= r.pc)
        /\ Kind(func, r.pc) = "get" => r.last[func.instrs[r.pc].l] # Unset
        /\ ~(r.pc \in Copies(func) /\ Kind(func, r.pc + 1) = "tee" /\ Merged(func, alloc, r.pc))
      BY <1>4, <1>6, <1>8, <2>3, <2>5, <2>6, <2>8
  <2>. HIDE DEF r, q
  <2>10. Alike(func, webs, alloc, q)
      BY <1>1, <1>2, <1>3, <2>7, <2>9, AlikeStays
  <2>. QED  BY <2>10 DEF q
<1>. QED  BY <1>5, <1>7, <1>8 DEF AlikeInv

\* AlikeInv is inductive, relative to the invariants of analysis and allocation.
LEMMA AlikeStep == Inv /\ AllocInv /\ AlikeInv /\ [Next]_vars => AlikeInv'
<1>. SUFFICES ASSUME Inv, AllocInv, AlikeInv, [Next]_vars PROVE AlikeInv'
    OBVIOUS
<1>1. CASE Refuse \/ Solve \/ SolveFails
    BY <1>1 DEF Refuse, Solve, SolveFails, AlikeInv
<1>2. CASE Visit
  <2>1. phase' \in {"webs", "flow"}
      BY <1>2 DEF Visit
  <2>. QED  BY <2>1 DEF AlikeInv
<1>3. CASE Build
  <2>1. phase' \in {"skipped", "solve"}
      BY <1>3 DEF Build
  <2>. QED  BY <2>1 DEF AlikeInv
<1>4. CASE Apply
    BY <1>4, ApplyAlike
<1>5. CASE Step
    BY <1>5, StepAlike
<1>6. CASE Stop
  <2>1. phase = "run" /\ func' = func /\ webs' = webs /\ alloc' = alloc /\ run' = run
      BY <1>6 DEF Stop
  <2>2. Exempt' = Exempt
      BY <2>1 DEF Exempt, ParamTaken
  <2>. QED  BY <2>1, <2>2 DEF AlikeInv
<1>7. CASE UNCHANGED vars
  <2>1. phase' = phase /\ func' = func /\ webs' = webs /\ alloc' = alloc /\ run' = run
      BY <1>7 DEF vars
  <2>2. Exempt' = Exempt
      BY <2>1 DEF Exempt, ParamTaken
  <2>. QED  BY <2>1, <2>2 DEF AlikeInv
<1>. QED  BY <1>1, <1>2, <1>3, <1>4, <1>5, <1>6, <1>7 DEF Next

\* The original never lacks an operand: what validation promises of a function.
OperandsFound == phase \in {"run", "done"} => run.old.ok

\* Whatever the function, and whatever optimum the solver answers with: as long
\* as the original finds its operands, the rewritten function has the same
\* operands at every step and its slots the types of the locals they stand for,
\* but in the executions OnlyKnownMiscompilations exempts (solve_allocation,
\* apply_allocation).
THEOREM RewritingIsFaithful == Spec => [](OperandsFound => OnlyKnownMiscompilations)
<1>1. Init => AllocInv /\ AlikeInv
    BY DEF Init, AllocInv, AlikeInv
<1>2. Inv /\ AllocInv /\ AlikeInv => (OperandsFound => OnlyKnownMiscompilations)
  <2>. SUFFICES ASSUME Inv, AllocInv, AlikeInv, OperandsFound, phase \in {"run", "done"}, ~Exempt
                PROVE  run.old.ok /\ run.new.ok /\ InStep /\ SlotsTyped
      BY DEF OnlyKnownMiscompilations, Exempt
  <2>1. Valid(func)
      BY LocalsAssumption DEF Inv, TypeInv
  <2>2. AreWebs(func, webs)
      BY <2>1, WebsAreWebs DEF AllocInv
  <2>3. alloc \in Assignments(func, webs)
      BY <2>1, <2>2, OptimumIsAssignment DEF AllocInv
  <2>4. run.old.ok /\ Alike(func, webs, alloc, run)
      BY DEF OperandsFound, AlikeInv
  <2>5. InStep
      BY <2>4 DEF Alike, Stacks, Between, InStep
  <2>6. SlotsTyped
      BY <2>1, <2>2, <2>3, SlotsHaveTypes DEF SlotsTyped
  <2>. QED  BY <2>4, <2>5, <2>6 DEF Alike
<1>. QED  BY <1>1, <1>2, LocalsInvariant, AllocStep, AlikeStep, PTL DEF Spec
=============================================================================
