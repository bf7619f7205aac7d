---------------------------- MODULE AStar_proofs ----------------------------
(***************************************************************************)
(* Proofs about module AStar, for every graph of goals, every heuristic and*)
(* every checker: what the heap holds, and what an answer is.              *)
(***************************************************************************)
EXTENDS AStar, Induction, FiniteSetTheorems

\* The problem is never changed; with TypeOK and AnswerSound it is inductive.
IInv == problem \in Problems /\ TypeOK /\ AnswerSound

\* A node of the heap, as TypeOK describes it.
OnHeap(path) == /\ path \in Seq(Keys)
                /\ IsPath(path)
                /\ \A i \in 1 .. Len(path) - 1 : path[i] \in memo /\ path[i] \notin problem.solved

\* A key reached by one more peel from an expanded one is again such a node.
LEMMA AppendIsPath ==
    ASSUME problem \in Problems, NEW path, OnHeap(path),
           NEW k \in problem.succ[KeyOf(path)]
    PROVE  /\ k \in Keys
           /\ Append(path, k) \in Seq(Keys)
           /\ IsPath(Append(path, k))
           /\ Len(Append(path, k)) = Len(path) + 1
           /\ \A i \in 1 .. Len(path) : Append(path, k)[i] = path[i]
<1>1. Len(path) \in Nat \ {0} /\ path[1] = Root /\ KeyOf(path) \in Keys
    BY DEF OnHeap, IsPath, KeyOf
<1>2. k \in Keys
    BY <1>1, AStarAssumption
<1>3. /\ Append(path, k) \in Seq(Keys)
      /\ Len(Append(path, k)) = Len(path) + 1
      /\ Append(path, k)[Len(path) + 1] = k
      /\ \A i \in 1 .. Len(path) : Append(path, k)[i] = path[i]
    BY <1>1, <1>2 DEF OnHeap
<1>4. IsPath(Append(path, k))
  <2>1. Append(path, k)[1] = Root
      BY <1>1, <1>3
  <2>2. ASSUME NEW i \in 1 .. Len(path)
        PROVE  Append(path, k)[i + 1] \in problem.succ[Append(path, k)[i]]
    <3>1. CASE i = Len(path)
        BY <1>1, <1>3, <3>1 DEF KeyOf
    <3>2. CASE i # Len(path)
      <4>1. i \in 1 .. Len(path) - 1 /\ i + 1 \in 1 .. Len(path)
          BY <1>1, <3>2
      <4>2. path[i + 1] \in problem.succ[path[i]]
          BY <4>1 DEF OnHeap, IsPath
      <4>. QED  BY <1>3, <4>1, <4>2
    <3>. QED  BY <3>1, <3>2
  <2>. QED  BY <1>1, <1>3, <2>1, <2>2 DEF IsPath
<1>. QED  BY <1>2, <1>3, <1>4

\* The invariant of the queue and the tables holds of the initial state.
LEMMA InitInv == Init => IInv
<1>. SUFFICES ASSUME Init PROVE IInv
    OBVIOUS
<1>1. problem \in Problems /\ problem.depth \in Nat
    BY AStarAssumption DEF Init
<1>2. <<Root>> \in Seq(Keys) /\ IsPath(<<Root>>) /\ Len(<<Root>>) = 1
    BY AStarAssumption DEF IsPath
<1>3. DOMAIN parent = {}
    BY DEF Init
<1>4. heap = {<<Root>>} /\ best \in 0 .. problem.depth /\ memo = {}
    BY <1>1 DEF Init
<1>5. TypeOK
  <2>1. running \in BOOLEAN /\ timedOut \in BOOLEAN
      BY DEF Init
  <2>2. ASSUME NEW path \in heap
        PROVE  OnHeap(path)
    <3>1. path = <<Root>>
        BY <1>4
    <3>2. \A i \in 1 .. Len(path) - 1 : FALSE
        BY <1>2, <3>1
    <3>. QED  BY <1>2, <3>1, <3>2 DEF OnHeap
  <2>. QED  BY <1>3, <1>4, <2>1, <2>2 DEF TypeOK, OnHeap
<1>6. AnswerSound
    BY DEF Init, AnswerSound
<1>. QED  BY <1>1, <1>5, <1>6 DEF IInv

\* A path that is taken from the heap and whose key is a solution is a program.
LEMMA PoppedIsProgram ==
    ASSUME NEW path, OnHeap(path), KeyOf(path) \in problem.solved
    PROVE  IsProgram(path)
BY DEF OnHeap, IsProgram

\* It is kept by every step of the search.
LEMMA StepInv == IInv /\ [Next]_vars => IInv'
<1>. SUFFICES ASSUME IInv, [Next]_vars PROVE IInv'
    OBVIOUS
<1> USE DEF IInv
<1>10. \A path \in heap : OnHeap(path)
    BY DEF TypeOK, OnHeap
<1>11. /\ problem.depth \in Nat /\ problem.h \in [Keys -> Nat]
      /\ problem.succ \in [Keys -> SUBSET Keys]
    BY AStarAssumption
<1>1. ASSUME Expire PROVE IInv'
    BY <1>1 DEF Expire, Popped, TypeOK, AnswerSound, IsPath, IsProgram, KeyOf, G
<1>2. ASSUME Skip PROVE IInv'
    BY <1>2 DEF Skip, Popped, TypeOK, AnswerSound, IsPath, IsProgram, KeyOf, G
<1>3. ASSUME Reject PROVE IInv'
    BY <1>3 DEF Reject, PopNew, Popped, TypeOK, AnswerSound, IsPath, IsProgram, KeyOf, G
<1>4. ASSUME Accept PROVE IInv'
  <2>1. PICK path \in heap : /\ PopNew(path)
                             /\ KeyOf(path) \in problem.solved
                             /\ Accepts(path)
                             /\ best' = G(path)
                             /\ answer' = path
                             /\ memo' = memo \union {KeyOf(path)}
      BY <1>4 DEF Accept
  <2>2. UNCHANGED <<problem, parent, running, timedOut>> /\ heap' \subseteq heap
      BY <1>4, <2>1 DEF Accept, PopNew, Popped
  <2>3. path \in Seq(Keys) /\ Len(path) \in Nat \ {0} /\ KeyOf(path) \in Keys
      BY <1>10 DEF OnHeap, IsPath, KeyOf
  <2>4. IsProgram(path) /\ path # <<>>
      BY <1>10, <2>1, <2>3, PoppedIsProgram
  <2>5. best' \in 0 .. problem.depth
    <3>1. ~TooLong(path) /\ best <= problem.depth /\ best \in Nat
        BY <1>11, <2>1 DEF PopNew, TypeOK
    <3>. QED  BY <1>11, <2>1, <2>3, <3>1 DEF TooLong, F, G
  <2>6. TypeOK'
      BY <2>1, <2>2, <2>3, <2>5 DEF TypeOK, IsPath
  <2>7. AnswerSound'
      BY <2>1, <2>2, <2>4 DEF AnswerSound, IsProgram, IsPath, KeyOf, G, Accepts
  <2>. QED  BY <2>2, <2>6, <2>7
<1>5. ASSUME Expand PROVE IInv'
  <2>1. PICK path \in heap :
            /\ KeyOf(path) \notin problem.solved
            /\ heap' = Popped(path) \union {Append(path, k) : k \in Near(path)}
            /\ memo' = Recorded(path)
            /\ parent' = [k \in DOMAIN parent \union Adopted(path) |->
                              IF k \in DOMAIN parent THEN parent[k] ELSE KeyOf(path)]
      BY <1>5 DEF Expand
  <2>2. UNCHANGED <<problem, best, answer, running, timedOut>>
      BY <1>5 DEF Expand
  <2>3. OnHeap(path) /\ Len(path) \in Nat \ {0} /\ KeyOf(path) \in Keys
      BY <1>10 DEF OnHeap, IsPath, KeyOf
  <2>4. memo' = memo \union {KeyOf(path)} /\ memo' \subseteq Keys
      BY <2>1, <2>3 DEF Recorded, TypeOK
  <2>5. ASSUME NEW p \in heap'
        PROVE  OnHeap(p)'
    <3>1. CASE p \in heap
        BY <1>10, <2>2, <2>4, <3>1 DEF OnHeap, IsPath
    <3>2. CASE p \notin heap
      <4>1. PICK k \in problem.succ[KeyOf(path)] : p = Append(path, k)
          BY <2>1, <3>2 DEF Popped, Near
      <4>2. /\ p \in Seq(Keys) /\ IsPath(p) /\ Len(p) = Len(path) + 1
            /\ \A i \in 1 .. Len(path) : p[i] = path[i]
          BY <2>3, <4>1, AppendIsPath
      <4>3. ASSUME NEW i \in 1 .. Len(path)
            PROVE  path[i] \in memo' /\ path[i] \notin problem.solved
        <5>1. CASE i = Len(path)
            BY <2>1, <2>4, <5>1 DEF KeyOf
        <5>2. CASE i # Len(path)
            BY <2>3, <2>4, <5>2 DEF OnHeap
        <5>. QED  BY <5>1, <5>2
      <4>4. \A i \in 1 .. Len(p) - 1 : p[i] \in memo' /\ p[i] \notin problem.solved
          BY <2>3, <4>2, <4>3
      <4>. QED  BY <2>2, <4>2, <4>4 DEF OnHeap, IsPath
    <3>. QED  BY <3>1, <3>2
  <2>6. /\ DOMAIN parent' \subseteq Keys
        /\ \A k \in DOMAIN parent' : parent'[k] \in memo' /\ k \in problem.succ[parent'[k]]
    <3>1. Adopted(path) \subseteq problem.succ[KeyOf(path)]
        BY DEF Adopted, Near
    <3>2. problem.succ[KeyOf(path)] \subseteq Keys
        BY <1>11, <2>3
    <3>. QED  BY <2>1, <2>4, <3>1, <3>2 DEF TypeOK
  <2>7. TypeOK'
      BY <2>2, <2>4, <2>5, <2>6 DEF TypeOK, OnHeap
  <2>8. AnswerSound'
      BY <2>2 DEF AnswerSound, IsProgram, IsPath, KeyOf, G
  <2>. QED  BY <2>2, <2>7, <2>8
<1>6. ASSUME Finish PROVE IInv'
    BY <1>6 DEF Finish, TypeOK, AnswerSound, IsPath, IsProgram, KeyOf, G
<1>7. ASSUME UNCHANGED vars PROVE IInv'
    BY <1>7 DEF vars, TypeOK, AnswerSound, IsPath, IsProgram, KeyOf, G
<1>. QED  BY <1>1, <1>2, <1>3, <1>4, <1>5, <1>6, <1>7 DEF Next, Loop

\* Every node on the heap is a path of peels from the exit goal through expanded
\* goals, none of them a solution; best stays within the depth limit; parents are
\* expanded goals with an edge to their child.
THEOREM HeapIsPaths == Spec => []TypeOK
<1>1. IInv => TypeOK
    BY DEF IInv
<1>. QED  BY <1>1, InitInv, StepInv, PTL DEF Spec

\* What the search returns runs from the exit goal to the first solution on its
\* way, the checker accepts it, and it is as long as best says: whatever the
\* heuristic, the order of the heap and the deadline do.
THEOREM AnswerIsSound == Spec => []AnswerSound
<1>1. IInv => AnswerSound
    BY DEF IInv
<1>. QED  BY <1>1, InitInv, StepInv, PTL DEF Spec

-----------------------------------------------------------------------------
\* A node of the heap is a path that can be measured.
LEMMA HeapNode ==
    ASSUME IInv, NEW path \in heap
    PROVE  /\ OnHeap(path)
           /\ path \in Seq(Keys) /\ Len(path) \in Nat \ {0}
           /\ KeyOf(path) \in Keys /\ problem.h[KeyOf(path)] \in Nat
           /\ G(path) \in Nat /\ F(path) \in Nat /\ F(path) = G(path) + problem.h[KeyOf(path)]
           /\ G(path) = Len(path) - 1
<1>1. OnHeap(path)
    BY DEF IInv, TypeOK, OnHeap
<1>2. path \in Seq(Keys) /\ Len(path) \in Nat \ {0} /\ KeyOf(path) \in Keys
    BY <1>1 DEF OnHeap, IsPath, KeyOf
<1>3. problem.h[KeyOf(path)] \in Nat
    BY <1>2, AStarAssumption DEF IInv
<1>. QED  BY <1>1, <1>2, <1>3 DEF G, F

\* What is popped has the least f.
LEMMA PoppedIsLeast ==
    ASSUME IInv, NEW path \in heap, Pop(path), NEW other \in heap
    PROVE  F(path) <= F(other) /\ (KeyOf(path) = KeyOf(other) => G(path) <= G(other))
<1>1. F(path) \in Nat /\ F(other) \in Nat
    BY HeapNode
<1>2. Before(path, other)
    BY DEF Pop
<1>3. F(path) <= F(other)
    BY <1>1, <1>2 DEF Before
<1>. QED  BY <1>3, HeapNode

\* Once there is an answer, nothing on the heap is looked at any more.
NothingBelowBest == answer # <<>> => \A path \in heap : F(path) >= best

\* A step keeps it: once there is an answer, no path on the heap is below its cost.
LEMMA StepNothingBelow == IInv /\ NothingBelowBest /\ [Next]_vars => NothingBelowBest'
<1>. SUFFICES ASSUME IInv, NothingBelowBest, [Next]_vars PROVE NothingBelowBest'
    OBVIOUS
<1>1. ASSUME heap' \subseteq heap, UNCHANGED <<problem, best, answer>>
      PROVE  NothingBelowBest'
    BY <1>1 DEF NothingBelowBest, F, G, KeyOf
<1>2. CASE Expire \/ Skip \/ Reject \/ Finish
    BY <1>1, <1>2 DEF Expire, Skip, Reject, PopNew, Popped, Finish
<1>3. CASE Accept
  <2>1. PICK path \in heap : PopNew(path) /\ best' = G(path)
      BY <1>3 DEF Accept
  <2>2. heap' \subseteq heap /\ problem' = problem
      BY <1>3, <2>1 DEF Accept, PopNew, Popped
  <2>3. ASSUME NEW other \in heap
        PROVE  F(other) >= G(path)
    <3>1. F(path) <= F(other)
        BY <2>1, PoppedIsLeast DEF PopNew
    <3>. QED  BY <3>1, HeapNode
  <2>. QED  BY <2>1, <2>2, <2>3 DEF NothingBelowBest, F, G, KeyOf
<1>4. CASE Expand
  <2>1. PICK path \in heap : ~TooLong(path)
      BY <1>4 DEF Expand
  <2>2. answer' = answer
      BY <1>4 DEF Expand
  <2>. QED  BY <2>1, <2>2 DEF NothingBelowBest, TooLong
<1>5. CASE UNCHANGED vars
    BY <1>1, <1>5 DEF vars
<1>. QED  BY <1>2, <1>3, <1>4, <1>5 DEF Next, Loop

\* The first answer is the last one, for every heuristic: what is left on the heap
\* when it is taken has no smaller f, and `f >= best` drops it.
THEOREM FirstAnswerIsKept == Spec => FirstAnswerStays
<1>1. Init => NothingBelowBest
    BY DEF Init, NothingBelowBest
<1>2. NothingBelowBest /\ answer # <<>> /\ [Next]_vars => answer' = answer
  <2>. SUFFICES ASSUME NothingBelowBest, answer # <<>>, Accept PROVE FALSE
      BY DEF Next, Loop, Expire, Skip, Reject, Expand, Finish, vars
  <2>. QED  BY DEF NothingBelowBest, Accept, PopNew, TooLong
<1>3. NothingBelowBest /\ [Next]_vars => [answer # <<>> => answer' = answer]_vars
    BY <1>2
<1>. QED  BY <1>1, <1>3, InitInv, StepInv, StepNothingBelow, PTL DEF Spec, FirstAnswerStays

-----------------------------------------------------------------------------
\* Ways from the exit goal whose keys but the last are no solutions: what the nodes
\* of the heap and the programs have in common.
Walk(w) == /\ w \in Seq(Keys)
           /\ IsPath(w)
           /\ \A i \in 1 .. Len(w) - 1 : w[i] \notin problem.solved

\* The f of the way's first i keys.
FAt(w, i) == i - 1 + problem.h[w[i]]

\* Where a way leaves the memo, and where it starts if the memo is empty, a node of
\* the heap stands that was reached as early, unless its f is too great.
Frontier == \A w \in Seq(Keys) : \A i \in 1 .. Len(w) :
                (/\ Walk(w) /\ w[i] \notin memo
                 /\ i = 1 \/ w[i - 1] \in memo
                 /\ FAt(w, i) < best)
                    => \E path \in heap : KeyOf(path) = w[i] /\ G(path) <= i - 1

\* The hypotheses of AnswerShortest.
Optimistic == Consistent /\ Programs \subseteq problem.valid

\* No node was expanded through a key twice; the memo holds no solution before there
\* is an answer; the loop ends with an empty heap or the deadline; and, for a
\* consistent heuristic and a checker that refuses nothing, the heap surrounds the memo
\* until the answer is taken, which is a shortest one.
ShortInv ==
    /\ \A path \in heap : \A i, j \in 1 .. Len(path) - 1 : path[i] = path[j] => i = j
    /\ answer = <<>> => memo \cap problem.solved = {}
    /\ proven => heap = {}
    /\ timedOut => ~running
    /\ Optimistic /\ answer = <<>> /\ ~timedOut => Frontier
    /\ Optimistic /\ answer # <<>> => \A p \in Programs : best <= G(p)

\* A consistent heuristic makes f grow along a way.
LEMMA FGrows ==
    ASSUME problem \in Problems, Consistent, NEW w, Walk(w),
           NEW j \in 1 .. Len(w), NEW i \in 1 .. j
    PROVE  FAt(w, i) <= FAt(w, j) /\ FAt(w, i) \in Nat /\ FAt(w, j) \in Nat
<1>1. Len(w) \in Nat /\ \A k \in 1 .. Len(w) : w[k] \in Keys
    BY DEF Walk
<1>2. \A k \in Keys : problem.h[k] \in Nat
    BY AStarAssumption
<1>3. \A k \in 1 .. Len(w) : FAt(w, k) \in Nat
    BY <1>1, <1>2 DEF FAt
<1>4. ASSUME NEW k \in 1 .. Len(w) - 1
      PROVE  FAt(w, k) <= FAt(w, k + 1)
  <2>1. w[k] \in Keys \ problem.solved /\ w[k + 1] \in problem.succ[w[k]]
      BY <1>1 DEF Walk, IsPath
  <2>2. problem.h[w[k]] <= 1 + problem.h[w[k + 1]]
      BY <2>1 DEF Consistent
  <2>3. w[k + 1] \in Keys
      BY <1>1
  <2>. QED  BY <1>2, <2>1, <2>2, <2>3 DEF FAt
<1>. DEFINE S == {n \in Nat : n <= j - 1 => FAt(w, j - n) <= FAt(w, j)}
<1>5. 0 \in S
    BY <1>3
<1>6. ASSUME NEW n \in 0 .. (j - 1) - 1, n \in S
      PROVE  n + 1 \in S
  <2>. DEFINE k == j - (n + 1)
  <2>1. k \in 1 .. Len(w) - 1 /\ k + 1 = j - n /\ k + 1 \in 1 .. Len(w)
      BY <1>1
  <2>2. FAt(w, k) <= FAt(w, k + 1)
      BY <1>4, <2>1
  <2>3. FAt(w, k + 1) <= FAt(w, j)
      BY <1>6, <2>1
  <2>4. FAt(w, k) \in Nat /\ FAt(w, k + 1) \in Nat
      BY <1>3, <2>1
  <2>5. FAt(w, k) <= FAt(w, j)
      BY <1>3, <2>2, <2>3, <2>4
  <2>. QED  BY <2>5
<1>7. j - i \in S
  <2>. HIDE DEF S
  <2>1. \A n \in 0 .. (j - 1) - 1 : n \in S => n + 1 \in S
      BY <1>6
  <2>0. j - 1 \in Nat
      BY <1>1
  <2>2. \A n \in 0 .. j - 1 : n \in S
      BY <1>5, <2>0, <2>1, UpTo
  <2>. QED  BY <2>2
<1>. QED  BY <1>3, <1>7

\* A way to a key that is open has left the memo somewhere: a node of the heap is
\* at most as great as the way.
LEMMA FirstOpen ==
    ASSUME IInv, Consistent, Frontier, NEW w, Walk(w), NEW j \in 1 .. Len(w),
           w[j] \notin memo, FAt(w, j) < best
    PROVE  \E path \in heap : F(path) <= FAt(w, j)
<1>. DEFINE Open == {i \in 1 .. j : w[i] \notin memo}
<1>0. problem \in Problems
    BY DEF IInv
<1>1. PICK i \in Open : \A k \in Open : i <= k
  <2>1. Open \subseteq Nat /\ j \in Open
      OBVIOUS
  <2>. HIDE DEF Open
  <2>. QED  BY <2>1, LeastNumber
<1>2. i \in 1 .. Len(w) /\ w[i] \notin memo /\ (i = 1 \/ w[i - 1] \in memo)
    BY <1>1
<1>3. FAt(w, i) <= FAt(w, j) /\ FAt(w, i) \in Nat /\ FAt(w, j) \in Nat
    BY <1>0, <1>1, FGrows
<1>4. best \in Nat
    BY AStarAssumption DEF IInv, TypeOK
<1>5. PICK path \in heap : KeyOf(path) = w[i] /\ G(path) <= i - 1
    BY <1>2, <1>3, <1>4 DEF Frontier, Walk
<1>6. F(path) <= FAt(w, i) /\ F(path) \in Nat
    BY <1>5, HeapNode DEF FAt
<1>. QED  BY <1>3, <1>6

\* A program is a way, and its f at the solution is its length.
LEMMA ProgramIsWalk ==
    ASSUME problem \in Problems, NEW p \in Programs
    PROVE  /\ Walk(p) /\ Len(p) \in 1 .. Len(p)
           /\ p[Len(p)] \in problem.solved
           /\ G(p) \in Nat /\ G(p) < problem.depth
           /\ Consistent => FAt(p, Len(p)) = G(p)
<1>1. PICK n \in 1 .. problem.depth : p \in [1 .. n -> Keys]
    BY DEF Programs
<1>2. IsProgram(p)
    BY DEF Programs
<1>3. problem.depth \in Nat
    BY AStarAssumption
<1>4. p \in Seq(Keys) /\ Len(p) = n
    BY <1>1, <1>3
<1>. QED  BY <1>1, <1>2, <1>3, <1>4 DEF IsProgram, Walk, KeyOf, G, FAt, Consistent


\* The invariant behind the shortest answer holds of the initial state.
LEMMA InitShort == Init => ShortInv
<1>. SUFFICES ASSUME Init PROVE ShortInv
    OBVIOUS
<1>1. /\ heap = {<<Root>>} /\ memo = {} /\ answer = <<>> /\ problem \in Problems
      /\ running /\ ~timedOut
    BY DEF Init
<1>2. Frontier
  <2>. SUFFICES ASSUME NEW w \in Seq(Keys), NEW i \in 1 .. Len(w), Walk(w), i = 1
                PROVE  \E path \in heap : KeyOf(path) = w[i] /\ G(path) <= i - 1
      BY <1>1 DEF Frontier
  <2>1. w[1] = Root
      BY DEF Walk, IsPath
  <2>2. KeyOf(<<Root>>) = Root /\ G(<<Root>>) = 0
      BY DEF KeyOf, G
  <2>. QED  BY <1>1, <2>1, <2>2
<1>3. \A path \in heap : \A i, j \in 1 .. Len(path) - 1 : path[i] = path[j] => i = j
  <2>1. Len(<<Root>>) = 1
      OBVIOUS
  <2>2. \A path \in heap : Len(path) = 1
      BY <1>1, <2>1
  <2>. QED  BY <2>2
<1>. QED  BY <1>1, <1>2, <1>3 DEF ShortInv, proven

\* A node with a new key repeats no key, and is short enough for a program if it is
\* not cut off and ends at a solution.
LEMMA NewSolutionIsProgram ==
    ASSUME IInv, ShortInv, NEW path \in heap, ~TooLong(path), KeyOf(path) \notin memo
    PROVE  /\ \A i, j \in 1 .. Len(path) : path[i] = path[j] => i = j
           /\ KeyOf(path) \in problem.solved => path \in Programs
<1>1. /\ OnHeap(path) /\ path \in Seq(Keys) /\ Len(path) \in Nat \ {0}
      /\ problem.h[KeyOf(path)] \in Nat
      /\ F(path) = Len(path) - 1 + problem.h[KeyOf(path)]
    BY HeapNode
<1>2. \A i \in 1 .. Len(path) - 1 : path[i] \in memo
    BY <1>1 DEF OnHeap
<1>3. path[Len(path)] \notin memo
    BY DEF KeyOf
<1>4. \A i, j \in 1 .. Len(path) - 1 : path[i] = path[j] => i = j
    BY DEF ShortInv
<1>5. \A i, j \in 1 .. Len(path) : path[i] = path[j] => i = j
  <2>. SUFFICES ASSUME NEW i \in 1 .. Len(path), NEW j \in 1 .. Len(path), path[i] = path[j]
                PROVE  i = j
      OBVIOUS
  <2>1. CASE i = Len(path) \/ j = Len(path)
    <3>1. (i \in 1 .. Len(path) - 1 \/ i = Len(path)) /\ (j \in 1 .. Len(path) - 1 \/ j = Len(path))
        BY <1>1
    <3>. QED  BY <1>2, <1>3, <2>1, <3>1
  <2>2. CASE i # Len(path) /\ j # Len(path)
    <3>1. i \in 1 .. Len(path) - 1 /\ j \in 1 .. Len(path) - 1
        BY <1>1, <2>2
    <3>. QED  BY <1>4, <3>1
  <2>. QED  BY <2>1, <2>2
<1>6. ASSUME KeyOf(path) \in problem.solved
      PROVE  path \in Programs
  <2>1. IsProgram(path)
      BY <1>1, <1>6, PoppedIsProgram
  <2>2. problem.depth \in Nat /\ best \in 0 .. problem.depth /\ ~(F(path) >= best)
      BY AStarAssumption DEF IInv, TypeOK, TooLong
  <2>3. Len(path) \in 1 .. problem.depth
      BY <1>1, <2>2
  <2>4. path \in [1 .. Len(path) -> Keys]
      BY <1>1
  <2>. QED  BY <1>5, <2>1, <2>3, <2>4 DEF Programs
<1>. QED  BY <1>5, <1>6

\* A node leaves the heap that is cut off, or whose key is in the memo: the others
\* still surround the memo.
LEMMA SkipKeepsFrontier ==
    ASSUME IInv, Frontier, Skip
    PROVE  Frontier'
<1>1. PICK q \in heap : (TooLong(q) \/ KeyOf(q) \in memo) /\ heap' = heap \ {q}
    BY DEF Skip, Popped
<1>2. UNCHANGED <<problem, memo, best>>
    BY DEF Skip
<1>3. best \in Nat /\ problem \in Problems
    BY AStarAssumption DEF IInv, TypeOK
<1>. SUFFICES ASSUME NEW w \in Seq(Keys), NEW i \in 1 .. Len(w),
                     Walk(w), w[i] \notin memo, i = 1 \/ w[i - 1] \in memo, FAt(w, i) < best
              PROVE  \E path \in heap \ {q} : KeyOf(path) = w[i] /\ G(path) <= i - 1
    BY <1>1, <1>2 DEF Frontier, Walk, IsPath, FAt, KeyOf, G
<1>4. PICK path \in heap : KeyOf(path) = w[i] /\ G(path) <= i - 1
    BY DEF Frontier
<1>5. path # q
  <2>1. CASE KeyOf(q) \in memo
      BY <1>4, <2>1
  <2>2. CASE TooLong(q)
    <3>1. w[i] \in Keys /\ problem.h[w[i]] \in Nat
        BY <1>3, AStarAssumption
    <3>2. F(path) \in Nat /\ G(path) \in Nat /\ F(path) = G(path) + problem.h[w[i]]
        BY <1>4, HeapNode
    <3>3. F(path) <= FAt(w, i) /\ FAt(w, i) \in Nat
        BY <1>4, <3>1, <3>2 DEF FAt
    <3>. QED  BY <1>3, <2>2, <3>2, <3>3 DEF TooLong
  <2>. QED  BY <1>1, <2>1, <2>2
<1>. QED  BY <1>4, <1>5

\* When a key is expanded, no way to it is shorter than the node it is popped with:
\* the ways that go on from it are met by the children.
LEMMA ExpandKeepsFrontier ==
    ASSUME IInv, Frontier, Consistent, Expand
    PROVE  Frontier'
<1>1. PICK q \in heap :
          /\ Pop(q) /\ ~TooLong(q)
          /\ KeyOf(q) \notin memo /\ KeyOf(q) \notin problem.solved
          /\ heap' = (heap \ {q}) \union {Append(q, k) : k \in Near(q)}
          /\ memo' = memo \union {KeyOf(q)}
    BY DEF Expand, Popped, Recorded
<1>2. UNCHANGED <<problem, best>>
    BY DEF Expand
<1>3. best \in Nat /\ problem \in Problems
    BY AStarAssumption DEF IInv, TypeOK
<1>. SUFFICES ASSUME NEW w \in Seq(Keys), NEW i \in 1 .. Len(w),
                     Walk(w), w[i] \notin memo', i = 1 \/ w[i - 1] \in memo', FAt(w, i) < best
              PROVE  \E path \in heap' : KeyOf(path) = w[i] /\ G(path) <= i - 1
    BY <1>1, <1>2 DEF Frontier, Walk, IsPath, FAt, KeyOf, G
<1>4. w[i] \notin memo /\ w[i] # KeyOf(q)
    BY <1>1
<1>5. CASE i = 1 \/ w[i - 1] \in memo
  <2>1. PICK path \in heap : KeyOf(path) = w[i] /\ G(path) <= i - 1
      BY <1>4, <1>5 DEF Frontier
  <2>. QED  BY <1>1, <1>4, <2>1
<1>6. CASE i # 1 /\ w[i - 1] \notin memo
  <2>1. i - 1 \in 1 .. Len(w) /\ i - 1 \in 1 .. i /\ w[i - 1] = KeyOf(q)
      BY <1>1, <1>6
  <2>2. FAt(w, i - 1) <= FAt(w, i) /\ FAt(w, i - 1) \in Nat /\ FAt(w, i) \in Nat
      BY <1>3, <2>1, FGrows
  <2>3. FAt(w, i - 1) < best
      BY <1>3, <2>2
  <2>4. PICK path \in heap : F(path) <= FAt(w, i - 1)
      BY <1>6, <2>1, <2>3, FirstOpen
  <2>5. F(q) <= F(path) /\ F(path) \in Nat
      BY <1>1, <2>4, PoppedIsLeast, HeapNode
  <2>6. /\ q \in Seq(Keys) /\ Len(q) \in Nat \ {0} /\ problem.h[KeyOf(q)] \in Nat
        /\ F(q) = Len(q) - 1 + problem.h[KeyOf(q)] /\ OnHeap(q)
      BY HeapNode
  <2>7. Len(q) - 1 <= i - 2
      BY <2>1, <2>2, <2>4, <2>5, <2>6 DEF FAt
  <2>8. w[i] \in problem.succ[KeyOf(q)] /\ w[i] \in Keys
    <3>1. i - 1 \in 1 .. Len(w) - 1 /\ (i - 1) + 1 = i
        BY <2>1
    <3>. QED  BY <2>1, <3>1 DEF Walk, IsPath
  <2>9. problem.h[w[i]] \in Nat
      BY <1>3, <2>8, AStarAssumption
  <2>10. w[i] \in Near(q)
      BY <1>3, <2>6, <2>7, <2>8, <2>9, SMTT(20) DEF Near, FAt
  <2>11. Append(q, w[i]) \in heap'
      BY <1>1, <2>10
  <2>12. KeyOf(Append(q, w[i])) = w[i] /\ G(Append(q, w[i])) = Len(q)
      BY <2>6, <2>8 DEF KeyOf, G
  <2>. QED  BY <2>6, <2>7, <2>11, <2>12
<1>. QED  BY <1>5, <1>6

\* It is kept by every step of the search.
LEMMA StepShort == IInv /\ NothingBelowBest /\ ShortInv /\ [Next]_vars => ShortInv'
<1>. SUFFICES ASSUME IInv, NothingBelowBest, ShortInv, [Next]_vars PROVE ShortInv'
    OBVIOUS
<1>1. problem' = problem /\ Optimistic' = Optimistic /\ Programs' = Programs
  <2>1. problem' = problem
      BY DEF Next, Loop, Expire, Skip, Reject, Accept, Expand, Finish, vars
  <2>. QED  BY <2>1 DEF Optimistic, Consistent, Programs, IsProgram, IsPath, KeyOf
<1>2. ASSUME heap' \subseteq heap, UNCHANGED <<memo, best, answer>>,
             proven' => heap' = {}, timedOut' => ~running',
             Optimistic /\ answer = <<>> /\ ~timedOut' => Frontier'
      PROVE  ShortInv'
    BY <1>1, <1>2 DEF ShortInv, G
<1>3. CASE Expire
    BY <1>2, <1>3 DEF Expire, Popped, proven
<1>4. CASE Skip
  <2>1. /\ heap' \subseteq heap /\ UNCHANGED <<memo, best, answer, timedOut>> /\ running' /\ ~proven'
      BY <1>4 DEF Skip, Pop, Popped, proven
  <2>3. ~timedOut'
      BY <1>4 DEF Skip, Pop, ShortInv
  <2>2. Optimistic /\ answer = <<>> /\ ~timedOut => Frontier'
      BY <1>4, SkipKeepsFrontier DEF ShortInv
  <2>. QED  BY <1>2, <2>1, <2>2, <2>3
<1>5. CASE Reject
  <2>1. PICK path \in heap : /\ PopNew(path) /\ KeyOf(path) \in problem.solved
                             /\ path \notin problem.valid
      BY <1>5 DEF Reject
  <2>2. heap' \subseteq heap /\ UNCHANGED <<memo, best, answer, timedOut>> /\ ~proven' /\ ~timedOut'
      BY <1>5 DEF Reject, PopNew, Pop, Popped, proven, ShortInv
  <2>3. ~Optimistic
      BY <2>1, NewSolutionIsProgram DEF Optimistic, PopNew
  <2>. QED  BY <1>2, <2>2, <2>3
<1>6. CASE Accept
  <2>1. PICK path \in heap : /\ PopNew(path) /\ best' = G(path) /\ answer' = path
                             /\ KeyOf(path) \in problem.solved
      BY <1>6 DEF Accept
  <2>2. heap' \subseteq heap /\ UNCHANGED timedOut /\ ~proven' /\ answer' # <<>>
    <3>1. Len(path) # 0
        BY <2>1, HeapNode
    <3>. QED  BY <1>6, <2>1, <3>1 DEF Accept, PopNew, Pop, Popped, proven
  <2>3. answer = <<>> /\ ~timedOut
      BY <2>1 DEF NothingBelowBest, PopNew, Pop, TooLong, ShortInv
  <2>4. ASSUME Optimistic, NEW p \in Programs
        PROVE  best' <= G(p)
    <3>. DEFINE n == Len(p)
    <3>0. problem \in Problems
        BY DEF IInv
    <3>1. /\ Walk(p) /\ n \in 1 .. Len(p) /\ p[n] \in problem.solved
          /\ G(p) \in Nat /\ FAt(p, n) = G(p)
        BY <2>4, <3>0, ProgramIsWalk DEF Optimistic
    <3>2. /\ F(path) \in Nat /\ G(path) \in Nat /\ G(path) <= F(path) /\ best \in Nat
          /\ F(path) < best
      <4>1. problem.h[KeyOf(path)] \in Nat /\ F(path) = G(path) + problem.h[KeyOf(path)]
            /\ G(path) \in Nat
          BY HeapNode
      <4>2. best \in Nat
          BY <3>0, AStarAssumption DEF IInv, TypeOK
      <4>. QED  BY <2>1, <4>1, <4>2 DEF PopNew, TooLong
    <3>3. p[n] \notin memo /\ Frontier
        BY <2>3, <2>4, <3>1 DEF ShortInv
    <3>4. ASSUME G(p) < G(path)
          PROVE  FALSE
      <4>1. FAt(p, n) < best
          BY <3>1, <3>2, <3>4
      <4>2. PICK other \in heap : F(other) <= FAt(p, n)
          BY <2>4, <3>1, <3>3, <4>1, FirstOpen DEF Optimistic
      <4>3. F(path) <= F(other) /\ F(other) \in Nat
          BY <2>1, PoppedIsLeast, HeapNode DEF PopNew
      <4>. QED  BY <3>1, <3>2, <3>4, <4>2, <4>3
    <3>. QED  BY <2>1, <3>1, <3>2, <3>4
  <2>. QED  BY <1>1, <2>1, <2>2, <2>3, <2>4 DEF ShortInv, G
<1>7. CASE Expand
  <2>1. PICK q \in heap :
            /\ Pop(q) /\ ~TooLong(q) /\ KeyOf(q) \notin memo /\ KeyOf(q) \notin problem.solved
            /\ heap' = (heap \ {q}) \union {Append(q, k) : k \in Near(q)}
            /\ memo' = memo \union {KeyOf(q)}
      BY <1>7 DEF Expand, Popped, Recorded
  <2>2. UNCHANGED <<problem, best, answer, timedOut, running>> /\ running
      BY <1>7, <2>1 DEF Expand, Pop
  <2>3. answer = <<>>
      BY <2>1 DEF NothingBelowBest, TooLong
  <2>4. ASSUME NEW path \in heap', NEW i \in 1 .. Len(path) - 1, NEW j \in 1 .. Len(path) - 1,
               path[i] = path[j]
        PROVE  i = j
    <3>1. CASE path \in heap
        BY <2>4, <3>1 DEF ShortInv
    <3>2. CASE path \notin heap
      <4>1. PICK k \in Near(q) : path = Append(q, k)
          BY <2>1, <3>2
      <4>2. OnHeap(q) /\ problem \in Problems /\ k \in problem.succ[KeyOf(q)]
          BY <4>1, HeapNode DEF IInv, Near
      <4>3. Len(path) = Len(q) + 1 /\ \A n \in 1 .. Len(q) : path[n] = q[n]
          BY <4>1, <4>2, AppendIsPath
      <4>4. Len(q) \in Nat
          BY HeapNode
      <4>5. i \in 1 .. Len(q) /\ j \in 1 .. Len(q) /\ q[i] = q[j]
          BY <2>4, <4>3, <4>4
      <4>. QED  BY <2>1, <4>5, NewSolutionIsProgram
    <3>. QED  BY <3>1, <3>2
  <2>5. Optimistic /\ answer = <<>> /\ ~timedOut => Frontier'
      BY <1>7, ExpandKeepsFrontier DEF ShortInv, Optimistic
  <2>. QED  BY <1>1, <2>1, <2>2, <2>3, <2>4, <2>5 DEF ShortInv, proven
<1>8. CASE Finish
    BY <1>1, <1>8 DEF Finish, ShortInv, Frontier, Walk, IsPath, FAt, KeyOf, G
<1>9. CASE UNCHANGED vars
    BY <1>1, <1>9 DEF vars, ShortInv, proven, Frontier, Walk, IsPath, FAt, KeyOf, G
<1>. QED  BY <1>3, <1>4, <1>5, <1>6, <1>7, <1>8, <1>9 DEF Next, Loop

\* If every path is accepted and the heuristic is consistent, a search that ends in
\* time has found a shortest program, and none only if all are as long as the depth
\* limit: for every graph of goals, every consistent heuristic and every depth.
THEOREM AnswerIsShortest == Spec => []AnswerShortest
<1>1. IInv /\ ShortInv => AnswerShortest
  <2>. SUFFICES ASSUME IInv, ShortInv, proven, Optimistic, NEW p \in Programs
                PROVE  answer # <<>> /\ best <= G(p)
      BY DEF AnswerShortest, ShortestAnswer, Optimistic
  <2>1. CASE answer = <<>>
    <3>1. heap = {} /\ Frontier /\ memo \cap problem.solved = {}
        BY <2>1 DEF ShortInv, proven
    <3>2. problem \in Problems /\ best = problem.depth
        BY <2>1 DEF IInv, AnswerSound
    <3>3. /\ Walk(p) /\ Len(p) \in 1 .. Len(p) /\ p[Len(p)] \in problem.solved
          /\ FAt(p, Len(p)) < best
        BY <3>2, ProgramIsWalk DEF Optimistic
    <3>4. \E path \in heap : F(path) <= FAt(p, Len(p))
        BY <3>1, <3>3, FirstOpen DEF Optimistic
    <3>. QED  BY <3>1, <3>4
  <2>2. CASE answer # <<>>
      BY <2>2 DEF ShortInv
  <2>. QED  BY <2>1, <2>2
<1>2. Init => NothingBelowBest
    BY DEF Init, NothingBelowBest
<1>. QED  BY <1>1, <1>2, InitInv, StepInv, StepNothingBelow, InitShort, StepShort, PTL DEF Spec

-----------------------------------------------------------------------------
\* Keys of the memo in the order of their expansion: a parent comes first.
Ranks(rank) == \A k \in memo :
                   /\ rank[k] < Cardinality(memo)
                   /\ k \in DOMAIN parent => rank[parent[k]] < rank[k]

\* All keys but the exit goal have a parent once they are on the heap, and parents
\* lead back to the exit goal.
TraceInv ==
    /\ Root \notin DOMAIN parent
    /\ \A path \in heap : KeyOf(path) \in {Root} \union DOMAIN parent
    /\ memo \subseteq {Root} \union DOMAIN parent
    /\ TracedFromRoot
    /\ \E rank \in [Keys -> Nat] : Ranks(rank)

\* One more step of the loop over parent_map.
Up(s) == IF s[1] \in DOMAIN parent THEN <<parent[s[1]]>> \o s ELSE s

\* The recursion of Ancestors has a value, and it is that of the loop.
LEMMA AncestorsChain ==
    ASSUME IInv, NEW key \in Keys, NEW n \in Nat
    PROVE  \E c : /\ Ancestors(key, n) = c[n]
                  /\ c[0] = <<key>>
                  /\ \A i \in 1 .. n : c[i] = Up(c[i - 1])
<1>. DEFINE Chain(c) == c = [i \in 0 .. n |->
                IF i = 0 THEN <<key>>
                ELSE IF c[i - 1][1] \in DOMAIN parent
                     THEN <<parent[c[i - 1][1]]>> \o c[i - 1] ELSE c[i - 1]]
            A == Seq(Keys) \ {<<>>}
            a == <<key>>
            step == [i \in 1 .. n |-> [s \in A |-> Up(s)]]
<1>1. ASSUME NEW s \in A
      PROVE  Up(s) \in A
  <2>1. s[1] \in DOMAIN parent => parent[s[1]] \in Keys
      BY DEF IInv, TypeOK
  <2>2. CASE s[1] \in DOMAIN parent
    <3>1. <<parent[s[1]]>> \in Seq(Keys) /\ s \in Seq(Keys)
        BY <2>1, <2>2
    <3>2. <<parent[s[1]]>> \o s \in Seq(Keys) /\ Len(<<parent[s[1]]>> \o s) = Len(s) + 1
        BY <3>1
    <3>3. Len(s) \in Nat
        BY <3>1
    <3>. QED  BY <2>2, <3>2, <3>3 DEF Up
  <2>3. CASE s[1] \notin DOMAIN parent
      BY <2>3 DEF Up
  <2>. QED  BY <2>2, <2>3
<1>2. step \in [1 .. n -> [A -> A]] /\ a \in A
    BY <1>1
<1>3. PICK f : Iterates(f, n, A, a, step)
  <2>. HIDE DEF step, A, a
  <2>. QED  BY <1>2, IterationExists
<1>4. ASSUME NEW i \in 1 .. n
      PROVE  f[i] = Up(f[i - 1])
  <2>1. i - 1 \in 0 .. n
      OBVIOUS
  <2>2. f[i - 1] \in A
      BY <1>3, <2>1 DEF Iterates
  <2>. QED  BY <1>3, <2>2 DEF Iterates
<1>5. Chain(f)
  <2>1. \A i \in 0 .. n : i # 0 => i \in 1 .. n
      OBVIOUS
  <2>. QED  BY <1>3, <1>4, <2>1 DEF Up, Iterates
<1>6. PICK c : Chain(c) /\ Ancestors(key, n) = c[n]
  <2>. DEFINE d == CHOOSE g : Chain(g)
  <2>1. Chain(d)
    <3>. HIDE DEF Chain
    <3>. QED  BY <1>5, Zenon
  <2>2. Ancestors(key, n) = d[n]
      BY Zenon DEF Ancestors
  <2>. QED  BY <2>1, <2>2, Zenon
<1>7. c[0] = <<key>>
    BY <1>6
<1>8. ASSUME NEW i \in 1 .. n
      PROVE  c[i] = Up(c[i - 1])
  <2>1. i \in 0 .. n /\ i # 0
      OBVIOUS
  <2>2. c[i] = IF c[i - 1][1] \in DOMAIN parent
               THEN <<parent[c[i - 1][1]]>> \o c[i - 1] ELSE c[i - 1]
      BY <1>6, <2>1
  <2>. QED  BY <2>2 DEF Up
<1>. QED  BY <1>6, <1>7, <1>8

\* The ancestors of a key on the heap are a path from the exit goal to it.
LEMMA AncestorsFromRoot ==
    ASSUME IInv, TraceInv, NEW key \in {Root} \union DOMAIN parent, NEW t,
           t = Ancestors(key, Cardinality(Keys))
    PROVE  IsPath(t) /\ KeyOf(t) = key
<1>. DEFINE n == Cardinality(Keys)
<1>1. /\ n \in Nat /\ n # 0
      /\ Cardinality(memo) \in Nat /\ Cardinality(memo) <= n
  <2>1. IsFiniteSet(Keys) /\ Root \in Keys /\ memo \subseteq Keys
      BY AStarAssumption DEF IInv, TypeOK
  <2>. QED  BY <2>1, FS_Subset, FS_CardinalityType, FS_EmptySet
<1>2. PICK rank \in [Keys -> Nat] : Ranks(rank)
    BY DEF TraceInv
<1>3. /\ key \in Keys /\ DOMAIN parent \subseteq Keys /\ memo \subseteq Keys
      /\ \A k \in DOMAIN parent : parent[k] \in memo /\ k \in problem.succ[parent[k]]
    BY AStarAssumption DEF IInv, TypeOK
<1>4. PICK c : /\ Ancestors(key, n) = c[n]
               /\ c[0] = <<key>>
               /\ \A i \in 1 .. n : c[i] = Up(c[i - 1])
    BY <1>1, <1>3, AncestorsChain
<1>. DEFINE Good(s, i) ==
                /\ s \in Seq(Keys) /\ Len(s) > 0 /\ s[Len(s)] = key
                /\ \A j \in 1 .. Len(s) - 1 : s[j + 1] \in problem.succ[s[j]]
                /\ s[1] \in {Root} \union DOMAIN parent
                /\ \/ s[1] = Root \/ i = 0
                   \/ s[1] \in memo /\ rank[s[1]] + i <= Cardinality(memo)
            S == {i \in 0 .. n : Good(c[i], i)}
<1>5. 0 \in S
  <2>1. <<key>> \in Seq(Keys) /\ Len(<<key>>) = 1 /\ <<key>>[1] = key
      BY <1>3
  <2>2. Good(<<key>>, 0)
      BY <1>3, <2>1
  <2>. HIDE DEF Good
  <2>3. Good(c[0], 0)
      BY <1>4, <2>2
  <2>. QED  BY <1>1, <2>3
<1>6. ASSUME NEW i \in 0 .. n - 1, i \in S
      PROVE  i + 1 \in S
  <2>. DEFINE s == c[i]
              u == c[i + 1]
  <2>1. i + 1 \in 1 .. n /\ i + 1 \in 0 .. n /\ (i + 1) - 1 = i
      BY <1>1
  <2>2. u = Up(s)
      BY <1>4, <2>1
  <2>3. Good(s, i)
      BY <1>6
  <2>. HIDE DEF s, u
  <2>4. CASE s[1] \notin DOMAIN parent
    <3>1. u = s /\ s[1] = Root
        BY <2>2, <2>3, <2>4 DEF Up
    <3>2. Good(u, i + 1)
        BY <2>3, <3>1
    <3>. QED  BY <2>1, <3>2 DEF u
  <2>5. CASE s[1] \in DOMAIN parent
    <3>. DEFINE q == parent[s[1]]
    <3>1. q \in memo /\ q \in Keys /\ s[1] \in problem.succ[q]
        BY <1>3, <2>5
    <3>2. u = <<q>> \o s
        BY <2>2, <2>5 DEF Up
    <3>. HIDE DEF q
    <3>3. s \in Seq(Keys) /\ Len(s) \in Nat \ {0}
        BY <2>3
    <3>4. /\ u \in Seq(Keys) /\ Len(u) = Len(s) + 1 /\ u[1] = q
          /\ \A j \in 2 .. Len(u) : u[j] = s[j - 1]
        BY <3>1, <3>2, <3>3
    <3>5. u[Len(u)] = key /\ Len(u) > 0
        BY <2>3, <3>3, <3>4
    <3>6. ASSUME NEW j \in 1 .. Len(u) - 1
          PROVE  u[j + 1] \in problem.succ[u[j]]
      <4>1. j + 1 \in 2 .. Len(u) /\ u[j + 1] = s[j]
          BY <3>3, <3>4
      <4>2. CASE j = 1
          BY <3>1, <3>4, <4>1, <4>2
      <4>3. CASE j # 1
        <5>1. j \in 2 .. Len(u) /\ j - 1 \in 1 .. Len(s) - 1 /\ (j - 1) + 1 = j
            BY <3>3, <3>4, <4>3
        <5>2. u[j] = s[j - 1]
            BY <3>4, <5>1
        <5>3. s[(j - 1) + 1] \in problem.succ[s[j - 1]]
            BY <2>3, <5>1
        <5>. QED  BY <4>1, <5>1, <5>2, <5>3
      <4>. QED  BY <4>2, <4>3
    <3>7. q \in {Root} \union DOMAIN parent
        BY <3>1 DEF TraceInv
    <3>8. rank[q] + (i + 1) <= Cardinality(memo)
      <4>1. rank[q] \in Nat /\ rank[q] < Cardinality(memo)
          BY <1>2, <3>1 DEF Ranks
      <4>2. CASE i = 0
          BY <1>1, <4>1, <4>2
      <4>3. CASE i # 0
        <5>1. s[1] \in memo /\ rank[s[1]] + i <= Cardinality(memo) /\ rank[s[1]] \in Nat
            BY <1>3, <2>3, <2>5, <4>3 DEF TraceInv
        <5>2. rank[q] < rank[s[1]]
            BY <1>2, <2>5, <5>1 DEF Ranks, q
        <5>. QED  BY <1>1, <4>1, <5>1, <5>2
      <4>. QED  BY <4>2, <4>3
    <3>9. Good(u, i + 1)
        BY <3>1, <3>4, <3>5, <3>6, <3>7, <3>8
    <3>. QED  BY <2>1, <3>9 DEF u
  <2>. QED  BY <2>4, <2>5
<1>7. Good(c[n], n)
  <2>. HIDE DEF Good, n
  <2>1. \A i \in 0 .. n - 1 : i \in S => i + 1 \in S
      BY <1>6
  <2>2. n \in S
    <3>. HIDE DEF S
    <3>1. \A i \in 0 .. n : i \in S
        BY <1>1, <1>5, <2>1, UpTo
    <3>. QED  BY <1>1, <3>1
  <2>. QED  BY <2>2
<1>8. c[n][1] = Root
  <2>. SUFFICES ASSUME c[n][1] # Root PROVE FALSE
      OBVIOUS
  <2>. DEFINE top == c[n][1]
  <2>1. top \in memo /\ top \in DOMAIN parent /\ rank[top] + n <= Cardinality(memo)
      BY <1>1, <1>7
  <2>2. rank[top] \in Nat /\ rank[parent[top]] \in Nat /\ rank[parent[top]] < rank[top]
      BY <1>2, <1>3, <2>1 DEF Ranks
  <2>. QED  BY <1>1, <2>1, <2>2
<1>. QED  BY <1>4, <1>7, <1>8 DEF IsPath, KeyOf

\* The invariant behind the reconstruction holds of the initial state.
LEMMA InitTrace == Init => TraceInv
<1>. SUFFICES ASSUME Init PROVE TraceInv
    OBVIOUS
<1>1. DOMAIN parent = {} /\ heap = {<<Root>>} /\ memo = {} /\ answer = <<>>
    BY DEF Init
<1>2. KeyOf(<<Root>>) = Root
    BY DEF KeyOf
<1>3. Ranks([k \in Keys |-> 0])
    BY <1>1 DEF Ranks
<1>. QED  BY <1>1, <1>2, <1>3 DEF TraceInv, TracedFromRoot

\* A key that enters the memo is the last one in the order.
LEMMA NewRank ==
    ASSUME IInv, \E rank \in [Keys -> Nat] : Ranks(rank), NEW key \in Keys, key \notin memo,
           memo' = memo \union {key},
           \A k \in memo' : /\ k \in DOMAIN parent' => k \in DOMAIN parent
                            /\ k \in DOMAIN parent => parent'[k] = parent[k]
    PROVE  \E rank \in [Keys -> Nat] : Ranks(rank)'
<1>1. PICK rank \in [Keys -> Nat] : Ranks(rank)
    OBVIOUS
<1>2. memo \subseteq Keys /\ \A k \in DOMAIN parent : parent[k] \in memo
    BY DEF IInv, TypeOK
<1>3. Cardinality(memo) \in Nat /\ Cardinality(memo') = Cardinality(memo) + 1
  <2>1. IsFiniteSet(memo)
      BY <1>2, AStarAssumption, FS_Subset
  <2>. QED  BY <2>1, FS_CardinalityType, FS_AddElement
<1>4. PICK next \in [Keys -> Nat] : next = [rank EXCEPT ![key] = Cardinality(memo)]
    BY <1>3
<1>5. ASSUME NEW k \in memo'
      PROVE  /\ next[k] < Cardinality(memo')
             /\ k \in DOMAIN parent' => next[parent'[k]] < next[k]
  <2>1. k \in DOMAIN parent' => /\ k \in DOMAIN parent /\ parent'[k] = parent[k]
                                /\ parent[k] \in memo /\ parent[k] \in Keys
                                /\ next[parent[k]] = rank[parent[k]]
                                /\ rank[parent[k]] \in Nat /\ rank[parent[k]] < Cardinality(memo)
      BY <1>1, <1>2, <1>4 DEF Ranks
  <2>2. CASE k = key
      BY <1>3, <1>4, <2>1, <2>2
  <2>3. CASE k # key
    <3>1. k \in memo /\ next[k] = rank[k] /\ rank[k] \in Nat /\ rank[k] < Cardinality(memo)
        BY <1>1, <1>2, <1>4, <2>3 DEF Ranks
    <3>. QED  BY <1>1, <1>3, <2>1, <3>1 DEF Ranks
  <2>. QED  BY <2>2, <2>3
<1>6. Ranks(next)'
    BY <1>5 DEF Ranks
<1>. QED  BY <1>4, <1>6

\* It is kept by every step of the search.
LEMMA StepTrace == IInv /\ TraceInv /\ [Next]_vars => TraceInv'
<1>. SUFFICES ASSUME IInv, TraceInv, [Next]_vars PROVE TraceInv'
    OBVIOUS
<1>1. ASSUME heap' \subseteq heap, UNCHANGED <<problem, memo, parent, answer, traced>>
      PROVE  TraceInv'
    BY <1>1 DEF TraceInv, TracedFromRoot, Ranks, IsPath, KeyOf
<1>2. CASE Expire \/ Skip \/ Reject \/ Finish
    BY <1>1, <1>2 DEF Expire, Skip, Reject, PopNew, Popped, Finish
<1>3. CASE Accept
  <2>1. PICK path \in heap :
            /\ KeyOf(path) \notin memo /\ answer' = path
            /\ traced' = Ancestors(KeyOf(path), Cardinality(Keys))
            /\ memo' = memo \union {KeyOf(path)}
            /\ heap' \subseteq heap
      BY <1>3 DEF Accept, PopNew, Popped
  <2>2. UNCHANGED <<problem, parent>>
      BY <1>3 DEF Accept
  <2>3. KeyOf(path) \in Keys /\ KeyOf(path) \in {Root} \union DOMAIN parent
      BY HeapNode DEF TraceInv
  <2>4. IsPath(traced') /\ KeyOf(traced') = KeyOf(path)
      BY <2>1, <2>3, AncestorsFromRoot
  <2>5. \E rank \in [Keys -> Nat] : Ranks(rank)'
      BY <2>1, <2>2, <2>3, NewRank DEF TraceInv
  <2>6. TracedFromRoot'
      BY <2>1, <2>2, <2>4 DEF TracedFromRoot, IsPath, KeyOf
  <2>. QED  BY <2>1, <2>2, <2>3, <2>5, <2>6 DEF TraceInv, KeyOf
<1>4. CASE Expand
  <2>1. PICK q \in heap :
            /\ KeyOf(q) \notin memo
            /\ heap' = (heap \ {q}) \union {Append(q, k) : k \in Near(q)}
            /\ memo' = memo \union {KeyOf(q)}
            /\ parent' = [k \in DOMAIN parent \union Adopted(q) |->
                              IF k \in DOMAIN parent THEN parent[k] ELSE KeyOf(q)]
      BY <1>4 DEF Expand, Popped, Recorded
  <2>2. UNCHANGED <<problem, answer, traced>>
      BY <1>4 DEF Expand
  <2>3. /\ KeyOf(q) \in Keys /\ KeyOf(q) \in {Root} \union DOMAIN parent
        /\ OnHeap(q) /\ q \in Seq(Keys) /\ Len(q) \in Nat \ {0}
      BY HeapNode DEF TraceInv
  <2>4. Root \in memo'
    <3>1. q[1] = Root
        BY <2>3 DEF OnHeap, IsPath
    <3>2. CASE Len(q) = 1
        BY <2>1, <3>1, <3>2 DEF KeyOf
    <3>3. CASE Len(q) # 1
      <4>1. 1 \in 1 .. Len(q) - 1
        <5>1. \A n \in Nat \ {0} : n # 1 => 1 \in 1 .. n - 1
            OBVIOUS
        <5>. QED  BY <2>3, <3>3, <5>1
      <4>. QED  BY <2>1, <2>3, <3>1, <4>1 DEF OnHeap
    <3>. QED  BY <3>2, <3>3
  <2>5. Adopted(q) = Near(q) \ (DOMAIN parent \union memo')
      BY <2>1 DEF Adopted
  <2>6. DOMAIN parent' = DOMAIN parent \union Adopted(q)
      BY <2>1
  <2>7. Root \notin DOMAIN parent'
      BY <2>4, <2>5, <2>6 DEF TraceInv
  <2>8. memo' \subseteq {Root} \union DOMAIN parent'
      BY <2>1, <2>3, <2>6 DEF TraceInv
  <2>9. ASSUME NEW path \in heap'
        PROVE  KeyOf(path) \in {Root} \union DOMAIN parent'
    <3>1. CASE path \in heap
        BY <2>6, <3>1 DEF TraceInv
    <3>2. CASE path \notin heap
      <4>1. PICK k \in Near(q) : path = Append(q, k)
          BY <2>1, <3>2
      <4>2. k \in Keys /\ KeyOf(path) = k
        <5>1. problem \in Problems /\ k \in problem.succ[KeyOf(q)]
            BY <4>1 DEF IInv, Near
        <5>2. k \in Keys
            BY <2>3, <5>1, AppendIsPath
        <5>. QED  BY <2>3, <4>1, <5>2 DEF KeyOf
      <4>. QED  BY <2>5, <2>6, <2>8, <4>1, <4>2
    <3>. QED  BY <3>1, <3>2
  <2>10. \E rank \in [Keys -> Nat] : Ranks(rank)'
    <3>1. \A k \in memo' : /\ k \in DOMAIN parent' => k \in DOMAIN parent
                           /\ k \in DOMAIN parent => parent'[k] = parent[k]
        BY <2>1, <2>5, <2>6
    <3>. QED  BY <2>1, <2>3, <3>1, NewRank DEF TraceInv
  <2>11. TracedFromRoot'
      BY <2>2 DEF TraceInv, TracedFromRoot, IsPath, KeyOf
  <2>. QED  BY <2>7, <2>8, <2>9, <2>10, <2>11 DEF TraceInv, KeyOf
<1>5. CASE UNCHANGED vars
    BY <1>1, <1>5 DEF vars
<1>. QED  BY <1>2, <1>3, <1>4, <1>5 DEF Next, Loop

\* The path drawn for the answer runs from the exit goal to the answer's goal, over
\* edges of the graph: every goal's parent was expanded before it, and the exit goal
\* never gets one, so that the loop over parent_map ends there.
THEOREM TracedIsPath == Spec => []TracedFromRoot
<1>1. TraceInv => TracedFromRoot
    BY DEF TraceInv
<1>. QED  BY <1>1, InitInv, StepInv, InitTrace, StepTrace, PTL DEF Spec

=============================================================================
