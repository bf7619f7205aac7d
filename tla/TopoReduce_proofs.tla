-------------------------- MODULE TopoReduce_proofs --------------------------
(***************************************************************************)
(* Proofs about modules Reduction and TopoReduce, for every number of      *)
(* instructions and every list of dependencies between them: Kahn's sort   *)
(* places every node, and the reduction keeps the order and drops all it   *)
(* can.                                                                    *)
(***************************************************************************)
EXTENDS TopoReduce, Induction, FiniteSetTheorems

-----------------------------------------------------------------------------
(* The closure is the least transitive relation around the edges *)

Transitive(R) == \A a, b, c : <<a, b>> \in R /\ <<b, c>> \in R => <<a, c>> \in R

\* Edges are pairs of nodes, and there are finitely many nodes.
Graph(E) == IsFiniteSet(NodesOf(E)) /\ E \subseteq NodesOf(E) \X NodesOf(E)

\* One round of the closure: paths through k as well.
Through(R, k) == R \union (Predecessors(R, k) \X Successors(R, k))

\* Neighbours are the other ends of the edges.
LEMMA Neighbours ==
    ASSUME NEW N, NEW R, R \subseteq N \X N, NEW a, NEW b
    PROVE  /\ b \in Successors(R, a) <=> <<a, b>> \in R
           /\ a \in Predecessors(R, b) <=> <<a, b>> \in R
BY DEF Successors, Predecessors

Pick(s) == CHOOSE x \in s : TRUE

Rounds(iter, E, N) ==
    iter = [s \in SUBSET N |-> IF s = {} THEN E ELSE Through(iter[s \ {Pick(s)}], Pick(s))]

\* The fold of Closure, once it is known that its recursion has a solution.
LEMMA ClosureIsRounds ==
    ASSUME NEW E, \E f : Rounds(f, E, NodesOf(E))
    PROVE  \E f : Rounds(f, E, NodesOf(E)) /\ Closure(E) = f[NodesOf(E)]
<1>. DEFINE f == CHOOSE g : Rounds(g, E, NodesOf(E))
<1>1. Rounds(f, E, NodesOf(E))
    BY Zenon
<1>2. Closure(E) = f[NodesOf(E)]
    BY Zenon DEF Closure, FoldSet, MapThenFoldSet, Rounds, Through, Pick
<1>. QED  BY <1>1, <1>2, Zenon

\* That recursion has a solution.
LEMMA RoundsExist ==
    ASSUME NEW N, IsFiniteSet(N), NEW E \in SUBSET (N \X N)
    PROVE  \E f : Rounds(f, E, N)
<1>. DEFINE A == SUBSET (N \X N)
            step == [k \in N |-> [R \in A |-> Through(R, k)]]
            pick == [s \in SUBSET N |-> Pick(s)]
<1>1. Picks(pick, N)
    BY DEF Picks, Pick
<1>2. step \in [N -> [A -> A]]
    BY DEF Through, Predecessors, Successors
<1>3. PICK f : Folds(f, N, A, E, step, pick)
  <2>. HIDE DEF step, pick
  <2>. QED  BY <1>1, <1>2, FoldExists
<1>4. ASSUME NEW s \in SUBSET N
      PROVE  f[s] = IF s = {} THEN E ELSE Through(f[s \ {Pick(s)}], Pick(s))
  <2>1. CASE s = {}
      BY <1>3, <2>1 DEF Folds
  <2>2. CASE s # {}
    <3>1. f[s] = step[Pick(s)][f[s \ {Pick(s)}]] /\ Pick(s) \in N
        BY <1>1, <1>3, <2>2 DEF Folds, Picks
    <3>2. f[s \ {Pick(s)}] \in A
        BY <1>3 DEF Folds
    <3>. QED  BY <2>2, <3>1, <3>2
  <2>. QED  BY <2>1, <2>2
<1>5. f \in [SUBSET N -> A]
    BY <1>3 DEF Folds
<1>. HIDE DEF A
<1>6. Rounds(f, E, N)
    BY <1>4, <1>5 DEF Rounds
<1>. QED  BY <1>6

\* Paths through k keep what is transitive through others, and add k.
TransitiveAt(R, k) == \A a, b : <<a, k>> \in R /\ <<k, b>> \in R => <<a, b>> \in R

\* One round of the closure, through the node k.
LEMMA ThroughOneMore ==
    ASSUME NEW N, NEW R \in SUBSET (N \X N), NEW k \in N
    PROVE  /\ Through(R, k) \in SUBSET (N \X N)
           /\ R \subseteq Through(R, k)
           /\ TransitiveAt(Through(R, k), k)
           /\ \A j : TransitiveAt(R, j) => TransitiveAt(Through(R, k), j)
           /\ \A T : R \subseteq T /\ Transitive(T) => Through(R, k) \subseteq T
<1>1. \A a, b : <<a, b>> \in Through(R, k) <=> \/ <<a, b>> \in R
                                               \/ <<a, k>> \in R /\ <<k, b>> \in R
    BY Neighbours DEF Through
<1>2. Through(R, k) \in SUBSET (N \X N) /\ R \subseteq Through(R, k)
    BY DEF Through, Predecessors, Successors
<1>3. TransitiveAt(Through(R, k), k)
    BY <1>1 DEF TransitiveAt
<1>4. \A j : TransitiveAt(R, j) => TransitiveAt(Through(R, k), j)
    BY <1>1 DEF TransitiveAt
<1>5. ASSUME NEW T, R \subseteq T, Transitive(T)
      PROVE  Through(R, k) \subseteq T
  <2>1. \A a, b : <<a, b>> \in Through(R, k) => <<a, b>> \in T
      BY <1>1, <1>5 DEF Transitive
  <2>. QED  BY <1>2, <2>1
<1>. QED  BY <1>2, <1>3, <1>4, <1>5

\* Closure is the least transitive relation around the edges.
LEMMA ClosureIsLeast ==
    ASSUME NEW E, Graph(E)
    PROVE  /\ E \subseteq Closure(E)
           /\ Closure(E) \subseteq NodesOf(E) \X NodesOf(E)
           /\ Transitive(Closure(E))
           /\ \A T : E \subseteq T /\ Transitive(T) => Closure(E) \subseteq T
<1>. DEFINE N == NodesOf(E)
<1>1. IsFiniteSet(N) /\ E \in SUBSET (N \X N)
    BY DEF Graph
<1>2. PICK f : Rounds(f, E, N) /\ Closure(E) = f[N]
  <2>. HIDE DEF N
  <2>1. \E f : Rounds(f, E, N)
      BY <1>1, RoundsExist, Zenon
  <2>. QED  BY <2>1, ClosureIsRounds, Zenon DEF N
<1>. HIDE DEF N
<1>. DEFINE pick == [s \in SUBSET N |-> Pick(s)]
<1>. DEFINE Good(s) == /\ f[s] \in SUBSET (N \X N)
                       /\ E \subseteq f[s]
                       /\ \A k \in s : TransitiveAt(f[s], k)
                       /\ \A T : E \subseteq T /\ Transitive(T) => f[s] \subseteq T
            C == {s \in SUBSET N : Good(s)}
<1>3. {} \in C
  <2>1. f[{}] = E
      BY <1>2 DEF Rounds
  <2>. QED  BY <1>1, <2>1
<1>4. ASSUME NEW s \in SUBSET N, s # {}, s \ {Pick(s)} \in C
      PROVE  s \in C
  <2>. DEFINE R == f[s \ {Pick(s)}]
  <2>1. Pick(s) \in s
      BY <1>4 DEF Pick
  <2>2. f[s] = Through(R, Pick(s))
      BY <1>2, <1>4 DEF Rounds
  <2>3. Good(s \ {Pick(s)})
      BY <1>4
  <2>4. R \in SUBSET (N \X N) /\ Pick(s) \in N
      BY <2>1, <2>3
  <2>. HIDE DEF R
  <2>5. /\ Through(R, Pick(s)) \in SUBSET (N \X N)
        /\ R \subseteq Through(R, Pick(s))
        /\ TransitiveAt(Through(R, Pick(s)), Pick(s))
        /\ \A j : TransitiveAt(R, j) => TransitiveAt(Through(R, Pick(s)), j)
        /\ \A T : R \subseteq T /\ Transitive(T) => Through(R, Pick(s)) \subseteq T
      BY <2>4, ThroughOneMore
  <2>6. \A k \in s : TransitiveAt(f[s], k)
      BY <2>2, <2>3, <2>5 DEF R
  <2>7. ASSUME NEW T, E \subseteq T, Transitive(T)
        PROVE  f[s] \subseteq T
    <3>1. R \subseteq T
        BY <2>3, <2>7 DEF R
    <3>. QED  BY <2>2, <2>5, <2>7, <3>1
  <2>8. f[s] \in SUBSET (N \X N) /\ E \subseteq f[s]
      BY <2>2, <2>3, <2>5 DEF R
  <2>9. Good(s)
      BY <2>6, <2>7, <2>8
  <2>. QED  BY <2>9
<1>5. N \in C
  <2>. HIDE DEF C
  <2>1. \A s \in SUBSET N : s # {} /\ s \ {pick[s]} \in C => s \in C
      BY <1>4
  <2>2. Picks(pick, N)
      BY DEF Picks, Pick
  <2>. HIDE DEF pick
  <2>. QED  BY <1>1, <1>3, <2>1, <2>2, OneByOne
<1>6. Good(N)
    BY <1>5
<1>7. Transitive(f[N])
  <2>. SUFFICES ASSUME NEW a, NEW b, NEW c, <<a, b>> \in f[N], <<b, c>> \in f[N]
                PROVE  <<a, c>> \in f[N]
      BY DEF Transitive
  <2>1. b \in N
      BY <1>6
  <2>. QED  BY <1>6, <2>1 DEF TransitiveAt
<1>. QED  BY <1>2, <1>6, <1>7 DEF N

\* A pair in order is an edge, or an edge and a pair in order.
LEMMA FirstStep ==
    ASSUME NEW E, Graph(E), NEW a, NEW b
    PROVE  <<a, b>> \in Closure(E) <=> \/ <<a, b>> \in E
                                       \/ \E c : <<a, c>> \in E /\ <<c, b>> \in Closure(E)
<1>. DEFINE O == Closure(E)
            T == {p \in O : p \in E \/ \E c : <<p[1], c>> \in E /\ <<c, p[2]>> \in O}
<1>1. E \subseteq O /\ Transitive(O) /\ \A R : E \subseteq R /\ Transitive(R) => O \subseteq R
    BY ClosureIsLeast
<1>. HIDE DEF O
<1>2. ASSUME NEW x, NEW y, NEW z, <<x, y>> \in T, <<y, z>> \in T
      PROVE  <<x, z>> \in T
  <2>1. <<x, y>> \in O /\ <<y, z>> \in O /\ <<x, z>> \in O
      BY <1>1, <1>2 DEF Transitive
  <2>2. \E c : <<x, c>> \in E /\ <<c, z>> \in O
    <3>1. CASE <<x, y>> \in E
        BY <2>1, <3>1
    <3>2. CASE <<x, y>> \notin E
      <4>1. PICK c : <<x, c>> \in E /\ <<c, y>> \in O
          BY <1>2, <3>2
      <4>. QED  BY <1>1, <2>1, <4>1 DEF Transitive
    <3>. QED  BY <3>1, <3>2
  <2>. QED  BY <2>1, <2>2
<1>3. Transitive(T) /\ E \subseteq T
    BY <1>1, <1>2 DEF Transitive
<1>4. O \subseteq T
    BY <1>1, <1>3
<1>5. ASSUME NEW c, <<a, c>> \in E, <<c, b>> \in O
      PROVE  <<a, b>> \in O
    BY <1>1, <1>5 DEF Transitive
<1>. QED  BY <1>1, <1>4, <1>5 DEF O

-----------------------------------------------------------------------------
(* The reduction of a list *)

\* What compute_dependencies lists: pairs of positions, the smaller one first.
Pairs(m) == {p \in (1 .. m) \X (1 .. m) : p[1] < p[2]}

\* A list of dependencies is a finite graph over the positions.
LEMMA ListIsGraph ==
    ASSUME NEW m \in Nat, NEW E \in SUBSET Pairs(m)
    PROVE  /\ Graph(E)
           /\ NodesOf(E) \subseteq 1 .. m
           /\ IsFiniteSet(E)
<1>1. IsFiniteSet(1 .. m)
    BY FS_Interval
<1>2. IsFiniteSet((1 .. m) \X (1 .. m))
    BY <1>1, FS_Product
<1>3. E \subseteq (1 .. m) \X (1 .. m)
    BY DEF Pairs
<1>4. NodesOf(E) \subseteq 1 .. m /\ E \subseteq NodesOf(E) \X NodesOf(E)
    BY <1>3 DEF NodesOf
<1>. QED  BY <1>1, <1>2, <1>3, <1>4, FS_Subset DEF Graph

\* The order of a list is that of the positions.
LEMMA ClosureGoesUp ==
    ASSUME NEW m \in Nat, NEW E \in SUBSET Pairs(m)
    PROVE  Closure(E) \subseteq Pairs(m)
<1>1. Transitive(Pairs(m))
    BY DEF Transitive, Pairs
<1>. QED  BY <1>1, ListIsGraph, ClosureIsLeast

\* A smaller list orders no more.
LEMMA ClosureGrows ==
    ASSUME NEW E, Graph(E), NEW F, F \subseteq E, Graph(F)
    PROVE  Closure(F) \subseteq Closure(E)
<1>1. E \subseteq Closure(E) /\ Transitive(Closure(E))
    BY ClosureIsLeast
<1>2. F \subseteq Closure(E)
    BY <1>1
<1>. QED  BY <1>1, <1>2, ClosureIsLeast

\* The reduced list puts in order what the list does.
LEMMA ReductionKeepsOrder ==
    ASSUME NEW m \in Nat, NEW E \in SUBSET Pairs(m)
    PROVE  Closure(Reduced(E)) = Closure(E)
<1>. DEFINE R == Reduced(E)
            O == Closure(E)
            Missing == O \ Closure(R)
            Gaps == {p[2] - p[1] : p \in Missing}
<1>1. R \in SUBSET Pairs(m) /\ R \subseteq E
    BY DEF Reduced
<1>2. Graph(E) /\ Graph(R)
    BY <1>1, ListIsGraph
<1>3. R \subseteq Closure(R) /\ Transitive(Closure(R)) /\ Closure(R) \subseteq O
    BY <1>1, <1>2, ClosureIsLeast, ClosureGrows
<1>4. O \subseteq Pairs(m)
    BY ClosureGoesUp
<1>5. ASSUME NEW p \in Missing
      PROVE  \E q \in Missing : q[2] - q[1] < p[2] - p[1]
  <2>1. p \in O /\ p \notin R /\ p = <<p[1], p[2]>>
      BY <1>3, <1>4 DEF Pairs
  <2>2. PICK c : <<p[1], c>> \in E /\ <<c, p[2]>> \in O
    <3>1. CASE p \in E
      <4>1. PICK d \in Successors(E, p[1]) \ {p[2]} : <<d, p[2]>> \in O
          BY <2>1, <3>1 DEF Reduced
      <4>2. <<p[1], d>> \in E
          BY <1>2, <4>1, Neighbours DEF Graph
      <4>. QED  BY <4>1, <4>2
    <3>2. CASE p \notin E
      <4>1. <<p[1], p[2]>> \in Closure(E) /\ <<p[1], p[2]>> \notin E
          BY <2>1, <3>2, Zenon
      <4>2. \E c : <<p[1], c>> \in E /\ <<c, p[2]>> \in Closure(E)
        <5>. HIDE DEF R, O, Missing, Gaps
        <5>. QED  BY <1>2, <4>1, FirstStep, Zenon
      <4>. QED  BY <4>2
    <3>. QED  BY <3>1, <3>2
  <2>3. <<p[1], c>> \in O
      BY <1>2, <2>2, ClosureIsLeast
  <2>4. <<p[1], c>> \in Missing \/ <<c, p[2]>> \in Missing
    <3>. SUFFICES ASSUME <<p[1], c>> \in Closure(R), <<c, p[2]>> \in Closure(R)
                  PROVE  FALSE
        BY <2>2, <2>3
    <3>. QED  BY <1>3, <2>1 DEF Transitive
  <2>5. p[1] < c /\ c < p[2] /\ p[1] \in Nat /\ c \in Nat /\ p[2] \in Nat
      BY <1>4, <2>2, <2>3 DEF Pairs
  <2>. QED  BY <2>4, <2>5
<1>6. Missing = {}
  <2>. SUFFICES ASSUME Missing # {} PROVE FALSE
      OBVIOUS
  <2>1. Gaps \subseteq Nat
      BY <1>4 DEF Pairs
  <2>2. Gaps # {}
      OBVIOUS
  <2>3. PICK g \in Gaps : \A h \in Gaps : g <= h
    <3>. HIDE DEF Gaps
    <3>. QED  BY <2>1, <2>2, LeastNumber
  <2>4. PICK p \in Missing : g = p[2] - p[1]
      OBVIOUS
  <2>5. PICK q \in Missing : q[2] - q[1] < p[2] - p[1]
      BY <1>5
  <2>6. q[2] - q[1] \in Gaps
      OBVIOUS
  <2>7. g <= q[2] - q[1] /\ g \in Nat /\ q[2] - q[1] \in Nat
      BY <2>1, <2>3, <2>6
  <2>. QED  BY <2>4, <2>5, <2>7
<1>. QED  BY <1>3, <1>6

\* Every pair the reduced list keeps is needed.
LEMMA ReductionKeepsNoMore ==
    ASSUME NEW m \in Nat, NEW E \in SUBSET Pairs(m), NEW e \in Reduced(E)
    PROVE  e \notin Closure(Reduced(E) \ {e})
<1>. DEFINE R == Reduced(E) \ {e}
<1>1. R \in SUBSET Pairs(m) /\ R \subseteq E /\ e \in E
    BY DEF Reduced
<1>2. Graph(E) /\ Graph(R)
    BY <1>1, ListIsGraph
<1>3. Closure(R) \subseteq Closure(E)
    BY <1>1, <1>2, ClosureGrows
<1>4. e = <<e[1], e[2]>> /\ e \notin R
    BY <1>1 DEF Pairs
<1>. SUFFICES ASSUME e \in Closure(R) PROVE FALSE
    OBVIOUS
<1>5. PICK c : <<e[1], c>> \in R /\ <<c, e[2]>> \in Closure(R)
  <2>1. <<e[1], e[2]>> \in Closure(R) /\ <<e[1], e[2]>> \notin R
      BY <1>4, Zenon
  <2>. HIDE DEF R
  <2>. QED  BY <1>2, <2>1, FirstStep, Zenon
<1>6. c # e[2]
    BY <1>4, <1>5
<1>7. c \in Successors(E, e[1])
    BY <1>1, <1>2, <1>5, Neighbours DEF Graph
<1>. QED  BY <1>3, <1>5, <1>6, <1>7 DEF Reduced

\* A list of at most one pair is its own reduction.
LEMMA ShortListStays ==
    ASSUME NEW m \in Nat, NEW E \in SUBSET Pairs(m), Cardinality(E) <= 1
    PROVE  Reduced(E) = E
<1>1. IsFiniteSet(E) /\ Graph(E) /\ Cardinality(E) \in Nat
    BY ListIsGraph, FS_CardinalityType
<1>2. \A e, f \in E : e = f
  <2>1. CASE Cardinality(E) = 0
      BY <1>1, <2>1, FS_EmptySet
  <2>2. CASE Cardinality(E) = 1
      BY <1>1, <2>2, FS_Singleton
  <2>. QED  BY <1>1, <2>1, <2>2
<1>3. \A e \in E : Successors(E, e[1]) \ {e[2]} = {}
    BY <1>2 DEF Successors
<1>. QED  BY <1>3 DEF Reduced

-----------------------------------------------------------------------------
(* The state of Kahn's sort *)

Handled == {queue[i] : i \in 1 .. qi - 1}

\* Pairs with head v that the sort has yet to relax: their tail is still in the
\* queue or not in it yet, or is the node just dequeued and v is yet to be visited.
Waiting(v) == {e \in deps : /\ e[2] = v
                            /\ \/ e[1] \notin Handled
                               \/ qi > 1 /\ e[1] = queue[qi - 1] /\ v \in pending}

Queued(v) == \E i \in DOMAIN queue : queue[i] = v

TypeInv == /\ deps \in SUBSET Pairs(MaxNode)
           /\ phase \in {"start", "sort", "reach", "done"}
           /\ DOMAIN indeg = Nodes
           /\ queue \in Seq(Nodes)
           /\ qi \in 1 .. Len(queue) + 1
           /\ left \in 0 .. Len(queue)
           /\ DOMAIN reach = Nodes

\* No node is queued twice, and none before its predecessors are handled.
QueueInv == /\ \A i, j \in DOMAIN queue : queue[i] = queue[j] => i = j
            /\ \A j \in DOMAIN queue : \A e \in deps :
                   e[2] = queue[j] => \E i \in 1 .. j - 1 : queue[i] = e[1]
            /\ phase = "reach" => \A v \in Nodes : Queued(v)

\* The in-degrees count what is yet to be relaxed, and a node is queued when
\* nothing is.
CountInv == /\ pending # {} => qi > 1 /\ pending \subseteq Succ(queue[qi - 1])
            /\ \A v \in Nodes : indeg[v] = Cardinality(Waiting(v))
            /\ \A v \in Nodes : Queued(v) <=> Waiting(v) = {}

\* A node that has been visited reaches what the closure puts after it.
ReachInv == phase = "reach" =>
    \A i \in left + 1 .. Len(queue) :
        reach[queue[i]] = {v \in Nodes : <<queue[i], v>> \in Closure(deps)}

KeptInv == phase = "done" => kept = Reduced(deps)

Inv == TypeInv /\ QueueInv /\ CountInv /\ ReachInv /\ KeptInv

\* What the types say of the graph being sorted and reduced.
LEMMA TypeFacts ==
    ASSUME TypeInv
    PROVE  /\ Graph(deps)
           /\ IsFiniteSet(deps)
           /\ Nodes \subseteq 1 .. MaxNode
           /\ IsFiniteSet(Nodes)
           /\ MaxNode \in Nat
           /\ \A e \in deps : e = <<e[1], e[2]>> /\ e[1] \in Nodes /\ e[2] \in Nodes
           /\ \A e \in deps : e[1] < e[2]
           /\ \A a, b : b \in Succ(a) <=> <<a, b>> \in deps
           /\ \A v : Waiting(v) \subseteq deps /\ IsFiniteSet(Waiting(v))
           /\ Len(queue) \in Nat /\ DOMAIN queue = 1 .. Len(queue)
           /\ qi \in Nat /\ left \in Nat
<1>1. MaxNode \in Nat
    BY MaxNodeAssumption
<1>2. Graph(deps) /\ IsFiniteSet(deps) /\ Nodes \subseteq 1 .. MaxNode
    BY <1>1, ListIsGraph DEF TypeInv, Nodes
<1>3. IsFiniteSet(Nodes)
    BY <1>2 DEF Graph, Nodes
<1>4. \A e \in deps : e = <<e[1], e[2]>> /\ e[1] \in Nodes /\ e[2] \in Nodes
    BY <1>2 DEF Graph, Nodes
<1>5. \A e \in deps : e[1] < e[2]
    BY DEF TypeInv, Pairs
<1>6. \A a, b : b \in Succ(a) <=> <<a, b>> \in deps
    BY <1>2, Neighbours DEF Graph, Succ
<1>7. \A v : Waiting(v) \subseteq deps /\ IsFiniteSet(Waiting(v))
  <2>1. \A v : Waiting(v) \subseteq deps
      BY DEF Waiting
  <2>. QED  BY <1>2, <2>1, FS_Subset
<1>8. /\ Len(queue) \in Nat /\ DOMAIN queue = 1 .. Len(queue)
      /\ qi \in Nat /\ left \in Nat
    BY DEF TypeInv
<1>. QED  BY <1>1, <1>2, <1>3, <1>4, <1>5, <1>6, <1>7, <1>8

\* The invariant holds of every list the reduction may be given.
LEMMA InitInv == Init => Inv
<1>. SUFFICES ASSUME Init PROVE Inv
    OBVIOUS
<1>. DEFINE Sources == {v \in Nodes : indeg[v] = 0}
            n == Cardinality(Sources)
<1>1. deps \in SUBSET Pairs(MaxNode) /\ MaxNode \in Nat
    BY MaxNodeAssumption DEF Init, Pairs
<1>2. Graph(deps) /\ IsFiniteSet(deps) /\ IsFiniteSet(Nodes)
    BY <1>1, ListIsGraph DEF Graph, Nodes
<1>3. IsFiniteSet(Sources) /\ n \in Nat
    BY <1>2, FS_Subset, FS_CardinalityType
<1>4. queue \in [1 .. n -> Sources] /\ \A i, j \in 1 .. n : i # j => queue[i] # queue[j]
    BY DEF Init, SetToSeqs
<1>5. queue \in Injection(1 .. n, Sources)
    BY <1>4 DEF Injection, IsInjective
<1>6. \A v \in Sources : \E i \in 1 .. n : queue[i] = v
  <2>1. Cardinality(1 .. n) = n
      BY <1>3, FS_Interval
  <2>2. queue \in Surjection(1 .. n, Sources)
      BY <1>3, <1>5, <2>1, FS_Injection
  <2>. QED  BY <2>2 DEF Surjection
<1>7. Len(queue) = n /\ queue \in Seq(Nodes) /\ DOMAIN queue = 1 .. n
    BY <1>3, <1>4
<1>8. TypeInv
    BY <1>1, <1>3, <1>7 DEF Init, TypeInv
<1>9. \A v : Waiting(v) = {e \in deps : e[2] = v}
    BY DEF Waiting, Handled, Init
<1>10. \A v \in Nodes : indeg[v] = Cardinality(Waiting(v))
    BY <1>9, Zenon DEF Init
<1>11. \A v \in Nodes : indeg[v] = 0 <=> Waiting(v) = {}
    BY <1>8, <1>10, TypeFacts, FS_EmptySet
<1>12. \A v \in Nodes : Queued(v) <=> Waiting(v) = {}
    BY <1>4, <1>6, <1>7, <1>11 DEF Queued
<1>13. CountInv
    BY <1>10, <1>12 DEF CountInv, Init
<1>14. QueueInv
  <2>1. \A j \in DOMAIN queue : \A e \in deps : e[2] # queue[j]
    <3>. SUFFICES ASSUME NEW j \in DOMAIN queue, NEW e \in deps, e[2] = queue[j]
                  PROVE  FALSE
        OBVIOUS
    <3>1. queue[j] \in Nodes /\ Waiting(queue[j]) = {}
        BY <1>4, <1>7, <1>11
    <3>. QED  BY <1>9, <3>1
  <2>. QED  BY <1>4, <1>7, <2>1 DEF QueueInv, Init
<1>. QED  BY <1>8, <1>13, <1>14 DEF Inv, ReachInv, KeptInv, Init

\* The early return for a list of at most one edge keeps the invariant.
LEMMA StartStep == Inv /\ Start => Inv'
<1>. SUFFICES ASSUME Inv, Start PROVE Inv'
    OBVIOUS
<1>. USE DEF Start
<1>1. /\ phase = "start" /\ phase' \in {"sort", "done"}
      /\ deps' = deps /\ indeg' = indeg /\ queue' = queue /\ qi' = qi
      /\ pending' = pending /\ left' = left /\ reach' = reach
    OBVIOUS
<1>2. phase' = "done" => kept' = deps /\ Cardinality(deps) <= 1
    OBVIOUS
<1>. USE DEF Inv
<1>3. TypeInv'
    BY <1>1 DEF TypeInv, Nodes
<1>4. QueueInv'
    BY <1>1 DEF QueueInv, Queued, Nodes
<1>5. \A v : Waiting(v)' = Waiting(v) /\ Queued(v)' = Queued(v)
    BY <1>1, Zenon DEF Waiting, Handled, Queued
<1>6. CountInv'
    BY <1>1, <1>5, Zenon DEF CountInv, Nodes, Succ
<1>7. KeptInv'
    BY <1>1, <1>2, ShortListStays, MaxNodeAssumption DEF KeptInv, TypeInv
<1>8. ReachInv'
    BY <1>1 DEF ReachInv
<1>. QED  BY <1>3, <1>4, <1>6, <1>7, <1>8

\* Taking the next node off the queue keeps the invariant.
LEMMA DequeueStep == Inv /\ Dequeue => Inv'
<1>. SUFFICES ASSUME Inv, Dequeue PROVE Inv'
    OBVIOUS
<1>1. /\ phase = "sort" /\ pending = {} /\ qi <= Len(queue)
      /\ pending' = Succ(queue[qi]) /\ qi' = qi + 1
      /\ deps' = deps /\ phase' = phase /\ indeg' = indeg /\ queue' = queue
      /\ left' = left /\ reach' = reach /\ kept' = kept
    BY DEF Dequeue
<1>. USE DEF Inv
<1>2. TypeInv'
    BY <1>1 DEF TypeInv, Nodes
<1>3. QueueInv' /\ ReachInv' /\ KeptInv'
    BY <1>1 DEF QueueInv, ReachInv, KeptInv, Queued, Nodes
<1>4. qi \in 1 .. Len(queue) /\ Len(queue) \in Nat /\ DOMAIN queue = 1 .. Len(queue)
    BY <1>1, TypeFacts DEF TypeInv
<1>5. queue'[qi' - 1] = queue[qi] /\ qi' > 1
    BY <1>1, <1>4
<1>6. Handled' = Handled \union {queue[qi]}
  <2>1. 1 .. qi' - 1 = (1 .. qi - 1) \union {qi}
      BY <1>1, <1>4
  <2>. QED  BY <1>1, <2>1 DEF Handled
<1>7. queue[qi] \notin Handled
    BY <1>4 DEF Handled, QueueInv
<1>8. \A v : Waiting(v)' = Waiting(v)
  <2>. TAKE v
  <2>1. ASSUME NEW e \in deps, e[2] = v
        PROVE  e \in Waiting(v)' <=> e \in Waiting(v)
    <3>1. e \in Waiting(v) <=> e[1] \notin Handled
        BY <1>1, <2>1 DEF Waiting
    <3>2. e \in Waiting(v)' <=> e[1] \notin Handled' \/ (e[1] = queue[qi] /\ v \in Succ(queue[qi]))
        BY <1>1, <1>5, <2>1 DEF Waiting
    <3>3. e[1] = queue[qi] => v \in Succ(queue[qi])
        BY <2>1, TypeFacts
    <3>. QED  BY <1>6, <1>7, <3>1, <3>2, <3>3
  <2>2. Waiting(v) \subseteq {e \in deps : e[2] = v} /\ Waiting(v)' \subseteq {e \in deps : e[2] = v}
      BY <1>1 DEF Waiting
  <2>. QED  BY <2>1, <2>2
<1>9. \A v : Queued(v)' = Queued(v)
    BY <1>1, Zenon DEF Queued
<1>10. CountInv'
  <2>1. pending' = Successors(deps', queue'[qi' - 1])
      BY <1>1, <1>5 DEF Succ
  <2>2. \A v \in Nodes' : indeg'[v] = Cardinality(Waiting(v)') /\ (Queued(v)' <=> Waiting(v)' = {})
      BY <1>1, <1>8, <1>9 DEF CountInv, Nodes
  <2>. QED  BY <1>1, <1>5, <2>1, <2>2 DEF CountInv, Succ
<1>. QED  BY <1>2, <1>3, <1>10

\* Counting off one edge of the node taken keeps the invariant.
LEMMA RelaxStep == Inv /\ Relax => Inv'
<1>. SUFFICES ASSUME Inv, Relax PROVE Inv'
    OBVIOUS
<1>1. PICK v \in pending :
          /\ pending' = pending \ {v}
          /\ indeg' = [indeg EXCEPT ![v] = @ - 1]
          /\ queue' = IF indeg[v] = 1 THEN Append(queue, v) ELSE queue
    BY DEF Relax
<1>2. /\ phase = "sort" /\ phase' = "sort" /\ deps' = deps /\ qi' = qi
      /\ left' = left /\ reach' = reach /\ kept' = kept
    BY DEF Relax
<1>. USE DEF Inv
<1>3. /\ Len(queue) \in Nat /\ DOMAIN queue = 1 .. Len(queue) /\ Nodes' = Nodes
      /\ qi \in 1 .. Len(queue) + 1
    BY <1>2, TypeFacts DEF Nodes, TypeInv
<1>4. qi > 1 /\ v \in Succ(queue[qi - 1]) /\ <<queue[qi - 1], v>> \in deps
    BY TypeFacts DEF CountInv
<1>5. v \in Nodes /\ qi - 1 \in 1 .. Len(queue)
    BY <1>3, <1>4, TypeFacts
<1>6. /\ DOMAIN queue' = 1 .. Len(queue') /\ Len(queue') \in Nat /\ Len(queue) <= Len(queue')
      /\ \A i \in 1 .. Len(queue) : queue'[i] = queue[i]
      /\ queue' \in Seq(Nodes)
    BY <1>1, <1>3, <1>5 DEF TypeInv
<1>7. Handled' = Handled
    BY <1>2, <1>3, <1>6 DEF Handled
<1>8. \A w : w # v => Waiting(w)' = Waiting(w)
    BY <1>1, <1>2, <1>5, <1>6, <1>7 DEF Waiting
<1>. DEFINE e0 == <<queue[qi - 1], v>>
<1>9. queue[qi - 1] \in Handled
    BY <1>3, <1>4 DEF Handled
<1>10. e0 \in Waiting(v)
    BY <1>4 DEF Waiting
<1>11. Waiting(v)' = Waiting(v) \ {e0}
  <2>1. Waiting(v)' = {e \in deps : e[2] = v /\ e[1] \notin Handled}
      BY <1>1, <1>2, <1>7 DEF Waiting
  <2>2. Waiting(v) = {e \in deps : e[2] = v /\ (e[1] \notin Handled \/ e[1] = queue[qi - 1])}
      BY <1>4 DEF Waiting
  <2>3. \A e \in deps : e = e0 <=> e[1] = queue[qi - 1] /\ e[2] = v
      BY <1>4, TypeFacts
  <2>. QED  BY <1>9, <2>1, <2>2, <2>3
<1>12. /\ IsFiniteSet(Waiting(v)) /\ IsFiniteSet(Waiting(v)') /\ Cardinality(Waiting(v)) \in Nat
       /\ Cardinality(Waiting(v)') = Cardinality(Waiting(v)) - 1
       /\ Cardinality(Waiting(v)') \in Nat
  <2>. HIDE DEF e0
  <2>1. IsFiniteSet(Waiting(v))
      BY TypeFacts
  <2>2. IsFiniteSet(Waiting(v)') /\ Cardinality(Waiting(v)') = Cardinality(Waiting(v)) - 1
      BY <1>10, <1>11, <2>1, FS_RemoveElement
  <2>3. Cardinality(Waiting(v)) \in Nat /\ Cardinality(Waiting(v)') \in Nat
      BY <2>1, <2>2, FS_CardinalityType
  <2>. QED  BY <2>1, <2>2, <2>3
<1>13. indeg'[v] = Cardinality(Waiting(v)') /\ indeg[v] = Cardinality(Waiting(v))
    BY <1>1, <1>5, <1>12 DEF CountInv, TypeInv
<1>14. indeg[v] = 1 <=> Waiting(v)' = {}
    BY <1>12, <1>13, FS_EmptySet
<1>15. ~Queued(v)
    BY <1>5, <1>10 DEF CountInv
<1>16. ASSUME NEW j \in 1 .. Len(queue'), j \notin 1 .. Len(queue)
       PROVE  j = Len(queue) + 1 /\ queue'[j] = v /\ Waiting(v)' = {}
    BY <1>1, <1>3, <1>14, <1>16 DEF TypeInv
<1>17. TypeInv'
    BY <1>1, <1>2, <1>3, <1>6 DEF TypeInv
<1>18. QueueInv'
  <2>1. ASSUME NEW i \in DOMAIN queue', NEW j \in DOMAIN queue', queue'[i] = queue'[j]
        PROVE  i = j
    <3>1. CASE i \in 1 .. Len(queue) /\ j \in 1 .. Len(queue)
        BY <1>3, <1>6, <2>1, <3>1 DEF QueueInv
    <3>2. CASE i \notin 1 .. Len(queue) /\ j \notin 1 .. Len(queue)
        BY <1>6, <1>16, <3>2
    <3>3. CASE i \in 1 .. Len(queue) /\ j \notin 1 .. Len(queue)
        BY <1>3, <1>6, <1>15, <1>16, <2>1, <3>3 DEF Queued
    <3>4. CASE i \notin 1 .. Len(queue) /\ j \in 1 .. Len(queue)
        BY <1>3, <1>6, <1>15, <1>16, <2>1, <3>4 DEF Queued
    <3>. QED  BY <3>1, <3>2, <3>3, <3>4
  <2>2. ASSUME NEW j \in DOMAIN queue', NEW e \in deps, e[2] = queue'[j]
        PROVE  \E i \in 1 .. j - 1 : queue'[i] = e[1]
    <3>1. CASE j \in 1 .. Len(queue)
      <4>1. PICK i \in 1 .. j - 1 : queue[i] = e[1]
          BY <1>3, <1>6, <2>2, <3>1 DEF QueueInv
      <4>2. i \in 1 .. Len(queue)
          BY <1>3, <3>1
      <4>. QED  BY <1>6, <4>1, <4>2
    <3>2. CASE j \notin 1 .. Len(queue)
      <4>1. j = Len(queue) + 1 /\ e[2] = v /\ e \notin Waiting(v)'
          BY <1>6, <1>16, <2>2, <3>2
      <4>2. e[1] \in Handled
          BY <1>2, <1>7, <4>1 DEF Waiting
      <4>3. PICK i \in 1 .. qi - 1 : queue[i] = e[1]
          BY <4>2 DEF Handled
      <4>4. i \in 1 .. Len(queue) /\ i \in 1 .. j - 1
          BY <1>3, <4>1
      <4>. QED  BY <1>6, <4>3, <4>4
    <3>. QED  BY <3>1, <3>2
  <2>. QED  BY <1>2, <2>1, <2>2 DEF QueueInv
<1>19. ASSUME NEW w \in Nodes
       PROVE  indeg'[w] = Cardinality(Waiting(w)') /\ (Queued(w)' <=> Waiting(w)' = {})
  <2>1. CASE w # v
    <3>1. indeg'[w] = indeg[w]
        BY <1>1, <2>1 DEF TypeInv
    <3>2. Queued(w)' <=> Queued(w)
        BY <1>3, <1>6, <1>16, <2>1 DEF Queued
    <3>. QED  BY <1>8, <2>1, <3>1, <3>2 DEF CountInv
  <2>2. CASE w = v
    <3>1. Queued(v)' <=> indeg[v] = 1
      <4>1. CASE indeg[v] = 1
        <5>1. Len(queue) + 1 \in DOMAIN queue' /\ queue'[Len(queue) + 1] = v
            BY <1>1, <1>3, <4>1 DEF TypeInv
        <5>. QED  BY <4>1, <5>1 DEF Queued
      <4>2. CASE indeg[v] # 1
          BY <1>1, <1>15, <4>2 DEF Queued
      <4>. QED  BY <4>1, <4>2
    <3>. QED  BY <1>13, <1>14, <2>2, <3>1
  <2>. QED  BY <2>1, <2>2
<1>20. pending' \subseteq Succ(queue[qi - 1])' /\ queue'[qi' - 1] = queue[qi - 1]
    BY <1>1, <1>2, <1>5, <1>6 DEF CountInv, Succ
<1>21. CountInv'
    BY <1>2, <1>3, <1>4, <1>5, <1>6, <1>19, <1>20 DEF CountInv, Succ
<1>22. ReachInv' /\ KeptInv'
    BY <1>2 DEF ReachInv, KeptInv
<1>. QED  BY <1>17, <1>18, <1>21, <1>22

\* When the queue has run out every node has been in it: the first one that was
\* not would have a predecessor that was not.
LEMMA SortedStep == Inv /\ Sorted => Inv'
<1>. SUFFICES ASSUME Inv, Sorted PROVE Inv'
    OBVIOUS
<1>1. /\ phase = "sort" /\ pending = {} /\ qi > Len(queue)
      /\ phase' = IF Len(queue) # Cardinality(Nodes) THEN "generic" ELSE "reach"
      /\ left' = Len(queue)
      /\ deps' = deps /\ indeg' = indeg /\ queue' = queue /\ qi' = qi
      /\ pending' = pending /\ reach' = reach /\ kept' = kept
    BY DEF Sorted
<1>. USE DEF Inv
<1>2. qi - 1 = Len(queue) /\ Len(queue) \in Nat /\ DOMAIN queue = 1 .. Len(queue)
    BY <1>1, TypeFacts DEF TypeInv
<1>3. \A v \in Nodes : Queued(v)
  <2>. DEFINE Out == {v \in Nodes : ~Queued(v)}
  <2>. SUFFICES ASSUME Out # {} PROVE FALSE
      OBVIOUS
  <2>1. Out \subseteq Nat
      BY TypeFacts
  <2>2. PICK v \in Out : \A w \in Out : v <= w
    <3>. HIDE DEF Out
    <3>. QED  BY <2>1, LeastNumber
  <2>3. PICK e \in Waiting(v) : TRUE
      BY <2>2 DEF CountInv
  <2>4. e \in deps /\ e[2] = v /\ e[1] \notin Handled
      BY <1>1, <2>3 DEF Waiting
  <2>5. ~Queued(e[1])
      BY <1>2, <2>4 DEF Queued, Handled
  <2>6. e[1] \in Out /\ e[1] < v
      BY <2>4, <2>5, TypeFacts
  <2>. QED  BY <2>1, <2>2, <2>6
<1>4. Cardinality(Nodes) = Len(queue)
  <2>1. queue \in [1 .. Len(queue) -> Nodes]
      BY <1>2 DEF TypeInv
  <2>2. queue \in Injection(1 .. Len(queue), Nodes)
      BY <1>2, <2>1 DEF QueueInv, Injection, IsInjective
  <2>3. queue \in Surjection(1 .. Len(queue), Nodes)
      BY <1>2, <1>3, <2>1 DEF Surjection, Queued
  <2>4. ExistsBijection(1 .. Len(queue), Nodes)
      BY <2>2, <2>3 DEF ExistsBijection, Bijection
  <2>. QED  BY <1>2, <2>4, FS_CountingElements
<1>5. phase' = "reach" /\ Nodes' = Nodes
    BY <1>1, <1>4 DEF Nodes
<1>6. TypeInv'
    BY <1>1, <1>2, <1>5 DEF TypeInv
<1>7. \A v : Queued(v)' = Queued(v) /\ Waiting(v)' = Waiting(v)
    BY <1>1, Zenon DEF Queued, Waiting, Handled
<1>8. QueueInv'
    BY <1>1, <1>3, <1>5, <1>7 DEF QueueInv
<1>9. CountInv'
    BY <1>1, <1>5, <1>7, Zenon DEF CountInv, Succ
<1>10. ReachInv' /\ KeptInv'
    BY <1>1, <1>2, <1>5 DEF ReachInv, KeptInv
<1>. QED  BY <1>6, <1>8, <1>9, <1>10

\* Computing the reach of a node keeps the invariant.
LEMMA ReachStep == Inv /\ Reach => Inv'
<1>. SUFFICES ASSUME Inv, Reach PROVE Inv'
    OBVIOUS
<1>1. /\ phase = "reach" /\ left > 0
      /\ left' = left - 1
      /\ deps' = deps /\ phase' = phase /\ indeg' = indeg /\ queue' = queue /\ qi' = qi
      /\ pending' = pending /\ kept' = kept
    BY DEF Reach
<1>2. PICK u : u = queue[left]
    OBVIOUS
<1>3. PICK news : news = Succ(u) \union UNION {reach[v] : v \in Succ(u)}
    OBVIOUS
<1>4. reach' = [reach EXCEPT ![u] = news]
    BY <1>2, <1>3 DEF Reach
<1>. USE DEF Inv
<1>5. left \in 1 .. Len(queue) /\ Len(queue) \in Nat /\ DOMAIN queue = 1 .. Len(queue)
    BY <1>1, TypeFacts DEF TypeInv
<1>6. u \in Nodes
    BY <1>2, <1>5 DEF TypeInv
<1>7. ASSUME NEW v \in Succ(u)
      PROVE  v \in Nodes /\ reach[v] = {w \in Nodes : <<v, w>> \in Closure(deps)}
  <2>1. <<u, v>> \in deps /\ v \in Nodes
      BY TypeFacts
  <2>2. PICK j \in 1 .. Len(queue) : queue[j] = v
      BY <1>1, <1>5, <2>1 DEF QueueInv, Queued
  <2>3. PICK i \in 1 .. j - 1 : queue[i] = u
      BY <1>5, <2>1, <2>2 DEF QueueInv
  <2>4. i = left
      BY <1>2, <1>5, <2>2, <2>3 DEF QueueInv
  <2>5. j \in left + 1 .. Len(queue)
      BY <1>5, <2>2, <2>3, <2>4
  <2>. QED  BY <1>1, <2>1, <2>2, <2>5 DEF ReachInv
<1>8. news = {w \in Nodes : <<u, w>> \in Closure(deps)}
  <2>1. ASSUME NEW w
        PROVE  w \in news <=> w \in Nodes /\ <<u, w>> \in Closure(deps)
    <3>1. w \in news <=> w \in Succ(u) \/ \E v \in Succ(u) : w \in reach[v]
        BY <1>3
    <3>2. w \in Succ(u) <=> <<u, w>> \in deps
        BY TypeFacts
    <3>3. w \in Succ(u) => w \in Nodes
        BY <1>7
    <3>4. <<u, w>> \in Closure(deps) <=> \/ <<u, w>> \in deps
                                         \/ \E v : <<u, v>> \in deps /\ <<v, w>> \in Closure(deps)
        BY TypeFacts, FirstStep
    <3>5. \A v : v \in Succ(u) <=> <<u, v>> \in deps
        BY TypeFacts
    <3>6. \A v \in Succ(u) : w \in reach[v] <=> w \in Nodes /\ <<v, w>> \in Closure(deps)
        BY <1>7
    <3>7. <<u, w>> \in Closure(deps) => w \in Nodes
        BY TypeFacts, ClosureIsLeast DEF Nodes
    <3>. QED  BY <3>1, <3>2, <3>3, <3>4, <3>5, <3>6, <3>7, Zenon
  <2>. QED  BY <2>1
<1>9. ReachInv'
  <2>. SUFFICES ASSUME NEW i \in left .. Len(queue)
                PROVE  reach'[queue[i]] = {w \in Nodes : <<queue[i], w>> \in Closure(deps)}
      BY <1>1, <1>5 DEF ReachInv, Nodes
  <2>1. CASE i = left
      BY <1>2, <1>4, <1>6, <1>8, <2>1 DEF TypeInv
  <2>2. CASE i # left
    <3>1. i \in left + 1 .. Len(queue) /\ i \in 1 .. Len(queue)
        BY <1>5, <2>2
    <3>2. queue[i] # u
        BY <1>2, <1>5, <2>2, <3>1 DEF QueueInv
    <3>3. reach'[queue[i]] = reach[queue[i]]
        BY <1>4, <1>5, <3>1, <3>2 DEF TypeInv
    <3>. QED  BY <1>1, <3>1, <3>3 DEF ReachInv
  <2>. QED  BY <2>1, <2>2
<1>10. TypeInv'
    BY <1>1, <1>4, <1>5 DEF TypeInv, Nodes
<1>11. QueueInv' /\ KeptInv'
    BY <1>1 DEF QueueInv, KeptInv, Queued, Nodes
<1>12. \A v : Waiting(v)' = Waiting(v) /\ Queued(v)' = Queued(v)
    BY <1>1, Zenon DEF Waiting, Handled, Queued
<1>13. CountInv'
    BY <1>1, <1>12, Zenon DEF CountInv, Nodes, Succ
<1>. QED  BY <1>9, <1>10, <1>11, <1>13

\* Dropping the edges that are implied keeps the invariant.
LEMMA FilterStep == Inv /\ Filter => Inv'
<1>. SUFFICES ASSUME Inv, Filter PROVE Inv'
    OBVIOUS
<1>1. /\ phase = "reach" /\ left = 0 /\ phase' = "done"
      /\ kept' = {e \in deps : \A c \in Succ(e[1]) \ {e[2]} : e[2] \notin reach[c]}
      /\ deps' = deps /\ indeg' = indeg /\ queue' = queue /\ qi' = qi
      /\ pending' = pending /\ left' = left /\ reach' = reach
    BY DEF Filter
<1>. USE DEF Inv
<1>2. ASSUME NEW c \in Nodes
      PROVE  reach[c] = {v \in Nodes : <<c, v>> \in Closure(deps)}
  <2>1. PICK i \in 1 .. Len(queue) : queue[i] = c
      BY <1>1, TypeFacts DEF QueueInv, Queued
  <2>2. i \in left + 1 .. Len(queue)
      BY <1>1, <2>1, TypeFacts
  <2>. QED  BY <1>1, <2>1, <2>2 DEF ReachInv
<1>3. ASSUME NEW e \in deps, NEW c \in Succ(e[1])
      PROVE  e[2] \notin reach[c] <=> <<c, e[2]>> \notin Closure(deps)
  <2>1. c \in Nodes /\ e[2] \in Nodes
    <3>1. <<e[1], c>> \in deps
        BY TypeFacts
    <3>. QED  BY <3>1, TypeFacts
  <2>. QED  BY <1>2, <2>1
<1>4. kept' = Reduced(deps)
    BY <1>1, <1>3, Zenon DEF Reduced, Succ
<1>5. TypeInv'
    BY <1>1 DEF TypeInv, Nodes
<1>6. QueueInv' /\ ReachInv' /\ KeptInv'
    BY <1>1, <1>4 DEF QueueInv, ReachInv, KeptInv, Queued, Nodes
<1>7. \A v : Waiting(v)' = Waiting(v) /\ Queued(v)' = Queued(v)
    BY <1>1, Zenon DEF Waiting, Handled, Queued
<1>8. CountInv'
    BY <1>1, <1>7, Zenon DEF CountInv, Nodes, Succ
<1>. QED  BY <1>5, <1>6, <1>8

-----------------------------------------------------------------------------

\* The invariant holds in every state of the algorithm.
THEOREM ReductionInvariant == Spec => []Inv
<1>1. Inv /\ UNCHANGED vars => Inv'
  <2>. SUFFICES ASSUME Inv, UNCHANGED vars PROVE Inv'
      OBVIOUS
  <2>1. \A v : Waiting(v)' = Waiting(v) /\ Queued(v)' = Queued(v)
      BY Zenon DEF Waiting, Handled, Queued, vars
  <2>2. CountInv'
      BY <2>1, Zenon DEF Inv, CountInv, Nodes, Succ, vars
  <2>3. TypeInv' /\ QueueInv' /\ ReachInv' /\ KeptInv'
      BY DEF Inv, TypeInv, QueueInv, ReachInv, KeptInv, Queued, Nodes, vars
  <2>. QED  BY <2>2, <2>3 DEF Inv
<1>2. Inv /\ [Next]_vars => Inv'
    BY <1>1, StartStep, DequeueStep, RelaxStep, SortedStep, ReachStep, FilterStep DEF Next
<1>. QED  BY <1>2, InitInv, PTL DEF Spec

\* Whatever the order of the hash maps, the sort places every instruction after
\* its predecessors and the fallback that may lose order is never taken.
THEOREM SortIsComplete == Spec => []NeverGeneric
<1>1. ASSUME Inv
      PROVE  NeverGeneric
  <2>1. phase # "generic"
      BY <1>1 DEF Inv, TypeInv
  <2>2. ASSUME NEW i \in DOMAIN queue, NEW j \in DOMAIN queue, <<queue[i], queue[j]>> \in deps
        PROVE  i < j
    <3>1. PICK k \in 1 .. j - 1 : queue[k] = queue[i]
        BY <1>1, <2>2 DEF Inv, QueueInv
    <3>2. k \in DOMAIN queue /\ DOMAIN queue \subseteq Nat
        BY <1>1, TypeFacts DEF Inv
    <3>3. k = i
        BY <1>1, <3>1, <3>2 DEF Inv, QueueInv
    <3>. QED  BY <3>1, <3>2, <3>3
  <2>. QED  BY <2>1, <2>2 DEF NeverGeneric
<1>. QED  BY <1>1, ReductionInvariant, PTL

\* The reduction that simplify_dependencies returns has the order of the whole
\* list and no pair the others imply.
THEOREM ReductionIsExact == Spec => []KeepsTheOrder
<1>1. Inv => KeepsTheOrder
    BY MaxNodeAssumption, ReductionKeepsOrder, ReductionKeepsNoMore
       DEF Inv, TypeInv, KeptInv, KeepsTheOrder
<1>. QED  BY <1>1, ReductionInvariant, PTL

=============================================================================
