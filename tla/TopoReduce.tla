----------------------------- MODULE TopoReduce ------------------------------
(***************************************************************************)
(* simplify_dependencies of src/wasm/deps.rs: Kahn's algorithm orders the  *)
(* instructions, reachable sets are built against that order, and an edge  *)
(* is dropped when another successor of its tail reaches its head.         *)
(*                                                                         *)
(* Instructions are their positions in the segment, so every pair          *)
(* compute_dependencies lists goes from a smaller to a larger one.  Dense  *)
(* indices follow the first occurrence in the list and successors sit in   *)
(* hash sets: both orders are arbitrary.                                   *)
(***************************************************************************)
EXTENDS Reduction, Sequences, SequencesExt

CONSTANT MaxNode    \* instructions are 1 .. MaxNode

ASSUME MaxNodeAssumption == MaxNode \in Nat

VARIABLES
    deps,       \* the list, without its repetitions
    phase, indeg,
    queue, qi,  \* topo is the part of the queue before qi
    pending,    \* successors of the dequeued node the loop has yet to visit
    left,       \* nodes `for u in topo.iter().rev()` has yet to visit
    reach, kept

vars == <<deps, phase, indeg, queue, qi, pending, left, reach, kept>>

Nodes   == NodesOf(deps)
Succ(a) == Successors(deps, a)

Init == /\ deps \in SUBSET {p \in (1 .. MaxNode) \X (1 .. MaxNode) : p[1] < p[2]}
        /\ phase = "start"
        /\ indeg = [n \in Nodes |-> Cardinality({e \in deps : e[2] = n})]
        /\ queue \in SetToSeqs({n \in Nodes : indeg[n] = 0})
        /\ qi = 1
        /\ pending = {}
        /\ left = 0
        /\ reach = [n \in Nodes |-> {}]
        /\ kept = {}

-----------------------------------------------------------------------------
\* A list of at most one edge is returned as it is.
Start == /\ phase = "start"
         /\ IF Cardinality(deps) <= 1
            THEN phase' = "done" /\ kept' = deps
            ELSE phase' = "sort" /\ UNCHANGED kept
         /\ UNCHANGED <<deps, indeg, queue, qi, pending, left, reach>>

Dequeue == /\ phase = "sort"
           /\ pending = {}
           /\ qi <= Len(queue)
           /\ pending' = Succ(queue[qi])
           /\ qi' = qi + 1
           /\ UNCHANGED <<deps, phase, indeg, queue, left, reach, kept>>

\* Mutant: the in-degree is compared with zero before it is decremented.
RelaxLate == /\ phase = "sort"
             /\ \E v \in pending :
                    /\ pending' = pending \ {v}
                    /\ indeg' = [indeg EXCEPT ![v] = @ - 1]
                    /\ queue' = IF indeg[v] = 0 THEN Append(queue, v) ELSE queue
             /\ UNCHANGED <<deps, phase, qi, left, reach, kept>>

Relax == /\ phase = "sort"
         /\ \E v \in pending :
                /\ pending' = pending \ {v}
                /\ indeg' = [indeg EXCEPT ![v] = @ - 1]
                /\ queue' = IF indeg[v] = 1 THEN Append(queue, v) ELSE queue
         /\ UNCHANGED <<deps, phase, qi, left, reach, kept>>

\* A cycle leaves nodes out of the order: simplify_dependencies_generic.
Sorted == /\ phase = "sort"
          /\ pending = {}
          /\ qi > Len(queue)
          /\ phase' = IF Len(queue) # Cardinality(Nodes) THEN "generic" ELSE "reach"
          /\ left' = Len(queue)
          /\ UNCHANGED <<deps, indeg, queue, qi, pending, reach, kept>>

\* Mutant: nodes are visited in topological order, not in reverse.
ReachForwards == /\ phase = "reach"
                 /\ left > 0
                 /\ LET u == queue[Len(queue) + 1 - left]
                    IN  reach' = [reach EXCEPT ![u] = Succ(u) \union UNION {reach[v] : v \in Succ(u)}]
                 /\ left' = left - 1
                 /\ UNCHANGED <<deps, phase, indeg, queue, qi, pending, kept>>

Reach == /\ phase = "reach"
         /\ left > 0
         /\ LET u == queue[left]
            IN  reach' = [reach EXCEPT ![u] = Succ(u) \union UNION {reach[v] : v \in Succ(u)}]
         /\ left' = left - 1
         /\ UNCHANGED <<deps, phase, indeg, queue, qi, pending, kept>>

Filter == /\ phase = "reach"
          /\ left = 0
          /\ kept' = {e \in deps : \A c \in Succ(e[1]) \ {e[2]} : e[2] \notin reach[c]}
          /\ phase' = "done"
          /\ UNCHANGED <<deps, indeg, queue, qi, pending, left, reach>>

Next == Start \/ Dequeue \/ Relax \/ Sorted \/ Reach \/ Filter

Spec == Init /\ [][Next]_vars

-----------------------------------------------------------------------------

\* The fallback for cyclic lists, which may drop edges that nothing implies, is
\* never taken: the sort places every node, each one after its predecessors.
NeverGeneric == /\ phase # "generic"
                /\ \A i, j \in DOMAIN queue : <<queue[i], queue[j]>> \in deps => i < j

\* What is kept enforces the order of every pair listed, drops all it can, and is
\* the function the rest of the models use for this algorithm.
KeepsTheOrder == phase = "done" => /\ Closure(kept) = Closure(deps)
                                   /\ \A e \in kept : e \notin Closure(kept \ {e})
                                   /\ kept = Reduced(deps)

=============================================================================
