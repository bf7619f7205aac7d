------------------------------ MODULE Reduction ------------------------------
(***************************************************************************)
(* The reduction a list of order dependencies goes through, as a function  *)
(* of the list: what simplify_dependencies of src/wasm/deps.rs computes.   *)
(***************************************************************************)
EXTENDS Naturals, FiniteSets, FiniteSetsExt

NodesOf(edges) == {e[1] : e \in edges} \union {e[2] : e \in edges}

Successors(edges, a) == {e[2] : e \in {f \in edges : f[1] = a}}

Predecessors(edges, b) == {e[1] : e \in {f \in edges : f[2] = b}}

\* Pairs the edges put in order, directly or through others: paths through one
\* more node at a time.
Closure(edges) ==
    LET through(k, order) == order \union (Predecessors(order, k) \X Successors(order, k))
    IN  FoldSet(through, edges, NodesOf(edges))

\* Mutant: an edge goes as soon as its tail has another successor.
ReducedTooFar(edges) == {e \in edges : Successors(edges, e[1]) = {e[2]}}

\* An edge goes when another successor of its tail reaches its head.
Reduced(edges) ==
    LET order == Closure(edges)
    IN  {e \in edges : ~\E c \in Successors(edges, e[1]) \ {e[2]} : <<c, e[2]>> \in order}

=============================================================================
