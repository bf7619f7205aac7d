-------------------------------- MODULE AStar --------------------------------
(***************************************************************************)
(* solve_astar_traced of src/optimize/search.rs: the search over the goals *)
(* of module Peels, from the exit goal (Root) to one that is a solution.   *)
(*                                                                         *)
(* A goal counts by its memo key (goal up to equivalence, storage ids      *)
(* left, opaque ids used).  The peels taken are a path of keys; peels from *)
(* one key to another are one edge.  What the search finds on the way --   *)
(* edges, h_goal, which keys are solutions, which paths the checker        *)
(* accepts -- is the problem, chosen once, and a goal keeps its key; ids   *)
(* that change while the search goes on are the affair of module           *)
(* Canonizer.  Acceptance depends on the path, not on its last key: the    *)
(* order of the instructions is no part of a goal.                         *)
(***************************************************************************)
EXTENDS Naturals, Sequences, FiniteSets

CONSTANTS
    Keys, Root,
    Problems        \* [succ, h, solved, valid, depth]: depth is cfg.max_depth

\* Peels of a goal, and steps within the depth limit, are finitely many.
ASSUME AStarAssumption ==
    /\ IsFiniteSet(Keys) /\ Root \in Keys
    /\ \A p \in Problems :
           /\ p.succ \in [Keys -> SUBSET Keys] /\ p.h \in [Keys -> Nat]
           /\ p.solved \subseteq Keys /\ p.depth \in Nat
           /\ \A path \in p.valid : path \in Seq(Keys)

VARIABLES
    problem,
    heap, memo, parent,     \* parent_map: a partial function on keys
    best, answer,           \* answer: the accepted path, <<>> if there is none
    traced,                 \* solution_path of the search graph
    running, timedOut

vars == <<problem, heap, memo, parent, best, answer, traced, running, timedOut>>

-----------------------------------------------------------------------------
KeyOf(path) == path[Len(path)]
G(path)     == Len(path) - 1
F(path)     == G(path) + problem.h[KeyOf(path)]

Init == /\ problem \in Problems
        /\ heap = {<<Root>>}
        /\ memo = {}
        /\ parent = <<>>
        /\ best = problem.depth
        /\ answer = <<>>
        /\ traced = <<>>
        /\ running = TRUE
        /\ timedOut = FALSE

\* Mutant: the heap is a bag.
AnyOrder(a, b) == TRUE

\* AstarNode's Ord: least f first, least g among those.
Before(a, b) == F(a) < F(b) \/ (F(a) = F(b) /\ G(a) <= G(b))

\* Mutant: the node is looked at and stays.
Peeked(path) == heap

Popped(path) == heap \ {path}

Pop(path) == /\ running
             /\ path \in heap
             /\ \A other \in heap : Before(path, other)

\* Mutant: a path as long as the best one is still looked at.
LongerThanBest(path) == F(path) > best

TooLong(path) == F(path) >= best

\* The deadline is looked at once a node is popped.
Expire == /\ \E path \in heap : Pop(path) /\ heap' = Popped(path)
          /\ timedOut' = TRUE
          /\ running' = FALSE
          /\ UNCHANGED <<problem, memo, parent, best, answer, traced>>

Skip == /\ \E path \in heap : /\ Pop(path)
                              /\ TooLong(path) \/ KeyOf(path) \in memo
                              /\ heap' = Popped(path)
        /\ UNCHANGED <<problem, memo, parent, best, answer, traced, running, timedOut>>

\* A node that is neither cut off nor merged with an earlier one.
PopNew(path) == /\ Pop(path)
                /\ ~TooLong(path)
                /\ KeyOf(path) \notin memo
                /\ heap' = Popped(path)

\* A refused path leaves its key open for another one.
Reject == /\ \E path \in heap : /\ PopNew(path)
                                /\ KeyOf(path) \in problem.solved
                                /\ path \notin problem.valid
          /\ UNCHANGED <<problem, memo, parent, best, answer, traced, running, timedOut>>

\* The parents of a key, up to one that has none, in front of it; with n
\* steps for the loop, which has no bound.
Ancestors(key, n) ==
    LET chain[i \in 0 .. n] ==
            IF i = 0 THEN <<key>>
            ELSE IF chain[i - 1][1] \in DOMAIN parent
                 THEN <<parent[chain[i - 1][1]]>> \o chain[i - 1] ELSE chain[i - 1]
    IN  chain[n]

\* Mutant: what the checker says is not looked at.
AcceptsAll(path) == TRUE

Accepts(path) == path \in problem.valid

Accept == /\ \E path \in heap :
                 /\ PopNew(path)
                 /\ KeyOf(path) \in problem.solved
                 /\ Accepts(path)
                 /\ best' = G(path)
                 /\ answer' = path
                 /\ traced' = Ancestors(KeyOf(path), Cardinality(Keys))
                 /\ memo' = memo \union {KeyOf(path)}
          /\ UNCHANGED <<problem, parent, running, timedOut>>

Near(path) == {k \in problem.succ[KeyOf(path)] : Len(path) + problem.h[k] <= best}

\* Mutant: a child that was expanded before gets a parent as well.
AllAdopted(path) == Near(path) \ DOMAIN parent

Adopted(path) == Near(path) \ (DOMAIN parent \union memo \union {KeyOf(path)})

\* Mutant: the key is not recorded.
Forgotten(path) == memo

Recorded(path) == memo \union {KeyOf(path)}

\* G(path) < best here: f is less, and best is at most the depth.
Expand == /\ \E path \in heap :
                 /\ Pop(path)
                 /\ ~TooLong(path)
                 /\ KeyOf(path) \notin memo
                 /\ KeyOf(path) \notin problem.solved
                 /\ heap' = Popped(path) \union {Append(path, k) : k \in Near(path)}
                 /\ memo' = Recorded(path)
                 /\ parent' = [k \in DOMAIN parent \union Adopted(path) |->
                                   IF k \in DOMAIN parent THEN parent[k] ELSE KeyOf(path)]
          /\ UNCHANGED <<problem, best, answer, traced, running, timedOut>>

Finish == /\ running
          /\ heap = {}
          /\ running' = FALSE
          /\ UNCHANGED <<problem, heap, memo, parent, best, answer, traced, timedOut>>

Loop == Skip \/ Reject \/ Accept \/ Expand \/ Finish
Next == Loop \/ Expire

\* One thread, in a loop without waiting; there may be no deadline.
Spec == Init /\ [][Next]_vars /\ WF_vars(Loop)

proven == ~running /\ ~timedOut

-----------------------------------------------------------------------------
\* A path of peels, and one that ends at its first solution.
IsPath(path) == /\ Len(path) > 0
                /\ path[1] = Root
                /\ \A i \in 1 .. Len(path) - 1 : path[i + 1] \in problem.succ[path[i]]

IsProgram(path) == /\ IsPath(path)
                   /\ KeyOf(path) \in problem.solved
                   /\ \A i \in 1 .. Len(path) - 1 : path[i] \notin problem.solved

\* Every node on the heap was reached through expanded keys, one peel at a time.
TypeOK ==
    /\ best \in 0 .. problem.depth
    /\ memo \subseteq Keys
    /\ running \in BOOLEAN /\ timedOut \in BOOLEAN
    /\ \A path \in heap : /\ path \in Seq(Keys)
                          /\ IsPath(path)
                          /\ \A i \in 1 .. Len(path) - 1 :
                                 path[i] \in memo /\ path[i] \notin problem.solved
    /\ DOMAIN parent \subseteq Keys
    /\ \A k \in DOMAIN parent : parent[k] \in memo /\ k \in problem.succ[parent[k]]

\* The answer is a program, the checker accepts it, and the bound on f is its
\* length: what SearchResult::ops promises.
AnswerSound ==
    IF answer = <<>> THEN best = problem.depth
    ELSE IsProgram(answer) /\ answer \in problem.valid /\ best = G(answer)

\* The graph drawn of the search: the red path runs along edges from the exit
\* goal to the solution ("Node ids from fin (root) to init (solution)",
\* search_graph.rs:43), although parents are recorded when a child is pushed and
\* the solution may be popped through another one.
TracedFromRoot == answer # <<>> => IsPath(traced) /\ KeyOf(traced) = KeyOf(answer)

-----------------------------------------------------------------------------
\* The programs within the depth limit.  One that comes back to a key is longer
\* than the one without the detour.
Programs == {p \in UNION {[1 .. n -> Keys] : n \in 1 .. problem.depth} :
                /\ IsProgram(p)
                /\ \A i, j \in 1 .. Len(p) : p[i] = p[j] => i = j}

Consistent == /\ \A k \in problem.solved : problem.h[k] = 0
              /\ \A k \in Keys \ problem.solved : \A c \in problem.succ[k] :
                     problem.h[k] <= 1 + problem.h[c]

ShortestAnswer == \A p \in Programs : answer # <<>> /\ best <= G(p)

\* Section 11 of note/A*.md with what it leaves out: if every path is accepted and
\* the heuristic is zero at solutions and drops by at most one per peel (that it never
\* overestimates is not enough, a key is not opened again), the search returns a
\* shortest program, and none only if all are as long as the depth limit.
AnswerShortest ==
    proven => (Consistent /\ Programs \subseteq problem.valid => ShortestAnswer)

\* The first answer is the only one, whatever the heuristic: no node left on the
\* heap has a smaller f, so `f >= best` drops them all.
FirstAnswerStays == [][answer # <<>> => answer' = answer]_vars

\* Section 11 of note/A*.md, termination: also where peels lead in circles, and
\* without the deadline.
Terminates == <>~running

=============================================================================
