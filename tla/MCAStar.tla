------------------------------ MODULE MCAStar -------------------------------
EXTENDS AStar

\* Four keys: 0 is the exit goal, 1 and 2 lie between, 3 is a solution and 2 may
\* be another.  Edges lead anywhere but out of 3 and from a key to itself; 1 and 2
\* may lead to each other, and 2 back to 0.
FourKeys == 0 .. 3

Edges == {<<0, 1>>, <<0, 2>>, <<0, 3>>, <<1, 2>>, <<1, 3>>, <<2, 0>>, <<2, 1>>, <<2, 3>>}

Succ(edges) == [k \in FourKeys |-> {e[2] : e \in {f \in edges : f[1] = k}}]

SimplePaths == {<<0, 3>>, <<0, 2>>, <<0, 1, 3>>, <<0, 2, 3>>, <<0, 1, 2>>,
                <<0, 1, 2, 3>>, <<0, 2, 1, 3>>}

Complete(edges, solved) ==
    {p \in SimplePaths : /\ p[Len(p)] \in solved
                         /\ \A i \in 1 .. Len(p) - 1 :
                                p[i] \notin solved /\ <<p[i], p[i + 1]>> \in edges}

Heuristics(solved) == {h \in [FourKeys -> 0 .. 2] : h[0] = 0 /\ \A k \in solved : h[k] = 0}

\* Any of the complete paths may be refused.
AllProblems ==
    UNION {[succ : {Succ(edges)}, h : Heuristics(solved), solved : {solved},
            valid : SUBSET Complete(edges, solved), depth : {3, 4}] :
           edges \in SUBSET Edges, solved \in {{3}, {2, 3}}}

=============================================================================
