-------------------------------- MODULE Ruler --------------------------------
(***************************************************************************)
(* The term set of the rule synthesis (ruler.rs): an e-graph that grows by *)
(* the size of terms, is compacted with the rules proved so far, and gives *)
(* the pairs of terms that may be rules.  An e-graph is a record of the    *)
(* e-nodes in the order they were added, whose children are the numbers of *)
(* earlier ones, and of the class of each, named by its first member.      *)
(***************************************************************************)
EXTENDS Values

NoTerms == [nodes |-> <<>>, class |-> <<>>]

\* A function as a list of values, computed once.
Computed(s) == <<>> \o s

Ids(g) == DOMAIN g.nodes
Classes(g) == {g.class[i] : i \in Ids(g)}

\* An e-node with the classes of its children for its children.
Canonical(g, node) ==
    IF Leaf(node) THEN node ELSE <<node[1]>> \o [k \in DOMAIN Tail(node) |-> g.class[node[k + 1]]]

\* Hash-consing: a node that is there already is not added again.
Add(g, node) ==
    IF \E i \in Ids(g) : Canonical(g, g.nodes[i]) = Canonical(g, node) THEN g
    ELSE [nodes |-> Append(g.nodes, Canonical(g, node)), class |-> Append(g.class, Len(g.nodes) + 1)]

ClassOf(g, node) ==
    g.class[CHOOSE i \in Ids(g) : Canonical(g, g.nodes[i]) = Canonical(g, node)]

Least(S) == CHOOSE x \in S : \A y \in S : x <= y

Union(g, a, b) ==
    LET lo == Least({a, b})
    IN  [g EXCEPT !.class = Computed([i \in Ids(g) |-> IF g.class[i] \in {a, b} THEN lo ELSE g.class[i]])]

\* Congruence: nodes that became equal share a class, and so do the other
\* members of their classes.
RECURSIVE Rebuild(_)
Rebuild(g) ==
    LET canon == Computed([i \in Ids(g) |-> Canonical(g, g.nodes[i])])
        low == Computed([i \in Ids(g) |-> Least({g.class[j] : j \in {k \in Ids(g) : canon[k] = canon[i]}})])
        merged == [c \in Classes(g) |-> Least({low[i] : i \in {j \in Ids(g) : g.class[j] = c}})] @@ <<>>
        next == [g EXCEPT !.class = Computed([i \in Ids(g) |-> merged[g.class[i]]])]
    IN  IF next = g THEN g ELSE Rebuild(next)

-----------------------------------------------------------------------------
\* The smallest term of each class that has one of up to n nodes.  Of several
\* the code takes one by the order of a class's nodes; the model tries two
\* orders, the first node added first and the last one.
RECURSIVE Reps(_, _, _)
Reps(g, n, oldest) ==
    IF n = 0 THEN <<>>
    ELSE LET known == Reps(g, n - 1, oldest)
             Kids(i) == IF Leaf(g.nodes[i]) THEN {} ELSE {g.class[c] : c \in ToSet(Tail(g.nodes[i]))}
             Built(i) == IF Leaf(g.nodes[i]) THEN g.nodes[i]
                         ELSE <<g.nodes[i][1]>> \o
                              [k \in DOMAIN Tail(g.nodes[i]) |-> known[g.class[g.nodes[i][k + 1]]]]
             new == {i \in Ids(g) : /\ g.class[i] \notin DOMAIN known
                                    /\ Kids(i) \subseteq DOMAIN known
                                    /\ Size(Built(i)) = n}
             First(S) == CHOOSE i \in S : \A j \in S : IF oldest THEN i <= j ELSE i >= j
         IN  known @@ [c \in {g.class[i] : i \in new} |-> Built(First({i \in new : g.class[i] = c}))]

\* The classes whose smallest term has the given sort and size.
Bucket(reps, sig, sort, size) ==
    {c \in DOMAIN reps : SortOf(reps[c], sig) = sort /\ Size(reps[c]) = size}

\* Mutant: the last way to share the nodes between two arguments is missed.
NodesOfSizeShort(reps, sig, size, ops) ==
    IF size = 1
    THEN {<<"sym", i>> : i \in DOMAIN sig.inputs} \cup
         UNION {{<<"const", s, v>> : v \in Consts[s]} : s \in Sorts}
    ELSE UNION {IF Len(Pops[op]) = 1
                THEN {<<op, c>> : c \in Bucket(reps, sig, Pops[op][1], size - 1)}
                ELSE UNION {{<<op, l, r>> : l \in Bucket(reps, sig, Pops[op][1], n),
                                            r \in Bucket(reps, sig, Pops[op][2], size - 1 - n)}
                            : n \in 1 .. size - 3}
                : op \in ops}

\* All e-nodes of one size: leaves, or an operator over classes of smaller terms.
NodesOfSize(reps, sig, size, ops) ==
    IF size = 1
    THEN {<<"sym", i>> : i \in DOMAIN sig.inputs} \cup
         UNION {{<<"const", s, v>> : v \in Consts[s]} : s \in Sorts}
    ELSE UNION {IF Len(Pops[op]) = 1
                THEN {<<op, c>> : c \in Bucket(reps, sig, Pops[op][1], size - 1)}
                ELSE UNION {{<<op, l, r>> : l \in Bucket(reps, sig, Pops[op][1], n),
                                            r \in Bucket(reps, sig, Pops[op][2], size - 1 - n)}
                            : n \in 1 .. size - 2}
                : op \in ops}

\* The terms of one more size join the set; which of the smallest terms stands
\* for a class makes no difference to its size.
AddTermsOfSize(g, sig, size, ops) ==
    FoldSet(LAMBDA node, h : Add(h, node), g, NodesOfSize(Reps(g, size - 1, TRUE), sig, size, ops))

-----------------------------------------------------------------------------
\* Equality saturation.

\* What the symbols of a pattern stand for where it matches a class.
RECURSIVE Matches(_, _, _)
Matches(g, p, c) ==
    IF p[1] = "sym" THEN {p[2] :> c}
    ELSE LET here == {g.nodes[i] : i \in {j \in Ids(g) : g.class[j] = c /\ g.nodes[j][1] = p[1]}}
         IN  IF p[1] = "const" THEN IF p \in here THEN {<<>>} ELSE {}
             ELSE UNION {FoldLeft(LAMBDA subs, k :
                                      {s @@ t : s \in subs,
                                                t \in Matches(g, p[k + 1], g.class[node[k + 1]])},
                                  {<<>>}, [k \in DOMAIN Tail(p) |-> k])
                         : node \in here}

\* The e-graph with an instance of a pattern in it, and the instance's class.
RECURSIVE Instance(_, _, _)
Instance(g, p, sub) ==
    IF p[1] = "sym" THEN [graph |-> g, id |-> g.class[sub[p[2]]]]
    ELSE LET args == FoldLeft(LAMBDA acc, a : LET next == Instance(acc.graph, a, sub)
                                              IN  [graph |-> next.graph, ids |-> Append(acc.ids, next.id)],
                              [graph |-> g, ids |-> <<>>], Args(p))
             node == IF Leaf(p) THEN p ELSE <<p[1]>> \o args.ids
             with == Add(args.graph, node)
         IN  [graph |-> with, id |-> ClassOf(with, node)]

\* One iteration: the matches of all rules are found, then those that change
\* something are applied.
Rewritten(g, rules) ==
    LET found == UNION {{<<rule, c, sub>> : sub \in Matches(g, rule[1], c)} : rule \in rules, c \in Classes(g)}
        Holds(m) == Instance(g, m[1][2], m[3]) = [graph |-> g, id |-> m[2]]
        Applied(m, h) ==
            IF Ids(h) = {} THEN h   \* never; it has h computed before the rest
            ELSE LET rhs == Instance(h, m[1][2], m[3])
                 IN  Union(rhs.graph, rhs.graph.class[m[2]], rhs.id)
    IN  Rebuild(FoldSet(Applied, g, {m \in found : ~Holds(m)}))

\* Up to `iters' iterations, fewer when nothing changes.
RECURSIVE Saturated(_, _, _)
Saturated(g, rules, iters) ==
    IF iters = 0 THEN g
    ELSE LET next == Rewritten(g, rules)
         IN  IF next = g THEN g ELSE Saturated(next, rules, iters - 1)

\* A copy is saturated; what became equal there is merged, what is new dropped.
Compacted(g, rules, iters) ==
    LET sat == Saturated(g, rules, iters)
    IN  IF rules = {} THEN g
        ELSE Rebuild([g EXCEPT !.class = SubSeq(sat.class, 1, Len(g.class))])

-----------------------------------------------------------------------------
\* Pairs of terms that may be rules.

\* The classes that have a characteristic vector.
Eligible(reps, sig) ==
    {c \in DOMAIN reps : \/ UsesEachSymbolOnce(reps[c], sig)
                         \/ reps[c][1] = "const" /\ reps[c][2] = sig.output}

CvecMatchPairs(g, sig, size, oldest) ==
    LET reps == Reps(g, size, oldest)
        cvecs == [c \in Eligible(reps, sig) |-> Cvec(reps[c], sig)] @@ <<>>
    IN  {<<reps[p[1]], reps[p[2]]>> :
            p \in {q \in (DOMAIN cvecs) \X (DOMAIN cvecs) :
                      /\ q[1] # q[2]
                      /\ cvecs[q[1]] = cvecs[q[2]]
                      /\ RewritePair(reps[q[1]], reps[q[2]], sig)
                      /\ Directed(reps[q[1]], reps[q[2]])}}

\* For each left side the pair with the smallest right side.  Among equally
\* small ones the code keeps the first in the order of a hash map; the model
\* tries two orders, of which one reverses the other: that of texts, or not.
Minimized(pairs, textOrder) ==
    {p \in pairs :
        \A q \in pairs \ {p} : q[1] = p[1] =>
            \/ Size(p[2]) < Size(q[2])
            \/ Size(p[2]) = Size(q[2]) /\ TextBefore(Text(p[2]), Text(q[2])) = textOrder}
=============================================================================
