----------------------------- MODULE Synthesis -----------------------------
(***************************************************************************)
(* The synthesis of rewrite rules and their cache: synthesis.rs and the    *)
(* loop of ruler.rs.  Programs start one after the other with requests of  *)
(* their own; each loads the rules from the file of its term size, or      *)
(* synthesizes them, one signature after the other, and writes the file.   *)
(* Threads that work on several signatures share nothing but a progress    *)
(* counter, and their results are collected in the order of the            *)
(* signatures: one after the other stands for every interleaving.          *)
(***************************************************************************)
EXTENDS Ruler

CONSTANTS
    Builds,         \* what a program may be built with: ops, the operators, and
                    \* hard, the left sides on which Z3 gives up
    Requests,       \* records of size, arity and tests
    IterLimits      \* iterations after which a saturation may be cut short

VARIABLES
    build,          \* constant of a behaviour
    files,          \* files[n]: what the file for terms of size n holds
    pc,             \* what the running program does
    request,        \* what it was asked for
    todo,           \* the signatures still to do
    size,           \* the size of terms the work is at
    graph,          \* its term set
    rules,          \* pairs proved for this signature
    out,            \* rules collected from the finished signatures
    used            \* rules the program goes on with

vars == <<build, files, pc, request, todo, size, graph, rules, out, used>>
work == <<todo, size, graph, rules, out>>

NoFile == [kind |-> "none"]
Torn == [kind |-> "torn"]
Sizes == {r.size : r \in Requests}

\* The signature in work: they are taken in one order.
Current == CHOOSE sig \in todo : TRUE

\* Mutant: the arity is not compared either.
LoadsAnyArity(file, r) ==
    /\ file.kind = "whole"
    /\ file.size = r.size

\* A file is read whole; one that does not parse or is for another size or
\* arity is as good as none.  The number of tests behind it is not compared.
Loads(file, r) ==
    /\ file.kind = "whole"
    /\ file.size = r.size
    /\ file.arity = r.arity

-----------------------------------------------------------------------------

Init ==
    /\ build \in Builds
    /\ files = [n \in Sizes |-> NoFile]
    /\ pc = "idle"
    /\ request = CHOOSE r \in Requests : TRUE
    /\ todo = {} /\ size = 0 /\ graph = NoTerms /\ rules = {} /\ out = {} /\ used = {}

LoadRules ==
    /\ pc' = "using"
    /\ used' = files[request'.size].rules
    /\ UNCHANGED work

SynthesizeRules ==
    /\ pc' = "grow"
    /\ todo' = Signatures(request'.arity, build.ops)
    /\ size' = 1 /\ graph' = NoTerms /\ rules' = {} /\ out' = {} /\ used' = {}

Start ==
    /\ pc = "idle"
    /\ request' \in Requests
    /\ IF Loads(files[request'.size], request') THEN LoadRules ELSE SynthesizeRules
    /\ UNCHANGED <<build, files>>

\* Terms of the next size, of all sorts.
Grow ==
    /\ pc = "grow"
    /\ graph' = AddTermsOfSize(graph, Current, size, build.ops)
    /\ pc' = "match"
    /\ UNCHANGED <<build, files, request, todo, size, rules, out, used>>

Key(pair) == {pair[1], pair[2]}

\* Candidates that pass the tests and the proof and are not known yet.
Fresh(cands) ==
    {p \in cands :
        /\ PassesTests(p[1], p[2], Current, request.tests)
        /\ p[1] \notin build.hard
        /\ Z3Proves(p[1], p[2], Current)
        /\ Key(p) \notin {Key(q) : q \in rules}}

\* One round: compact, pair up, verify.  A round that adds no rule ends the
\* work on terms of this size.
Match ==
    /\ pc = "match"
    /\ \E iters \in IterLimits :
        LET compact == Compacted(graph, rules, iters)
        IN  \E oldest \in BOOLEAN :
            LET pairs == CvecMatchPairs(compact, Current, size, oldest)
            IN  \E textOrder \in BOOLEAN :
                LET fresh == Fresh(Minimized(pairs, textOrder))
                IN  /\ graph' = compact
                    /\ rules' = rules \cup fresh
                    /\ IF fresh # {} THEN UNCHANGED <<pc, size>>
                       ELSE IF size < request.size THEN pc' = "grow" /\ size' = size + 1
                       ELSE pc' = "collect" /\ UNCHANGED size
    /\ UNCHANGED <<build, files, request, todo, out, used>>

\* The rules of a finished signature join those of earlier ones, once each.
Collect ==
    /\ pc = "collect"
    /\ LET seen == {Key(<<r.lhs, r.rhs>>) : r \in out}
       IN  out' = out \cup {[lhs |-> p[1], rhs |-> p[2], sig |-> Current] :
                               p \in {q \in rules : Key(q) \notin seen}}
    /\ todo' = todo \ {Current}
    /\ pc' = IF todo' = {} THEN "save" ELSE "grow"
    /\ size' = 1 /\ graph' = NoTerms /\ rules' = {}
    /\ UNCHANGED <<build, files, request, used>>

\* Writing the file empties it first.
Truncate ==
    /\ pc = "save"
    /\ pc' = "write"
    /\ files' = [files EXCEPT ![request.size] = Torn]
    /\ UNCHANGED <<build, request, work, used>>

Write ==
    /\ pc = "write"
    /\ pc' = "using"
    /\ files' = [files EXCEPT ![request.size] =
           [kind |-> "whole", size |-> request.size, arity |-> request.arity, tests |-> request.tests, rules |-> out]]
    /\ used' = out
    /\ UNCHANGED <<build, request, work>>

\* The program ends, after its work or in the middle of it.
Stop ==
    /\ pc # "idle"
    /\ pc' = "idle"
    /\ todo' = {} /\ size' = 0 /\ graph' = NoTerms /\ rules' = {} /\ out' = {} /\ used' = {}
    /\ UNCHANGED <<build, files, request>>

Next == Start \/ Grow \/ Match \/ Collect \/ Truncate \/ Write \/ Stop

Spec == Init /\ [][Next]_vars

-----------------------------------------------------------------------------
\* The values that the terms of each class have on a row: those of its nodes over
\* the values of their arguments' classes, until there are no more.
RECURSIVE Valued(_, _, _)
Valued(g, row, known) ==
    LET Of(node) ==
            IF Leaf(node) THEN {ValueOf(node, row)}
            ELSE {IF Trap \in ToSet(args) THEN Trap ELSE Apply[node[1]][args] :
                      args \in {a \in [DOMAIN Tail(node) -> UNION {known[c] : c \in DOMAIN known}] :
                                   \A k \in DOMAIN a : a[k] \in known[g.class[node[k + 1]]]}}
        next == [c \in Classes(g) |-> UNION {Of(g.nodes[i]) : i \in {j \in Ids(g) : g.class[j] = c}}] @@ <<>>
    IN  IF next = known THEN known ELSE Valued(g, row, next)

Outcomes(g, row) == Valued(g, row, [c \in Classes(g) |-> {}])

\* Rules that forget a symbol, which may stand for a term that traps, and rules
\* whose sides trap.
Forgetting(sig) == {p \in rules : \E i \in DOMAIN sig.inputs : Uses(p[2], i) = 0}
Trapping(sig) == {p \in rules : \E row \in AllRows(sig) : ValueOf(p[1], row) = Trap}

\* The terms of a class, all that can be read out of it and not just those
\* that were added, have one value on a row of inputs.  Two are there only
\* if a term of the class traps on that very row and rules of both kinds were
\* proved: each rule is right, but a rule that forgets a symbol equates a term
\* that traps with whatever it makes of it.
OnlyTrapsMislead ==
    todo # {} /\ ~UsesFloat(Current) =>
        \A row \in AllRows(Current) :
            LET outcomes == Outcomes(graph, row)
            IN  \A c \in Classes(graph) :
                    Cardinality(outcomes[c] \ {Trap}) > 1 =>
                        /\ Trap \in outcomes[c]
                        /\ Forgetting(Current) # {}
                        /\ Trapping(Current) # {}

\* A program goes on with rules of a file that was written to its end, for the
\* size of terms and the number of symbols it asked for: a program stopped
\* while writing leaves nothing a later one would take for rules, and rules for
\* fewer symbols are not taken for all.  No pair is there twice, in whatever
\* direction.
RulesAreOwn ==
    pc = "using" =>
        /\ files[request.size].kind = "whole"
        /\ files[request.size].arity = request.arity
        /\ files[request.size].rules = used
        /\ \A r \in used : Size(r.lhs) <= request.size /\ Len(r.sig.inputs) <= request.arity
        /\ \A r, s \in used : r # s => Key(<<r.lhs, r.rhs>>) # Key(<<s.lhs, s.rhs>>)

\* All terms of one size, and the class of a term whose every part has one.
RECURSIVE TermsOfSize(_, _)
TermsOfSize(sig, n) ==
    IF n = 1 THEN NodesOfSize(<<>>, sig, 1, build.ops)
    ELSE UNION {IF Len(Pops[op]) = 1
                THEN {<<op, t>> : t \in {u \in TermsOfSize(sig, n - 1) : SortOf(u, sig) = Pops[op][1]}}
                ELSE UNION {{<<op, l, r>> : l \in {u \in TermsOfSize(sig, k) : SortOf(u, sig) = Pops[op][1]},
                                            r \in {u \in TermsOfSize(sig, n - 1 - k) : SortOf(u, sig) = Pops[op][2]}}
                            : k \in 1 .. n - 2}
                : op \in build.ops}

RECURSIVE ClassesOf(_, _)
ClassesOf(g, t) ==
    IF Leaf(t) THEN {g.class[i] : i \in {j \in Ids(g) : g.nodes[j] = t}}
    ELSE LET args == Computed([k \in DOMAIN Tail(t) |-> ClassesOf(g, t[k + 1])])
         IN  {g.class[i] : i \in {j \in Ids(g) :
                 g.nodes[j][1] = t[1] /\ \A k \in DOMAIN args : g.class[g.nodes[j][k + 1]] \in args[k]}}

\* Every well-typed term of the sizes done has a class, the one of its value
\* as far as the rules tell: operators are put over classes only, each listed
\* at the size of its smallest term of the moment, and compaction merges
\* classes and makes smallest terms smaller between two sizes, yet no
\* combination is passed over.
NothingForgotten ==
    todo # {} =>
        \A n \in 1 .. IF pc = "grow" THEN size - 1 ELSE size :
            \A t \in TermsOfSize(Current, n) : Cardinality(ClassesOf(graph, t)) = 1
=============================================================================
