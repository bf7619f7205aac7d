-------------------------------- MODULE Deps --------------------------------
(***************************************************************************)
(* Order dependencies between opaque instructions, src/wasm/deps.rs: which *)
(* pairs of a segment must keep their order, the reduced list the segment  *)
(* carries, and the two checks every candidate program has to pass.        *)
(***************************************************************************)
EXTENDS SymMachine, Reduction

CONSTANT Width      \* bytes of a 32-bit access (width_bytes)

ASSUME DepsAssumption == Width \in Nat \ {0}

-----------------------------------------------------------------------------
\* The positions of the instructions of the given kinds.
Accesses(ops, kinds) == {i \in DOMAIN ops : ops[i][1] \in kinds}

InputsOf(meta, id) == (CHOOSE m \in ToSet(meta) : m.id = id).in

\* The address expression: the last input of a store, the only one of a load.
AddrSymbol(op, meta) == Last(InputsOf(meta, Id(op)))

\* The number a constant's text stands for: i32_const_expr holds an i32.
Signed(v) == IF v < Power[WordBits - 1] THEN v ELSE v - WordSize

\* effective_addr: the text is read as a signed number and the unsigned offset
\* added to it; the sum is not reduced to a word.
EffectiveAddr(a, op) == Signed(a[2]) + op[3]

\* Mutant: ranges meet only where they start.
OverlapAtStart(a, b) == a = b

Overlap(a, b) == \/ a <= b /\ b < a + Width
                 \/ b <= a /\ a < b + Width

\* are_dependent_mem: two concrete ranges overlap, two symbolic bases are the
\* same expression (offsets ignored), and a mixed pair always depends.
AreDependentMem(x, y, meta) ==
    /\ x[1] # "load" \/ y[1] # "load"
    /\ \/ x[1] = "call" \/ y[1] = "call"
       \/ LET a == AddrSymbol(x, meta)
              b == AddrSymbol(y, meta)
          IN  CASE IsConst(a) /\ IsConst(b)   -> Overlap(EffectiveAddr(a, x), EffectiveAddr(b, y))
                [] ~IsConst(a) /\ ~IsConst(b) -> a = b
                [] OTHER                      -> TRUE

\* are_dependent_var; a pair of calls is left to the memory pass.
AreDependentVar(x, y) ==
    /\ x[1] # "call" \/ y[1] # "call"
    /\ \/ x[1] = "call" \/ y[1] = "call"
       \/ (x[1] = "gset" \/ y[1] = "gset") /\ x[3] = y[3]

\* The pairs of these instructions, the earlier one first.
OrderedPairs(ops, kinds) ==
    {<<ops[p[1]], ops[p[2]]>> :
        p \in {q \in Accesses(ops, kinds) \X Accesses(ops, kinds) : q[1] < q[2]}}

\* Conflicts: pairs whose order memory, globals or calls make observable.
Conflicts(ops, meta) ==
    LET mem == {p \in OrderedPairs(ops, {"load", "store", "call"}) :
                    AreDependentMem(p[1], p[2], meta)}
        var == {p \in OrderedPairs(ops, {"gget", "gset", "call"}) :
                    AreDependentVar(p[1], p[2])}
    IN  {<<Id(p[1]), Id(p[2])>> : p \in mem \union var}

\* An instruction one of whose inputs is the very result of another.
SubtermPairs(meta) ==
    {<<p[1].id, p[2].id>> :
        p \in {q \in ToSet(meta) \X ToSet(meta) :
            q[1].id # q[2].id /\ ToSet(q[1].out) \intersect ToSet(q[2].in) # {}}}

AllPairs(ops, meta) == Conflicts(ops, meta) \union SubtermPairs(meta)

\* compute_dependencies; module TopoReduce has the algorithm of the reduction.
ComputeDependencies(ops, meta) == Reduced(AllPairs(ops, meta))

-----------------------------------------------------------------------------
\* index_of: the last position of the instruction with this id, 0 if absent.
IndexOf(ops, id) == SelectLastInSeq(ops, LAMBDA op : IsOpaque(op) /\ Id(op) = id)

\* ops_respect_dependencies: an absent instruction satisfies every edge.
RespectsDependencies(ops, deps) ==
    \A d \in deps : LET i == IndexOf(ops, d[1])
                        j == IndexOf(ops, d[2])
                    IN  i # 0 /\ j # 0 => i < j

Occurrences(ops, id) == Cardinality({i \in DOMAIN ops : IsOpaque(ops[i]) /\ Id(ops[i]) = id})

\* storage_ops_preserved: each storage instruction exactly once.
StoragePreserved(original, ops) ==
    \A op \in ToSet(original) : IsOpaque(op) /\ IsStorage(op) => Occurrences(ops, Id(op)) = 1

=============================================================================
