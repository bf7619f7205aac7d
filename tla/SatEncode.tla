------------------------------ MODULE SatEncode ------------------------------
(***************************************************************************)
(* The CNF of src/optimize/sat.rs read as a path system: a model of the    *)
(* formula is a sequence of LOrig alphabet entries together with the stack *)
(* cells y and the locals w after every step, and each clause constrains   *)
(* one step or the whole path.  This module computes what the clauses are  *)
(* made of, module SatPaths has the paths.                                 *)
(*                                                                         *)
(* Cells and locals hold values up to equivalence: the clauses mention     *)
(* equivalence classes only (pin_stack_equiv, pin_transfer_equiv, ...).    *)
(***************************************************************************)
EXTENDS Acceptance

CONSTANTS
    Scratch,        \* SearchConfig::scratch_locals
    SynthConsts,    \* synthesis_const_exprs of the machine's type
    Bot, Top, Star  \* empty cell, value outside V, unknown local

ASSUME EncodeAssumption == Scratch \in Nat /\ SynthConsts \subseteq Nat

-----------------------------------------------------------------------------
LOrig(s) == Len(s)
Slots    == 0 .. MaxLocal + Scratch     \* Dims::r of them

\* From here on V is the segment's vocabulary and rows are its operator tables.

\* stack_height_bound: room above the trace's peak for one spill per scratch slot.
TraceHeight(t) == Max({Len(t[i].stack) : i \in DOMAIN t})
Height(s, t) == Min({Max({TraceHeight(t) + Scratch + 1, 1}), MaxStack(s)})

-----------------------------------------------------------------------------
\* build_vocab: every value of the trace, of the boundaries and of the opaque
\* instructions with its subterms, and the synthesis constants of the types used.
MachineValues(m) == ToSet(m.stack) \union {m.locals[r] : r \in 0 .. NumLocals - 1}
MetaValues(m)    == UNION {ToSet(x.in) \union ToSet(x.out) : x \in ToSet(m.meta)}

IsTyped(v) == v[1] = "const" \/ v[1] \in PureKinds

Vocab(s, t) ==
    LET seeds == MetaValues(Exit(s, t)) \union UNION {MachineValues(t[i]) : i \in DOMAIN t}
    IN  {Normal(v) : v \in UNION {Subterms(w) : w \in seeds}}
        \union IF \E i \in DOMAIN s : s[i][1] \in PureKinds \union {"const"}
               THEN {Const(n) : n \in SynthConsts} ELSE {}

\* Rows <<a1, a0, result>> of a binary operator, a0 on top: decompositions of
\* values of V, the applications of the trace, and all typed pairs whose result
\* is in V.
Decompositions(kind, V) ==
    CASE kind = "mul" -> {row \in V \X V \X V : row[3][1] = "mul" /\ row[3][2] = {row[1], row[2]}}
      [] kind = "shr" -> {<<v[2], v[3], v>> : v \in {u \in V : u[1] = "shr"}}

TraceRows(kind, s, t) ==
    LET row(i) == LET below == NormalSeq(t[i - 1].stack)
                  IN  <<below[Len(below) - 1], Last(below), Normal(Last(t[i].stack))>>
        rows == {row(i) : i \in {j \in DOMAIN s : s[j][1] = kind}}
    IN  IF kind = "mul" THEN rows \union {<<r[2], r[1], r[3]>> : r \in rows} ELSE rows

TypedRows(kind, V) ==
    LET typed == {v \in V : IsTyped(v)}
    IN  {r \in typed \X typed \X V : r[3] = Simplify(kind, r[1], r[2])}

\* Mutant: the trace's own applications are not merged.
RowsWithoutTrace(kind, s, t, V) == Decompositions(kind, V) \union TypedRows(kind, V)

Rows(kind, s, t, V) ==
    Decompositions(kind, V) \union TraceRows(kind, s, t) \union TypedRows(kind, V)

-----------------------------------------------------------------------------
\* build_ops: NOP, the constants of V, accesses to the slots the segment uses or
\* changes and to the scratch slots, drop, operators with a row, opaque ops.
UsedSlots(s) == {s[i][2] : i \in {j \in DOMAIN s : s[j][1] \in LocalKinds}}
ActiveSlots(s) == UsedSlots(s) \union (MaxLocal + 1 .. MaxLocal + Scratch)
WrittenSlots(s) == {s[i][2] : i \in {j \in DOMAIN s : s[j][1] \in {"set", "tee"}}}

Alphabet(s, V, rows) ==
    {<<"nop">>, <<"drop">>}
    \union {<<"const", v[2]>> : v \in {u \in V : IsConst(u)}}
    \union (LocalKinds \X ActiveSlots(s))
    \union {<<kind>> : kind \in {k \in PureKinds : rows[k] # {}}}
    \union {op \in ToSet(s) : IsOpaque(op)}

\* classify_local_slots: a slot of the function the segment never writes keeps
\* its entry value, or star if it has none, at every step.
IsPinned(s, slot) == slot <= MaxLocal /\ slot \notin WrittenSlots(s)

\* Stack position j (0 = top) at position j + 1 of a sequence of `height` cells.
CellsOf(stack, height) ==
    [j \in 1 .. height |-> IF j <= Len(stack) THEN Normal(stack[Len(stack) + 1 - j]) ELSE Bot]

EntryLocals == [r \in Slots |-> IF r < NumLocals THEN LocalSym(r) ELSE Star]

-----------------------------------------------------------------------------
\* Reachability pruning: a real value may stand in a cell after step i only if
\* it is in forward[i] and in backward[i].
InitValues(s) == ToSet(EntryStack(s)) \union ({EntryLocals[r] : r \in Slots} \ {Star})

\* compute_forward_reachability; Get adds nothing, the locals' pool is always a
\* part of the stack's.
ForwardStep(s, t, V, rows, pool) ==
    pool \union {v \in V : IsConst(v)}
         \union {r[3] : r \in {q \in UNION {rows[k] : k \in PureKinds} :
                                 {q[1], q[2]} \subseteq pool}}
         \union UNION {ToSet(x.out) : x \in ToSet(Exit(s, t).meta)}

Forward(s, t, V, rows) ==
    LET f[i \in 0 .. Len(s)] ==
            IF i = 0 THEN InitValues(s) ELSE ForwardStep(s, t, V, rows, f[i - 1])
    IN  f

OpaqueInputs(m) == {Normal(v) : v \in UNION {ToSet(x.in) : x \in ToSet(m.meta)}}

FinValues(m) == {Normal(v) : v \in MachineValues(m)}

\* apply_inverse_step: operands of rows and inputs of instructions whose result
\* is wanted, in one pass over the alphabet.  The operators come first, in the
\* order a HashMap yields them, then the opaque ones in the segment's order.
BackwardStep(s, t, rows, order, pool) ==
    LET pred(acc, kind) == acc \union
            UNION {{r[1], r[2]} : r \in {q \in rows[kind] : q[3] \in acc}}
        need(acc, x) == IF ToSet(x.out) \intersect acc # {}
                        THEN acc \union ToSet(NormalSeq(x.in)) ELSE acc
    IN  FoldLeft(need, FoldLeft(pred, pool, order), Exit(s, t).meta)
        \union InitValues(s)

Backward(s, t, rows, order) ==
    LET b[i \in 0 .. Len(s)] ==
            IF i = Len(s) THEN FinValues(Exit(s, t)) \union OpaqueInputs(Exit(s, t))
                          ELSE BackwardStep(s, t, rows, order, b[i + 1])
    IN  b

Prune(s, t, V, rows, order) ==
    LET fwd == Forward(s, t, V, rows)
        bwd == Backward(s, t, rows, order)
    IN  [i \in 0 .. Len(s) |-> fwd[i] \intersect bwd[i]]

\* Everything about a segment the clauses are made of, computed once.
Encode(s, t, V, rows, order) ==
    [trace    |-> t,
     values   |-> V,
     rows     |-> rows,
     alphabet |-> Alphabet(s, V, rows),
     allowed  |-> Prune(s, t, V, rows, order),
     deps     |-> Dependencies(s, t),
     height   |-> Height(s, t),
     maxStack |-> MaxStack(s),
     exit     |-> Exit(s, t)]

EncodingOf(s, order) ==
    LET t == Trace(s)
        V == Vocab(s, t)
    IN  Encode(s, t, V, [k \in PureKinds |-> Rows(k, s, t, V)], order)

Orders == {o \in [1 .. Cardinality(PureKinds) -> PureKinds] : ToSet(o) = PureKinds}

=============================================================================
