------------------------------ MODULE Pipeline ------------------------------
(***************************************************************************)
(* From a function body to the segments the optimizer is given: parsing,   *)
(* the mechanical split of long segments (split_raw_segments in            *)
(* src/wasm/split.rs), their symbolic execution (materialize_segments in   *)
(* src/wasm/materialize.rs), and the split of what was executed into       *)
(* chunks that carry the state on (split_segments).                        *)
(*                                                                         *)
(* Stages follow main: a raw segment is never split again, a materialized  *)
(* one is when optimize_segments is given a limit.                         *)
(***************************************************************************)
EXTENDS Blocks

CONSTANTS Bodies,       \* function bodies
          Limits,       \* instructions per chunk, 0 for no limit
          NumLocals     \* locals of the function

ASSUME PipelineAssumption ==
    NumLocals \in Nat /\ Limits \subseteq Nat /\ \A body \in Bodies : body \in Seq(Operators(NumLocals))

VARIABLES body, limit, stage,
          raw,          \* raw segments, then chunks
          next,         \* the chunk or segment to be treated next
          segs,         \* materialized segments
          carried       \* for every segment the chunks it is split into

vars == <<body, limit, stage, raw, next, segs, carried>>

-----------------------------------------------------------------------------
CeilDiv(a, b) == (a + b - 1) \div b

Least(a, b) == IF a < b THEN a ELSE b

Most(a, b) == IF a < b THEN b ELSE a

\* Chunk number `part` of a sequence cut every n.
Slice(seq, part, n) == SubSeq(seq, (part - 1) * n + 1, Least(part * n, Len(seq)))

TextsOf(ops, texts) == {Id(op) : op \in {op \in ToSet(ops) : IsOpaque(op)}} \cap texts

\* split_raw_segment: every chunk keeps the bound and its own texts.
SplitRaw(s, n) ==
    IF n = 0 \/ Len(s.ops) <= n THEN <<s>>
    ELSE LET count == CeilDiv(Len(s.ops), n) IN
         [part \in 1..count |->
             LET ops == Slice(s.ops, part, n) IN
             [ix |-> Slice(s.ix, part, n), ops |-> ops,
              part |-> <<part - 1, count>>, template |-> s.template,
              texts |-> TextsOf(ops, s.texts)]]

-----------------------------------------------------------------------------
InStack(n) == [i \in 1..n |-> InSym(i - 1)]

FreshLocals == [s \in 0..(NumLocals - 1) |-> LocalSym(s)]

\* to_fin_state: the stack, and the locals changed since `start`.
FinSince(m, start) ==
    [stack |-> m.stack,
     locals |-> LET changed == {s \in DOMAIN m.locals : m.locals[s] # start[s]}
                IN  [s \in changed |-> m.locals[s]]]

Fits(state, max) == /\ Len(state.stack) <= max
                    /\ \A s \in DOMAIN state.locals : s <= Most(NumLocals, 1) - 1

\* Mutant: the machine starts without the inputs.
NoInputs(ops) == <<>>

\* Mutant: the inputs are numbered from the top.
InputsFromTop(ops) == Reverse(InStack(StackBounds(ops).init))

SeededStack(ops) == InStack(StackBounds(ops).init)

\* What an instruction that fails leaves of the stack: a slot out of range is
\* found before anything else, operands are popped one by one until there is
\* none (a tee only looks at its own), results pushed until the bound.
Broken(m, op, bound) ==
    LET height == Len(m.stack)
        rest   == SubSeq(m.stack, 1, height - Pops(op))
        args   == SubSeq(m.stack, height - Pops(op) + 1, height)
    IN  CASE op[1] \in LocalKinds /\ op[2] \notin DOMAIN m.locals -> m
          [] height < Pops(op) -> [m EXCEPT !.stack = <<>>]
          [] OTHER -> [m EXCEPT !.stack = SubSeq(rest \o Outputs(m, op, args), 1, bound)]

\* materialize_raw_segment: the machine starts with the inputs of the whole
\* chunk and stops where an instruction fails.  The instructions before that
\* one are the segment: its entry state counts their inputs only, its final
\* state is what the failed one left.
Materialize(s, i) ==
    LET bound == Most(StackBounds(s.ops).max, s.template) + StackSlack
        at == Execution(Entry(SeededStack(s.ops), NumLocals), s.ops, bound)
        done == Cardinality({k \in 1..Len(s.ops) : at[k].ok})
        ops == SubSeq(s.ops, 1, done)
        max == Most(bound, StackBounds(ops).max + StackSlack)
        init == [stack |-> InStack(StackBounds(ops).init), locals |-> FreshLocals]
        last == IF done = Len(s.ops) THEN at[done] ELSE Broken(at[done], s.ops[done + 1], bound)
        fin == FinSince(last, FreshLocals)
    IN  IF done = 0 \/ ~Fits(init, max) \/ ~Fits(fin, max) THEN <<>>
        ELSE <<[of |-> i, ops |-> ops, init |-> init, fin |-> fin, max |-> max,
                texts |-> TextsOf(ops, s.texts), meta |-> at[done].meta,
                deps |-> ComputeDependencies(ops, at[done].meta)]>>

-----------------------------------------------------------------------------
Machine(init) == [stack |-> init.stack, meta |-> <<>>, ok |-> TRUE, locals |-> init.locals]

\* Mutant: a chunk starts with fresh locals.
CarryStack(m) == [stack |-> m.stack, locals |-> FreshLocals]

Carry(m) == [stack |-> m.stack, locals |-> m.locals]

\* split_segment: one machine runs through all chunks; a chunk starts with
\* what the machine has, and its final state lists the locals it changed.
\* The first chunk that is out of bounds gives the segment back whole, the
\* first instruction that fails ends the program.
SplitSegment(s, n) ==
    IF n = 0 \/ Len(s.ops) <= n THEN [ok |-> TRUE, whole |-> TRUE, chunks |-> <<s>>]
    ELSE
    LET count == CeilDiv(Len(s.ops), n)
        machine[p \in 0..count] ==
            IF p = 0 THEN Machine(s.init)
            ELSE Run([machine[p - 1] EXCEPT !.meta = <<>>], Slice(s.ops, p, n), s.max)
        Chunk(p) ==
            LET ops == Slice(s.ops, p, n) IN
            [ops |-> ops, max |-> Most(s.max, StackBounds(ops).max + StackSlack),
             init |-> IF p = 1 THEN s.init ELSE Carry(machine[p - 1]),
             fin |-> FinSince(machine[p], machine[p - 1].locals),
             meta |-> machine[p].meta, texts |-> TextsOf(ops, s.texts), of |-> s.of,
             deps |-> ComputeDependencies(ops, machine[p].meta)]
        Fit(p) == /\ machine[p].ok
                  /\ Fits(Chunk(p).init, Chunk(p).max)
                  /\ Fits(Chunk(p).fin, Chunk(p).max)
        bad == {p \in 1..count : ~Fit(p)}
    IN  IF bad = {} THEN [ok |-> TRUE, whole |-> FALSE, chunks |-> [p \in 1..count |-> Chunk(p)]]
        ELSE [ok |-> machine[Min(bad)].ok, whole |-> TRUE, chunks |-> <<s>>]

-----------------------------------------------------------------------------
Init ==
    /\ body \in Bodies /\ limit \in Limits
    /\ stage = "parse"
    /\ raw = <<>> /\ segs = <<>> /\ carried = <<>>
    /\ next = 1

Parse ==
    /\ stage = "parse"
    /\ raw' = RawSegments(body)
    /\ stage' = "split"
    /\ UNCHANGED <<body, limit, next, segs, carried>>

Split ==
    /\ stage = "split"
    /\ raw' = FlattenSeq([i \in DOMAIN raw |-> SplitRaw(raw[i], limit)])
    /\ stage' = "materialize"
    /\ UNCHANGED <<body, limit, next, segs, carried>>

\* materialize_segments goes on with the next chunk; a chunk that gives
\* nothing is left out.
MaterializeNext ==
    /\ stage = "materialize"
    /\ IF next \in DOMAIN raw
       THEN /\ segs' = segs \o Materialize(raw[next], next)
            /\ next' = next + 1
            /\ UNCHANGED stage
       ELSE /\ stage' = "resplit"
            /\ next' = 1
            /\ UNCHANGED segs
    /\ UNCHANGED <<body, limit, raw, carried>>

\* split_segments with a limit of two, whatever the first split did.
Resplit ==
    /\ stage = "resplit"
    /\ IF next \in DOMAIN segs
       THEN LET result == SplitSegment(segs[next], 2)
            IN  /\ carried' = Append(carried, result)
                /\ stage' = IF result.ok THEN "resplit" ELSE "panic"
                /\ next' = next + 1
       ELSE /\ stage' = "done"
            /\ UNCHANGED <<next, carried>>
    /\ UNCHANGED <<body, limit, raw, segs>>

Next == Parse \/ Split \/ MaterializeNext \/ Resplit

Spec == Init /\ [][Next]_vars

-----------------------------------------------------------------------------
(* Properties *)

IsRun(ix) == \A i \in 2..Len(ix) : ix[i] = ix[i - 1] + 1

\* Segments and chunks are stretches of the body in its order, none of which
\* a branch can enter or leave in the middle; no operator is in two of them,
\* and the text of every instruction with an id is at hand.  The split loses
\* nothing: its chunks hold the operators of the segments before it, and none
\* is longer than the limit (blocks_from_operators, classify_block_segments,
\* split_raw_segments).
SegmentsAreRuns ==
    LET Positions(segments) == FlattenSeq([i \in DOMAIN segments |-> segments[i].ix])
        all == Positions(raw)
    IN  /\ \A i \in DOMAIN raw : /\ IsRun(raw[i].ix)
                                 /\ \A p \in ToSet(raw[i].ix) : ~IsControl(body[p])
                                 /\ \A op \in ToSet(raw[i].ops) :
                                        IsOpaque(op) => Id(op) \in raw[i].texts
        /\ \A i, j \in DOMAIN all : i < j => all[i] < all[j]
        /\ stage \notin {"parse", "split"} =>
              /\ all = Positions(RawSegments(body))
              /\ limit > 0 => \A i \in DOMAIN raw : Len(raw[i].ops) <= limit

IsWhole(s) == Len(s.ops) = Len(raw[s.of].ops)

Reaches(s) ==
    LET m == Run(Machine(s.init), s.ops, s.max)
    IN  m.ok /\ FinSince(m, s.init.locals) = s.fin

\* What a segment calls its final state is where its instructions lead from
\* what it calls its entry state, unless its execution was cut short: then
\* the final state has inputs of the part that is missing and lacks the
\* operands of the instruction that failed (materialize_raw_segment).
FinIsReached == \A i \in DOMAIN segs : IsWhole(segs[i]) => Reaches(segs[i])

\* The execution of a chunk is not cut short, and the chunk not dropped, if
\* the chunk is no longer than the slack of the bound and one: the height is
\* undercounted by the inputs found late, at most one per push before them
\* (stack_bounds_ops, SegmentBounds::new).
ShortIsWhole ==
    stage \in {"resplit", "done"} =>
        \A i \in DOMAIN raw :
            Len(raw[i].ops) <= StackSlack + 1 /\ (\A op \in ToSet(raw[i].ops) : Pushes(op) <= 1)
            => \E j \in DOMAIN segs : segs[j].of = i /\ IsWhole(segs[j])

\* Chunks that carry the state on hold the segment's instructions, each starts
\* where the one before ends and reaches its own final state, and together
\* they reach the segment's; executing them again never fails, and no chunk
\* is out of bounds (split_segment).
CarriedChunksCompose ==
    /\ stage # "panic"
    /\ \A i \in DOMAIN carried :
          LET s == segs[i]
              parts == carried[i].chunks
              last == parts[Len(parts)]
              end == [carried |-> [x \in DOMAIN last.init.locals |->
                                      IF x \in DOMAIN last.fin.locals THEN last.fin.locals[x]
                                                                      ELSE last.init.locals[x]]]
          IN  IsWhole(s) =>
                /\ FlattenSeq([p \in DOMAIN parts |-> parts[p].ops]) = s.ops
                /\ \A p \in DOMAIN parts : Reaches(parts[p])
                /\ FinSince([stack |-> last.fin.stack, locals |-> end.carried], FreshLocals) = s.fin
                /\ carried[i].whole => Len(s.ops) <= 2

-----------------------------------------------------------------------------
(* What two instructions of a segment may both touch *)

Bytes == [load |-> Width, store |-> Width, load8 |-> 1, store8 |-> 1,
          load64 |-> 2 * Width, store64 |-> 2 * Width]

\* The operator at position k of segment s, and the address it uses.
Operator(s, k) == body[raw[s.of].ix[k]]

Address(s, k) == LET op == s.ops[k]
                 IN  IF op[1] = "opaque" THEN InputsOf(s.meta, Id(op))[1]
                                         ELSE AddrSymbol(op, s.meta)

\* Accesses of constant addresses meet if their bytes do; of others it is not
\* known.  The machine that runs the code takes an address for an unsigned
\* number and adds the offset without reducing the sum, as WebAssembly says.
MayMeet(s, i, j) ==
    LET a == Address(s, i)
        b == Address(s, j)
        x == Operator(s, i)
        y == Operator(s, j)
    IN  IsConst(a) /\ IsConst(b) =>
            /\ a[2] + x[2] < b[2] + y[2] + Bytes[y[1]]
            /\ b[2] + y[2] < a[2] + x[2] + Bytes[x[1]]

Writes == {"store", "store8", "store64", "gset", "call"}

\* Two instructions of which one may change what the other reads or writes.
Disturbs(s, i, j) ==
    LET x == Operator(s, i)[1]
        y == Operator(s, j)[1]
        touching == DOMAIN Bytes \cup {"gget", "gset", "call"}
    IN  /\ {x, y} \subseteq touching /\ {x, y} \cap Writes # {}
        /\ \/ "call" \in {x, y}
           \/ {x, y} \subseteq {"gget", "gset"} /\ Operator(s, i)[2] = Operator(s, j)[2]
           \/ {x, y} \subseteq DOMAIN Bytes /\ MayMeet(s, i, j)

\* One of two constant addresses is not the number its text stands for, which
\* is negative.
SignsDiffer(s, i, j) ==
    LET a == Address(s, i)
        b == Address(s, j)
    IN  IsConst(a) /\ IsConst(b) /\ (Signed(a[2]) = a[2]) # (Signed(b[2]) = b[2])

\* Two instructions whose order can be observed are in the dependency list,
\* except where the code does not look: accesses it keeps as opaque ones,
\* addresses written differently, and constant addresses of which it reads
\* one as negative (collect_mem_accesses, effective_addr, are_dependent_mem).
OnlyKnownGapsInOrder ==
    \A n \in DOMAIN segs :
        LET s == segs[n] IN
        \A i, j \in DOMAIN s.ops :
            i < j /\ Disturbs(s, i, j) =>
                \/ <<Id(s.ops[i]), Id(s.ops[j])>> \in AllPairs(s.ops, s.meta)
                \/ "opaque" \in {s.ops[i][1], s.ops[j][1]}
                \/ /\ {s.ops[i][1], s.ops[j][1]} \subseteq {"load", "store"}
                   /\ \/ /\ ~IsConst(Address(s, i)) /\ ~IsConst(Address(s, j))
                         /\ Address(s, i) # Address(s, j)
                      \/ SignsDiffer(s, i, j)
=============================================================================
