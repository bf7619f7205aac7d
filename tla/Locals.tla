------------------------------- MODULE Locals -------------------------------
(***************************************************************************)
(* One function through --opt-locals (optimize_function in                 *)
(* src/optimize/locals/mod.rs): the analysis, its data-flow iteration one  *)
(* block a step; the solver; the rewriting; and then, to see what it is    *)
(* worth, one execution of the function before and after.                  *)
(*                                                                         *)
(* The rewritten function keeps the instructions of Kept in their order,   *)
(* so both versions execute by the same program counter, and both take the *)
(* same branch.  A value is named by where it comes from.                  *)
(***************************************************************************)
EXTENDS LocalsAlloc

CONSTANTS Functions,  \* the functions given, all valid Wasm
          MaxSteps    \* bound: the instructions one execution may take

\* The ends of the frame that o opens.
Ends(f, o) == {e \in Ix(f) : /\ Kind(f, e) = "end" /\ Frames(f, e) # <<>>
                            /\ Head(Frames(f, e)) = o}

Targets(f, i) == Depths(f, i) \cup IF Kind(f, i) = "brtable" THEN {f.instrs[i].default} ELSE {}

\* Every jump has where to go: an if and an else have their end, a branch
\* leads out of the function, to a loop or to an end.
JumpsLand(f) ==
    \A i \in Ix(f) :
        /\ Kind(f, i) = "if" => Ends(f, i) # {}
        /\ Kind(f, i) = "else" => Ends(f, Head(Frames(f, i))) # {}
        /\ \A d \in Targets(f, i) :
              LET s == Frames(f, i)
              IN  \/ d >= Len(s)
                  \/ s[d + 1] \in Ix(f) /\ (Kind(f, s[d + 1]) = "loop" \/ Ends(f, s[d + 1]) # {})

Valid(f) ==
    /\ Len(f.types) \in Nat /\ f.params \in 0..Len(f.types)
    /\ Len(f.instrs) \in Nat \ {0} /\ Ix(f) = 1..Len(f.instrs)
    /\ \A i \in Ix(f) : IsLocal(f, i) => /\ DOMAIN f.instrs[i] = {"k", "l"}
                                       /\ f.instrs[i].l \in 0..(Len(f.types) - 1)
    /\ JumpsLand(f)

ASSUME LocalsAssumption == MaxSteps \in Nat /\ \A f \in Functions : Valid(f)

VARIABLES func, phase,
          ins, outs,       \* the definitions that enter and leave each block
          at, changed,     \* the data-flow loop: the next block, anything new
          webs,            \* the webs, once the analysis has them
          alloc,           \* the slot of every web
          run              \* the two executions

vars == <<func, phase, ins, outs, at, changed, webs, alloc, run>>

-----------------------------------------------------------------------------
(* Execution of Wasm; the top of a stack is its head *)

Machine(f, count) ==
    [stack |-> <<>>, ok |-> TRUE,
     locs |-> [l \in 0..(count - 1) |-> IF l < f.params THEN <<"arg", l>> ELSE <<"zero">>]]

Pops == {"use", "if", "brif", "brtable"}

Needs(k) == IF k \in Pops \cup {"set", "tee"} THEN 1 ELSE 0

Execute(i, instr, m) ==
    IF ~m.ok \/ Len(m.stack) < Needs(instr.k) THEN [m EXCEPT !.ok = FALSE]
    ELSE CASE instr.k = "get" -> [m EXCEPT !.stack = <<m.locs[instr.l]>> \o @]
           [] instr.k = "set" -> [m EXCEPT !.stack = Tail(@), !.locs[instr.l] = Head(m.stack)]
           [] instr.k = "tee" -> [m EXCEPT !.locs[instr.l] = Head(m.stack)]
           [] instr.k = "const" -> [m EXCEPT !.stack = <<<<"made", i>>>> \o @]
           [] instr.k \in Pops -> [m EXCEPT !.stack = Tail(@)]
           [] OTHER -> m

EndOf(f, o) == Min(Ends(f, o))

Label(f, i, d) ==
    LET s == Frames(f, i)
    IN  IF d >= Len(s) THEN Len(f.instrs) + 1
        ELSE IF Kind(f, s[d + 1]) = "loop" THEN s[d + 1] + 1 ELSE EndOf(f, s[d + 1]) + 1

Goto(f, i) ==
    LET else == {e \in Ix(f) : Kind(f, e) = "else" /\ Head(Frames(f, e)) = i}
    IN  CASE Kind(f, i) = "if" ->
                {i + 1, IF else = {} THEN EndOf(f, i) + 1 ELSE Min(else) + 1}
          [] Kind(f, i) = "else" -> {EndOf(f, Head(Frames(f, i))) + 1}
          [] Kind(f, i) = "br" -> {Label(f, i, f.instrs[i].d)}
          [] Kind(f, i) = "brif" -> {i + 1, Label(f, i, f.instrs[i].d)}
          [] Kind(f, i) = "brtable" ->
                {Label(f, i, d) : d \in Targets(f, i)}
          [] Kind(f, i) \in {"return", "unreachable"} -> {Len(f.instrs) + 1}
          [] OTHER -> {i + 1}

\* The step from i to j is one the analysis describes: within a block, or, with
\* no write left in it, along an edge, or along an edge and through a block
\* that writes nothing.  A branch out of the middle of a block passes writes
\* that count for all of its edges.
Follows(f, i, j) ==
    LET b == BlockOf(f, i) IN
    \/ j \notin Ix(f)
    \/ j = i + 1 /\ BlockOf(f, j) = b
    \/ /\ \A k \in (i + 1)..LastOf(f, b) : ~IsDef(f, k)
       /\ \/ j \in Blocks(f) /\ <<b, j>> \in Edges(f)
          \/ \E h \in Blocks(f) : /\ <<b, h>> \in Edges(f) /\ j = LastOf(f, h) + 1
                                  /\ BlockGen(f, h) = {}

-----------------------------------------------------------------------------
Idle == [pc |-> 0]

Init ==
    /\ func \in Functions
    /\ phase = "flow"
    /\ ins = [b \in Blocks(func) |-> IF b = 1 THEN ParamDefs(func) ELSE {}]
    /\ outs = ins
    /\ at = 1
    /\ changed = FALSE
    /\ webs = {}
    /\ alloc = <<>>
    /\ run = Idle

\* Analysis::build refuses a function without locals.
Refuse ==
    /\ phase = "flow" /\ Len(func.types) = 0
    /\ phase' = "skipped"
    /\ UNCHANGED <<func, ins, outs, at, changed, webs, alloc, run>>

\* Mutant: a new round does not forget that the last one changed something.
VisitForEver ==
    /\ phase = "flow" /\ Len(func.types) > 0
    /\ ins' = [ins EXCEPT ![at] = NewIn(func, outs, at)]
    /\ outs' = [outs EXCEPT ![at] = NewOut(func, ins'[at], at)]
    /\ changed' = (changed \/ ins' # ins \/ outs' # outs)
    /\ LET next == NextBlock(func, at)
       IN  /\ at' = IF next = {} THEN 1 ELSE Min(next)
           /\ phase' = IF next = {} /\ ~changed' THEN "webs" ELSE "flow"
    /\ UNCHANGED <<func, webs, alloc, run>>

\* One block of the data-flow loop; after the last one the loop starts again
\* if anything changed.
Visit ==
    /\ phase = "flow" /\ Len(func.types) > 0
    /\ ins' = [ins EXCEPT ![at] = NewIn(func, outs, at)]
    /\ outs' = [outs EXCEPT ![at] = NewOut(func, ins'[at], at)]
    /\ LET new == changed \/ ins' # ins \/ outs' # outs
           next == NextBlock(func, at)
       IN  /\ at' = IF next = {} THEN 1 ELSE Min(next)
           /\ changed' = (next # {} /\ new)
           /\ phase' = IF next = {} /\ ~new THEN "webs" ELSE "flow"
    /\ UNCHANGED <<func, webs, alloc, run>>

\* build_webs; a function with none is left alone.
Build ==
    /\ phase = "webs"
    /\ webs' = Webs(func, ins)
    /\ phase' = IF webs' = {} THEN "skipped" ELSE "solve"
    /\ UNCHANGED <<func, ins, outs, at, changed, alloc, run>>

\* The solver answers with some optimum.
Solve ==
    /\ phase = "solve"
    /\ alloc' \in Optima(func, webs)
    /\ phase' = "apply"
    /\ UNCHANGED <<func, ins, outs, at, changed, webs, run>>

\* The function is rewritten, and the executions begin.
Apply ==
    /\ phase = "apply"
    /\ phase' = "run"
    /\ run' = [pc |-> 1, steps |-> 0,
               old |-> Machine(func, Len(func.types)),
               new |-> Machine(func, Len(NewTypes(func, alloc))),
               last |-> [l \in 0..(Len(func.types) - 1) |->
                            IF l < func.params THEN <<"param", l>> ELSE <<"zero">>],
               left |-> Preds(func, 1) # {}, back |-> FALSE,
               teed |-> FALSE, unset |-> FALSE]
    /\ UNCHANGED <<func, ins, outs, at, changed, webs, alloc>>

\* A timeout or an unknown: the function stays as it is.
SolveFails ==
    /\ phase = "solve"
    /\ phase' = "skipped"
    /\ UNCHANGED <<func, ins, outs, at, changed, webs, alloc, run>>

\* Both versions execute the instruction at pc, if they have it.
Step ==
    LET i == run.pc
        instr == func.instrs[i]
    IN
    /\ phase = "run" /\ i \in Ix(func) /\ run.steps < MaxSteps
    /\ \E j \in Goto(func, i) :
          run' = [pc |-> j, steps |-> run.steps + 1,
                  old |-> Execute(i, instr, run.old),
                  new |-> IF i \in Kept(func, alloc)
                          THEN Execute(i, Rewritten(func, alloc, i), run.new) ELSE run.new,
                  last |-> IF IsDef(func, i) THEN [run.last EXCEPT ![instr.l] = <<"at", i>>]
                                             ELSE run.last,
                  left |-> run.left \/ ~Follows(func, i, j),
                  back |-> run.back \/ j <= i,
                  teed |-> \/ run.teed
                           \/ /\ i \in Copies(func) /\ Kind(func, i + 1) = "tee"
                              /\ Merged(func, alloc, i),
                  unset |-> run.unset \/ (Kind(func, i) = "get" /\ run.last[instr.l] = <<"zero">>)]
    /\ UNCHANGED <<func, phase, ins, outs, at, changed, webs, alloc>>

Stop ==
    /\ phase = "run"
    /\ run.pc \notin Ix(func) \/ run.steps = MaxSteps
    /\ phase' = "done"
    /\ UNCHANGED <<func, ins, outs, at, changed, webs, alloc, run>>

Next == Refuse \/ Visit \/ Build \/ Solve \/ SolveFails \/ Apply \/ Step \/ Stop

Spec == Init /\ [][Next]_vars /\ WF_vars(Next)

-----------------------------------------------------------------------------
(* Properties *)

\* While the execution follows the edges the analysis drew, the write whose
\* value a read sees is one of those the analysis says reach it
\* (reaching_defs_per_local; build_cfg draws every branch to the block of its
\* frame's opener, so an execution that branches forward leaves the edges; no
\* block ends at a branch, so one that branches past a write of its block
\* leaves what the block is said to pass on).
ReachingSound ==
    phase = "run" /\ ~run.left /\ run.pc \in Ix(func) /\ Kind(func, run.pc) = "get"
    => LET l == func.instrs[run.pc].l
       IN  run.last[l] # <<"zero">> => run.last[l] \in DefsFor(func, ins, run.pc)

\* Both versions have the same operands, but between a read and a write that
\* were removed together.
InStep ==
    \/ run.new.stack = run.old.stack
    \/ /\ run.pc \in Skip(func, alloc) /\ Kind(func, run.pc) = "set"
       /\ run.new.stack = Tail(run.old.stack)

SlotsTyped ==
    \A i \in Ix(func) : IsLocal(func, i) =>
        NewTypes(func, alloc)[Rewritten(func, alloc, i).l + 1]
            = func.types[func.instrs[i].l + 1]

\* A parameter whose slot another web has before the parameter is read.
ParamTaken ==
    \E v, w \in DOMAIN alloc :
        /\ v # w /\ alloc[v] = alloc[w] /\ IsParamWeb(func, v)
        /\ Sites(v) # {} /\ Sites(w) # {} /\ Min(Sites(w)) < Min(Sites(v))

\* The rewritten function has the same operands at every step, and its slots
\* the types of the locals they stand for, except in the executions the
\* analysis does not cover: one that leaves the edges or goes back, one that
\* reads a local it never wrote, one that passes a read and tee whose read
\* was removed, and one where a parameter's slot is taken before its first
\* read (apply_allocation, build_interference).
OnlyKnownMiscompilations ==
    phase \in {"run", "done"} =>
        \/ run.old.ok /\ run.new.ok /\ InStep /\ SlotsTyped
        \/ run.left \/ run.back \/ run.unset \/ run.teed \/ ParamTaken

\* The allocation that leaves every local in a slot of its own is one the hard
\* clauses allow. The note says they always do (note/0707-local-opt.md:17);
\* they do not where two webs of one local interfere.
IdentityIsAllowed ==
    \A v, w \in webs : WebLocal(func, v) = WebLocal(func, w) => ~Interferes(v, w)

\* Where it is, a function never gets more locals than the instructions it
\* loses pay for (the soft clauses of solve_allocation, apply_allocation).
NeverCostsMore ==
    phase = "done" /\ IdentityIsAllowed =>
        Cardinality(Kept(func, alloc)) + Len(NewTypes(func, alloc))
            <= Len(func.instrs) + Len(func.types)

\* The iteration reaches its fixpoint and the function is done with: the
\* sets of a block only grow after its first visit (while changed).
Terminates == <>(phase \in {"skipped", "done"})

\* Where a read and a tee are merged one read takes their place: "get+tee ->
\* single get at tee position" (src/optimize/locals/apply.rs:45).
MergedTeeLeavesGet ==
    phase = "run" =>
        \A i \in Copies(func) :
            Kind(func, i + 1) = "tee" /\ Merged(func, alloc, i)
            => {Rewritten(func, alloc, j).k : j \in {i, i + 1} \cap Kept(func, alloc)} = {"get"}
=============================================================================
