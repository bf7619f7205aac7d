----------------------------- MODULE SymMachine -----------------------------
(***************************************************************************)
(* The symbolic stack machine of src/sym.rs and the instructions it runs.  *)
(*                                                                         *)
(* A value is the expression the machine builds.  Two pure operators stand *)
(* for the ValueOps: i32.mul, which commutes, and i32.shr_u, which does    *)
(* not.  Module NormalForms says which expressions are equivalent.         *)
(*                                                                         *)
(* Instructions are tuples: <<"const", n>>, <<"get", slot>>,               *)
(* <<"set", slot>>, <<"tee", slot>>, <<"drop">>, <<"mul">>, <<"shr">> and  *)
(* the opaque ones, which carry the id the parser gave them:               *)
(* <<"load", id, offset>>, <<"store", id, offset>>, <<"gget", id, global>>,*)
(* <<"gset", id, global>>, <<"call", id, pops, pushes>> and                *)
(* <<"opaque", id, pops, pushes, storage>>.                                *)
(***************************************************************************)
EXTENDS Integers, Sequences, FiniteSets, SequencesExt

CONSTANTS
    WordBits,       \* bits of a word
    StackSlack      \* cells SegmentBounds::new adds to the computed depth

ASSUME MachineAssumption == WordBits \in Nat \ {0} /\ StackSlack \in Nat

-----------------------------------------------------------------------------
\* Power[k] is 2 to the k.
Power[k \in 0 .. WordBits] == IF k = 0 THEN 1 ELSE 2 * Power[k - 1]

WordSize      == Power[WordBits]
Const(n)      == <<"const", n % WordSize>>
LocalSym(s)   == <<"local", s, 0>>        \* ?L{s}
InSym(i)      == <<"in", i, 0>>           \* ?in_{i}
Result(id, j) == <<"result", id, j>>      \* ?load_{id}, ?call_{id}_{j}, ...
DontCare      == <<"dont_care">>          \* LocalReq::DontCare, in A* goals only

IsConst(v) == v[1] = "const"

\* A shift uses its count modulo the width.
Fold(kind, a, b) == Const(IF kind = "mul" THEN a * b ELSE a \div Power[b % WordBits])

\* apply_value_op: fold two constants, otherwise a new node.
Apply(kind, a, b) ==
    IF IsConst(a) /\ IsConst(b) THEN Fold(kind, a[2], b[2]) ELSE <<kind, a, b>>

PureKinds == {"mul", "shr"}

-----------------------------------------------------------------------------
LocalKinds  == {"get", "set", "tee"}
OpaqueKinds == {"load", "store", "gget", "gset", "call", "opaque"}

IsOpaque(op) == op[1] \in OpaqueKinds
Id(op)       == op[2]

\* SemOp::is_storage_boundary: must appear exactly once in the output.
IsStorage(op) == \/ op[1] \in {"store", "gset", "call"}
                 \/ op[1] = "opaque" /\ op[5]

FixedPops == [const |-> 0, get |-> 0, set |-> 1, tee |-> 1, drop |-> 1,
              mul |-> 2, shr |-> 2, load |-> 1, store |-> 2, gget |-> 0, gset |-> 1]
FixedPushes == [const |-> 1, get |-> 1, set |-> 0, tee |-> 1, drop |-> 0,
                mul |-> 1, shr |-> 1, load |-> 1, store |-> 0, gget |-> 1, gset |-> 0]

Pops(op)   == IF op[1] \in {"call", "opaque"} THEN op[3] ELSE FixedPops[op[1]]
Pushes(op) == IF op[1] \in {"call", "opaque"} THEN op[4] ELSE FixedPushes[op[1]]

\* stack_bounds_ops, after each of the instructions: the inputs a sequence takes
\* from below its entry, its height and the greatest height it had (counted from
\* the inputs known so far).
Heights(ops) ==
    LET b[k \in 0 .. Len(ops)] ==
            IF k = 0 THEN [cur |-> 0, init |-> 0, max |-> 0]
            ELSE LET op    == ops[k]
                     prev  == b[k - 1]
                     short == IF Pops(op) > prev.cur THEN Pops(op) - prev.cur ELSE 0
                     cur   == prev.cur + short - Pops(op) + Pushes(op)
                 IN  [cur |-> cur, init |-> prev.init + short,
                      max |-> IF cur > prev.max THEN cur ELSE prev.max]
    IN  b

StackBounds(ops) ==
    LET b == Heights(ops)[Len(ops)]
    IN  [init |-> b.init, max |-> IF b.init > b.max THEN b.init ELSE b.max]

-----------------------------------------------------------------------------
\* A machine: its stack, bottom to top, its locals by slot, what every opaque
\* instruction consumed and produced, and whether no instruction failed.
Entry(stack, totalLocals) ==
    [stack  |-> stack,
     locals |-> [s \in 0 .. totalLocals - 1 |-> LocalSym(s)],
     meta   |-> <<>>,
     ok     |-> TRUE]

\* The values an instruction pushes, bottom to top; args are the popped ones.
Outputs(m, op, args) ==
    CASE op[1] = "const"       -> <<Const(op[2])>>
      [] op[1] = "get"         -> <<m.locals[op[2]]>>
      [] op[1] = "tee"         -> args
      [] op[1] \in PureKinds   -> <<Apply(op[1], args[1], args[2])>>
      [] op[1] \in OpaqueKinds -> [j \in 1 .. Pushes(op) |-> Result(Id(op), j - 1)]
      [] OTHER                 -> <<>>

\* exec_with_meta: underflow, a slot out of range and a stack above maxStack
\* are errors, after which the callers look no further.
Exec(m, op, maxStack) ==
    LET height == Len(m.stack)
        rest   == SubSeq(m.stack, 1, height - Pops(op))
        args   == SubSeq(m.stack, height - Pops(op) + 1, height)
        fails  == \/ ~m.ok
                  \/ height < Pops(op)
                  \/ op[1] \in LocalKinds /\ op[2] \notin DOMAIN m.locals
                  \/ Pushes(op) > 0 /\ height - Pops(op) + Pushes(op) > maxStack
    IN  IF fails THEN [m EXCEPT !.ok = FALSE]
        ELSE [stack  |-> rest \o Outputs(m, op, args),
              locals |-> IF op[1] \in {"set", "tee"}
                         THEN [m.locals EXCEPT ![op[2]] = args[1]] ELSE m.locals,
              \* calls list their inputs bottom to top, the others in pop order
              meta   |-> IF IsOpaque(op)
                         THEN Append(m.meta,
                                     [id |-> Id(op), out |-> Outputs(m, op, args),
                                      in |-> IF op[1] \in {"call", "opaque"}
                                             THEN args ELSE Reverse(args)])
                         ELSE m.meta,
              ok     |-> TRUE]

\* The machines a sequence leads through: before it, and after each instruction.
Execution(m, ops, maxStack) ==
    LET at[k \in 0 .. Len(ops)] == IF k = 0 THEN m ELSE Exec(at[k - 1], ops[k], maxStack)
    IN  at

Run(m, ops, maxStack) == Execution(m, ops, maxStack)[Len(ops)]

\* to_fin_state: the stack, and the locals whose value the run changed.
FinState(m) == [stack  |-> m.stack,
                locals |-> LET changed == {s \in DOMAIN m.locals : m.locals[s] # LocalSym(s)}
                           IN  [s \in changed |-> m.locals[s]]]

=============================================================================
