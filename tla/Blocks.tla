------------------------------- MODULE Blocks -------------------------------
(***************************************************************************)
(* How a function body becomes raw segments (src/wasm/parse.rs): it is cut *)
(* into blocks at the control operators, and of every block the longest    *)
(* start made of supported operators is kept.                              *)
(*                                                                         *)
(* An operator is a tuple like the instructions of SymMachine, without the *)
(* id the parser gives: <<"load", offset>>, <<"load8", offset>>,           *)
(* <<"store", offset>>, <<"store8", offset>>, <<"gget", g>>, <<"gset", g>>,*)
(* <<"call", f>>; <<"load64", offset>>, <<"store64", offset>>, <<"size">>  *)
(* and <<"grow">> stand for the operators that are kept as opaque ones;    *)
(* <<"select">> and <<"nop">> for those that are not supported; the        *)
(* control operators are <<"block">>, <<"loop">>, <<"if">>, <<"else">>,    *)
(* <<"br">>, <<"calli", f>>, <<"end">> and <<"return">> (a br_if and a     *)
(* br_table are treated like a br, an unreachable like a return).          *)
(***************************************************************************)
EXTENDS Deps

CONSTANT FuncTypes      \* by function: [params, results]

ASSUME TypesAssumption == \A f \in DOMAIN FuncTypes : FuncTypes[f] \in [params : Nat, results : Nat]

\* The operators of a function that has locals 0 to n - 1.
Operators(n) ==
    {<<k>> : k \in {"block", "loop", "if", "else", "br", "end", "return", "nop", "select",
                    "size", "grow", "drop", "mul", "shr"}}
    \cup {"get", "set", "tee"} \X (0 .. n - 1)
    \cup {"const", "gget", "gset", "call",
          "load", "load8", "load64", "store", "store8", "store64"} \X Nat
    \cup {"calli"} \X DOMAIN FuncTypes

-----------------------------------------------------------------------------
Begins == {"block", "loop", "if", "else", "br", "calli"}
Finishes == {"end", "return"}

IsControl(op) == op[1] \in Begins \cup Finishes

\* blocks_from_operators, over positions of the body: a begin opens a block
\* (closing the one before, were it empty), an end closes its own.
BlocksOf(body) ==
    LET Put(acc, i) ==
            CASE body[i][1] \in Begins ->
                     [done |-> Append(acc.done, acc.cur), cur |-> <<i>>]
              [] body[i][1] \in Finishes ->
                     [done |-> Append(acc.done, Append(acc.cur, i)), cur |-> <<>>]
              [] OTHER -> [done |-> acc.done, cur |-> Append(acc.cur, i)]
        after[i \in 0 .. Len(body)] ==
            IF i = 0 THEN [done |-> <<>>, cur |-> <<>>] ELSE Put(after[i - 1], i)
        all == after[Len(body)]
    IN  IF all.cur = <<>> THEN all.done ELSE Append(all.done, all.cur)

Optimizable(body, block) ==
    FlattenSeq([k \in DOMAIN block |-> IF IsControl(body[block[k]]) THEN <<>> ELSE <<block[k]>>])

-----------------------------------------------------------------------------
Opaques == [load64 |-> <<1, 1, FALSE>>, store64 |-> <<2, 0, TRUE>>,
            size |-> <<0, 1, FALSE>>, grow |-> <<1, 1, FALSE>>]

TakesId(op) ==
    op[1] \in {"load", "load8", "store", "store8", "gget", "gset", "call"} \cup DOMAIN Opaques

Supported(op) ==
    /\ ~IsControl(op) /\ op[1] \notin {"select", "nop"}
    /\ op[1] = "call" => op[2] \in DOMAIN FuncTypes

\* classify_operator: a narrow access is an access of a word.
Sem(op, id) ==
    CASE op[1] \in {"load", "load8"} -> <<"load", id, op[2]>>
      [] op[1] \in {"store", "store8"} -> <<"store", id, op[2]>>
      [] op[1] \in {"gget", "gset"} -> <<op[1], id, op[2]>>
      [] op[1] = "call" ->
             <<"call", id, FuncTypes[op[2]].params, FuncTypes[op[2]].results>>
      [] op[1] \in DOMAIN Opaques -> <<"opaque", id>> \o Opaques[op[1]]
      [] OTHER -> op

\* Mutant: an operator that is not supported is passed over.
CollectedAround(body, block) ==
    SelectSeq(Optimizable(body, block), LAMBDA i : Supported(body[i]))

\* classify_block_segments stops collecting at the first operator that is not
\* supported; ids count the operators that take one.
Collected(body, block) ==
    LET ops == Optimizable(body, block)
        n == Cardinality({i \in DOMAIN ops : \A j \in 1..i : Supported(body[ops[j]])})
    IN  SubSeq(ops, 1, n)

SemsOf(body, ix) ==
    [i \in DOMAIN ix |->
        Sem(body[ix[i]], Cardinality({j \in 1..(i - 1) : TakesId(body[ix[j]])}))]

-----------------------------------------------------------------------------
\* What an operator does to the stack, as an instruction that does the same;
\* nothing for those operator_stack_effect has no entry for.
Effect(op) ==
    CASE op[1] \in {"block", "loop", "if", "else", "br", "end", "nop"} -> <<>>
      [] op[1] = "calli" -> <<<<"call", 0, 1 + FuncTypes[op[2]].params, FuncTypes[op[2]].results>>>>
      [] op[1] = "call" /\ ~Supported(op) -> <<>>
      [] op[1] = "select" -> <<<<"opaque", 0, 3, 1, FALSE>>>>
      [] op[1] = "return" -> <<<<"opaque", 0, 0, 0, FALSE>>>>
      [] OTHER -> <<Sem(op, 0)>>

\* The bound on the height that every segment of the function is given.
Template(body) ==
    StackBounds(FlattenSeq([i \in DOMAIN body |-> Effect(body[i])])).max + StackSlack

\* extract_from_body: a segment for every block with something to optimize.
\* ix are the positions of its operators, texts the ids with a disassembly.
RawSegments(body) ==
    LET Raw(block) ==
            LET ix == Collected(body, block)
                ops == SemsOf(body, ix)
            IN  IF ix = <<>> THEN <<>>
                ELSE <<[ix |-> ix, ops |-> ops, part |-> <<0, 1>>, template |-> Template(body),
                        texts |-> {Id(op) : op \in {op \in ToSet(ops) : IsOpaque(op)}}]>>
        blocks == BlocksOf(body)
    IN  FlattenSeq([b \in DOMAIN blocks |-> Raw(blocks[b])])
=============================================================================
