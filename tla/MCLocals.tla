------------------------------ MODULE MCLocals ------------------------------
(***************************************************************************)
(* Functions for Locals: every valid straight-line body of four            *)
(* instructions over a parameter and a local, and functions chosen for     *)
(* their control flow, their copies, their types and their loops.          *)
(***************************************************************************)
EXTENDS Locals

Get(l) == [k |-> "get", l |-> l]
Set(l) == [k |-> "set", l |-> l]
Tee(l) == [k |-> "tee", l |-> l]
Op(k) == [k |-> k]
BrIf(d) == [k |-> "brif", d |-> d]

Alphabet == {Get(0), Get(1), Set(0), Set(1), Tee(1), Op("const"), Op("use")}

Body(s) == s \o <<Op("end")>>

Straight == {Body(s) : s \in [1..4 -> Alphabet]}

Height(s, i) == Cardinality({j \in 1..i : s[j].k \in {"get", "const"}})
                - Cardinality({j \in 1..i : s[j].k \in {"set", "use"}})

\* Every instruction finds its operands.
IsValid(s) == \A i \in 1..Len(s) : Needs(s[i].k) <= Height(s, i - 1)

Make(params, types, s) == [params |-> params, types |-> types, instrs |-> Body(s)]

\* A parameter read last, after three locals lived and died; a chain of
\* copies; a local of another type; two locals alive at once; two
\* parameters and a copy between them.
Chosen ==
    {Make(1, <<"i32", "i32", "i32">>,
          <<Op("const"), Set(1), Get(1), Set(2), Get(2), Op("use"), Get(0)>>),
     Make(1, <<"i32", "i32", "i32">>,
          <<Get(0), Set(1), Get(1), Set(2), Get(2), Get(1), Op("use")>>),
     Make(1, <<"i32", "i64", "i32">>,
          <<Get(0), Op("use"), Op("const"), Set(1), Get(1), Op("use"), Op("const"), Set(2), Get(2)>>),
     Make(0, <<"i32", "i32">>,
          <<Op("const"), Set(0), Op("const"), Set(1), Get(0), Op("use"), Get(1)>>),
     Make(2, <<"i32", "i32", "i32">>,
          <<Get(0), Set(1), Get(1), Tee(2), Op("use"), Get(2)>>),
     Make(0, <<>>, <<Op("const")>>)}

\* Two writes before a block that reads; a loop inside a block, with a value carried round it,
\* and one read in every round; a branch out of a
\* block past a write; an if and its else writing one local; a table branch;
\* a loop that starts the function; a return; a branch back past a write; an if
\* and its else that write a local between a write before it and a read behind it.
Branching ==
    {Make(0, <<"i32">>,
          <<Op("const"), Set(0), Op("const"), Set(0), Op("block"), Get(0), Op("use"), Op("end")>>),
     Make(1, <<"i32", "i32">>,
          <<Op("const"), Set(1), Op("block"), Op("loop"), Get(1), Op("use"), Op("const"), Set(1),
            Get(0), BrIf(0), Op("end"), Op("end"), Get(1)>>),
     Make(1, <<"i32", "i32", "i32">>,
          <<Get(0), Op("use"), Op("const"), Set(1), Op("block"), Op("loop"), Get(1), Op("use"),
            Op("const"), Set(2), Get(2), Op("use"), Get(0), BrIf(0), Op("end"), Op("end")>>),
     Make(1, <<"i32", "i32">>,
          <<Op("const"), Set(1), Op("block"), Get(0), BrIf(0), Op("const"), Set(1), Op("end"), Get(1)>>),
     Make(1, <<"i32", "i32">>,
          <<Get(0), Op("if"), Op("const"), Set(1), Op("else"), Op("const"), Set(1), Op("end"), Get(1)>>),
     Make(1, <<"i32", "i32">>,
          <<Op("const"), Set(1), Op("block"), Op("block"), Get(0),
            [k |-> "brtable", ds |-> {0}, default |-> 1], Op("end"), Op("const"), Set(1),
            Op("end"), Get(1)>>),
     Make(1, <<"i32", "i32">>,
          <<Op("loop"), Get(0), Op("use"), Op("const"), Set(0), Get(0), Set(1), Get(1), BrIf(0),
            Op("end")>>),
     Make(1, <<"i32", "i32">>,
          <<Op("block"), Get(0), BrIf(0), Op("const"), Set(1), Get(1), Op("return"), Op("end"),
            Get(0)>>),
     Make(1, <<"i32", "i32">>,
          <<Op("const"), Set(1), Op("block"), Op("loop"), Get(1), Op("use"), Op("const"), Set(1),
            Op("block"), Get(0), BrIf(1), Op("const"), Set(1), Op("end"), Op("end"), Op("end")>>),
     Make(0, <<"i32">>,
          <<Op("const"), Set(0), Op("const"), Op("if"), Op("const"), Set(0), Get(0), Op("use"),
            Op("else"), Op("const"), Set(0), Op("end"), Op("block"), Get(0), Op("use"), Op("end")>>)}

MCFunctions ==
    {[params |-> 1, types |-> <<"i32", "i32">>, instrs |-> s] : s \in {s \in Straight : IsValid(s)}}
    \cup Chosen \cup Branching

MCMaxSteps == 20
=============================================================================
