----------------------------- MODULE MCPipeline -----------------------------
EXTENDS Pipeline

\* A function of two parameters and a result, and one of three parameters.
MCFuncTypes == <<[params |-> 2, results |-> 1], [params |-> 3, results |-> 0]>>

Straight == {<<"const", 1>>, <<"get", 0>>, <<"set", 0>>, <<"mul">>, <<"load", 0>>,
             <<"store", 0>>}
Others   == {<<"block">>, <<"end">>, <<"return">>, <<"br">>, <<"select">>, <<"call", 1>>}

\* Every short body.
Short == UNION {[1..n -> Straight \cup Others] : n \in 1..3}

\* Accesses of memory and of globals, in every order, between which a call
\* may stand.
Access == {<<"load", 0>>, <<"load8", 1>>, <<"load64", 1>>, <<"gget", 0>>, <<"gset", 0>>,
           <<"gset", 1>>, <<"call", 1>>, <<"size">>}
Write  == {<<"store", 0>>, <<"store8", 1>>, <<"store64", 1>>, <<"gset", 0>>, <<"call", 2>>,
           <<"grow">>}
Bases  == {<<"const", 0>>, <<"const", 1>>, <<"get", 0>>, <<"get", 1>>}
Ordered == {<<b, x, <<"get", 0>>, c, <<"get", 0>>, y>> :
                b \in Bases, c \in Bases, x \in Access, y \in Write}
           \cup {<<b, <<"get", 1>>, x, c, y>> :
                b \in Bases, c \in Bases, x \in Write, y \in Access}

\* Constant addresses on both sides of the greatest signed number, with
\* offsets that reach from one side to the other.
Far ==
    LET bases == {<<"const", n>> : n \in {0, 3, 4, 7}}
        offsets == {0, 4, 7}
    IN  {<<b, <<"load", m>>, <<"get", 0>>, c, <<"get", 0>>, <<"store", n>>>> :
            b \in bases, c \in bases, m \in offsets, n \in offsets}
        \cup {<<b, <<"get", 1>>, <<"store", m>>, c, <<"load", n>>>> :
            b \in bases, c \in bases, m \in offsets, n \in offsets}

\* Pushes before the inputs are found: dead code after a return, chunks that
\* the bound of the function does not fit.
Deep ==
    {<<<<"return">>>> \o [i \in 1..n |-> <<"const", 1>>] \o <<<<"call", 2>>>> \o tail :
         n \in 0..3, tail \in {<<>>, <<<<"call", 2>>>>, <<<<"mul">>, <<"set", 1>>>>,
                               <<<<"call", 2>>, <<"get", 0>>, <<"set", 1>>>>}}
    \cup {<<<<"get", 0>>, <<"const", 1>>, <<"set", 0>>, <<"set", 1>>, <<"get", 0>>, <<"get", 1>>,
            <<"mul">>, <<"call", f>>, <<"tee", 1>>, <<"calli", 1>>, <<"drop">>, <<"nop">>,
            <<"drop">>>> : f \in 1..3}

MCBodies == Short \cup Ordered \cup Far \cup Deep

=============================================================================
