---------------------------- MODULE MCSynthesis ----------------------------
(***************************************************************************)
(* Words of two bits, the operators clz, eqz and division, one float sort  *)
(* of four values on which abs differs from the identity at 3 only.        *)
(***************************************************************************)
EXTENDS Synthesis

MCTrap == 9
MCWords == [s \in {"i", "f"} |-> 0 .. 3]
MCConsts == [s \in {"i", "f"} |-> {0}]
MCPops == [clz |-> <<"i">>, eqz |-> <<"i">>, div |-> <<"i", "i">>, abs |-> <<"f">>]
MCPush == [clz |-> "i", eqz |-> "i", div |-> "i", abs |-> "f"]

Clz(x) == IF x = 0 THEN 2 ELSE IF x = 1 THEN 1 ELSE 0
MCApply ==
    [clz |-> [a \in [1 .. 1 -> 0 .. 3] |-> Clz(a[1])],
     eqz |-> [a \in [1 .. 1 -> 0 .. 3] |-> IF a[1] = 0 THEN 1 ELSE 0],
     div |-> [a \in [1 .. 2 -> 0 .. 3] |-> IF a[2] = 0 THEN MCTrap ELSE a[1] \div a[2]],
     abs |-> [a \in [1 .. 1 -> 0 .. 3] |-> IF a[1] = 3 THEN 1 ELSE a[1]]]

MCSpelling == <<<<"const", "f", 0>>, <<"abs">>, <<"clz">>, <<"const", "i", 0>>,
                <<"div">>, <<"eqz">>, <<"sym", 1>>, <<"sym", 2>>>>
MCCorners == {0, 1}
MCCvecRows == {}
MCTestRows == <<2, 3>>
MCRequests ==
    {[size |-> 3, arity |-> 1, tests |-> 1], [size |-> 4, arity |-> 1, tests |-> 0],
     [size |-> 3, arity |-> 2, tests |-> 2]}

\* Without division no term traps, without eqz and clz no rule forgets a
\* symbol; the last two builds have both.
MCBuilds ==
    {[ops |-> o, hard |-> {}] : o \in {{"clz", "eqz", "abs"}, {"div", "abs"}, {"clz", "eqz", "div", "abs"}}}
    \cup {[ops |-> {"clz", "eqz", "div", "abs"}, hard |-> {<<"clz", <<"clz", <<"clz", <<"sym", 1>>>>>>>>}]}
=============================================================================
