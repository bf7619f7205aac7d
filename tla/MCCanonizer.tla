---------------------------- MODULE MCCanonizer ----------------------------
EXTENDS Canonizer, TLC

CONSTANTS x, y,         \* symbols
          xPlus, plusX  \* x + 0 and 0 + x

MCExprs == {x, y, xPlus, plusX}
MCSymbols == {x, y}
MCValue == [e \in MCExprs |-> IF e = y THEN y ELSE x]
MCSize == [e \in MCExprs |-> IF e \in MCSymbols THEN 1 ELSE 3]
MCParts == [e \in MCExprs |-> IF e \in MCSymbols THEN {} ELSE {x}]

Symmetry == Permutations({xPlus, plusX})
=============================================================================
