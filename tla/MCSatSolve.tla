---------------------------- MODULE MCSatSolve ------------------------------
EXTENDS SatSolve, TLC

CONSTANTS empty, one, two, orig, long

\* One program of each length up to the original's three, so that the solver has
\* a choice at every bound above zero, and a witness longer than the original.
MCProgram == {empty, one, two, orig, long}
MCLength == (empty :> 0) @@ (one :> 1) @@ (two :> 2) @@ (orig :> 3) @@ (long :> 4)

=============================================================================
