----------------------------- MODULE Minimizer ------------------------------
(***************************************************************************)
(* What a length minimizer of a segment promises its caller, whatever      *)
(* algorithm it runs: one answer, which is nothing or a program the        *)
(* checker accepts and no longer than the original; an answer given in     *)
(* time is the shortest of the programs searched, and only such an answer  *)
(* may be called optimal.                                                  *)
(***************************************************************************)
EXTENDS Integers

CONSTANTS Program, Length, Orig, None

VARIABLES
    searched,       \* the programs the search covers
    valid,          \* the ones the checker accepts
    answer,         \* the program returned, None before and on failure
    claim,          \* SearchResult::proven_optimal
    late,           \* SearchResult::timed_out
    returned

vars == <<searched, valid, answer, claim, late, returned>>

Init == /\ searched \in SUBSET Program
        /\ valid \in SUBSET Program
        /\ answer = None
        /\ claim = FALSE
        /\ late = FALSE
        /\ returned = FALSE

Shortest(p) == \A q \in searched \intersect valid : Length[p] <= Length[q]

Answer == /\ ~returned
          /\ returned' = TRUE
          /\ late' \in BOOLEAN
          /\ claim' \in BOOLEAN
          /\ answer' \in {p \in valid : Length[p] <= Length[Orig]} \union {None}
          /\ answer' # None /\ ~late' => Shortest(answer')
          /\ claim' => answer' # None /\ ~late'
          /\ UNCHANGED <<searched, valid>>

Safety == Init /\ [][Answer]_vars

Spec == Safety /\ WF_vars(Answer)

=============================================================================
