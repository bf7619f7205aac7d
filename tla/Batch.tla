-------------------------------- MODULE Batch --------------------------------
(***************************************************************************)
(* What a run over many items promises, however many threads it has: after *)
(* a while one result for every item, in the order of the items, each one  *)
(* the solver could give that item.                                        *)
(***************************************************************************)
EXTENDS Integers, Sequences

CONSTANT PossibleResults(_)     \* of an item

VARIABLES items, results

vars == <<items, results>>

Init == results = <<>>

Report ==
    /\ results = <<>> /\ items # <<>>
    /\ Len(results') = Len(items)
    /\ \A i \in DOMAIN items : results'[i] \in PossibleResults(items[i])
    /\ UNCHANGED items

Spec == Init /\ [][Report]_vars /\ <>(items = <<>> \/ results # <<>>)
=============================================================================
