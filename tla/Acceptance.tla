----------------------------- MODULE Acceptance -----------------------------
(***************************************************************************)
(* solution_valid of src/optimize/search.rs, the checker every program     *)
(* passes before a backend returns it.  `m` is the symbolic machine after  *)
(* the program, run from the segment's entry.                              *)
(***************************************************************************)
EXTENDS Segment, NormalForms

\* grounded_with: the stacks and the slots up to max_local that either side
\* mentions; a slot mentioned by one side only is a mismatch.
GroundedWith(state, init) ==
    /\ NormalSeq(state.stack) = NormalSeq(init.stack)
    /\ \A r \in (DOMAIN state.locals \union DOMAIN init.locals) \intersect (0 .. MaxLocal) :
           \/ r \in DOMAIN state.locals /\ state.locals[r] = DontCare
           \/ /\ r \in DOMAIN state.locals \intersect DOMAIN init.locals
              /\ Normal(state.locals[r]) = Normal(init.locals[r])

\* opaque_inputs_equivalent
InputsEquivalent(m, exit) ==
    \A x \in ToSet(m.meta) : NormalSeq(x.in) = NormalSeq(InputsOf(exit.meta, x.id))

SolutionValid(s, exit, deps, ops, m) ==
    /\ StoragePreserved(s, ops)
    /\ RespectsDependencies(ops, deps)
    /\ m.ok
    /\ InputsEquivalent(m, exit)
    /\ GroundedWith(FinState(m), FinState(exit))

=============================================================================
