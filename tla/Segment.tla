------------------------------ MODULE Segment ------------------------------
(***************************************************************************)
(* A straight-line segment as materialize_raw_segment leaves it: its entry *)
(* state, the bounds of the machine, the state after every instruction and *)
(* the order dependencies.  Both backends start from these.                *)
(***************************************************************************)
EXTENDS Deps

CONSTANTS
    Segments,       \* original instruction sequences
    NumLocals       \* locals of the function, RawSegment::total_locals

ASSUME SegmentAssumption == NumLocals \in Nat /\ \A s \in Segments : s # <<>>

-----------------------------------------------------------------------------
MaxLocal    == IF NumLocals = 0 THEN 0 ELSE NumLocals - 1
MaxStack(s) == StackBounds(s).max + StackSlack
EntryStack(s) == [i \in 1 .. StackBounds(s).init |-> InSym(i - 1)]
EntryState(s, totalLocals) == Entry(EntryStack(s), totalLocals)

\* The machine after each instruction of the segment; index 0 is the entry.
Trace(s) == Execution(EntryState(s, NumLocals), s, MaxStack(s))

\* From here on t is the segment's trace.
Exit(s, t) == t[Len(s)]

Dependencies(s, t) == ComputeDependencies(s, Exit(s, t).meta)

=============================================================================
