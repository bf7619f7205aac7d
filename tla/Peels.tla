-------------------------------- MODULE Peels --------------------------------
(***************************************************************************)
(* The graph the A* backend searches: goals of src/optimize/inverse.rs,    *)
(* from the segment's exit state backwards.  A behaviour peels one         *)
(* instruction at a time off the end of the program; `path` holds them in  *)
(* that order and `hs` the heuristic value of every goal on the way.       *)
(* Module AStar has the search itself.                                     *)
(***************************************************************************)
EXTENDS Acceptance

CONSTANT MaxPeels       \* peels a behaviour may make

VARIABLES
    seg, exit,          \* the segment and the machine at its end: chosen once
    goal,               \* SearchState::goal: stack, and what locals must hold
    remaining, used,    \* remaining_storage, used_opaque
    path, hs

vars == <<seg, exit, goal, remaining, used, path, hs>>

EntryGoal == [stack |-> EntryStack(seg), locals |-> EntryState(seg, NumLocals).locals]

-----------------------------------------------------------------------------
\* heuristic.rs: four lower bounds on the peels left, of which h_goal is the
\* largest.
Needed(g) == {r \in DOMAIN g.locals : g.locals[r] # DontCare}
Roots(g)  == ToSet(g.stack) \union {g.locals[r] : r \in Needed(g)}

\* available_canon: entry values are symbols, their own only subexpressions.
Available == ToSet(EntryGoal.stack) \union {EntryGoal.locals[r] : r \in DOMAIN EntryGoal.locals}

CommonPrefix(s, t) ==
    Max({k \in 0 .. Min({Len(s), Len(t)}) :
            NormalSeq(SubSeq(s, 1, k)) = NormalSeq(SubSeq(t, 1, k))})

HStack(g) == Len(g.stack) - CommonPrefix(g.stack, EntryGoal.stack)

HLocal(g) == Cardinality({r \in Needed(g) \intersect (0 .. MaxLocal) :
                             r \in DOMAIN EntryGoal.locals
                                 => Normal(g.locals[r]) # EntryGoal.locals[r]})

HNode(g) == Cardinality({Normal(v) : v \in UNION {Subterms(e) : e \in Roots(g)}} \ Available)

RECURSIVE ResidualDepth(_)
ResidualDepth(v) ==
    IF Normal(v) \in Available THEN 0
    ELSE IF v[1] \in PureKinds THEN 1 + Max({ResidualDepth(v[2]), ResidualDepth(v[3])})
    ELSE 1

HDep(g) == Max({0} \union {ResidualDepth(v) : v \in Roots(g)})

\* Mutant: the bounds are added.
HSum(g) == HStack(g) + HLocal(g) + HNode(g) + HDep(g)

HGoal(g) == Max({HStack(g), HLocal(g), HNode(g), HDep(g)})

-----------------------------------------------------------------------------
StorageIds == {Id(op) : op \in {o \in ToSet(seg) : IsOpaque(o) /\ IsStorage(o)}}

Init == /\ seg \in Segments
        /\ \E t \in {Trace(seg)} : exit = Exit(seg, t)
        /\ goal = FinState(exit)
        /\ remaining = StorageIds
        /\ used = {}
        /\ path = <<>>
        /\ hs = <<HGoal(goal)>>

\* Mutant: storage instructions may be left out.
GroundedGoal == GroundedWith(goal, EntryGoal)

\* is_solution; a solution is not peeled further.
IsSolution == GroundedWith(goal, EntryGoal) /\ remaining = {}

\* SymState::validate_bounds
InBounds(g) == /\ Len(g.stack) <= MaxStack(seg)
               /\ \A r \in DOMAIN g.locals : r <= MaxLocal

\* Instruction op leads from the goal `next` to the current one.
Peel(op, next) ==
    /\ Len(path) < MaxPeels
    /\ ~IsSolution
    /\ InBounds(goal)
    /\ Len(next.stack) <= MaxStack(seg)
    /\ goal' = next
    /\ path' = Append(path, op)
    /\ hs' = Append(hs, HGoal(next))
    /\ UNCHANGED <<seg, exit>>

PurePeel(op, next) == Peel(op, next) /\ UNCHANGED <<remaining, used>>

Top    == Last(goal.stack)
Below  == Front(goal.stack)
HasTop == goal.stack # <<>>
Equivalent(a, b) == Normal(a) = Normal(b)

NowFree(r) == [goal.locals EXCEPT ![r] = DontCare]

PeelSet ==
    \E r \in Needed(goal) \intersect (0 .. MaxLocal) :
        PurePeel(<<"set", r>>, [stack  |-> Append(goal.stack, goal.locals[r]),
                                locals |-> NowFree(r)])

PeelTee ==
    /\ HasTop
    /\ \E r \in Needed(goal) \intersect (0 .. MaxLocal) :
           /\ Equivalent(Top, goal.locals[r])
           /\ PurePeel(<<"tee", r>>, [stack |-> goal.stack, locals |-> NowFree(r)])

PeelConst ==
    /\ HasTop
    /\ IsConst(Top)
    /\ PurePeel(Top, [stack |-> Below, locals |-> goal.locals])

\* structural_binop_peel and binop_decompositions: the operators in the class of
\* v once v is saturated; an operand is written as any member of its class.
Members(v) == Subterms(v) \union {c \in {Normal(u) : u \in Subterms(v)} : IsConst(c)}
Written(u, v) == {w \in Members(v) : Equivalent(w, u)}

Decompositions(v) ==
    LET nodes == {u \in Subterms(v) : u[1] \in PureKinds /\ Equivalent(u, v)}
        swapped == {<<"mul", u[3], u[2]>> : u \in {w \in nodes : w[1] = "mul"}}
    IN  UNION {{u[1]} \X Written(u[2], v) \X Written(u[3], v) : u \in nodes \union swapped}

PeelBinop ==
    /\ HasTop
    /\ \E d \in Decompositions(Top) :
           PurePeel(<<d[1]>>, [stack |-> Below \o <<d[2], d[3]>>, locals |-> goal.locals])

MayHold(r) == r \in Needed(goal) => Equivalent(goal.locals[r], Top)

PeelGet ==
    /\ HasTop
    /\ \E r \in 0 .. MaxLocal :
           /\ MayHold(r)
           /\ PurePeel(<<"get", r>>,
                  [stack  |-> Below,
                   locals |-> [x \in DOMAIN goal.locals \union {r} |->
                                  IF x = r /\ r \notin Needed(goal) THEN Top
                                  ELSE goal.locals[x]]])

\* can_peel_result_op: the first result is looked for on top.
ResultsOnTop(out) ==
    /\ Len(out) <= Len(goal.stack)
    /\ \A i \in 1 .. Len(out) : Equivalent(goal.stack[Len(goal.stack) + 1 - i], out[i])

\* Mutant: the recorded inputs are pushed in the order they are listed.
PushedAsListed(in) == in

\* push_inputs
Pushed(in) == Reverse(in)

NowUsed(id) == used \union {id}

PeelOpaque ==
    \E x \in ToSet(exit.meta) :
        LET op == CHOOSE o \in ToSet(seg) : IsOpaque(o) /\ Id(o) = x.id
            next == [stack  |-> SubSeq(goal.stack, 1, Len(goal.stack) - Len(x.out))
                                \o Pushed(x.in),
                     locals |-> goal.locals]
        IN  /\ x.id \notin used
            /\ IF IsStorage(op) THEN x.id \in remaining ELSE x.out # <<>>
            /\ ResultsOnTop(x.out)
            /\ InBounds(next)
            /\ Peel(op, next)
            /\ used' = NowUsed(x.id)
            /\ remaining' = remaining \ {x.id}

Next == PeelSet \/ PeelTee \/ PeelConst \/ PeelBinop \/ PeelGet \/ PeelOpaque

Spec == Init /\ [][Next]_vars

-----------------------------------------------------------------------------
\* accept_solution: the peels in program order, run through the checker.
Ops == Reverse(path)

Accepted == LET deps == ComputeDependencies(seg, exit.meta)
                m == Run(EntryState(seg, MaxLocal + 1), Ops, MaxStack(seg))
            IN  SolutionValid(seg, exit, deps, Ops, m)

-----------------------------------------------------------------------------

\* A machine in which the goal holds: a slot without requirement has its entry
\* value, a dead one any.
GoalMachine ==
    [stack  |-> goal.stack,
     locals |-> [r \in 0 .. MaxLocal |-> IF r \in DOMAIN goal.locals THEN goal.locals[r]
                                         ELSE LocalSym(r)],
     meta   |-> <<>>,
     ok     |-> TRUE]

\* Section 11 of note/A*.md, soundness: a goal is a precondition of the peels
\* that led to it.  From any machine in which it holds they run to the exit
\* stack and locals, and opaque instructions get their recorded inputs.
PeelIsPrecondition ==
    LET m == Run(GoalMachine, Ops, MaxStack(seg))
        fin == FinState(exit)
    IN  /\ m.ok
        /\ NormalSeq(m.stack) = NormalSeq(fin.stack)
        /\ \A r \in DOMAIN fin.locals : Equivalent(m.locals[r], fin.locals[r])
        /\ InputsEquivalent(m, exit)

\* Section 11 of note/A*.md, soundness: a grounded path is a program the checker
\* accepts.  Two things the goal does not say may still refuse it: dependent
\* instructions peeled in the wrong order, and a local to which only one of the
\* two programs gives another expression than its entry value.
WrongOrder == ~RespectsDependencies(Ops, ComputeDependencies(seg, exit.meta))

ChangedByOne == LET m == Run(EntryState(seg, MaxLocal + 1), Ops, MaxStack(seg))
                IN  m.ok /\ DOMAIN FinState(m).locals # DOMAIN FinState(exit).locals

OnlyKnownRejections == IsSolution /\ ~Accepted => WrongOrder \/ ChangedByOne

\* If every value of the exit state is written in its simplest form the heuristic
\* drops by at most one per peel, and so, being 0 at a solution, never
\* overestimates: the condition under which module AStar finds a shortest program.
IsNormal(v) == \A u \in Subterms(v) : u[1] \in PureKinds => Normal(u)[1] = u[1]

HDropsByOne ==
    (\A v \in Roots(FinState(exit)) \union UNION {ToSet(x.in) : x \in ToSet(exit.meta)} : IsNormal(v))
        => \A i \in 1 .. Len(path) : hs[i] <= 1 + hs[i + 1]

=============================================================================
