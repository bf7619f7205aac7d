------------------------------ MODULE SatPaths ------------------------------
(***************************************************************************)
(* The models of the CNF, built step by step.  `prog` holds the alphabet   *)
(* entries x(1), x(2), ... chosen so far, `cells` and `locs` the values    *)
(* y(i, _) and w(i, _) after the last of them.  `mach` is the symbolic     *)
(* machine running the same instructions, as forward_valid will, and       *)
(* `exact` says that no step has used the freedom the clauses leave it: to *)
(* push an empty or outside value with local.get, to forget the value a    *)
(* local.set or local.tee writes.                                          *)
(***************************************************************************)
EXTENDS SatEncode

VARIABLES
    seg, enc,       \* the segment and its encoding: chosen once
    prog, cells, locs, mach, exact

vars == <<seg, enc, prog, cells, locs, mach, exact>>

Init == /\ seg \in Segments
        /\ \E order \in Orders : enc = EncodingOf(seg, order)
        /\ prog = <<>>
        /\ cells = CellsOf(EntryStack(seg), enc.height)
        /\ locs = EntryLocals
        /\ mach = EntryState(seg, Cardinality(Slots))
        /\ exact = TRUE

-----------------------------------------------------------------------------
Step == Len(prog) + 1

IsReal(v) == v \notin {Bot, Top, Star}

Position(id) == SelectLastInSeq(prog, LAMBDA op : IsOpaque(op) /\ Id(op) = id)

\* Mutant: the clauses of the dependencies are left out.
MayFollowUnordered(op) ==
    /\ prog # <<>> /\ Last(prog) = <<"nop">> => op = <<"nop">>
    /\ IsOpaque(op) => Position(Id(op)) = 0

\* Clauses on which entry may stand at this step: a NOP is followed by NOPs
\* only, an opaque instruction occurs once, and from the second step on it
\* comes after every instruction it depends on.
MayFollow(op) ==
    /\ prog # <<>> /\ Last(prog) = <<"nop">> => op = <<"nop">>
    /\ IsOpaque(op) =>
         /\ Position(Id(op)) = 0
         /\ Step >= 2 => \A d \in enc.deps : d[2] = Id(op) => Position(d[1]) # 0

\* Unit clauses of apply_reachability_pruning on the cells after a step.
Unpruned(ys) == \A v \in ToSet(ys) : IsReal(v) => v \in enc.allowed[Step]

\* Exactly-one, entry and pruning clauses aside, x(i, op) fixes the new cells and
\* locals up to the values in ys and ws.
Take(op, ys, ws, free) ==
    /\ op \in enc.alphabet
    /\ MayFollow(op)
    /\ Unpruned(ys)
    /\ prog' = Append(prog, op)
    /\ cells' = ys
    /\ locs' = ws
    /\ mach' = IF op = <<"nop">> THEN mach ELSE Exec(mach, op, enc.maxStack)
    /\ exact' = (exact /\ ~free)
    /\ UNCHANGED <<seg, enc>>

Unfinished == Len(prog) < Len(seg)

\* Mutant: a push does not look for room.
RoomUnchecked == TRUE

Room == Last(cells) = Bot

\* Cells after `pops` values went and the values `pushed`, top first, came.
Replace(pops, pushed) ==
    [j \in DOMAIN cells |->
        IF j <= Len(pushed) THEN pushed[j]
        ELSE LET src == j - Len(pushed) + pops
             IN  IF src \in DOMAIN cells THEN cells[src] ELSE Bot]

-----------------------------------------------------------------------------
Nop == /\ Unfinished
       /\ Take(<<"nop">>, cells, locs, FALSE)

PushConst == /\ Unfinished
             /\ Room
             /\ \E n \in 0 .. WordSize - 1 :
                    Take(<<"const", n>>, Replace(0, <<Const(n)>>), locs, FALSE)

\* pin_transfer_equiv forbids other real values, not the empty and outside ones.
GetLocal == /\ Unfinished
            /\ Room
            /\ \E slot \in Slots : \E v \in {locs[slot], Bot, Top} :
                   /\ locs[slot] # Star
                   /\ Take(<<"get", slot>>, Replace(0, <<v>>), locs, v # locs[slot])

\* The written slot takes the value on top or star; a pinned slot stays.
Written(slot, v) == IF IsPinned(seg, slot)
                    THEN {locs[slot]} \intersect {v, Star} ELSE {v, Star}

WriteLocal == /\ Unfinished
              /\ IsReal(cells[1])
              /\ \E kind \in {"set", "tee"}, slot \in Slots : \E w \in Written(slot, cells[1]) :
                     Take(<<kind, slot>>,
                          IF kind = "set" THEN Replace(1, <<>>) ELSE cells,
                          [locs EXCEPT ![slot] = w],
                          w = Star)

DropTop == /\ Unfinished
           /\ cells[1] # Bot
           /\ Take(<<"drop">>, Replace(1, <<>>), locs, FALSE)

Binop == /\ Unfinished
         /\ \E kind \in PureKinds : \E row \in enc.rows[kind] :
                /\ row[1] = cells[2]
                /\ row[2] = cells[1]
                /\ Take(<<kind>>, Replace(2, <<row[3]>>), locs, FALSE)

\* encode_opaque: recorded inputs on top, recorded results after, room for growth.
Opaque == /\ Unfinished
          /\ \E x \in ToSet(enc.exit.meta) :
                 LET op == CHOOSE o \in ToSet(seg) : IsOpaque(o) /\ Id(o) = x.id
                     ins == NormalSeq(IF op[1] \in {"call", "opaque"}
                                      THEN Reverse(x.in) ELSE x.in)
                     p == Len(ins)
                     q == Len(x.out)
                 IN  /\ \A k \in 1 .. p : cells[k] = ins[k]
                     /\ \A t \in 0 .. q - p - 1 : cells[enc.height - t] = Bot
                     /\ Take(op, Replace(p, Reverse(x.out)), locs, FALSE)

Next == Nop \/ PushConst \/ GetLocal \/ WriteLocal \/ DropTop \/ Binop \/ Opaque

Spec == Init /\ [][Next]_vars

-----------------------------------------------------------------------------
\* Clauses on the whole path: the exit boundary, and every storage instruction.
ExitLocal(r) == IF r < NumLocals THEN Normal(enc.exit.locals[r]) ELSE Star

\* Mutant: the exit boundary forgets the locals.
IsModelStackOnly == /\ Len(prog) = Len(seg)
                    /\ cells = CellsOf(enc.exit.stack, enc.height)
                    /\ StoragePreserved(seg, prog)

IsModel == /\ Len(prog) = Len(seg)
           /\ cells = CellsOf(enc.exit.stack, enc.height)
           /\ \A r \in 0 .. MaxLocal : locs[r] = ExitLocal(r)
           /\ StoragePreserved(seg, prog)

\* reconstruct
Ops == SelectSeq(prog, LAMBDA op : op # <<"nop">>)

\* solution_valid, the checker every model goes through.
ForwardValid == SolutionValid(seg, enc.exit, enc.deps, Ops, mach)

-----------------------------------------------------------------------------

\* Section 7.1 of note/SAT.md, on the paths that leave the clauses no freedom:
\* after every step the cells are the machine's stack, the locals its locals, and
\* the machine has not failed: the height bound and the room clauses keep it below
\* max_stack, the emptiness clauses above underflow.
CellsTrackStack ==
    exact => /\ mach.ok
             /\ cells = CellsOf(mach.stack, enc.height)
             /\ \A r \in Slots : locs[r] \in {Star, Normal(mach.locals[r])}
             /\ \A r \in 0 .. NumLocals - 1 : locs[r] # Star

\* What a model promises: run from the segment's entry, it leaves the segment's
\* stack and locals and hands every opaque instruction the recorded inputs.
ModelSound ==
    IsModel /\ exact =>
        /\ NormalSeq(mach.stack) = NormalSeq(enc.exit.stack)
        /\ \A r \in 0 .. NumLocals - 1 : Normal(mach.locals[r]) = Normal(enc.exit.locals[r])
        /\ InputsEquivalent(mach, enc.exit)

\* The two reasons the checker has to reject an exact model: an instruction at
\* step 1 that the order clauses let go before its predecessor, and a local that
\* ends with its entry value but was rewritten by only one of the programs.
Inverted(d) == /\ Position(d[1]) # 0
               /\ Position(d[2]) # 0
               /\ Position(d[2]) < Position(d[1])
TouchedByOne == \E r \in 0 .. MaxLocal : (mach.locals[r] = LocalSym(r)) # (enc.exit.locals[r] = LocalSym(r))

OnlyKnownRejections ==
    IsModel /\ exact /\ ~ForwardValid =>
        \/ \E d \in enc.deps : Inverted(d) /\ Position(d[2]) = 1
        \/ TouchedByOne

\* A program the backend may return, with none of the segment's opaque
\* instructions left out, runs every two of them that conflict in their order
\* although only the reduced list of dependencies is enforced.
ConflictOrder(pairs) == \A d \in pairs : ~Inverted(d)

OrderKept ==
    IsModel /\ ForwardValid /\ (\A x \in ToSet(enc.exit.meta) : Position(x.id) # 0)
        => ConflictOrder(Conflicts(seg, enc.exit.meta))

\* note/A*.md 15.4: "a call depends on all accesses", and section 11.5 of
\* note/SAT.md: that order is enforced.  Of a program the backend may return.
SideEffectsKeepOrder ==
    IsModel /\ ForwardValid => ConflictOrder(Conflicts(seg, enc.exit.meta))

\* The original program, step by step: what the first solver call asks for.
\* It is a path as long as every value on the trace's stack survives pruning.
OnOriginal == exact /\ prog = SubSeq(seg, 1, Len(prog))

TraceUnpruned ==
    \A i \in 1 .. Len(seg) : \A v \in ToSet(enc.trace[i].stack) : Normal(v) \in enc.allowed[i]

CanFollowOriginal == ENABLED (Next /\ prog' = Append(prog, seg[Step]) /\ exact')

\* Section 6.1 of note/SAT.md: the first call always answers SAT.
OriginalIsModel == OnOriginal => IF Unfinished THEN CanFollowOriginal ELSE IsModel

\* The first call answers SAT unless pruning removed a value of the trace.
OriginalIsModelIfUnpruned == OnOriginal /\ TraceUnpruned => OriginalIsModel

=============================================================================
