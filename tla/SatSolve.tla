------------------------------ MODULE SatSolve ------------------------------
(***************************************************************************)
(* The descending Pure-SAT loop of src/optimize/sat.rs,                    *)
(* solve_sat_with_witness: build the vocabulary, the alphabet and the CNF, *)
(* check that the original program is a model of it, then ask the solver   *)
(* for ever shorter models until it answers UNSAT, the deadline passes or  *)
(* nothing shorter is left to ask for.                                     *)
(*                                                                         *)
(* A program is a model value with a length.  What the CNF and the checker *)
(* say of it is a choice of Init: `models` are the programs the CNF admits *)
(* (module SatEncode says which these are) and `valid` the ones            *)
(* forward_valid accepts.  The CNF is rarely exact, so neither set         *)
(* contains the other.                                                     *)
(***************************************************************************)
EXTENDS Integers, FiniteSets

CONSTANTS
    Program,        \* op sequences the alphabet can express, and the witness
    Length,         \* number of ops of each program
    Orig,           \* the segment's own ops
    None,           \* `ops: None`
    MaxSatLen       \* SearchConfig::max_sat_len

ASSUME ProgramAssumption == /\ IsFiniteSet(Program)
                            /\ Length \in [Program -> Nat]
                            /\ Orig \in Program
                            /\ None \notin Program
                            /\ MaxSatLen \in Nat

VARIABLES
    \* the segment and what its encoding is worth: chosen once
    models, valid, complete, witness,
    \* the run
    pc, expired, blocked, best, ell, sawInvalid, timedOut, proven

given == <<models, valid, complete, witness>>
vars  == <<models, valid, complete, witness,
           pc, expired, blocked, best, ell, sawInvalid, timedOut, proven>>

LOrig == Length[Orig]

\* Programs of at most LOrig steps: Dims::l bounds every model of the CNF.
Encodable == {p \in Program : Length[p] <= LOrig}

Building == {"vocab", "ops", "encode", "clauses"}
NextPhase == [ph \in Building |-> CASE ph = "vocab"   -> "ops"
                                    [] ph = "ops"     -> "encode"
                                    [] ph = "encode"  -> "clauses"
                                    [] ph = "clauses" -> "witness"]

Init == /\ models \in SUBSET Encodable
        /\ valid \in SUBSET Program
        /\ complete \in BOOLEAN
        /\ witness \in Program \union {None}
        /\ pc = "start"
        /\ expired = FALSE
        /\ blocked = {}
        /\ best = None
        /\ ell = LOrig - 1
        /\ sawInvalid = FALSE
        /\ timedOut = FALSE
        /\ proven = FALSE

-----------------------------------------------------------------------------
\* Instant::now() reaches the deadline: at any moment of the run.
Expire == /\ pc # "done"
          /\ ~expired
          /\ expired' = TRUE
          /\ UNCHANGED <<given, pc, blocked, best, ell, sawInvalid, timedOut, proven>>

\* Mutant: a run that is cut off does not say so.
ReturnQuietly(late) == /\ pc' = "done"
                       /\ timedOut' = FALSE
                       /\ UNCHANGED <<given, expired, blocked, best, ell,
                                      sawInvalid, proven>>

\* fail() and timeout_result(): no program, nothing proven.
Return(late) == /\ pc' = "done"
                /\ timedOut' = late
                /\ UNCHANGED <<given, expired, blocked, best, ell, sawInvalid, proven>>

\* An empty segment, or one above the length cap, is refused before any work.
Start == /\ pc = "start"
         /\ IF LOrig = 0 \/ LOrig > MaxSatLen
            THEN Return(FALSE)
            ELSE /\ pc' = "vocab"
                 /\ UNCHANGED <<given, expired, blocked, best, ell,
                                sawInvalid, timedOut, proven>>

\* A phase ends.  Past the deadline it times out whatever it returned;
\* before it, it either succeeded or gave up (a seed outside the vocabulary,
\* an op without a table row, a CNF over the clause limit).
BuildLate == pc \in Building /\ expired /\ Return(TRUE)

BuildFails == pc \in Building \ {"clauses"} /\ ~expired /\ Return(FALSE)

BuildDone == /\ pc \in Building
             /\ ~expired
             /\ pc' = NextPhase[pc]
             /\ UNCHANGED <<given, expired, blocked, best, ell,
                            sawInvalid, timedOut, proven>>

\* Mutant: the caller's witness is taken without comparing its length.
FirstBestUnchecked == IF witness # None /\ witness \in valid THEN witness ELSE Orig

\* The program the loop starts from: the original, or the caller's witness
\* if that one is shorter and passes the checker.
FirstBest == IF witness # None /\ Length[witness] < LOrig /\ witness \in valid
             THEN witness ELSE Orig

\* Mutant: the loop starts two below the first program's length.
WitnessSatTooLow == /\ pc = "witness"
                    /\ Orig \in models
                    /\ Orig \in valid
                    /\ best' = FirstBest
                    /\ ell' = IF Length[FirstBest] = 0 THEN -1 ELSE Length[FirstBest] - 2
                    /\ pc' = "loop"
                    /\ UNCHANGED <<given, expired, blocked, sawInvalid, timedOut, proven>>

\* The original program, pinned step by step, is asked for first.
WitnessSat == /\ pc = "witness"
              /\ Orig \in models
              /\ Orig \in valid
              /\ best' = FirstBest
              /\ ell' = Length[FirstBest] - 1
              /\ pc' = "loop"
              /\ UNCHANGED <<given, expired, blocked, sawInvalid, timedOut, proven>>

\* No assumption for some op, UNSAT, or a model the checker rejects.
WitnessRefused == /\ pc = "witness"
                  /\ Orig \notin models \/ Orig \notin valid
                  /\ Return(FALSE)

WitnessLate == pc = "witness" /\ expired /\ Return(TRUE)

-----------------------------------------------------------------------------
\* The head of the loop reads the clock; the solver runs after it.
LoopAsk == /\ pc = "loop"
           /\ ell >= 0
           /\ ~expired
           /\ pc' = "solving"
           /\ UNCHANGED <<given, expired, blocked, best, ell,
                          sawInvalid, timedOut, proven>>

LoopLate == pc = "loop" /\ ell >= 0 /\ expired /\ Return(TRUE)

\* `while ell >= 0` runs out: the empty program was accepted.
LoopExhausted == pc = "loop" /\ ell < 0 /\ Return(FALSE)

\* What the solver may answer under x(ell+1, NOP): any model of at most ell
\* ops that no blocking clause excludes.
Candidates == {p \in models \ blocked : Length[p] <= ell}

\* Mutant: a model becomes the best program before the checker has seen it.
SolveAcceptedUnchecked == /\ pc = "solving"
                          /\ \E p \in Candidates : best' = p
                          /\ ell' = ell - 1
                          /\ pc' = "loop"
                          /\ UNCHANGED <<given, expired, blocked, sawInvalid,
                                         timedOut, proven>>

SolveAccepted == /\ pc = "solving"
                 /\ \E p \in Candidates \intersect valid : best' = p
                 /\ ell' = ell - 1
                 /\ pc' = "loop"
                 /\ UNCHANGED <<given, expired, blocked, sawInvalid, timedOut, proven>>

\* Mutant: the rejected model is not blocked.
SolveRejectedUnblocked == /\ pc = "solving"
                          /\ \E p \in Candidates \ valid : sawInvalid' = TRUE
                          /\ pc' = "loop"
                          /\ UNCHANGED <<given, expired, blocked, best, ell,
                                         timedOut, proven>>

\* forward_valid rejects the model: block_current_op_model, same length again.
SolveRejected == /\ pc = "solving"
                 /\ \E p \in Candidates \ valid : blocked' = blocked \union {p}
                 /\ sawInvalid' = TRUE
                 /\ pc' = "loop"
                 /\ UNCHANGED <<given, expired, best, ell, timedOut, proven>>

SolveUnsat == /\ pc = "solving"
              /\ Candidates = {}
              /\ proven' = (complete /\ ~sawInvalid)
              /\ pc' = "done"
              /\ UNCHANGED <<given, expired, blocked, best, ell, sawInvalid, timedOut>>

\* The Timeout callback stops the solver only once the deadline has passed.
SolveLate == pc = "solving" /\ expired /\ Return(TRUE)

Work == \/ Start \/ BuildLate \/ BuildFails \/ BuildDone
        \/ WitnessSat \/ WitnessRefused \/ WitnessLate
        \/ LoopAsk \/ LoopLate \/ LoopExhausted
        \/ SolveAccepted \/ SolveRejected \/ SolveUnsat \/ SolveLate

Next == Expire \/ Work

Safety == Init /\ [][Next]_vars

\* The function runs to its end on one thread; the deadline is no obligation.
Spec == Safety /\ WF_vars(Work)

-----------------------------------------------------------------------------
TypeOK == /\ models \in SUBSET Encodable
          /\ valid \in SUBSET Program
          /\ complete \in BOOLEAN
          /\ witness \in Program \union {None}
          /\ pc \in {"start", "witness", "loop", "solving", "done"} \union Building
          /\ expired \in BOOLEAN
          /\ blocked \in SUBSET Program
          /\ best \in Program \union {None}
          /\ ell \in -1 .. LOrig - 1
          /\ sawInvalid \in BOOLEAN
          /\ timedOut \in BOOLEAN
          /\ proven \in BOOLEAN

\* What solve_sat returns, or keeps to return when the deadline strikes, passes
\* the checker and is no longer than the segment it replaces.
AnswerSound == best # None => best \in valid /\ Length[best] <= LOrig

Minimal(p) == \A q \in models \intersect valid : Length[p] <= Length[q]

\* A run that ends in time ends with a shortest program of those the encoding
\* admits and the checker accepts, whatever models were blocked on the way and
\* although ell falls by one where the model found may be much shorter; and
\* proven_optimal is claimed of nothing else.
AnswerMinimal == /\ pc = "done" /\ best # None /\ ~timedOut => Minimal(best)
                 /\ proven => complete /\ best # None /\ ~timedOut /\ pc = "done"

\* The search ends whether or not the deadline passes: blocking clauses cannot
\* be added for ever at one length.
Terminates == <>(pc = "done")

\* The caller sees the answer only when the function returns.
M == INSTANCE Minimizer WITH
        searched <- models,
        answer   <- IF pc = "done" THEN best ELSE None,
        claim    <- proven,
        late     <- timedOut,
        returned <- (pc = "done")

\* solve_sat_with_witness is a Minimizer: it answers once, with nothing or a
\* valid program, minimal if in time, and claims optimality of nothing else.
IsMinimizer == M!Spec

=============================================================================
