--------------------------- MODULE SatSolve_proofs --------------------------
(***************************************************************************)
(* Proofs about module SatSolve, for every set of programs, every length   *)
(* function and every choice the solver and the deadline make.             *)
(***************************************************************************)
EXTENDS SatSolve, TLAPS

BeforeLoop == {"start", "witness"} \union Building

(***************************************************************************)
(* The inductive invariant.  Two facts are not visible in the properties:  *)
(* while the loop runs, the best program is no longer than one more than   *)
(* the bound it is about to ask for (so UNSAT at ell leaves it minimal),   *)
(* and only programs the checker rejects are ever blocked (so blocking     *)
(* cannot make the solver say UNSAT of a bound that has a solution).       *)
(***************************************************************************)
IInv == /\ TypeOK
        /\ AnswerSound
        /\ pc \in BeforeLoop => best = None /\ ~timedOut /\ ~proven
        /\ pc \in {"loop", "solving"} => /\ best # None
                                         /\ ~timedOut
                                         /\ ~proven
                                         /\ Length[best] <= ell + 1
        /\ pc = "solving" => ell >= 0
        /\ blocked \intersect valid = {}
        /\ AnswerMinimal

\* The length of a program, and of the original, is a natural number.
LEMMA Lengths == /\ \A p \in Program : Length[p] \in Nat
                 /\ LOrig \in Nat
                 /\ Orig \in Encodable
                 /\ Encodable \subseteq Program
  BY ProgramAssumption DEF LOrig, Encodable

\* FirstBest is a program the checker accepts, no longer than the original.
LEMMA FirstBestSound ==
  ASSUME TypeOK, Orig \in valid
  PROVE  /\ FirstBest \in Program
         /\ FirstBest \in valid
         /\ Length[FirstBest] <= LOrig
         /\ FirstBest # None
  BY Lengths, ProgramAssumption DEF FirstBest, LOrig, TypeOK

\* The initial states satisfy the invariant.
LEMMA InitIInv == Init => IInv
<1> SUFFICES ASSUME Init PROVE IInv
  OBVIOUS
<1> USE DEF Init
<1>1. TypeOK
  <2>1. blocked \in SUBSET Program
    OBVIOUS
  <2>2. best \in Program \union {None}
    OBVIOUS
  <2>3. ell \in -1 .. LOrig - 1
    BY Lengths
  <2>4. /\ expired \in BOOLEAN
        /\ sawInvalid \in BOOLEAN
        /\ timedOut \in BOOLEAN
        /\ proven \in BOOLEAN
        /\ pc \in {"start", "witness", "loop", "solving", "done"} \union Building
    OBVIOUS
  <2> QED
    BY <2>1, <2>2, <2>3, <2>4 DEF TypeOK
<1>2. pc = "start" /\ best = None /\ blocked = {}
  OBVIOUS
<1>3. ~timedOut /\ ~proven
  OBVIOUS
<1>4. AnswerSound /\ AnswerMinimal
  BY <1>2, <1>3 DEF AnswerSound, AnswerMinimal
<1> QED
  BY <1>1, <1>2, <1>3, <1>4 DEF IInv

\* A step that returns without a model keeps the program it has.
LEMMA ReturnIInv ==
  ASSUME IInv, pc # "done", NEW late \in BOOLEAN, Return(late),
         best # None /\ ~late => Minimal(best)
  PROVE  IInv'
<1>1. TypeOK'
  BY DEF IInv, TypeOK, Return, given
<1>2. AnswerSound'
  BY DEF IInv, AnswerSound, Return, given, LOrig
<1>3. blocked' \intersect valid' = {}
  BY DEF IInv, Return, given
<1>4. proven = FALSE
  BY DEF IInv, TypeOK, AnswerMinimal
<1>5. AnswerMinimal'
  BY <1>4 DEF AnswerMinimal, Minimal, Return, given
<1>6. pc' = "done"
  BY DEF Return
<1> QED
  BY <1>1, <1>2, <1>3, <1>5, <1>6 DEF IInv, BeforeLoop, Building

\* A step that only moves pc towards the loop keeps the invariant.
LEMMA PhaseIInv ==
  ASSUME IInv, pc \in BeforeLoop, pc' \in BeforeLoop,
         UNCHANGED <<given, expired, blocked, best, ell, sawInvalid, timedOut, proven>>
  PROVE  IInv'
<1>1. TypeOK'
  BY DEF IInv, TypeOK, BeforeLoop, given
<1>2. pc' # "done" /\ pc' \notin {"loop", "solving"}
  BY DEF BeforeLoop, Building
<1>3. AnswerSound'
  BY DEF IInv, AnswerSound, given, LOrig
<1>4. best = None /\ ~timedOut /\ ~proven
  BY DEF IInv
<1>5. AnswerMinimal'
  BY <1>2, <1>4 DEF AnswerMinimal, given
<1> QED
  BY <1>1, <1>2, <1>3, <1>4, <1>5 DEF IInv, given

\* Every step keeps the invariant.
LEMMA StepIInv == IInv /\ [Next]_vars => IInv'
<1> SUFFICES ASSUME IInv, [Next]_vars PROVE IInv'
  OBVIOUS
<1>t. TypeOK /\ AnswerSound /\ AnswerMinimal
  BY DEF IInv
<1>n. pc \in BeforeLoop => best = None /\ ~timedOut /\ ~proven
  BY DEF IInv
<1>1. CASE Expire
  <2>1. TypeOK'
    BY <1>1, <1>t DEF Expire, TypeOK, given
  <2>2. AnswerSound' /\ AnswerMinimal'
    BY <1>1, <1>t DEF Expire, AnswerSound, AnswerMinimal, Minimal, given, LOrig
  <2> QED
    BY <1>1, <2>1, <2>2 DEF Expire, IInv, given
<1>2. CASE Start
  <2>1. CASE LOrig = 0 \/ LOrig > MaxSatLen
    <3>1. Return(FALSE) /\ pc = "start"
      BY <1>2, <2>1 DEF Start
    <3> QED
      BY <3>1, <1>n, ReturnIInv DEF BeforeLoop
  <2>2. CASE ~(LOrig = 0 \/ LOrig > MaxSatLen)
    BY <1>2, <2>2, PhaseIInv DEF Start, BeforeLoop, Building
  <2> QED
    BY <2>1, <2>2
<1>3. CASE BuildLate
  BY <1>3, <1>n, ReturnIInv DEF BuildLate, BeforeLoop, Building
<1>4. CASE BuildFails
  BY <1>4, <1>n, ReturnIInv DEF BuildFails, BeforeLoop, Building
<1>5. CASE BuildDone
  <2>1. pc \in Building /\ pc' = NextPhase[pc]
    BY <1>5 DEF BuildDone
  <2>2. pc' \in BeforeLoop
    BY <2>1 DEF NextPhase, Building, BeforeLoop
  <2> QED
    BY <1>5, <2>1, <2>2, PhaseIInv DEF BuildDone, BeforeLoop
<1>6. CASE WitnessSat
  <2>1. /\ FirstBest \in Program
        /\ FirstBest \in valid
        /\ Length[FirstBest] <= LOrig
        /\ FirstBest # None
    BY <1>6, <1>t, FirstBestSound DEF WitnessSat
  <2>2. Length[FirstBest] \in Nat /\ LOrig \in Nat
    BY <2>1, Lengths
  <2>3. TypeOK'
    BY <1>6, <1>t, <2>1, <2>2 DEF WitnessSat, TypeOK, given
  <2>4. AnswerSound'
    BY <1>6, <2>1 DEF WitnessSat, AnswerSound, given, LOrig
  <2>5. ~timedOut /\ ~proven
    BY <1>6, <1>n DEF WitnessSat, BeforeLoop
  <2>6. Length'[best'] <= ell' + 1
    BY <1>6, <2>2 DEF WitnessSat
  <2>7. AnswerMinimal'
    BY <1>6, <2>5 DEF WitnessSat, AnswerMinimal
  <2> QED
    BY <1>6, <2>1, <2>3, <2>4, <2>5, <2>6, <2>7
       DEF WitnessSat, IInv, given, BeforeLoop, Building
<1>7. CASE WitnessRefused
  BY <1>7, <1>n, ReturnIInv DEF WitnessRefused, BeforeLoop
<1>8. CASE WitnessLate
  BY <1>8, <1>n, ReturnIInv DEF WitnessLate, BeforeLoop
<1>9. CASE LoopAsk
  <2>1. TypeOK'
    BY <1>9, <1>t DEF LoopAsk, TypeOK, given
  <2>2. AnswerSound' /\ AnswerMinimal'
    BY <1>9, <1>t DEF LoopAsk, AnswerSound, AnswerMinimal, given, LOrig
  <2>3. best # None /\ ~timedOut /\ ~proven /\ Length[best] <= ell + 1
    BY <1>9 DEF LoopAsk, IInv
  <2> QED
    BY <1>9, <2>1, <2>2, <2>3 DEF LoopAsk, IInv, given, BeforeLoop, Building
<1>10. CASE LoopLate
  BY <1>10, ReturnIInv DEF LoopLate
<1>11. CASE LoopExhausted
  <2>1. best # None /\ Length[best] <= ell + 1 /\ best \in Program
    BY <1>11, <1>t DEF LoopExhausted, IInv, TypeOK
  <2>2. ell < 0 /\ ell \in Int /\ Length[best] \in Nat
    BY <1>11, <1>t, <2>1, Lengths DEF LoopExhausted, TypeOK
  <2>3. \A q \in Program : Length[best] <= Length[q]
    BY <2>1, <2>2, Lengths
  <2>4. Minimal(best)
    BY <2>3, <1>t DEF Minimal, TypeOK
  <2> QED
    BY <1>11, <2>4, ReturnIInv DEF LoopExhausted
<1>12. CASE SolveAccepted
  <2> PICK p \in Candidates \intersect valid : best' = p
    BY <1>12 DEF SolveAccepted
  <2>1. p \in Program /\ p \in valid /\ p # None /\ Length[p] \in Nat
    BY <1>t, Lengths, ProgramAssumption DEF Candidates, TypeOK
  <2>2. Length[p] <= ell /\ ell \in Int /\ ell >= 0 /\ ell <= LOrig - 1 /\ LOrig \in Nat
    BY <1>12, <1>t, <2>1, Lengths DEF Candidates, SolveAccepted, TypeOK, IInv
  <2>3. TypeOK'
    BY <1>12, <1>t, <2>1, <2>2 DEF SolveAccepted, TypeOK, given
  <2>4. AnswerSound'
    BY <1>12, <2>1, <2>2 DEF SolveAccepted, AnswerSound, given, LOrig
  <2>5. ~timedOut /\ ~proven
    BY <1>12 DEF SolveAccepted, IInv
  <2>6. AnswerMinimal'
    BY <1>12, <2>5 DEF SolveAccepted, AnswerMinimal
  <2>7. Length[best'] <= ell' + 1
    BY <1>12, <2>1, <2>2 DEF SolveAccepted
  <2> QED
    BY <1>12, <2>1, <2>3, <2>4, <2>5, <2>6, <2>7
       DEF SolveAccepted, IInv, given, BeforeLoop, Building
<1>13. CASE SolveRejected
  <2> PICK p \in Candidates \ valid : blocked' = blocked \union {p}
    BY <1>13 DEF SolveRejected
  <2>1. p \in Program /\ p \notin valid
    BY <1>t, Lengths DEF Candidates, TypeOK
  <2>2. TypeOK'
    BY <1>13, <1>t, <2>1 DEF SolveRejected, TypeOK, given
  <2>3. AnswerSound'
    BY <1>13, <1>t DEF SolveRejected, AnswerSound, given, LOrig
  <2>4. best # None /\ ~timedOut /\ ~proven /\ Length[best] <= ell + 1
    BY <1>13 DEF SolveRejected, IInv
  <2>5. AnswerMinimal'
    BY <1>13, <2>4 DEF SolveRejected, AnswerMinimal
  <2>6. blocked' \intersect valid' = {}
    BY <1>13, <2>1 DEF SolveRejected, IInv, given
  <2> QED
    BY <1>13, <2>2, <2>3, <2>4, <2>5, <2>6
       DEF SolveRejected, IInv, given, BeforeLoop, Building
<1>14. CASE SolveUnsat
  <2>1. /\ best # None /\ best \in Program /\ ~timedOut
        /\ Length[best] <= ell + 1 /\ Length[best] \in Nat /\ ell \in Int
    BY <1>14, <1>t, Lengths DEF SolveUnsat, IInv, TypeOK
  <2>2. ASSUME NEW q \in models \intersect valid
        PROVE  Length[best] <= Length[q]
    <3>1. q \in Program /\ Length[q] \in Nat /\ q \notin blocked
      BY <1>t, Lengths DEF TypeOK, IInv
    <3>2. ~(Length[q] <= ell)
      BY <1>14, <3>1 DEF SolveUnsat, Candidates
    <3> QED
      BY <2>1, <3>1, <3>2
  <2>3. Minimal(best)
    BY <2>2 DEF Minimal
  <2>4. TypeOK'
    <3>1. (complete /\ ~sawInvalid) \in BOOLEAN
      OBVIOUS
    <3> QED
      BY <1>14, <1>t, <3>1 DEF SolveUnsat, TypeOK, given
  <2>5. AnswerSound'
    BY <1>14, <1>t DEF SolveUnsat, AnswerSound, given, LOrig
  <2>6. AnswerMinimal'
    BY <1>14, <2>1, <2>3 DEF SolveUnsat, AnswerMinimal, Minimal, given
  <2> QED
    BY <1>14, <2>4, <2>5, <2>6 DEF SolveUnsat, IInv, given, BeforeLoop, Building
<1>15. CASE SolveLate
  BY <1>15, ReturnIInv DEF SolveLate
<1>16. CASE UNCHANGED vars
  BY <1>16 DEF vars, IInv, TypeOK, AnswerSound, AnswerMinimal, Minimal, LOrig,
               BeforeLoop, Encodable
<1> QED
  BY <1>1, <1>2, <1>3, <1>4, <1>5, <1>6, <1>7, <1>8, <1>9, <1>10, <1>11,
     <1>12, <1>13, <1>14, <1>15, <1>16 DEF Next, Work

-----------------------------------------------------------------------------
\* The variables keep their types.
THEOREM TypeCorrect == Safety => []TypeOK
<1>1. IInv => TypeOK
  BY DEF IInv
<1> QED
  BY InitIInv, StepIInv, <1>1, PTL DEF Safety

\* Whatever is kept or returned passes the checker and is no longer than the
\* segment: for every set of programs and every behaviour of the solver.
THEOREM AnswersAreSound == Safety => []AnswerSound
<1>1. IInv => AnswerSound
  BY DEF IInv
<1> QED
  BY InitIInv, StepIInv, <1>1, PTL DEF Safety

\* A run that ends in time ends with a shortest valid program of the encoding,
\* and proven_optimal is claimed of no other.
THEOREM AnswersAreMinimal == Safety => []AnswerMinimal
<1>1. IInv => AnswerMinimal
  BY DEF IInv
<1> QED
  BY InitIInv, StepIInv, <1>1, PTL DEF Safety

-----------------------------------------------------------------------------
\* A step that does not return leaves what the caller sees as it is.
LEMMA HiddenStep ==
  ASSUME pc # "done", pc' # "done",
         UNCHANGED <<models, valid, timedOut, proven>>
  PROVE  UNCHANGED M!vars
  BY DEF M!vars

\* A step that returns is the one answer of the abstract minimizer.
LEMMA ReturnStep ==
  ASSUME IInv, IInv', pc # "done", pc' = "done", UNCHANGED <<models, valid>>
  PROVE  M!Answer
<1>1. TypeOK' /\ AnswerSound' /\ AnswerMinimal'
  BY DEF IInv
<1>2. timedOut' \in BOOLEAN /\ proven' \in BOOLEAN
  BY <1>1 DEF TypeOK
<1>3. best' \in {p \in valid : Length[p] <= Length[Orig]} \union {None}
  <2>1. best' # None => best' \in valid /\ Length[best'] <= Length[Orig]
    BY <1>1 DEF AnswerSound, LOrig
  <2> QED
    BY <2>1
<1>4. best' # None /\ ~timedOut' => M!Shortest(best')
  BY <1>1 DEF AnswerMinimal, Minimal, M!Shortest
<1>5. proven' => best' # None /\ ~timedOut'
  BY <1>1 DEF AnswerMinimal
<1> QED
  BY <1>2, <1>3, <1>4, <1>5 DEF M!Answer

\* Every step is an answer of the abstract minimizer or invisible to its caller.
LEMMA StepRefines == IInv /\ IInv' /\ [Next]_vars => [M!Answer]_(M!vars)
<1> SUFFICES ASSUME IInv, IInv', [Next]_vars PROVE M!Answer \/ UNCHANGED M!vars
  OBVIOUS
<1>1. CASE UNCHANGED vars
  BY <1>1 DEF vars, M!vars
<1>2. CASE Next
  <2>1. pc # "done" /\ UNCHANGED <<models, valid>>
    BY <1>2 DEF Next, Work, Expire, Start, BuildLate, BuildFails, BuildDone,
                WitnessSat, WitnessRefused, WitnessLate, LoopAsk, LoopLate,
                LoopExhausted, SolveAccepted, SolveRejected, SolveUnsat,
                SolveLate, Return, given, Building
  <2>2. CASE pc' = "done"
    BY <2>1, <2>2, ReturnStep
  <2>3. CASE pc' # "done"
    <3>1. UNCHANGED <<timedOut, proven>>
      BY <1>2, <2>3
         DEF Next, Work, Expire, Start, BuildLate, BuildFails, BuildDone,
             WitnessSat, WitnessRefused, WitnessLate, LoopAsk, LoopLate,
             LoopExhausted, SolveAccepted, SolveRejected, SolveUnsat,
             SolveLate, Return, given
    <3> QED
      BY <2>1, <2>3, <3>1, HiddenStep
  <2> QED
    BY <2>2, <2>3
<1> QED
  BY <1>1, <1>2

\* The initial states are those of the abstract minimizer.
LEMMA InitRefines == Init => M!Init
<1> SUFFICES ASSUME Init PROVE M!Init
  OBVIOUS
<1>1. models \in SUBSET Program
  BY Lengths DEF Init
<1>2. pc # "done" /\ proven = FALSE /\ timedOut = FALSE /\ valid \in SUBSET Program
  BY DEF Init
<1> QED
  BY <1>1, <1>2 DEF M!Init

\* solve_sat_with_witness implements the abstract minimizer: it answers at most
\* once, with nothing or with what Minimizer allows.
THEOREM SolveSatImplementsMinimizer == Safety => M!Safety
<1>1. IInv /\ IInv' /\ [Next]_vars => [M!Answer]_(M!vars)
  BY StepRefines
<1> QED
  BY InitIInv, StepIInv, InitRefines, <1>1, PTL DEF Safety, M!Safety

=============================================================================
