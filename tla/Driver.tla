------------------------------- MODULE Driver -------------------------------
(***************************************************************************)
(* The run over a whole module.  The segments of all functions, or with    *)
(* --opt-locals the functions, are given to a pool of threads, each        *)
(* against a deadline of its own (optimize_segments and                    *)
(* optimize_and_print_segments in src/optimize/mod.rs,                     *)
(* optimize_module_functions in src/optimize/locals/mod.rs); the results   *)
(* are collected in order, then summed up and, for a segment, checked once *)
(* more for its row of statistics (src/optimize/statistics.rs).            *)
(*                                                                         *)
(* An item is what the solver has before it: len, its instructions,        *)
(* stores, its storage instructions, work, the time it takes alone, best   *)
(* and early, the length of the program it ends with and of the one it has *)
(* when it is cut off, proven, whether it proves the best one shortest,    *)
(* fit, whether it takes the item at all, and cost, what the statistics'   *)
(* check of the answer adds to the e-graph they share.                     *)
(***************************************************************************)
EXTENDS Integers, Sequences, FiniteSets, SequencesExt, TLC

CONSTANTS
    Modules,        \* [imports, code]; code is a sequence of functions,
                    \* [ok, segs, whole]: whether it can be read, its segments
                    \* and the function as an item
    Jobs,           \* values of -j
    Fixed,          \* values of --segment-timeout, None if it is not given
    Limits,         \* values of --locals-limit, 0 for no limit
    DirectTime,     \* time with --direct-timeout
    Cores,          \* processors: threads that advance at the same time
    Room            \* what the e-graph of the statistics can take

None == -1          \* no program, or no time given

Item == [func : Nat, len : Nat, stores : Nat, work : Nat, best : Nat \cup {None},
         early : Nat \cup {None}, proven : BOOLEAN, fit : BOOLEAN, cost : Nat]

\* -j 0 is one thread as well (run_with_threads).
ASSUME DriverAssumption ==
    /\ Modules \subseteq [imports : Nat,
                          code : Seq([ok : BOOLEAN, segs : Seq(Item), whole : Item])]
    /\ Jobs \subseteq Nat /\ Fixed \subseteq Nat \cup {None} /\ Limits \subseteq Nat
    /\ DirectTime \in Nat /\ Cores \in Nat \ {0} /\ Room \in Nat

VARIABLES command, module, jobs, fixed, direct, limit,
          items, phase, at, began, advanced, clock,
          answer, drawn, number, lines, results, rows, spent

config == <<command, module, jobs, fixed, direct, limit, items>>
threads == <<at, began, advanced, clock, answer, drawn, number, lines>>
vars == <<config, phase, threads, results, rows, spent>>

Total(seq) == FoldLeft(LAMBDA a, b : a + b, 0, seq)

-----------------------------------------------------------------------------
(* The items of a module *)

\* Functions count from the imported ones on, those that cannot be read too.
WithIndex(item, m, f) == [item EXCEPT !.func = m.imports + f - 1]

SegmentItems(m) ==
    FlattenSeq([f \in DOMAIN m.code |->
        [s \in DOMAIN m.code[f].segs |-> WithIndex(m.code[f].segs[s], m, f)]])

\* The code section up to its n-th entry: parse_wasm_functions leaves out what it
\* cannot read.
ReadUpTo(m) ==
    LET read[n \in 0..Len(m.code)] == IF n = 0 THEN <<>>
                                      ELSE IF m.code[n].ok THEN Append(read[n - 1], n)
                                      ELSE read[n - 1]
    IN  read

\* The limit takes the first ones of those read.  One whose allocation is not
\* found in time stays as it is.
FunctionItems(m, max) ==
    LET read == ReadUpTo(m)[Len(m.code)]
        taken == IF max = 0 \/ Len(read) < max THEN read ELSE SubSeq(read, 1, max)
    IN  [i \in DOMAIN taken |->
            [WithIndex(m.code[taken[i]].whole, m, taken[i]) EXCEPT !.early = None]]

\* One function that cannot be read makes parse_wasm_file fail.
Unreadable(m) == \E f \in DOMAIN m.code : ~m.code[f].ok

\* for_segment: the time given for all, 0 as well, or segment_timeout_secs.  A
\* function's allocation has a time of its own.
Timeout(item) ==
    IF fixed # None THEN fixed
    ELSE IF command = "locals" THEN 1
    ELSE IF direct THEN DirectTime
    ELSE 1 + item.stores

-----------------------------------------------------------------------------
(* What the solver gives back *)

Answered(item, got, timedOut, proven) ==
    [func |-> item.func, len |-> item.len, got |-> got, timedOut |-> timedOut,
     proven |-> proven, cost |-> item.cost]

Refused(item) == Answered(item, None, FALSE, FALSE)

InTime(item) == Answered(item, item.best, FALSE, item.proven)

CutOff(item) == Answered(item, item.early, TRUE, FALSE)

\* What the item gets if the machine has nothing else to do.
Alone(item) ==
    IF ~item.fit THEN {Refused(item)}
    ELSE {InTime(item) : x \in {x \in {item} : x.work <= Timeout(x)}}
         \cup {CutOff(item) : x \in {x \in {item} : x.work >= Timeout(x)}}

-----------------------------------------------------------------------------
Items == DOMAIN items

Init ==
    /\ command \in {"segments", "locals"}
    /\ module \in Modules /\ fixed \in Fixed /\ direct \in BOOLEAN /\ limit \in Limits
    /\ command = "segments" => limit = 0
    /\ command = "locals" => fixed = None /\ ~direct
    /\ \E asked \in Jobs, dump \in BOOLEAN :        \* --dump-search
          jobs = IF dump /\ command = "segments" THEN 1 ELSE asked
    /\ phase = IF command = "segments" /\ Unreadable(module) THEN "failed" ELSE "work"
    /\ items = IF phase = "failed" THEN <<>>
               ELSE IF command = "segments" THEN SegmentItems(module)
               ELSE FunctionItems(module, limit)
    /\ at = [i \in Items |-> "waiting"]
    /\ began = [i \in Items |-> 0] /\ advanced = [i \in Items |-> 0]
    /\ clock = 0
    /\ answer = [i \in Items |-> <<>>]
    /\ drawn = 0
    /\ number = [i \in Items |-> 0]
    /\ lines = <<>> /\ results = <<>> /\ rows = <<>> /\ spent = 0

Solving == {i \in Items : at[i] = "solving"}

\* Mutant: the deadline is that of the run.
LateForRun(i) == clock >= Timeout(items[i])

Late(i) == clock - began[i] >= Timeout(items[i])

Ready(i) == ~items[i].fit \/ advanced[i] >= items[i].work

\* One thread goes through the items in order, and says which before it starts.
StartInTurn(i) ==
    /\ phase = "work" /\ jobs <= 1
    /\ at[i] = "waiting" /\ \A j \in 1..(i - 1) : at[j] = "done"
    /\ lines' = Append(lines, i)
    /\ number' = [number EXCEPT ![i] = i]
    /\ at' = [at EXCEPT ![i] = "solving"]
    /\ began' = [began EXCEPT ![i] = clock]
    /\ UNCHANGED <<config, phase, advanced, clock, answer, drawn, results, rows, spent>>

\* Mutant: a thread is not free again when its item is done.
StartOnce(i) ==
    /\ phase = "work" /\ jobs > 1
    /\ at[i] = "waiting"
    /\ Cardinality({j \in Items : at[j] # "waiting"}) < jobs
    /\ at' = [at EXCEPT ![i] = "solving"]
    /\ began' = [began EXCEPT ![i] = clock]
    /\ UNCHANGED <<config, phase, advanced, clock, answer, drawn, number, lines, results, rows, spent>>

\* A free thread of the pool takes any item that is left.
Start(i) ==
    /\ phase = "work" /\ jobs > 1
    /\ at[i] = "waiting"
    /\ Cardinality({j \in Items : at[j] \in {"solving", "solved", "counted"}}) < jobs
    /\ at' = [at EXCEPT ![i] = "solving"]
    /\ began' = [began EXCEPT ![i] = clock]
    /\ UNCHANGED <<config, phase, advanced, clock, answer, drawn, number, lines, results, rows, spent>>

\* Time goes by for every thread; no more of them advance than there are
\* processors.  A solver that is through, or late, returns before.
Tick ==
    /\ phase = "work" /\ Solving # {}
    /\ \A i \in Solving : ~Ready(i) /\ ~Late(i)
    /\ \E run \in SUBSET Solving :
          /\ Cardinality(run) = IF Cardinality(Solving) < Cores THEN Cardinality(Solving) ELSE Cores
          /\ advanced' = [i \in Items |-> IF i \in run THEN advanced[i] + 1 ELSE advanced[i]]
    /\ clock' = clock + 1
    /\ UNCHANGED <<config, phase, at, began, answer, drawn, number, lines, results, rows, spent>>

\* The solver returns, with an answer or because it is late.
Return(i) ==
    /\ phase = "work" /\ at[i] = "solving"
    /\ \/ Ready(i) /\ answer' = [answer EXCEPT ![i] = IF items[i].fit THEN InTime(items[i])
                                                                   ELSE Refused(items[i])]
       \/ items[i].fit /\ Late(i) /\ answer' = [answer EXCEPT ![i] = CutOff(items[i])]
    /\ at' = [at EXCEPT ![i] = IF jobs <= 1 THEN "done" ELSE "solved"]
    /\ UNCHANGED <<config, phase, began, advanced, clock, drawn, number, lines, results, rows, spent>>

\* Mutant: the number is read and the counter raised later.
CountStale(i) ==
    /\ phase = "work" /\ at[i] = "solved"
    /\ drawn' = Cardinality({j \in Items : at[j] = "done"}) + 1
    /\ number' = [number EXCEPT ![i] = drawn']
    /\ at' = [at EXCEPT ![i] = "counted"]
    /\ UNCHANGED <<config, phase, began, advanced, clock, answer, lines, results, rows, spent>>

\* fetch_add on the counter all threads share.
Count(i) ==
    /\ phase = "work" /\ at[i] = "solved"
    /\ drawn' = drawn + 1
    /\ number' = [number EXCEPT ![i] = drawn + 1]
    /\ at' = [at EXCEPT ![i] = "counted"]
    /\ UNCHANGED <<config, phase, began, advanced, clock, answer, lines, results, rows, spent>>

\* A line of progress, under the lock of the standard error.
PrintLine(i) ==
    /\ phase = "work" /\ at[i] = "counted"
    /\ lines' = Append(lines, i)
    /\ at' = [at EXCEPT ![i] = "done"]
    /\ UNCHANGED <<config, phase, began, advanced, clock, answer, drawn, number, results, rows, spent>>

\* Mutant: results are collected as their lines were printed.
Gathered == [p \in DOMAIN lines |-> answer[lines[p]]]

\* sort_by_key on the index of the function.
ByFunc(seq) ==
    LET order == CHOOSE p \in SetToSeqs(DOMAIN seq) :
                     \A i, j \in DOMAIN seq : i < j => seq[p[i]].func <= seq[p[j]].func
    IN  [i \in DOMAIN seq |-> seq[order[i]]]

\* rayon's collect keeps the order of the items; those of functions are sorted
\* once more.
Collected == IF command = "locals" /\ jobs > 1 THEN ByFunc(answer) ELSE answer

Collect ==
    /\ phase = "work" /\ \A i \in Items : at[i] = "done"
    /\ results' = Collected
    /\ phase' = "rows"
    /\ UNCHANGED <<config, threads, rows, spent>>

-----------------------------------------------------------------------------
(* Summary and statistics *)

Found(r) == r.got # None

Improved(r) == Found(r) /\ r.got < r.len

\* summarize, and the sums of accumulate_result.
Summary(rs) ==
    [before |-> Total([i \in DOMAIN rs |-> rs[i].len]),
     after |-> Total([i \in DOMAIN rs |-> IF Found(rs[i]) THEN rs[i].got ELSE rs[i].len]),
     improved |-> Cardinality({i \in DOMAIN rs : Improved(rs[i])})]

\* classify_outcome
Outcome(r) == IF ~Found(r) THEN IF r.timedOut THEN "timeout" ELSE "no_solution"
              ELSE IF r.timedOut \/ ~r.proven THEN "non_optimal" ELSE "optimal"

Tag(r, checker) ==
    IF /\ Found(r)
       /\ \/ Improved(r) /\ checker
          \/ ~checker /\ ~r.timedOut
    THEN "astar" ELSE "original"

\* Mutant: what the program saves is counted whatever the check says.
SavedUnchecked(r, checker) == IF Improved(r) THEN r.len - r.got ELSE 0

\* The difference saturates: A* looks for programs up to a window that knows
\* nothing of the segment's length, and may end with a longer one.
Saved(r, checker) == IF checker /\ Improved(r) THEN r.len - r.got ELSE 0

\* statistics_row
Row(r, accepted) ==
    LET checker == Found(r) /\ accepted
    IN  [checker |-> checker, outcome |-> Outcome(r), tag |-> Tag(r, checker),
         shownOptimal |-> Outcome(r) = "optimal",
         length |-> IF checker THEN r.got ELSE r.len, saved |-> Saved(r, checker)]

\* One canonizer serves all rows.  The program was accepted before, by a fresh
\* one: it is again as long as the e-graph has room, and may be refused when
\* saturation stops short.
WriteRow ==
    /\ phase = "rows" /\ command = "segments" /\ Len(rows) < Len(results)
    /\ LET r == results[Len(rows) + 1] IN
       /\ \E accepted \in IF spent + r.cost <= Room THEN {TRUE} ELSE BOOLEAN :
             rows' = Append(rows, Row(r, accepted))
       /\ spent' = IF Found(r) THEN spent + r.cost ELSE spent
    /\ UNCHANGED <<config, phase, threads, results>>

Finish ==
    /\ phase = "rows"
    /\ command = "segments" => Len(rows) = Len(results)
    /\ phase' = "end"
    /\ UNCHANGED <<config, threads, results, rows, spent>>

Next ==
    \/ \E i \in Items : StartInTurn(i) \/ Start(i) \/ Return(i) \/ Count(i) \/ PrintLine(i)
    \/ Tick \/ Collect \/ WriteRow \/ Finish

\* The pool's threads and main run until they are through.
Spec == Init /\ [][Next]_vars /\ WF_vars(Next)

-----------------------------------------------------------------------------
(* Properties *)

\* As long as every thread has a processor, the number of threads, the order
\* in which they take the items and the time an item waits for a thread change
\* no answer: deadlines start with the item (optimize_segment_with_trace).
AsAlone ==
    jobs <= Cores => \A i \in Items : at[i] \in {"solved", "counted", "done"} =>
                                          answer[i] \in Alone(items[i])

Threads == IF jobs <= 1 THEN 1 ELSE jobs

\* Every line of progress has a number of its own, and no number is printed
\* more than the other threads ahead of its turn; in the end every item has
\* its line (optimize_segments, optimize_functions_parallel).
LinesInSight ==
    /\ \A p, q \in DOMAIN lines : p # q => /\ lines[p] # lines[q]
                                           /\ number[lines[p]] # number[lines[q]]
    /\ \A p \in DOMAIN lines : number[lines[p]] \in 1..Len(items)
                               /\ p >= number[lines[p]] - (Threads - 1)
    /\ phase \in {"rows", "end"} => Len(lines) = Len(items)

\* What the printed total loses on programs longer than their segment.
Lost(rs) == Total([i \in DOMAIN rs |-> IF rs[i].got > rs[i].len THEN rs[i].got - rs[i].len ELSE 0])

\* The statistics never show more saved than was printed, show the same if
\* every program passed the check, and keep a program, by its tag, exactly if
\* it is shorter and passed; except that one refused by the check, though in
\* time, is tagged as kept.  A program longer than the segment saves nothing here
\* and lengthens the printed total (statistics_row, classify_outcome, summarize).
RowsAreHonest ==
    LET saved == Total([i \in DOMAIN rows |-> rows[i].saved])
        done == SubSeq(results, 1, Len(rows))
        printed == Summary(done).before - Summary(done).after + Lost(done)
    IN  /\ saved <= printed
        /\ \A i \in DOMAIN rows : \/ rows[i].saved = results[i].len - rows[i].length
                                  \/ /\ rows[i].saved = 0
                                     /\ rows[i].length = results[i].got
                                     /\ rows[i].length > results[i].len
        /\ (\A i \in DOMAIN rows : Found(results[i]) => rows[i].checker) => saved = printed
        /\ \A i \in DOMAIN rows :
              \/ rows[i].tag = "astar" <=> rows[i].length < results[i].len
              \/ Found(results[i]) /\ ~rows[i].checker /\ ~results[i].timedOut
        /\ \A i \in DOMAIN rows : rows[i].shownOptimal => Found(results[i]) /\ ~results[i].timedOut

\* What the run gives for the items, in their order.
PossibleResults(item) == {Refused(item), InTime(item), CutOff(item)}

TheBatch == INSTANCE Batch

IsBatch == TheBatch!Spec

\* The run comes to its end.
Terminates == <>(phase \in {"failed", "end"})
=============================================================================
