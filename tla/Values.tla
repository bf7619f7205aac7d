------------------------------- MODULE Values -------------------------------
(***************************************************************************)
(* Terms of the rule synthesis, their types and values: value/ast.rs,      *)
(* value/mod.rs, value/ops.rs.  A term is <<"sym", i>>, <<"const", sort,   *)
(* word>> or <<op, argument, ...>>.  A signature is a record of the sorts  *)
(* of the symbols, inputs, and of the result, output.                      *)
(***************************************************************************)
EXTENDS Naturals, Sequences, FiniteSets, SequencesExt

CONSTANTS
    Sorts,          \* integer and float sorts
    Floats,         \* the float ones, which Z3 is not asked about
    Words,          \* Words[s]: the values of a sort
    Consts,         \* Consts[s]: the constants the synthesis writes
    Pops, Push,     \* sorts an operator takes and gives
    Apply,          \* Apply[op]: its value on every tuple of words, or Trap
    Trap,           \* a value that is no word
    Spelling,       \* tokens in the order of their text
    Corners,        \* values of the corner inputs
    CvecRows,       \* pseudo-random values behind the characteristic vectors
    TestRows        \* those of the random tests, in the order they are drawn

Leaf(t) == t[1] \in {"sym", "const"}
Args(t) == IF Leaf(t) THEN <<>> ELSE Tail(t)

\* How many nodes a term has.
RECURSIVE Size(_)
Size(t) == FoldSeq(LAMBDA a, n : n + Size(a), 1, Args(t))

\* How often symbol i occurs.
RECURSIVE Uses(_, _)
Uses(t, i) ==
    FoldSeq(LAMBDA a, n : n + Uses(a, i), IF t = <<"sym", i>> THEN 1 ELSE 0, Args(t))

\* The sort of a term all of whose operators get arguments of their sorts.
SortOf(t, sig) ==
    CASE t[1] = "sym" -> sig.inputs[t[2]]
      [] t[1] = "const" -> t[2]
      [] OTHER -> Push[t[1]]

\* The value on a row of inputs; an argument that traps makes the whole trap.
RECURSIVE ValueOf(_, _)
ValueOf(t, row) ==
    CASE t[1] = "sym" -> row[t[2]]
      [] t[1] = "const" -> t[3]
      [] OTHER -> LET args == [k \in DOMAIN Tail(t) |-> ValueOf(t[k + 1], row)]
                  IN  IF Trap \in {args[k] : k \in DOMAIN args} THEN Trap ELSE Apply[t[1]][args]

\* The text of a pattern as the positions of its tokens in the order of texts.
RECURSIVE Text(_)
Text(t) ==
    LET token == IF Leaf(t) THEN t ELSE <<t[1]>>
    IN  FoldLeft(LAMBDA s, a : s \o Text(a),
                 <<CHOOSE k \in DOMAIN Spelling : Spelling[k] = token>>, Args(t))

TextBefore(a, b) ==
    \E k \in 1 .. Len(b) :
        /\ \A j \in 1 .. k - 1 : j \in DOMAIN a /\ a[j] = b[j]
        /\ k \in DOMAIN a => a[k] < b[k]

-----------------------------------------------------------------------------
\* Which terms make a rule.

UsesEachSymbolOnce(t, sig) ==
    /\ \A i \in DOMAIN sig.inputs : Uses(t, i) = 1
    /\ SortOf(t, sig) = sig.output

ValidRhs(t, sig) ==
    /\ SortOf(t, sig) = sig.output
    /\ \A i \in DOMAIN sig.inputs : Uses(t, i) <= 1

RewritePair(l, r, sig) == l # r /\ UsesEachSymbolOnce(l, sig) /\ ValidRhs(r, sig)

Directed(l, r) ==
    \/ Size(l) > Size(r)
    \/ Size(l) = Size(r) /\ TextBefore(Text(l), Text(r))

-----------------------------------------------------------------------------
\* Inputs.  A row gives every symbol the same drawn value: the corner rows of
\* the code do, and so do the rows drawn here.

Rows(sig, vals) == {[i \in DOMAIN sig.inputs |-> v] : v \in vals}

AllRows(sig) ==
    {row \in [DOMAIN sig.inputs -> UNION {Words[s] : s \in Sorts}] :
        \A i \in DOMAIN row : row[i] \in Words[sig.inputs[i]]}

\* The characteristic vector: values and traps on a fixed suite of inputs.
Cvec(t, sig) == [row \in Rows(sig, Corners \cup CvecRows) |-> ValueOf(t, row)]

Agree(l, r, rows) == \A row \in rows : ValueOf(l, row) = ValueOf(r, row)

\* The concrete filter: all corners, and as many drawn rows as are asked for.
PassesTests(l, r, sig, tests) ==
    Agree(l, r, Rows(sig, Corners \cup {TestRows[k] : k \in 1 .. tests}))

UsesFloat(sig) == sig.output \in Floats \/ \E i \in DOMAIN sig.inputs : sig.inputs[i] \in Floats

\* Mutant: an integer pair passes without a question, too.
Z3Trusts(l, r, sig) == PassesTests(l, r, sig, 0)

\* Z3 compares the integer terms on every input; a signature with a float
\* passes unproved.
Z3Proves(l, r, sig) == UsesFloat(sig) \/ Agree(l, r, AllRows(sig))

-----------------------------------------------------------------------------
\* Signatures of up to maxArity symbols whose result some operator can give.

RECURSIVE Available(_, _)
Available(sorts, ops) ==
    LET more == sorts \cup {Push[op] : op \in {o \in ops : ToSet(Pops[o]) \subseteq sorts}}
    IN  IF more = sorts THEN sorts ELSE Available(more, ops)

Signatures(maxArity, ops) ==
    {sig \in [inputs : UNION {[1 .. n -> Sorts] : n \in 1 .. maxArity}, output : Sorts] :
        sig.output \in Available(ToSet(sig.inputs), ops)}
=============================================================================
