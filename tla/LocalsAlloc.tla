---------------------------- MODULE LocalsAlloc ----------------------------
(***************************************************************************)
(* What --opt-locals does with the webs of a function: the weighted MaxSAT *)
(* problem that gives every web a slot (src/optimize/locals/encode.rs) and *)
(* the rewriting of the function by its answer (locals/apply.rs).  Z3 is   *)
(* modelled by what it promises: an assignment of least cost among those   *)
(* the hard clauses allow, any of them.                                    *)
(***************************************************************************)
EXTENDS LocalsAnalysis

\* As many slots as webs.
Slots(webs) == 0..(Cardinality(webs) - 1)

\* H2, a parameter keeps its slot; H3, one type per slot; H4, webs that
\* interfere get different slots.
TypesApart(f, a) == \A v, w \in DOMAIN a : WebType(f, v) # WebType(f, w) => a[v] # a[w]

\* Mutant: of the two comparisons of ranges one is enough.
KeepApartEither(a) ==
    \A v, w \in DOMAIN a :
        /\ v # w /\ Sites(v) # {} /\ Sites(w) # {}
        /\ Min(Sites(v)) <= Max(Sites(w)) \/ Min(Sites(w)) <= Max(Sites(v))
        => a[v] # a[w]

KeepApart(a) == \A v, w \in DOMAIN a : Interferes(v, w) => a[v] # a[w]

Assignments(f, webs) ==
    LET own == {w \in webs : IsParamWeb(f, w)}
    IN  {a \in {[w \in webs |-> IF w \in own THEN Param(f, w) ELSE g[w]] :
                    g \in [webs \ own -> Slots(webs)]} :
            /\ TypesApart(f, a)
            /\ KeepApart(a)}

\* H5 and B1: a slot is used when a web has it, and past the parameters also
\* when a later one is used.
Used(f, a) == {s \in Slots(DOMAIN a) : \/ \E w \in DOMAIN a : a[w] = s
                                       \/ s >= f.params /\ \E w \in DOMAIN a : a[w] > s}

Merged(f, a, i) == a[WebAt(DOMAIN a, i)] = a[WebAt(DOMAIN a, i + 1)]

\* The soft clauses: a copy that stays costs what removing it would save, a
\* used slot costs one.
Cost(f, a) == Cardinality(Used(f, a))
              + MapThenSumSet(LAMBDA i : Saved(f, i), {i \in Copies(f) : ~Merged(f, a, i)})

Optima(f, webs) ==
    LET all == Assignments(f, webs)
        costing[c \in Nat] == {a \in all : Cost(f, a) = c}
    IN  costing[Min({Cost(f, a) : a \in all})]

-----------------------------------------------------------------------------
(* Rewriting.  A merged get/set pair is skipped whole; of a merged get/tee  *)
(* pair the get is skipped, and put back only if the tee is skipped too.    *)

Skip(f, a) ==
    LET merged == {i \in Copies(f) : Merged(f, a, i)}
    IN  merged \cup {i + 1 : i \in {i \in merged : Kind(f, i + 1) = "set"}}

PutBack(f, a) == {i \in Skip(f, a) : /\ Kind(f, i) = "get"
                                     /\ i + 1 \in Ix(f) /\ Kind(f, i + 1) = "tee"
                                     /\ i + 1 \in Skip(f, a)}

Kept(f, a) == (Ix(f) \ Skip(f, a)) \cup PutBack(f, a)

\* The slots that have a web are numbered from 0 in order.
Remap(a, s) == Cardinality({t \in {a[w] : w \in DOMAIN a} : t < s})

\* The instruction left at i, one of Kept: a local is renamed, a put back get
\* stays a get, anything else stays as it is.
Rewritten(f, a, i) ==
    IF IsLocal(f, i)
    THEN [f.instrs[i] EXCEPT !.l = Remap(a, a[WebAt(DOMAIN a, i)])]
    ELSE f.instrs[i]

NewTypes(f, a) ==
    LET count == Cardinality({a[w] : w \in DOMAIN a})
        On(s) == CHOOSE w \in DOMAIN a : Remap(a, a[w]) = s - 1
    IN  [s \in 1..count |-> WebType(f, On(s))]
=============================================================================
