--------------------------- MODULE LocalsAnalysis ---------------------------
(***************************************************************************)
(* What --opt-locals works out about a function before it asks the solver: *)
(* the basic blocks and their edges (build_cfg), the webs its reads and    *)
(* writes fall into, which webs interfere, and the copies whose removal    *)
(* would save instructions (src/optimize/locals/analysis.rs).              *)
(*                                                                         *)
(* A function is [params, types, instrs]: the number of parameters, the    *)
(* type of every local (parameters first) and the instructions.  An        *)
(* instruction is a record with a kind k: "get", "set" and "tee" carry the *)
(* local l, "br" and "brif" the depth d, "brtable" the depths ds.          *)
(* Instructions count from 1, locals from 0.  A block is named by its      *)
(* first instruction.                                                      *)
(***************************************************************************)
EXTENDS Integers, Sequences, FiniteSets, FiniteSetsExt

Ix(f) == DOMAIN f.instrs

Kind(f, i) == f.instrs[i].k

IsDef(f, i) == Kind(f, i) \in {"set", "tee"}

IsLocal(f, i) == IsDef(f, i) \/ Kind(f, i) = "get"

Openers == {"block", "loop", "if"}

Terminators == {"br", "brif", "brtable", "return", "unreachable"}

-----------------------------------------------------------------------------
(* Blocks and edges *)

\* A block starts at the first instruction and after every block, loop, if
\* and else; an end or a branch starts none.
Blocks(f) == {1} \cup {i \in Ix(f) : i > 1 /\ Kind(f, i - 1) \in Openers \cup {"else"}}

BlockOf(f, i) == Max({b \in Blocks(f) : b <= i})

NextBlock(f, b) == LET later == {c \in Blocks(f) : c > b}
                   IN  IF later = {} THEN {} ELSE {Min(later)}

LastOf(f, b) == IF NextBlock(f, b) = {} THEN Len(f.instrs)
                                        ELSE Min(NextBlock(f, b)) - 1

\* The frames open before instruction i, innermost first, each the index of
\* the instruction that opened it.
Frames(f, i) ==
    LET open[j \in 1..i] ==
            IF j = 1 THEN <<>>
            ELSE CASE Kind(f, j - 1) \in Openers -> <<j - 1>> \o open[j - 1]
                   [] Kind(f, j - 1) = "end" /\ open[j - 1] # <<>> -> Tail(open[j - 1])
                   [] OTHER -> open[j - 1]
    IN  open[i]

\* Every branch is drawn to the block its frame's opener stands in, whether
\* the frame is a loop or not.
BrTarget(f, i, d) == LET s == Frames(f, i)
                     IN  IF d < Len(s) THEN {BlockOf(f, s[d + 1])} ELSE {}

Depths(f, i) == CASE Kind(f, i) \in {"br", "brif"} -> {f.instrs[i].d}
                  [] Kind(f, i) = "brtable" -> f.instrs[i].ds
                  [] OTHER -> {}

BranchEdges(f, i) ==
    {BlockOf(f, i)} \X UNION {BrTarget(f, i, d) : d \in Depths(f, i)}

NextEdge(f, i) == LET b == BlockOf(f, i) IN {b} \X NextBlock(f, b)

EndEdges(f, i) ==
    LET b == BlockOf(f, i)
        s == Frames(f, i)
        h == BlockOf(f, Head(s))
    IN  IF s = <<>> THEN {}
        ELSE NextEdge(f, i) \cup IF Kind(f, Head(s)) = "loop" THEN {<<b, h>>}
                                                              ELSE {h} \X NextBlock(f, b)

EdgesOf(f, i) ==
    CASE Kind(f, i) \in Openers \cup {"return", "unreachable"} -> {}
      [] Kind(f, i) = "end" -> EndEdges(f, i)
      [] Kind(f, i) = "br" -> BranchEdges(f, i)
      [] Kind(f, i) \in {"brif", "brtable"} -> BranchEdges(f, i) \cup NextEdge(f, i)
      [] OTHER -> NextEdge(f, i)

FallThrough(f, b) ==
    IF Kind(f, LastOf(f, b)) \in Terminators THEN {} ELSE {b} \X NextBlock(f, b)

\* add_edge drops an edge from a block to itself.
Edges(f) == {e \in UNION ({EdgesOf(f, i) : i \in Ix(f)} \cup {FallThrough(f, b) : b \in Blocks(f)}) :
                e[1] # e[2]}

Preds(f, b) == {e[1] : e \in {e \in Edges(f) : e[2] = b}}

-----------------------------------------------------------------------------
(* Definitions, and those that reach an instruction *)

ParamDefs(f) == {<<"param", p>> : p \in 0..(f.params - 1)}

Defs(f) == ParamDefs(f) \cup {<<"at", i>> : i \in {i \in Ix(f) : IsDef(f, i)}}

LocalOf(f, d) == IF d[1] = "param" THEN d[2] ELSE f.instrs[d[2]].l

Gen(f, i) == IF IsDef(f, i) THEN {<<"at", i>>} ELSE {}

Kill(f, i) == IF IsDef(f, i)
              THEN {d \in Defs(f) : LocalOf(f, d) = f.instrs[i].l} \ {<<"at", i>>}
              ELSE {}

BlockGen(f, b) == UNION {Gen(f, i) : i \in b..LastOf(f, b)}

BlockKill(f, b) == UNION {Kill(f, i) : i \in b..LastOf(f, b)}

\* A block no edge leads to starts with the parameters; any other starts with
\* what its predecessors leave, the first block included.
NewIn(f, outs, b) == IF Preds(f, b) = {} THEN ParamDefs(f)
                                         ELSE UNION {outs[p] : p \in Preds(f, b)}

\* Mutant: the block kills after it generates.
NewOutKillLast(f, inb, b) == (inb \cup BlockGen(f, b)) \ BlockKill(f, b)

NewOut(f, inb, b) == (inb \ BlockKill(f, b)) \cup BlockGen(f, b)

\* The definitions that reach instruction i, when ins[b] reach block b.
Reaching(f, ins, i) ==
    LET b == BlockOf(f, i)
        scan[j \in b..i] == IF j = b THEN ins[b]
                            ELSE (scan[j - 1] \ Kill(f, j - 1)) \cup Gen(f, j - 1)
    IN  scan[i]

-----------------------------------------------------------------------------
(* Webs, interference, copies *)

Nodes(f) == Defs(f) \cup {<<"at", i>> : i \in {i \in Ix(f) : Kind(f, i) = "get"}}

DefsFor(f, ins, i) ==
    {d \in Reaching(f, ins, i) : LocalOf(f, d) = f.instrs[i].l}

\* Union-find: a read joins the definitions that reach it.
Webs(f, ins) ==
    LET gets == {i \in Ix(f) : Kind(f, i) = "get"}
        Join(i, webs) == LET mine == {<<"at", i>>} \cup DefsFor(f, ins, i)
                             hit == {w \in webs : w \cap mine # {}}
                         IN  (webs \ hit) \cup {UNION hit}
    IN  FoldSet(Join, {{n} : n \in Nodes(f)}, gets)

WebLocal(f, w) == LocalOf(f, CHOOSE n \in w : TRUE)

WebType(f, w) == f.types[WebLocal(f, w) + 1]

IsParamWeb(f, w) == w \cap ParamDefs(f) # {}

Param(f, w) == (CHOOSE n \in w \cap ParamDefs(f) : TRUE)[2]

Sites(w) == {n[2] : n \in {n \in w : n[1] = "at"}}

\* Mutant: the range starts after the first site.
InterferesByReads(v, w) ==
    LET Reads(u) == {i \in Sites(u) : \E j \in Sites(u) : j < i}
    IN  /\ v # w /\ Reads(v) # {} /\ Reads(w) # {}
        /\ Min(Reads(v)) <= Max(Reads(w))
        /\ Min(Reads(w)) <= Max(Reads(v))

\* The live range of a web is the interval of its sites in program order; a
\* parameter has no site of its own.
Interferes(v, w) ==
    /\ v # w /\ Sites(v) # {} /\ Sites(w) # {}
    /\ Min(Sites(v)) <= Max(Sites(w))
    /\ Min(Sites(w)) <= Max(Sites(v))

\* The reads directly followed by a write.
Copies(f) == {i \in Ix(f) : /\ i + 1 \in Ix(f)
                            /\ Kind(f, i) = "get"
                            /\ IsDef(f, i + 1)}

Saved(f, i) == IF Kind(f, i + 1) = "set" THEN 2 ELSE 1

WebAt(webs, i) == CHOOSE w \in webs : <<"at", i>> \in w
=============================================================================
