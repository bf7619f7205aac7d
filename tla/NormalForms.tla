---------------------------- MODULE NormalForms ----------------------------
(***************************************************************************)
(* Which values are equivalent: two expressions are when Normal gives them *)
(* one form.  That is what the rules of rules-ast3.cache prove of this     *)
(* fragment (x * y = y * x, x * 0 = 0, x * 1 = x, x >> 0 = x, 0 >> x = 0). *)
(***************************************************************************)
EXTENDS SymMachine

RECURSIVE Subterms(_)
Subterms(v) == {v} \union IF v[1] \in PureKinds
                          THEN Subterms(v[2]) \union Subterms(v[3]) ELSE {}

\* The normal form of a node whose operands are in normal form.
Simplify(kind, a, b) ==
    CASE IsConst(a) /\ IsConst(b) -> Fold(kind, a[2], b[2])
      [] kind = "mul" /\ ~(IsConst(a) /\ IsConst(b)) ->
             IF Const(0) \in {a, b} THEN Const(0)
             ELSE IF a = Const(1) THEN b ELSE IF b = Const(1) THEN a
             ELSE <<"mul", {a, b}>>
      [] kind = "shr" /\ ~(IsConst(a) /\ IsConst(b)) ->
             IF Const(0) \in {a, b} THEN a ELSE <<"shr", a, b>>

RECURSIVE Normal(_)
Normal(v) == IF v[1] \in PureKinds
             THEN Simplify(v[1], Normal(v[2]), Normal(v[3])) ELSE v

NormalSeq(seq) == [i \in DOMAIN seq |-> Normal(seq[i])]
=============================================================================
