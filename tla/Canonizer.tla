----------------------------- MODULE Canonizer -----------------------------
(***************************************************************************)
(* The canonizer of values (src/optimize/canon.rs): an e-graph that only   *)
(* grows, a cache from the text of an expression to its id, a cache from   *)
(* e-classes to ids, and the question whether two values are equal.        *)
(*                                                                         *)
(* Saturation is cut off by its limits, so after it any classes of equal   *)
(* values may or may not have been merged, and terms the rules write may   *)
(* or may not be there; that the rules are right is assumed.               *)
(***************************************************************************)
EXTENDS Integers, Sequences, FiniteSets

CONSTANTS
    Exprs,          \* expressions, by their text
    Symbols,        \* those that are a bare symbol
    Value,          \* [Exprs -> meanings]
    Size,           \* [Exprs -> Nat], for the extractor
    Parts,          \* [Exprs -> SUBSET Exprs], subterms
    MaxGoal         \* expressions in a goal that is normalized

ASSUME CanonizerAssumption ==
    /\ Symbols \subseteq Exprs
    /\ Size \in [Exprs -> Nat]
    /\ Parts \in [Exprs -> SUBSET Exprs]
    /\ DOMAIN Value = Exprs

NoId == -1

VARIABLES known,        \* expressions the e-graph has
          find,         \* expression -> the root of its class, one of them
          strCache,     \* expression -> id
          classToId,    \* root -> id
          nextId,
          todo,         \* expressions canon has yet to be called for
          pair,         \* the two that are compared then, or <<>>
          agreed        \* pairs values_equivalent said yes to

egraph == <<known, find>>
caches == <<strCache, classToId, nextId>>
vars == <<egraph, caches, todo, pair, agreed>>

-----------------------------------------------------------------------------
(* The e-graph *)

\* What saturation may make of the roots: equal values share one.
Merges == {g \in [Exprs -> Exprs] : \A e \in Exprs : Value[g[e]] = Value[e] /\ g[g[e]] = g[e]}

Added(new) == UNION {{e} \cup Parts[e] : e \in new}

\* What rules can write, of these terms.
Equals(terms) == {e \in Exprs \ terms : \E k \in terms : Value[e] = Value[k]}

\* Mutant: every saturation starts with an empty e-graph.
GrowAnew(new) ==
    /\ \E written \in SUBSET Equals(Added(new)) : known' = Added(new) \cup written
    /\ find' \in {g \in Merges : \A e \in Exprs : e \notin known' => g[e] = e}

\* register_and_saturate: the expressions and their parts are added, classes
\* are merged and keep one of their roots.
Grow(new) ==
    /\ \E written \in SUBSET Equals(known \cup Added(new)) :
          known' = known \cup Added(new) \cup written
    /\ find' \in {g \in Merges : \A e \in Exprs : /\ g[find[e]] = g[e]
                                                  /\ e \notin known' => g[e] = e}

Class(r) == {e \in known' : find'[e] = r}

\* The extractor's choice, a smallest term; ties fall either way.
Best(r) == {b \in Class(r) : \A e \in Class(r) : Size[b] <= Size[e]}

-----------------------------------------------------------------------------
Init ==
    /\ known = {} /\ find = [e \in Exprs |-> e]
    /\ strCache = [e \in Exprs |-> NoId] /\ classToId = [e \in Exprs |-> NoId]
    /\ nextId = 0
    /\ todo = <<>> /\ pair = <<>> /\ agreed = {}

Idle == todo = <<>> /\ pair = <<>>

\* values_equivalent, for two different texts; it asks canon for both.
Ask(a, b) ==
    /\ Idle
    /\ pair' = <<a, b>> /\ todo' = <<a, b>>
    /\ UNCHANGED <<egraph, caches, agreed>>

\* normalize_state
Normalize(goal) ==
    /\ Idle
    /\ todo' = goal
    /\ UNCHANGED <<egraph, caches, pair, agreed>>

CanonHit ==
    /\ todo # <<>> /\ strCache[Head(todo)] # NoId
    /\ todo' = Tail(todo)
    /\ UNCHANGED <<egraph, caches, pair, agreed>>

\* Mutant: the counter stays where it is.
CanonSymbolUncounted ==
    LET e == Head(todo) IN
    /\ todo # <<>> /\ strCache[e] = NoId /\ e \in Symbols
    /\ strCache' = [strCache EXCEPT ![e] = nextId]
    /\ todo' = Tail(todo)
    /\ UNCHANGED <<egraph, classToId, nextId, pair, agreed>>

\* A bare symbol is not put into the e-graph.
CanonSymbol ==
    LET e == Head(todo) IN
    /\ todo # <<>> /\ strCache[e] = NoId /\ e \in Symbols
    /\ strCache' = [strCache EXCEPT ![e] = nextId]
    /\ nextId' = nextId + 1
    /\ todo' = Tail(todo)
    /\ UNCHANGED <<egraph, classToId, pair, agreed>>

\* The class has an id from another of its expressions.
CanonClass ==
    LET e == Head(todo) IN
    /\ todo # <<>> /\ strCache[e] = NoId /\ e \notin Symbols
    /\ Grow({e})
    /\ classToId[find'[e]] # NoId
    /\ strCache' = [strCache EXCEPT ![e] = classToId[find'[e]]]
    /\ todo' = Tail(todo)
    /\ UNCHANGED <<classToId, nextId, pair, agreed>>

\* The id of the smallest term, or a new one for both.
CanonBest ==
    LET e == Head(todo) IN
    /\ todo # <<>> /\ strCache[e] = NoId /\ e \notin Symbols
    /\ Grow({e})
    /\ classToId[find'[e]] = NoId
    /\ \E b \in Best(find'[e]) :
          LET id == IF strCache[b] # NoId THEN strCache[b] ELSE nextId
          IN  /\ strCache' = [strCache EXCEPT ![b] = id, ![e] = id]
              /\ classToId' = [classToId EXCEPT ![find'[e]] = id]
              /\ nextId' = IF strCache[b] # NoId THEN nextId ELSE nextId + 1
    /\ todo' = Tail(todo)
    /\ UNCHANGED <<pair, agreed>>

Compares == pair # <<>> /\ todo = <<>>

CompareIds ==
    /\ Compares
    /\ strCache[pair[1]] = strCache[pair[2]]
    /\ agreed' = agreed \cup {{pair[1], pair[2]}}
    /\ pair' = <<>>
    /\ UNCHANGED <<egraph, caches, todo>>

\* joint_saturate_equivalent finds them in two classes.
JoinFails ==
    /\ Compares
    /\ strCache[pair[1]] # strCache[pair[2]]
    /\ Grow({pair[1], pair[2]})
    /\ find'[pair[1]] # find'[pair[2]]
    /\ pair' = <<>>
    /\ UNCHANGED <<caches, todo, agreed>>

\* unify_expr_cache, for a class with an id.
UnifyClass ==
    /\ Compares
    /\ strCache[pair[1]] # strCache[pair[2]]
    /\ Grow({pair[1], pair[2]})
    /\ find'[pair[1]] = find'[pair[2]]
    /\ LET r == find'[pair[1]] IN
       /\ classToId[r] # NoId
       /\ strCache' = [strCache EXCEPT ![pair[1]] = classToId[r], ![pair[2]] = classToId[r]]
    /\ agreed' = agreed \cup {{pair[1], pair[2]}}
    /\ pair' = <<>>
    /\ UNCHANGED <<classToId, nextId, todo>>

\* unify_expr_cache, for a class without.
UnifyBest ==
    /\ Compares
    /\ strCache[pair[1]] # strCache[pair[2]]
    /\ Grow({pair[1], pair[2]})
    /\ find'[pair[1]] = find'[pair[2]]
    /\ LET r == find'[pair[1]] IN
       /\ classToId[r] = NoId
       /\ \E b \in Best(r) :
             LET id == IF strCache[b] # NoId THEN strCache[b] ELSE nextId
             IN  /\ strCache' = [strCache EXCEPT ![b] = id, ![pair[1]] = id, ![pair[2]] = id]
                 /\ classToId' = [classToId EXCEPT ![r] = id]
                 /\ nextId' = IF strCache[b] # NoId THEN nextId ELSE nextId + 1
    /\ agreed' = agreed \cup {{pair[1], pair[2]}}
    /\ pair' = <<>>
    /\ UNCHANGED todo

Canon == CanonHit \/ CanonSymbol \/ CanonClass \/ CanonBest

Compare == CompareIds \/ JoinFails \/ UnifyClass \/ UnifyBest

Goals == UNION {[1..n -> Exprs] : n \in 1..MaxGoal}

Next ==
    \/ \E a, b \in Exprs : a # b /\ Ask(a, b)
    \/ \E goal \in Goals : Normalize(goal)
    \/ Canon
    \/ Compare

Spec == Init /\ [][Next]_vars

-----------------------------------------------------------------------------
(* Properties *)

TypeOK ==
    /\ known \subseteq Exprs /\ find \in [Exprs -> Exprs]
    /\ nextId \in Nat
    /\ strCache \in [Exprs -> (0..(nextId - 1)) \cup {NoId}]
    /\ classToId \in [Exprs -> (0..(nextId - 1)) \cup {NoId}]
    /\ todo \in Seq(Exprs)
    /\ pair \in {<<>>} \cup (Exprs \X Exprs)
    /\ agreed \subseteq SUBSET Exprs

\* Expressions with one id are equal, whichever of the two caches gave it and
\* however often classes were merged or ids changed since: a goal found in a
\* memo is the goal that was put there (canon, normalize_state,
\* unify_expr_cache).
SameIdSameValue ==
    \A a, b \in Exprs :
        /\ strCache[a] # NoId /\ strCache[a] = strCache[b] => Value[a] = Value[b]
        /\ strCache[a] # NoId /\ strCache[a] = classToId[b] => Value[a] = Value[b]

\* A yes is never taken back, although the id it rested on may change: the two
\* stay in one class; so yes is transitive too (values_equivalent).
AgreementStays == \A p \in agreed : \A a, b \in p : find[a] = find[b]
=============================================================================
