-------------------------- MODULE Canonizer_proofs --------------------------
(***************************************************************************)
(* Proofs about module Canonizer, for every set of expressions, every      *)
(* meaning of them and every way saturation stops: what an id and a yes    *)
(* are worth.                                                              *)
(***************************************************************************)
EXTENDS Canonizer, TLAPS

\* Caches s and c give an id to expressions and roots of one class of g only.
Consistent(s, c, g) ==
    \A a, b \in Exprs : /\ s[a] # NoId /\ s[a] = s[b] => g[a] = g[b]
                        /\ s[a] # NoId /\ s[a] = c[b] => g[a] = g[b]
                        /\ c[a] # NoId /\ c[a] = c[b] => g[a] = g[b]

\* Roots keep the value.
Faithful == \A e \in Exprs : Value[find[e]] = Value[e]

\* What is compared has an id, or canon has yet to be called for it.
Pending == pair # <<>> => \A k \in {1, 2} :
               strCache[pair[k]] # NoId \/ \E i \in 1..Len(todo) : todo[i] = pair[k]

IInv == TypeOK /\ Faithful /\ Consistent(strCache, classToId, find) /\ Pending /\ AgreementStays

-----------------------------------------------------------------------------
\* The caches of an e-graph with roots g, when n is the next id.
Caches(n, s, c, g) ==
    /\ n \in Nat
    /\ s \in [Exprs -> (0..(n - 1)) \cup {NoId}]
    /\ c \in [Exprs -> (0..(n - 1)) \cup {NoId}]
    /\ g \in [Exprs -> Exprs]
    /\ Consistent(s, c, g)

Recache(s, S, id) == [e \in Exprs |-> IF e \in S THEN id ELSE s[e]]

\* What f has merged g has.
Coarser(f, g) == g \in [Exprs -> Exprs] /\ \A e \in Exprs : g[f[e]] = g[e]

\* An id for the class of root r: a new one or one it has.
Fits(n, s, c, g, r, id) ==
    /\ r \in Exprs /\ g[r] = r
    /\ \/ id = n
       \/ id # NoId /\ \E e \in Exprs : g[e] = r /\ (s[e] = id \/ c[e] = id)

Following(n, id) == IF id = n THEN n + 1 ELSE n

\* To give such an id to expressions of a class, and perhaps to its root, keeps
\* the caches right.
LEMMA Recached ==
    ASSUME NEW n, NEW s, NEW c, NEW f, NEW g, NEW r, NEW id,
           Caches(n, s, c, f), Coarser(f, g), Fits(n, s, c, g, r, id),
           NEW S \in SUBSET Exprs, \A e \in S : g[e] = r
    PROVE  /\ Caches(Following(n, id), Recache(s, S, id), c, g)
           /\ Caches(Following(n, id), Recache(s, S, id), [c EXCEPT ![r] = id], g)
<1>. SUFFICES ASSUME NEW t \in {c, [c EXCEPT ![r] = id]}
              PROVE  Caches(Following(n, id), Recache(s, S, id), t, g)
    OBVIOUS
<1>0. /\ n \in Nat /\ s \in [Exprs -> (0..(n - 1)) \cup {NoId}]
      /\ c \in [Exprs -> (0..(n - 1)) \cup {NoId}]
      /\ f \in [Exprs -> Exprs] /\ g \in [Exprs -> Exprs] /\ Consistent(s, c, f)
      /\ \A e \in Exprs : g[f[e]] = g[e]
      /\ r \in Exprs /\ g[r] = r
      /\ \/ id = n
         \/ id # NoId /\ \E e \in Exprs : g[e] = r /\ (s[e] = id \/ c[e] = id)
    BY DEF Caches, Coarser, Fits
<1>. DEFINE new == [e \in Exprs |-> IF e \in S THEN id ELSE s[e]]
<1>1. \A a, b \in Exprs : f[a] = f[b] => g[a] = g[b]
    BY <1>0
<1>2. n \notin (0..(n - 1)) \cup {NoId} /\ n # NoId
    BY <1>0 DEF NoId
<1>3. \A e \in Exprs : s[e] # n /\ c[e] # n
    BY <1>0, <1>2
<1>4. id # NoId
    BY <1>0, <1>2
<1>5. \A e \in Exprs : s[e] = id \/ c[e] = id => g[e] = r
  <2>. SUFFICES ASSUME NEW e \in Exprs, s[e] = id \/ c[e] = id PROVE g[e] = r
      OBVIOUS
  <2>1. PICK d \in Exprs : g[d] = r /\ (s[d] = id \/ c[d] = id)
      BY <1>0, <1>3
  <2>2. f[e] = f[d]
      BY <1>0, <1>4, <2>1 DEF Consistent
  <2>. QED  BY <1>1, <2>1, <2>2
<1>6. \A e \in Exprs : /\ new[e] = id => g[e] = r
                       /\ t[e] = id => g[e] = r
                       /\ new[e] # id => new[e] = s[e]
                       /\ t[e] # id => t[e] = c[e]
  <2>. SUFFICES ASSUME NEW e \in Exprs
                PROVE  /\ new[e] = id => g[e] = r
                       /\ t[e] = id => g[e] = r
                       /\ new[e] # id => new[e] = s[e]
                       /\ t[e] # id => t[e] = c[e]
      OBVIOUS
  <2>1. new[e] = IF e \in S THEN id ELSE s[e]
      OBVIOUS
  <2>2. t[e] = c[e] \/ (e = r /\ t[e] = id)
      BY <1>0
  <2>. QED  BY <1>0, <1>5, <2>1, <2>2
<1>7. Consistent(new, t, g)
  <2>. SUFFICES ASSUME NEW a \in Exprs, NEW b \in Exprs
                PROVE  /\ new[a] # NoId /\ new[a] = new[b] => g[a] = g[b]
                       /\ new[a] # NoId /\ new[a] = t[b] => g[a] = g[b]
                       /\ t[a] # NoId /\ t[a] = t[b] => g[a] = g[b]
      BY DEF Consistent
  <2>. HIDE DEF new
  <2>1. /\ s[a] # NoId /\ s[a] = s[b] => f[a] = f[b]
        /\ s[a] # NoId /\ s[a] = c[b] => f[a] = f[b]
        /\ c[a] # NoId /\ c[a] = c[b] => f[a] = f[b]
      BY <1>0 DEF Consistent
  <2>2. new[a] # NoId /\ new[a] = new[b] => g[a] = g[b]
      BY <1>1, <1>6, <2>1
  <2>3. new[a] # NoId /\ new[a] = t[b] => g[a] = g[b]
      BY <1>1, <1>6, <2>1
  <2>4. t[a] # NoId /\ t[a] = t[b] => g[a] = g[b]
      BY <1>1, <1>6, <2>1
  <2>. QED  BY <2>2, <2>3, <2>4
<1>8. id \in 0..(Following(n, id) - 1)
    BY <1>0 DEF Following, NoId
<1>9. (0..(n - 1)) \cup {NoId} \subseteq (0..(Following(n, id) - 1)) \cup {NoId}
    BY <1>0 DEF Following
<1>10. /\ new \in [Exprs -> (0..(Following(n, id) - 1)) \cup {NoId}]
       /\ t \in [Exprs -> (0..(Following(n, id) - 1)) \cup {NoId}]
    BY <1>0, <1>8, <1>9
<1>11. Following(n, id) \in Nat
    BY <1>0 DEF Following
<1>. QED  BY <1>0, <1>7, <1>10, <1>11 DEF Caches, Recache

-----------------------------------------------------------------------------
\* Whatever saturation does, the e-graph stays one of known expressions with
\* their value, classes are only merged, and a yes stays.
LEMMA Growing ==
    ASSUME IInv, NEW new \in SUBSET Exprs, Grow(new)
    PROVE  /\ known' \subseteq Exprs /\ new \subseteq known'
           /\ find' \in [Exprs -> Exprs]
           /\ Faithful'
           /\ \A e \in Exprs : find'[find'[e]] = find'[e] /\ find'[find[e]] = find'[e]
           /\ \A p \in agreed : \A a, b \in p : find'[a] = find'[b]
<1>1. known \subseteq Exprs /\ find \in [Exprs -> Exprs] /\ agreed \subseteq SUBSET Exprs
    BY DEF IInv, TypeOK
<1>2. Added(new) \subseteq Exprs /\ new \subseteq Added(new)
    BY CanonizerAssumption DEF Added
<1>3. known' \subseteq Exprs /\ new \subseteq known'
    BY <1>1, <1>2 DEF Grow, Equals
<1>4. /\ find' \in Merges
      /\ \A e \in Exprs : find'[find[e]] = find'[e]
    BY DEF Grow
<1>5. \A p \in agreed : \A a, b \in p : find'[a] = find'[b]
  <2>. SUFFICES ASSUME NEW p \in agreed, NEW a \in p, NEW b \in p
                PROVE  find'[a] = find'[b]
      OBVIOUS
  <2>1. a \in Exprs /\ b \in Exprs /\ find[a] = find[b]
      BY <1>1 DEF IInv, AgreementStays
  <2>. QED  BY <1>4, <2>1
<1>. QED  BY <1>3, <1>4, <1>5 DEF Merges, Faithful

\* The extractor picks a term of the class.
LEMMA BestIsInClass ==
    ASSUME known' \subseteq Exprs, NEW r, NEW b \in Best(r)
    PROVE  b \in Exprs /\ find'[b] = r
BY DEF Best, Class

\* The invariant holds of every stream the canonizer may be given.
LEMMA InitInv == Init => IInv
<1>. SUFFICES ASSUME Init PROVE IInv
    OBVIOUS
<1>1. TypeOK
    BY DEF Init, TypeOK, NoId
<1>2. Faithful /\ Pending /\ AgreementStays
    BY DEF Init, Faithful, Pending, AgreementStays
<1>3. Consistent(strCache, classToId, find)
    BY DEF Init, Consistent
<1>. QED  BY <1>1, <1>2, <1>3 DEF IInv

\* What a call of canon leaves to do, once its expression has an id.
LEMMA OneLess ==
    ASSUME IInv, todo # <<>>, todo' = Tail(todo), pair' = pair,
           strCache' \in [Exprs -> Int],
           \A e \in Exprs : strCache[e] # NoId => strCache'[e] # NoId,
           strCache'[Head(todo)] # NoId
    PROVE  todo' \in Seq(Exprs) /\ Pending'
<1>1. todo \in Seq(Exprs) /\ pair \in {<<>>} \cup (Exprs \X Exprs)
    BY DEF IInv, TypeOK
<1>2. Tail(todo) \in Seq(Exprs) /\ Len(Tail(todo)) = Len(todo) - 1 /\ Len(todo) \in Nat \ {0}
    BY <1>1
<1>3. ASSUME pair # <<>>, NEW k \in {1, 2}
      PROVE  strCache'[pair[k]] # NoId \/ \E i \in 1..Len(Tail(todo)) : Tail(todo)[i] = pair[k]
  <2>1. pair[k] \in Exprs
      BY <1>1, <1>3
  <2>2. CASE strCache[pair[k]] # NoId
      BY <2>1, <2>2
  <2>3. CASE \E i \in 1..Len(todo) : todo[i] = pair[k]
    <3>1. PICK i \in 1..Len(todo) : todo[i] = pair[k]
        BY <2>3
    <3>2. CASE i = 1
        BY <1>1, <3>1, <3>2
    <3>3. CASE i # 1
      <4>1. i - 1 \in 1..Len(Tail(todo)) /\ Tail(todo)[i - 1] = todo[i]
          BY <1>1, <1>2, <3>3
      <4>. QED  BY <3>1, <4>1
    <3>. QED  BY <3>2, <3>3
  <2>. QED  BY <1>3, <2>2, <2>3 DEF IInv, Pending
<1>. QED  BY <1>2, <1>3 DEF Pending

-----------------------------------------------------------------------------
\* An id is given after a saturation: the caches stay right and nothing loses
\* its id.
LEMMA NewId ==
    ASSUME IInv, NEW new \in SUBSET Exprs, Grow(new),
           NEW r, NEW id, Fits(nextId, strCache, classToId, find', r, id),
           NEW S \in SUBSET Exprs, \A e \in S : find'[e] = r,
           nextId' = Following(nextId, id),
           strCache' = Recache(strCache, S, id),
           classToId' \in {classToId, [classToId EXCEPT ![r] = id]}
    PROVE  /\ Caches(nextId', strCache', classToId', find')
           /\ strCache' \in [Exprs -> Int]
           /\ \A e \in Exprs : strCache[e] # NoId => strCache'[e] # NoId
           /\ \A e \in S : strCache'[e] # NoId
<1>1. Caches(nextId, strCache, classToId, find)
    BY DEF IInv, TypeOK, Caches
<1>2. Coarser(find, find')
    BY Growing DEF Coarser
<1>3. Caches(nextId', strCache', classToId', find')
  <2>1. /\ Caches(Following(nextId, id), Recache(strCache, S, id), classToId, find')
        /\ Caches(Following(nextId, id), Recache(strCache, S, id),
                  [classToId EXCEPT ![r] = id], find')
      BY <1>1, <1>2, Recached
  <2>. QED  BY <2>1
<1>4. strCache' \in [Exprs -> Int]
    BY <1>3 DEF Caches, NoId
<1>5. id # NoId
    BY <1>1 DEF Caches, Fits, NoId
<1>. QED  BY <1>3, <1>4, <1>5 DEF Recache

\* The four ways canon ends.
LEMMA CanonInv == IInv /\ Canon => IInv'
<1>. SUFFICES ASSUME IInv, Canon PROVE IInv'
    OBVIOUS
<1>. DEFINE e == Head(todo)
<1>1. /\ todo # <<>> /\ todo' = Tail(todo) /\ pair' = pair /\ agreed' = agreed
    BY DEF Canon, CanonHit, CanonSymbol, CanonClass, CanonBest, egraph, caches
<1>2. e \in Exprs /\ nextId \in Nat
    BY <1>1 DEF IInv, TypeOK
<1>3. /\ strCache \in [Exprs -> (0..(nextId - 1)) \cup {NoId}]
      /\ classToId \in [Exprs -> (0..(nextId - 1)) \cup {NoId}]
      /\ find \in [Exprs -> Exprs] /\ known \subseteq Exprs
      /\ Consistent(strCache, classToId, find) /\ Faithful
      /\ pair \in {<<>>} \cup (Exprs \X Exprs) /\ agreed \subseteq SUBSET Exprs
    BY DEF IInv, TypeOK
<1>4. CASE CanonHit
  <2>1. UNCHANGED <<known, find, strCache, classToId, nextId>> /\ strCache[e] # NoId
      BY <1>4 DEF CanonHit, egraph, caches
  <2>2. strCache' \in [Exprs -> Int]
      BY <1>2, <1>3, <2>1 DEF NoId
  <2>3. todo' \in Seq(Exprs) /\ Pending'
      BY <1>1, <2>1, <2>2, OneLess
  <2>4. TypeOK'
      BY <1>1, <1>2, <1>3, <2>1, <2>3 DEF TypeOK
  <2>5. Faithful' /\ AgreementStays' /\ Consistent(strCache, classToId, find)'
      BY <1>1, <1>3, <2>1 DEF IInv, Faithful, AgreementStays
  <2>. QED  BY <2>3, <2>4, <2>5 DEF IInv
<1>5. CASE CanonSymbol
  <2>1. /\ UNCHANGED <<known, find, classToId>> /\ nextId' = nextId + 1
        /\ strCache' = [strCache EXCEPT ![e] = nextId]
      BY <1>5 DEF CanonSymbol, egraph
  <2>2. \A a \in Exprs : strCache[a] # nextId /\ classToId[a] # nextId
      BY <1>2, <1>3 DEF NoId
  <2>3. Consistent(strCache', classToId, find)
      BY <1>2, <1>3, <2>1, <2>2 DEF Consistent
  <2>4. /\ nextId' \in Nat
        /\ strCache' \in [Exprs -> (0..(nextId' - 1)) \cup {NoId}]
        /\ classToId' \in [Exprs -> (0..(nextId' - 1)) \cup {NoId}]
      BY <1>2, <1>3, <2>1
  <2>5. todo' \in Seq(Exprs) /\ Pending'
    <3>1. strCache' \in [Exprs -> Int] /\ strCache'[e] # NoId
        BY <1>2, <1>3, <2>1 DEF NoId
    <3>2. \A a \in Exprs : strCache[a] # NoId => strCache'[a] # NoId
        BY <1>2, <1>3, <2>1, <3>1
    <3>. QED  BY <1>1, <3>1, <3>2, OneLess
  <2>6. TypeOK'
      BY <1>1, <1>3, <2>1, <2>4, <2>5 DEF TypeOK
  <2>7. Faithful' /\ AgreementStays' /\ Consistent(strCache, classToId, find)'
      BY <1>1, <1>3, <2>1, <2>3 DEF IInv, Faithful, AgreementStays
  <2>. QED  BY <2>5, <2>6, <2>7 DEF IInv
<1>6. CASE CanonClass
  <2>. DEFINE r == find'[e]
              id == classToId[r]
  <2>1. /\ Grow({e}) /\ id # NoId /\ UNCHANGED <<classToId, nextId>>
        /\ strCache' = [strCache EXCEPT ![e] = id]
      BY <1>6 DEF CanonClass
  <2>2. /\ known' \subseteq Exprs /\ find' \in [Exprs -> Exprs] /\ Faithful'
        /\ \A a \in Exprs : find'[find'[a]] = find'[a] /\ find'[find[a]] = find'[a]
        /\ \A p \in agreed : \A a, b \in p : find'[a] = find'[b]
      BY <1>2, <2>1, Growing
  <2>3. r \in Exprs /\ find'[r] = r /\ \A a \in {e} : find'[a] = r
      BY <1>2, <2>2
  <2>4. strCache' = Recache(strCache, {e}, id) /\ {e} \in SUBSET Exprs
      BY <1>2, <1>3, <2>1 DEF Recache
  <2>5. Fits(nextId, strCache, classToId, find', r, id) /\ nextId' = Following(nextId, id)
    <3>1. id \in 0..(nextId - 1) /\ id # nextId
        BY <1>2, <1>3, <2>1, <2>3
    <3>. QED  BY <2>1, <2>3, <3>1 DEF Fits, Following
  <2>. HIDE DEF e, r, id
  <2>6. /\ Caches(nextId', strCache', classToId', find')
        /\ strCache' \in [Exprs -> Int]
        /\ \A a \in Exprs : strCache[a] # NoId => strCache'[a] # NoId
        /\ strCache'[e] # NoId
      BY <1>2, <2>1, <2>3, <2>4, <2>5, NewId
  <2>7. todo' \in Seq(Exprs) /\ Pending'
      BY <1>1, <2>6, OneLess DEF e
  <2>8. TypeOK'
      BY <1>1, <1>3, <2>2, <2>6, <2>7 DEF TypeOK, Caches
  <2>9. AgreementStays'
      BY <1>1, <2>2 DEF AgreementStays
  <2>. QED  BY <2>2, <2>6, <2>7, <2>8, <2>9 DEF IInv, Caches
<1>7. CASE CanonBest
  <2>. DEFINE r == find'[e]
  <2>1. PICK b \in Best(r) :
            LET id == IF strCache[b] # NoId THEN strCache[b] ELSE nextId
            IN  /\ strCache' = [strCache EXCEPT ![b] = id, ![e] = id]
                /\ classToId' = [classToId EXCEPT ![r] = id]
                /\ nextId' = IF strCache[b] # NoId THEN nextId ELSE nextId + 1
      BY <1>7 DEF CanonBest
  <2>2. /\ known' \subseteq Exprs /\ find' \in [Exprs -> Exprs] /\ Faithful'
        /\ \A a \in Exprs : find'[find'[a]] = find'[a] /\ find'[find[a]] = find'[a]
        /\ \A p \in agreed : \A x, y \in p : find'[x] = find'[y]
      BY <1>2, <1>7, Growing DEF CanonBest
  <2>3. b \in Exprs /\ find'[b] = r
      BY <2>1, <2>2, BestIsInClass
  <2>4. r \in Exprs /\ find'[r] = r /\ \A a \in {b, e} : find'[a] = r
      BY <1>2, <2>2, <2>3
  <2>. DEFINE id == IF strCache[b] # NoId THEN strCache[b] ELSE nextId
  <2>5. /\ strCache' = Recache(strCache, {b, e}, id)
        /\ classToId' = [classToId EXCEPT ![r] = id]
        /\ nextId' = Following(nextId, id)
    <3>1. strCache[b] # nextId
        BY <1>2, <1>3, <2>3 DEF NoId
    <3>. QED  BY <1>3, <2>1, <3>1 DEF Recache, Following
  <2>6. Fits(nextId, strCache, classToId, find', r, id)
      BY <2>3, <2>4 DEF Fits
  <2>7. Grow({e}) /\ {b, e} \in SUBSET Exprs
      BY <1>2, <1>7, <2>3 DEF CanonBest
  <2>. HIDE DEF e, r, id
  <2>8. /\ Caches(nextId', strCache', classToId', find')
        /\ strCache' \in [Exprs -> Int]
        /\ \A a \in Exprs : strCache[a] # NoId => strCache'[a] # NoId
        /\ strCache'[e] # NoId
      BY <1>2, <2>4, <2>5, <2>6, <2>7, NewId
  <2>9. todo' \in Seq(Exprs) /\ Pending'
      BY <1>1, <2>8, OneLess DEF e
  <2>10. TypeOK'
      BY <1>1, <1>3, <2>2, <2>8, <2>9 DEF TypeOK, Caches
  <2>11. AgreementStays'
      BY <1>1, <2>2 DEF AgreementStays
  <2>. QED  BY <2>2, <2>8, <2>9, <2>10, <2>11 DEF IInv, Caches
<1>. QED  BY <1>4, <1>5, <1>6, <1>7 DEF Canon

-----------------------------------------------------------------------------
\* The four ways a comparison ends.
LEMMA CompareInv == IInv /\ Compare => IInv'
<1>. SUFFICES ASSUME IInv, Compare PROVE IInv'
    OBVIOUS
<1>. DEFINE p == pair[1]
            q == pair[2]
<1>1. pair # <<>> /\ todo = <<>> /\ pair' = <<>> /\ todo' = todo
    BY DEF Compare, Compares, CompareIds, JoinFails, UnifyClass, UnifyBest
<1>2. /\ strCache \in [Exprs -> (0..(nextId - 1)) \cup {NoId}]
      /\ classToId \in [Exprs -> (0..(nextId - 1)) \cup {NoId}]
      /\ find \in [Exprs -> Exprs] /\ known \subseteq Exprs /\ nextId \in Nat
      /\ Consistent(strCache, classToId, find) /\ Faithful
      /\ agreed \subseteq SUBSET Exprs /\ AgreementStays
      /\ todo \in Seq(Exprs)
    BY DEF IInv, TypeOK
<1>3. p \in Exprs /\ q \in Exprs
    BY <1>1 DEF IInv, TypeOK
<1>4. strCache[p] # NoId /\ strCache[q] # NoId
    BY <1>1 DEF IInv, Pending
<1>5. Pending'
    BY <1>1 DEF Pending
<1>6. CASE CompareIds
  <2>1. UNCHANGED <<known, find, strCache, classToId, nextId>> /\ agreed' = agreed \cup {{p, q}}
      BY <1>6 DEF CompareIds, egraph, caches
  <2>2. find[p] = find[q]
      BY <1>2, <1>3, <1>4, <1>6 DEF CompareIds, Consistent
  <2>3. AgreementStays'
      BY <1>2, <2>1, <2>2 DEF AgreementStays
  <2>4. TypeOK'
      BY <1>1, <1>2, <1>3, <2>1 DEF TypeOK
  <2>5. Faithful' /\ Consistent(strCache, classToId, find)'
      BY <1>2, <2>1 DEF Faithful
  <2>. QED  BY <1>5, <2>3, <2>4, <2>5 DEF IInv
<1>7. ASSUME Grow({p, q})
      PROVE  /\ known' \subseteq Exprs /\ find' \in [Exprs -> Exprs] /\ Faithful'
             /\ \A e \in Exprs : find'[find'[e]] = find'[e] /\ find'[find[e]] = find'[e]
             /\ \A y \in agreed : \A a, b \in y : find'[a] = find'[b]
  <2>1. {p, q} \in SUBSET Exprs
      BY <1>3
  <2>. HIDE DEF p, q
  <2>. QED  BY <1>7, <2>1, Growing
<1>8. CASE JoinFails
  <2>1. Grow({p, q}) /\ UNCHANGED <<strCache, classToId, nextId, agreed>>
      BY <1>8 DEF JoinFails, caches
  <2>2. TypeOK' /\ AgreementStays'
      BY <1>1, <1>2, <1>7, <2>1 DEF TypeOK, AgreementStays
  <2>3. Consistent(strCache', classToId', find')
    <3>1. \A a, b \in Exprs : find[a] = find[b] => find'[a] = find'[b]
        BY <1>7, <2>1
    <3>. QED  BY <1>2, <2>1, <3>1 DEF Consistent
  <2>. QED  BY <1>5, <1>7, <2>1, <2>2, <2>3 DEF IInv
<1>9. ASSUME Grow({p, q}), find'[p] = find'[q], agreed' = agreed \cup {{p, q}},
             Caches(nextId', strCache', classToId', find')
      PROVE  IInv'
  <2>1. AgreementStays'
      BY <1>7, <1>9 DEF AgreementStays
  <2>2. TypeOK'
      BY <1>1, <1>2, <1>3, <1>7, <1>9, ZenonT(30) DEF TypeOK, Caches
  <2>. QED  BY <1>5, <1>7, <1>9, <2>1, <2>2 DEF IInv, Caches
<1>10. CASE UnifyClass
  <2>. DEFINE r == find'[p]
              id == classToId[r]
  <2>1. /\ Grow({p, q}) /\ find'[p] = find'[q] /\ id # NoId
        /\ UNCHANGED <<classToId, nextId>> /\ agreed' = agreed \cup {{p, q}}
        /\ strCache' = [strCache EXCEPT ![p] = id, ![q] = id]
      BY <1>10 DEF UnifyClass
  <2>2. r \in Exprs /\ find'[r] = r /\ \A a \in {p, q} : find'[a] = r
      BY <1>3, <1>7, <2>1
  <2>3. strCache' = Recache(strCache, {p, q}, id) /\ {p, q} \in SUBSET Exprs
      BY <1>2, <1>3, <2>1 DEF Recache
  <2>4. Fits(nextId, strCache, classToId, find', r, id) /\ nextId' = Following(nextId, id)
    <3>1. id \in 0..(nextId - 1) /\ id # nextId
        BY <1>2, <2>1, <2>2
    <3>. QED  BY <2>1, <2>2, <3>1 DEF Fits, Following
  <2>. HIDE DEF p, q, r, id
  <2>5. Caches(nextId', strCache', classToId', find')
      BY <2>1, <2>2, <2>3, <2>4, NewId
  <2>. QED  BY <1>9, <2>1, <2>5
<1>11. CASE UnifyBest
  <2>. DEFINE r == find'[p]
  <2>1. /\ Grow({p, q}) /\ find'[p] = find'[q] /\ agreed' = agreed \cup {{p, q}}
      BY <1>11 DEF UnifyBest
  <2>2. PICK b \in Best(r) :
            LET id == IF strCache[b] # NoId THEN strCache[b] ELSE nextId
            IN  /\ strCache' = [strCache EXCEPT ![b] = id, ![p] = id, ![q] = id]
                /\ classToId' = [classToId EXCEPT ![r] = id]
                /\ nextId' = IF strCache[b] # NoId THEN nextId ELSE nextId + 1
      BY <1>11 DEF UnifyBest
  <2>3. b \in Exprs /\ find'[b] = r
      BY <1>7, <2>1, <2>2, BestIsInClass
  <2>4. r \in Exprs /\ find'[r] = r /\ \A a \in {b, p, q} : find'[a] = r
      BY <1>3, <1>7, <2>1, <2>3
  <2>. DEFINE id == IF strCache[b] # NoId THEN strCache[b] ELSE nextId
  <2>5. /\ strCache' = Recache(strCache, {b, p, q}, id) /\ {b, p, q} \in SUBSET Exprs
        /\ classToId' = [classToId EXCEPT ![r] = id]
        /\ nextId' = Following(nextId, id)
    <3>1. strCache[b] # nextId
        BY <1>2, <2>3 DEF NoId
    <3>. QED  BY <1>2, <1>3, <2>2, <2>3, <3>1 DEF Recache, Following
  <2>6. Fits(nextId, strCache, classToId, find', r, id)
      BY <2>3, <2>4 DEF Fits
  <2>7. {p, q} \in SUBSET Exprs
      BY <1>3
  <2>. HIDE DEF p, q, r, id
  <2>8. Caches(nextId', strCache', classToId', find')
      BY <2>1, <2>4, <2>5, <2>6, <2>7, NewId
  <2>. QED  BY <1>9, <2>1, <2>8
<1>. QED  BY <1>6, <1>8, <1>10, <1>11 DEF Compare

\* The invariant is kept by every step.
LEMMA NextInv == IInv /\ [Next]_vars => IInv'
<1>. SUFFICES ASSUME IInv, [Next]_vars PROVE IInv'
    OBVIOUS
<1>1. /\ pair \in {<<>>} \cup (Exprs \X Exprs) /\ todo \in Seq(Exprs)
    BY DEF IInv, TypeOK
<1>2. ASSUME UNCHANGED <<egraph, caches, agreed>>, todo' \in Seq(Exprs),
             pair' \in {<<>>} \cup (Exprs \X Exprs), Pending'
      PROVE  IInv'
  <2>1. UNCHANGED <<known, find, strCache, classToId, nextId, agreed>>
      BY <1>2 DEF egraph, caches
  <2>2. TypeOK'
      BY <1>2, <2>1 DEF IInv, TypeOK
  <2>3. Faithful' /\ Consistent(strCache, classToId, find)' /\ AgreementStays'
      BY <2>1 DEF IInv, Faithful, AgreementStays
  <2>. QED  BY <1>2, <2>2, <2>3 DEF IInv
<1>3. ASSUME NEW a \in Exprs, NEW b \in Exprs, Ask(a, b) PROVE IInv'
  <2>1. pair' = <<a, b>> /\ todo' = <<a, b>>
      BY <1>3 DEF Ask
  <2>2. Pending'
      BY <2>1 DEF Pending
  <2>. QED  BY <1>2, <1>3, <2>1, <2>2 DEF Ask
<1>4. ASSUME NEW goal \in Goals, Normalize(goal) PROVE IInv'
  <2>1. goal \in Seq(Exprs)
      BY DEF Goals
  <2>2. Pending'
      BY <1>4 DEF Normalize, Idle, Pending
  <2>. QED  BY <1>1, <1>2, <1>4, <2>1, <2>2 DEF Normalize
<1>5. CASE UNCHANGED vars
  <2>1. Pending'
      BY <1>5 DEF IInv, Pending, vars, caches
  <2>. QED  BY <1>1, <1>2, <1>5, <2>1 DEF vars
<1>. QED  BY <1>3, <1>4, <1>5, CanonInv, CompareInv DEF Next

\* The invariant holds in every reachable state.
LEMMA InvHolds == Spec => []IInv
    BY InitInv, NextInv, PTL DEF Spec

-----------------------------------------------------------------------------
\* Ids are below the counter, in both caches, whatever saturation does.
THEOREM TypeCorrect == Spec => []TypeOK
    BY InvHolds, PTL DEF IInv

\* Expressions with one id are equal in value: for every set of expressions,
\* every meaning that the rewrite rules respect, and every place where the
\* limits cut saturation off (canon, unify_expr_cache).
THEOREM IdsAreSound == Spec => []SameIdSameValue
<1>1. ASSUME IInv PROVE SameIdSameValue
  <2>1. \A a, b \in Exprs : find[a] = find[b] => Value[a] = Value[b]
      BY <1>1 DEF IInv, Faithful
  <2>. QED  BY <1>1, <2>1 DEF IInv, Consistent, SameIdSameValue
<1>. QED  BY <1>1, InvHolds, PTL

\* Two values the canonizer has called equal stay in one class of its e-graph,
\* although the ids that made it say so change (values_equivalent).
THEOREM YesStays == Spec => []AgreementStays
    BY InvHolds, PTL DEF IInv
=============================================================================
