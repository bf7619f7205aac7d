--------------------------- MODULE Pipeline_proofs ---------------------------
(***************************************************************************)
(* Proofs about module Pipeline: its five properties, for every body of    *)
(* valid operators, every limit and every slack.                           *)
(*                                                                         *)
(* From below: sequences, flattening and slices; the machine, whose stack  *)
(* follows Heights and whose execution of a slice agrees with that of the  *)
(* whole; operators, blocks and raw segments, which are chunks (IsChunk);  *)
(* what becomes of a chunk (MaterializedIs) and of a segment that is split *)
(* (SplitComposes); the notes of the opaque instructions and the pairs     *)
(* that are listed (OrderOfSegment); then the inductive invariant (IInv),  *)
(* one lemma per action, and the theorems.                                 *)
(***************************************************************************)
EXTENDS Pipeline, Induction, SequenceTheorems

-----------------------------------------------------------------------------
(* Sequences of anything *)

IsSequence(s) == s \in Seq(ToSet(s))

\* A sequence of a known kind is a sequence.
LEMMA TypedSequence ==
    ASSUME NEW S, NEW s \in Seq(S)
    PROVE  IsSequence(s) /\ ToSet(s) \subseteq S
<1>1. s \in [1 .. Len(s) -> S] /\ Len(s) \in Nat /\ DOMAIN s = 1 .. Len(s)
    BY LenProperties
<1>2. s \in [1 .. Len(s) -> ToSet(s)]
    BY <1>1 DEF ToSet
<1>3. s \in Seq(ToSet(s))
    BY <1>1, <1>2, SeqDef
<1>. QED  BY <1>1, <1>3 DEF IsSequence, ToSet

\* A function on an initial interval of the numbers is a sequence.
LEMMA ByElements ==
    ASSUME NEW n \in Nat, NEW s, s = [i \in 1 .. n |-> s[i]]
    PROVE  IsSequence(s) /\ Len(s) = n /\ DOMAIN s = 1 .. n
<1>1. DOMAIN s = 1 .. n
    BY Zenon
<1>2. s \in [1 .. n -> ToSet(s)]
    BY <1>1 DEF ToSet
<1>. QED  BY <1>1, <1>2, SeqDef DEF IsSequence

\* What a sequence is made of.
LEMMA SequenceParts ==
    ASSUME NEW s, IsSequence(s)
    PROVE  /\ Len(s) \in Nat /\ DOMAIN s = 1 .. Len(s)
           /\ s = [i \in 1 .. Len(s) |-> s[i]]
           /\ \A S : ToSet(s) \subseteq S => s \in Seq(S)
<1>1. s \in Seq(ToSet(s))
    BY DEF IsSequence
<1>2. Len(s) \in Nat /\ s \in [1 .. Len(s) -> ToSet(s)] /\ DOMAIN s = 1 .. Len(s)
    BY <1>1, LenProperties
<1>3. \A S : ToSet(s) \subseteq S => s \in Seq(S)
    BY <1>1, SeqMonotonic
<1>. QED  BY <1>2, <1>3

\* A sequence all of whose elements are in a set is of that kind.
LEMMA SequenceOf ==
    ASSUME NEW s, IsSequence(s), NEW S, \A i \in 1 .. Len(s) : s[i] \in S
    PROVE  s \in Seq(S)
<1>1. ToSet(s) \subseteq S
    BY SequenceParts DEF ToSet
<1>. QED  BY <1>1, SequenceParts

\* Sequences of the same length with the same elements are the same.
LEMMA SameElements ==
    ASSUME NEW s, IsSequence(s), NEW t, IsSequence(t), Len(s) = Len(t),
           \A i \in 1 .. Len(s) : s[i] = t[i]
    PROVE  s = t
<1>1. s = [i \in 1 .. Len(s) |-> s[i]] /\ t = [i \in 1 .. Len(t) |-> t[i]]
    BY SequenceParts
<1>. QED  BY <1>1

\* u is s and then t; u is s and then e; u is s from m to n.
IsJoined(u, s, t) == /\ IsSequence(u) /\ Len(u) = Len(s) + Len(t)
                     /\ \A i \in 1 .. Len(s) : u[i] = s[i]
                     /\ \A i \in 1 .. Len(t) : u[Len(s) + i] = t[i]

IsAppended(u, s, e) == /\ IsSequence(u) /\ Len(u) = Len(s) + 1
                       /\ \A i \in 1 .. Len(s) : u[i] = s[i]
                       /\ u[Len(s) + 1] = e

IsCut(u, s, m, n) == /\ IsSequence(u) /\ Len(u) = n - m + 1
                     /\ \A i \in 1 .. n - m + 1 : u[i] = s[m + i - 1]

\* What is joined with \o has the elements of both, in their order.
LEMMA Concatenated ==
    ASSUME NEW s, IsSequence(s), NEW t, IsSequence(t)
    PROVE  IsJoined(s \o t, s, t)
<1>. DEFINE S == ToSet(s) \cup ToSet(t)
<1>1. s \in Seq(S) /\ t \in Seq(S) /\ Len(s) \in Nat /\ Len(t) \in Nat
    BY SequenceParts
<1>2. /\ s \o t \in Seq(S) /\ Len(s \o t) = Len(s) + Len(t)
      /\ \A i \in 1 .. Len(s) + Len(t) : (s \o t)[i] = IF i <= Len(s) THEN s[i] ELSE t[i - Len(s)]
    BY <1>1, ConcatProperties
<1>3. IsSequence(s \o t)
    BY <1>2, TypedSequence
<1>4. \A i \in 1 .. Len(t) : (s \o t)[Len(s) + i] = t[i]
  <2>. TAKE i \in 1 .. Len(t)
  <2>1. Len(s) + i \in 1 .. Len(s) + Len(t) /\ ~(Len(s) + i <= Len(s)) /\ (Len(s) + i) - Len(s) = i
      BY <1>1
  <2>. QED  BY <1>2, <2>1
<1>5. \A i \in 1 .. Len(s) : (s \o t)[i] = s[i]
    BY <1>1, <1>2
<1>. QED  BY <1>2, <1>3, <1>4, <1>5, Zenon DEF IsJoined

\* What is appended comes last.
LEMMA Appended ==
    ASSUME NEW s, IsSequence(s), NEW e
    PROVE  IsAppended(Append(s, e), s, e)
<1>. DEFINE S == ToSet(s) \cup {e}
<1>1. s \in Seq(S) /\ e \in S
    BY SequenceParts
<1>2. /\ Append(s, e) \in Seq(S) /\ Len(Append(s, e)) = Len(s) + 1
      /\ \A i \in 1 .. Len(s) : Append(s, e)[i] = s[i]
      /\ Append(s, e)[Len(s) + 1] = e
    BY <1>1, AppendProperties
<1>3. IsSequence(Append(s, e))
    BY <1>2, TypedSequence
<1>. QED  BY <1>2, <1>3, Zenon DEF IsAppended

\* A subsequence within the bounds has the elements from m to n.
LEMMA Cut ==
    ASSUME NEW s, IsSequence(s), NEW m \in Nat \ {0}, NEW n \in Nat, n <= Len(s), m <= n + 1
    PROVE  IsCut(SubSeq(s, m, n), s, m, n)
<1>1. Len(s) \in Nat /\ \A i \in m .. n : s[i] \in ToSet(s)
    BY SequenceParts DEF ToSet
<1>2. /\ SubSeq(s, m, n) \in Seq(ToSet(s))
      /\ Len(SubSeq(s, m, n)) = IF m <= n THEN n - m + 1 ELSE 0
      /\ \A i \in 1 .. n - m + 1 : SubSeq(s, m, n)[i] = s[m + i - 1]
    BY <1>1, SubSeqProperties
<1>3. (IF m <= n THEN n - m + 1 ELSE 0) = n - m + 1
    OBVIOUS
<1>4. IsSequence(SubSeq(s, m, n))
    BY <1>2, TypedSequence
<1>. QED  BY <1>2, <1>3, <1>4, Zenon DEF IsCut

-----------------------------------------------------------------------------
(* Flattening *)

AreSequences(ss) == IsSequence(ss) /\ \A i \in DOMAIN ss : IsSequence(ss[i])

\* f[k] joins the first k of ss.
Joins(f, ss) == /\ f[0] = <<>>
                /\ \A i \in 1 .. Len(ss) : f[i] = f[i - 1] \o ss[i]
                /\ \A i \in 0 .. Len(ss) : IsSequence(f[i])

FlattenBy(f, ss) == f = [i \in 1 .. Len(ss) |-> IF i = 1 THEN ss[i] ELSE f[i - 1] \o ss[i]]

\* The empty sequence is one.
LEMMA EmptyIsSequence == IsSequence(<<>>) /\ Len(<<>>) = 0 /\ DOMAIN <<>> = {}
<1>1. <<>> \in Seq({}) /\ Len(<<>>) = 0 /\ DOMAIN <<>> = {}
    OBVIOUS
<1>2. IsSequence(<<>>)
    BY <1>1, TypedSequence, Zenon
<1>. QED  BY <1>1, <1>2, Zenon

\* Joining with the empty sequence changes nothing.
LEMMA EmptyJoined ==
    ASSUME NEW s, IsSequence(s)
    PROVE  <<>> \o s = s /\ s \o <<>> = s
BY ConcatEmptySeq DEF IsSequence

\* Only the empty sequence has no element.
LEMMA EmptyUnique ==
    ASSUME NEW s, IsSequence(s), Len(s) = 0
    PROVE  s = <<>>
BY EmptyIsSequence, SameElements

\* Sequences of sequences have a common set of elements.
LEMMA CommonElements ==
    ASSUME NEW ss, AreSequences(ss)
    PROVE  ss \in Seq(Seq(UNION {ToSet(ss[i]) : i \in DOMAIN ss}))
<1>. DEFINE U == UNION {ToSet(ss[i]) : i \in DOMAIN ss}
<1>1. IsSequence(ss) /\ \A i \in DOMAIN ss : IsSequence(ss[i])
    BY DEF AreSequences
<1>2. \A i \in 1 .. Len(ss) : i \in DOMAIN ss
    BY <1>1, SequenceParts
<1>3. \A i \in 1 .. Len(ss) : ss[i] \in Seq(U)
  <2>. TAKE i \in 1 .. Len(ss)
  <2>1. IsSequence(ss[i]) /\ ToSet(ss[i]) \subseteq U
      BY <1>1, <1>2
  <2>. QED  BY <2>1, SequenceParts
<1>4. ss \in Seq(Seq(U))
  <2>. HIDE DEF U
  <2>. QED  BY <1>1, <1>3, SequenceOf, Zenon
<1>. QED  BY <1>4

\* What the community modules' definition of flattening computes.
LEMMA FlattenSteps ==
    ASSUME NEW ss, AreSequences(ss)
    PROVE  \E f : Joins(f, ss) /\ FlattenSeq(ss) = f[Len(ss)]
<1>. DEFINE l == Len(ss)
            A == UNION {ToSet(ss[i]) : i \in DOMAIN ss}
            step == [i \in 1 .. l |-> [s \in Seq(A) |-> s \o ss[i]]]
            h == CHOOSE f : FlattenBy(f, ss)
<1>1. l \in Nat /\ IsSequence(ss) /\ \A i \in 1 .. l : ss[i] \in Seq(A)
  <2>1. ss \in Seq(Seq(A))
      BY CommonElements
  <2>. HIDE DEF A
  <2>. QED  BY <2>1, TypedSequence
<1>. HIDE DEF A
<1>2. <<>> \in Seq(A) /\ step \in [1 .. l -> [Seq(A) -> Seq(A)]]
    BY <1>1
<1>3. PICK g : Iterates(g, l, Seq(A), <<>>, step)
  <2>. HIDE DEF l, step
  <2>. QED  BY <1>1, <1>2, IterationExists, Zenon
<1>4. \A n \in 0 .. l : g[n] \in Seq(A)
    BY <1>3 DEF Iterates
<1>5. \A n \in 1 .. l : g[n] = g[n - 1] \o ss[n]
  <2>. TAKE n \in 1 .. l
  <2>1. n - 1 \in 0 .. l
      BY <1>1
  <2>2. g[n - 1] \in Seq(A) /\ g[n] = step[n][g[n - 1]]
      BY <1>3, <1>4, <2>1 DEF Iterates
  <2>. QED  BY <2>2
<1>6. g[0] = <<>>
    BY <1>3 DEF Iterates
<1>7. Joins(g, ss)
  <2>1. \A n \in 0 .. l : IsSequence(g[n])
      BY <1>4, TypedSequence
  <2>. QED  BY <1>5, <1>6, <2>1 DEF Joins
<1>8. CASE l = 0
  <2>1. FlattenSeq(ss) = ss /\ ss = <<>>
      BY <1>1, <1>8, EmptyUnique DEF FlattenSeq
  <2>. QED  BY <1>6, <1>7, <1>8, <2>1
<1>9. CASE l # 0
  <2>. DEFINE f == [i \in 1 .. l |-> g[i]]
  <2>1. FlattenBy(f, ss)
    <3>1. ASSUME NEW n \in 1 .. l
          PROVE  f[n] = IF n = 1 THEN ss[n] ELSE f[n - 1] \o ss[n]
      <4>1. CASE n = 1
        <5>1. n - 1 = 0 /\ IsSequence(ss[n])
            BY <1>1, <4>1, TypedSequence
        <5>2. g[n] = <<>> \o ss[n]
            BY <1>5, <1>6, <5>1
        <5>. QED  BY <4>1, <5>1, <5>2, EmptyJoined
      <4>2. CASE n # 1
        <5>1. n - 1 \in 1 .. l
            BY <1>1, <4>2
        <5>. QED  BY <1>5, <4>2, <5>1
      <4>. QED  BY <4>1, <4>2
    <3>. QED  BY <3>1 DEF FlattenBy
  <2>2. FlattenBy(h, ss)
    <3>. HIDE DEF f
    <3>. QED  BY <2>1, Zenon
  <2>3. FlattenSeq(ss) = h[l]
      BY <1>9, Zenon DEF FlattenSeq, FlattenBy
  <2>4. \A n \in 1 .. l : h[n] = IF n = 1 THEN ss[n] ELSE h[n - 1] \o ss[n]
      BY <2>2 DEF FlattenBy
  <2>. HIDE DEF h, f
  <2>. DEFINE S == {n \in 0 .. l : n = 0 \/ h[n] = g[n]}
  <2>5. 0 \in S
      BY <1>1
  <2>6. \A n \in 0 .. l - 1 : n \in S => n + 1 \in S
    <3>. SUFFICES ASSUME NEW n \in 0 .. l - 1, n = 0 \/ h[n] = g[n]
                  PROVE  h[n + 1] = g[n + 1]
        BY <1>1
    <3>1. n + 1 \in 1 .. l /\ (n + 1) - 1 = n
        BY <1>1
    <3>2. h[n + 1] = IF n + 1 = 1 THEN ss[n + 1] ELSE h[n] \o ss[n + 1]
        BY <2>4, <3>1
    <3>3. g[n + 1] = g[n] \o ss[n + 1]
        BY <1>5, <3>1
    <3>4. CASE n = 0
      <4>1. IsSequence(ss[n + 1])
          BY <1>1, <3>1, TypedSequence
      <4>2. h[n + 1] = ss[n + 1] /\ g[n] = <<>>
          BY <1>6, <3>2, <3>4
      <4>. QED  BY <3>3, <4>1, <4>2, EmptyJoined, Zenon
    <3>5. CASE n # 0
      <4>1. n + 1 # 1 /\ h[n] = g[n]
          BY <3>5
      <4>. QED  BY <3>2, <3>3, <4>1, Zenon
    <3>. QED  BY <3>4, <3>5
  <2>7. \A n \in 0 .. l : n \in S
    <3>. HIDE DEF S, l
    <3>. QED  BY <1>1, <2>5, <2>6, UpTo, Zenon
  <2>. QED  BY <1>1, <1>7, <1>9, <2>3, <2>7
<1>. QED  BY <1>8, <1>9

\* Nothing is flattened to nothing.
LEMMA FlattenEmpty == FlattenSeq(<<>>) = <<>>
BY EmptyIsSequence DEF FlattenSeq

\* Sequences are flattened to a sequence.
LEMMA FlattenIsSequence ==
    ASSUME NEW ss, AreSequences(ss)
    PROVE  IsSequence(FlattenSeq(ss))
<1>1. PICK f : Joins(f, ss) /\ FlattenSeq(ss) = f[Len(ss)]
    BY FlattenSteps
<1>2. Len(ss) \in Nat
    BY SequenceParts DEF AreSequences
<1>. QED  BY <1>1, <1>2 DEF Joins

\* One sequence more.
LEMMA MoreSequences ==
    ASSUME NEW ss, AreSequences(ss), NEW x, IsSequence(x)
    PROVE  AreSequences(Append(ss, x))
<1>. DEFINE tt == Append(ss, x)
<1>0. IsAppended(tt, ss, x) /\ IsSequence(ss)
    BY Appended, Zenon DEF AreSequences
<1>. HIDE DEF tt
<1>1. /\ IsSequence(tt) /\ Len(tt) = Len(ss) + 1 /\ Len(ss) \in Nat
      /\ \A i \in 1 .. Len(ss) : tt[i] = ss[i]
      /\ tt[Len(ss) + 1] = x
      /\ DOMAIN tt = 1 .. Len(tt) /\ DOMAIN ss = 1 .. Len(ss)
    BY <1>0, SequenceParts DEF IsAppended
<1>2. ASSUME NEW i \in DOMAIN tt
      PROVE  IsSequence(tt[i])
  <2>1. i \in 1 .. Len(ss) \/ i = Len(ss) + 1
      BY <1>1
  <2>. QED  BY <1>1, <2>1 DEF AreSequences
<1>3. AreSequences(tt)
    BY <1>1, <1>2 DEF AreSequences
<1>. QED  BY <1>3 DEF tt

\* One more sequence is joined at the end.
LEMMA FlattenNext ==
    ASSUME NEW ss, AreSequences(ss), NEW x, IsSequence(x)
    PROVE  FlattenSeq(Append(ss, x)) = FlattenSeq(ss) \o x
<1>. DEFINE tt == Append(ss, x)
            l == Len(ss)
<1>0. IsAppended(tt, ss, x) /\ IsSequence(ss)
    BY Appended, Zenon DEF AreSequences
<1>2. AreSequences(tt)
    BY MoreSequences
<1>. HIDE DEF tt
<1>1. /\ IsSequence(tt) /\ Len(tt) = l + 1 /\ l \in Nat
      /\ \A i \in 1 .. l : tt[i] = ss[i]
      /\ tt[l + 1] = x
    BY <1>0, SequenceParts DEF IsAppended
<1>3. PICK f : Joins(f, ss) /\ FlattenSeq(ss) = f[Len(ss)]
    BY FlattenSteps
<1>4. PICK g : Joins(g, tt) /\ FlattenSeq(tt) = g[Len(tt)]
    BY <1>2, FlattenSteps
<1>. DEFINE S == {n \in 0 .. l : f[n] = g[n]}
<1>5. 0 \in S
    BY <1>1, <1>3, <1>4 DEF Joins
<1>6. \A n \in 0 .. l - 1 : n \in S => n + 1 \in S
  <2>. SUFFICES ASSUME NEW n \in 0 .. l - 1, f[n] = g[n]
                PROVE  f[n + 1] = g[n + 1]
      BY <1>1
  <2>1. n + 1 \in 1 .. l /\ n + 1 \in 1 .. Len(tt) /\ (n + 1) - 1 = n
      BY <1>1
  <2>2. f[n + 1] = f[n] \o ss[n + 1] /\ g[n + 1] = g[n] \o tt[n + 1]
      BY <1>3, <1>4, <2>1 DEF Joins
  <2>. QED  BY <1>1, <2>1, <2>2
<1>7. \A n \in 0 .. l : n \in S
  <2>. HIDE DEF S, l
  <2>. QED  BY <1>1, <1>5, <1>6, UpTo, Zenon
<1>8. f[l] = g[l]
    BY <1>1, <1>7
<1>9. g[l + 1] = g[l] \o x
  <2>1. l + 1 \in 1 .. Len(tt) /\ (l + 1) - 1 = l
      BY <1>1
  <2>. QED  BY <1>1, <1>4, <2>1 DEF Joins
<1>. QED  BY <1>1, <1>3, <1>4, <1>8, <1>9 DEF tt

\* Induction over sequences, as a set of those that have been treated.
LEMMA ByAppending ==
    ASSUME NEW A, NEW P, <<>> \in P,
           \A s \in Seq(A) : s \in P => \A e \in A : Append(s, e) \in P
    PROVE  \A s \in Seq(A) : s \in P
<1>. TAKE s \in Seq(A)
<1>. DEFINE S == {n \in 0 .. Len(s) : SubSeq(s, 1, n) \in P}
<1>1. Len(s) \in Nat
    OBVIOUS
<1>2. 0 \in S
  <2>1. SubSeq(s, 1, 0) = <<>>
      BY SubSeqEmpty
  <2>2. SubSeq(s, 1, 0) \in P
      BY <2>1, Zenon
  <2>3. 0 \in 0 .. Len(s)
      BY <1>1
  <2>. QED  BY <2>2, <2>3, Zenon
<1>3. \A n \in 0 .. Len(s) - 1 : n \in S => n + 1 \in S
  <2>. SUFFICES ASSUME NEW n \in 0 .. Len(s) - 1, SubSeq(s, 1, n) \in P
                PROVE  SubSeq(s, 1, n + 1) \in P
      BY <1>1
  <2>1. SubSeq(s, 1, n) \in Seq(A) /\ s[n + 1] \in A
      OBVIOUS
  <2>2. Append(SubSeq(s, 1, n), s[n + 1]) = SubSeq(s, 1, n + 1)
      OBVIOUS
  <2>. QED  BY <2>1, <2>2
<1>4. \A n \in 0 .. Len(s) : n \in S
  <2>. HIDE DEF S
  <2>. QED  BY <1>1, <1>2, <1>3, UpTo, Zenon
<1>5. SubSeq(s, 1, Len(s)) = s
    OBVIOUS
<1>6. Len(s) \in 0 .. Len(s)
    BY <1>1
<1>. QED  BY <1>4, <1>5, <1>6, Zenon

\* A position of a joined sequence that is not one of the first's is one of the
\* second's.
LEMMA Behind ==
    ASSUME NEW a \in Nat, NEW b \in Nat, NEW j \in 1 .. a + b, j \notin 1 .. a
    PROVE  j - a \in 1 .. b /\ j = a + (j - a)
OBVIOUS

\* The elements of the flattened sequence are those of the sequences in it.
LEMMA FlattenElements ==
    ASSUME NEW ss, AreSequences(ss), NEW i \in DOMAIN FlattenSeq(ss)
    PROVE  \E b \in DOMAIN ss : \E k \in DOMAIN ss[b] : FlattenSeq(ss)[i] = ss[b][k]
<1>1. PICK f : Joins(f, ss) /\ FlattenSeq(ss) = f[Len(ss)]
    BY FlattenSteps
<1>. DEFINE l == Len(ss)
            From(n) == \A j \in 1 .. Len(f[n]) : \E b \in DOMAIN ss : \E k \in DOMAIN ss[b] :
                           f[n][j] = ss[b][k]
            S == {n \in 0 .. l : From(n)}
<1>2. l \in Nat /\ DOMAIN ss = 1 .. l /\ \A b \in 1 .. l : IsSequence(ss[b])
    BY SequenceParts DEF AreSequences
<1>3. 0 \in S
  <2>1. Len(f[0]) = 0
      BY <1>1, EmptyIsSequence DEF Joins
  <2>. QED  BY <1>2, <2>1
<1>4. \A n \in 0 .. l - 1 : n \in S => n + 1 \in S
  <2>. SUFFICES ASSUME NEW n \in 0 .. l - 1, From(n)
                PROVE  From(n + 1)
      BY <1>2
  <2>1. n + 1 \in 1 .. l /\ (n + 1) - 1 = n /\ n \in 0 .. l
      BY <1>2
  <2>2. f[n + 1] = f[n] \o ss[n + 1] /\ IsSequence(f[n]) /\ IsSequence(ss[n + 1])
      BY <1>1, <1>2, <2>1 DEF Joins
  <2>3. /\ Len(f[n + 1]) = Len(f[n]) + Len(ss[n + 1])
        /\ \A j \in 1 .. Len(f[n]) : f[n + 1][j] = f[n][j]
        /\ \A j \in 1 .. Len(ss[n + 1]) : f[n + 1][Len(f[n]) + j] = ss[n + 1][j]
    <3>1. IsJoined(f[n + 1], f[n], ss[n + 1])
        BY <2>2, Concatenated, Zenon
    <3>. QED  BY <3>1 DEF IsJoined
  <2>4. /\ Len(f[n]) \in Nat /\ Len(ss[n + 1]) \in Nat
        /\ DOMAIN ss[n + 1] = 1 .. Len(ss[n + 1])
      BY <2>2, SequenceParts
  <2>5. ASSUME NEW j \in 1 .. Len(f[n + 1])
        PROVE  \E b \in DOMAIN ss : \E k \in DOMAIN ss[b] : f[n + 1][j] = ss[b][k]
    <3>1. CASE j \in 1 .. Len(f[n])
        BY <2>3, <3>1
    <3>2. CASE j \notin 1 .. Len(f[n])
      <4>. DEFINE k == j - Len(f[n])
      <4>1. k \in 1 .. Len(ss[n + 1]) /\ j = Len(f[n]) + k
        <5>1. j \in 1 .. Len(f[n]) + Len(ss[n + 1])
            BY <2>3, Zenon
        <5>. QED  BY <2>4, <3>2, <5>1, Behind
      <4>. HIDE DEF k
      <4>2. f[n + 1][j] = ss[n + 1][k] /\ n + 1 \in DOMAIN ss /\ k \in DOMAIN ss[n + 1]
          BY <1>2, <2>1, <2>3, <2>4, <4>1
      <4>. QED  BY <4>2
    <3>. QED  BY <3>1, <3>2
  <2>. QED  BY <2>5
<1>5. \A n \in 0 .. l : n \in S
  <2>. HIDE DEF S, l
  <2>. QED  BY <1>2, <1>3, <1>4, UpTo, Zenon
<1>6. From(l)
    BY <1>2, <1>5
<1>7. DOMAIN FlattenSeq(ss) = 1 .. Len(f[l])
  <2>1. IsSequence(f[l])
      BY <1>1, <1>2 DEF Joins
  <2>. QED  BY <1>1, <2>1, SequenceParts
<1>. QED  BY <1>1, <1>6, <1>7

\* Appending to the second of two is appending to both joined.
LEMMA AppendJoined ==
    ASSUME NEW s, IsSequence(s), NEW t, IsSequence(t), NEW e
    PROVE  s \o Append(t, e) = Append(s \o t, e)
<1>. DEFINE A == ToSet(s) \cup ToSet(t) \cup {e}
<1>1. s \in Seq(A) /\ t \in Seq(A) /\ e \in A
    BY SequenceParts
<1>2. <<e>> \in Seq(A) /\ s \o t \in Seq(A)
    BY <1>1
<1>3. Append(t, e) = t \o <<e>> /\ Append(s \o t, e) = (s \o t) \o <<e>>
    BY <1>1, <1>2, AppendIsConcat
<1>4. (s \o t) \o <<e>> = s \o (t \o <<e>>)
    BY <1>1, <1>2, ConcatAssociative
<1>. QED  BY <1>3, <1>4, Zenon

\* Joining is associative.
LEMMA JoinedAssociative ==
    ASSUME NEW s, IsSequence(s), NEW t, IsSequence(t), NEW u, IsSequence(u)
    PROVE  (s \o t) \o u = s \o (t \o u)
<1>. DEFINE A == ToSet(s) \cup ToSet(t) \cup ToSet(u)
<1>1. s \in Seq(A) /\ t \in Seq(A) /\ u \in Seq(A)
    BY SequenceParts
<1>. QED  BY <1>1, ConcatAssociative

\* Joined sequences of sequences are sequences of sequences.
LEMMA AreSequencesJoined ==
    ASSUME NEW ss, AreSequences(ss), NEW tt, AreSequences(tt)
    PROVE  AreSequences(ss \o tt)
<1>. DEFINE uu == ss \o tt
<1>1. IsJoined(uu, ss, tt) /\ IsSequence(ss) /\ IsSequence(tt)
    BY Concatenated DEF AreSequences
<1>. HIDE DEF uu
<1>2. /\ DOMAIN ss = 1 .. Len(ss) /\ DOMAIN tt = 1 .. Len(tt) /\ DOMAIN uu = 1 .. Len(uu)
      /\ Len(ss) \in Nat /\ Len(tt) \in Nat /\ IsSequence(uu)
    BY <1>1, SequenceParts DEF IsJoined
<1>3. ASSUME NEW i \in DOMAIN uu
      PROVE  IsSequence(uu[i])
  <2>1. CASE i \in 1 .. Len(ss)
      BY <1>1, <1>2, <2>1 DEF IsJoined, AreSequences
  <2>2. CASE i \notin 1 .. Len(ss)
    <3>1. i - Len(ss) \in 1 .. Len(tt) /\ i = Len(ss) + (i - Len(ss))
        BY <1>1, <1>2, <2>2, Behind DEF IsJoined
    <3>. QED  BY <1>1, <1>2, <3>1 DEF IsJoined, AreSequences
  <2>. QED  BY <2>1, <2>2
<1>4. AreSequences(uu)
    BY <1>2, <1>3 DEF AreSequences
<1>. QED  BY <1>4 DEF uu

\* Flattening what is joined joins what is flattened.
LEMMA FlattenJoined ==
    ASSUME NEW ss, AreSequences(ss), NEW tt, AreSequences(tt)
    PROVE  FlattenSeq(ss \o tt) = FlattenSeq(ss) \o FlattenSeq(tt)
<1>. DEFINE A == Seq(UNION {ToSet(tt[i]) : i \in DOMAIN tt})
            P == {t \in Seq(A) : FlattenSeq(ss \o t) = FlattenSeq(ss) \o FlattenSeq(t)}
<1>1. tt \in Seq(A)
    BY CommonElements, Zenon
<1>2. \A s \in A : IsSequence(s)
    BY TypedSequence
<1>. HIDE DEF A
<1>3. \A t \in Seq(A) : AreSequences(t)
  <2>. TAKE t \in Seq(A)
  <2>1. IsSequence(t) /\ \A i \in DOMAIN t : t[i] \in A
      BY TypedSequence
  <2>. QED  BY <1>2, <2>1 DEF AreSequences
<1>4. <<>> \in P
  <2>1. ss \o <<>> = ss /\ FlattenSeq(ss) \o <<>> = FlattenSeq(ss)
      BY EmptyJoined, FlattenIsSequence DEF AreSequences
  <2>2. <<>> \in Seq(A)
      OBVIOUS
  <2>. QED  BY <2>1, <2>2, FlattenEmpty, Zenon
<1>5. \A t \in Seq(A) : t \in P => \A x \in A : Append(t, x) \in P
  <2>. SUFFICES ASSUME NEW t \in Seq(A), t \in P, NEW x \in A
                PROVE  Append(t, x) \in P
      OBVIOUS
  <2>1. FlattenSeq(ss \o t) = FlattenSeq(ss) \o FlattenSeq(t)
      OBVIOUS
  <2>. HIDE DEF P
  <2>2. AreSequences(t) /\ IsSequence(x) /\ IsSequence(t) /\ IsSequence(ss)
      BY <1>2, <1>3 DEF AreSequences
  <2>3. ss \o Append(t, x) = Append(ss \o t, x)
      BY <2>2, AppendJoined
  <2>4. FlattenSeq(Append(ss \o t, x)) = FlattenSeq(ss \o t) \o x
      BY <2>2, AreSequencesJoined, FlattenNext, Zenon
  <2>5. FlattenSeq(Append(t, x)) = FlattenSeq(t) \o x
      BY <2>2, FlattenNext
  <2>6. (FlattenSeq(ss) \o FlattenSeq(t)) \o x = FlattenSeq(ss) \o (FlattenSeq(t) \o x)
    <3>1. IsSequence(FlattenSeq(ss)) /\ IsSequence(FlattenSeq(t))
        BY <2>2, FlattenIsSequence, Zenon
    <3>. DEFINE a == FlattenSeq(ss)
                b == FlattenSeq(t)
    <3>. HIDE DEF a, b
    <3>2. (a \o b) \o x = a \o (b \o x)
        BY <2>2, <3>1, JoinedAssociative DEF a, b
    <3>. QED  BY <3>2 DEF a, b
  <2>7. FlattenSeq(ss \o Append(t, x)) = FlattenSeq(ss) \o FlattenSeq(Append(t, x))
      BY <2>1, <2>3, <2>4, <2>5, <2>6, Zenon
  <2>8. Append(t, x) \in Seq(A)
      BY AppendProperties
  <2>. QED  BY <2>7, <2>8, Zenon DEF P
<1>6. \A t \in Seq(A) : t \in P
  <2>. HIDE DEF P
  <2>. QED  BY <1>4, <1>5, ByAppending
<1>. QED  BY <1>1, <1>6

-----------------------------------------------------------------------------
(* Positions of segments *)

IxOf(segments) == [i \in DOMAIN segments |-> segments[i].ix]

PositionsOf(segments) == FlattenSeq(IxOf(segments))

\* A sequence of segments, as far as their positions go.
AreSegments(segments) == /\ IsSequence(segments)
                         /\ \A i \in DOMAIN segments : IsSequence(segments[i].ix)

\* The positions of segments are as many sequences.
LEMMA IxAreSequences ==
    ASSUME NEW segments, AreSegments(segments)
    PROVE  AreSequences(IxOf(segments)) /\ Len(IxOf(segments)) = Len(segments)
<1>. DEFINE t == IxOf(segments)
<1>1. DOMAIN segments = 1 .. Len(segments) /\ Len(segments) \in Nat
    BY SequenceParts DEF AreSegments
<1>2. /\ t = [i \in 1 .. Len(segments) |-> t[i]] /\ DOMAIN t = DOMAIN segments
      /\ \A i \in DOMAIN segments : t[i] = segments[i].ix
    BY <1>1 DEF IxOf
<1>. HIDE DEF t
<1>3. IsSequence(t) /\ Len(t) = Len(segments)
    BY <1>1, <1>2, ByElements
<1>4. AreSequences(t)
    BY <1>2, <1>3 DEF AreSequences, AreSegments
<1>. QED  BY <1>3, <1>4 DEF t

\* The positions of segments that are joined.
LEMMA IxOfJoined ==
    ASSUME NEW s, AreSegments(s), NEW t, AreSegments(t)
    PROVE  AreSegments(s \o t) /\ IxOf(s \o t) = IxOf(s) \o IxOf(t)
<1>. DEFINE u == s \o t
            x == IxOf(s)
            y == IxOf(t)
            z == IxOf(u)
            w == x \o y
<1>1. IsJoined(u, s, t) /\ IsSequence(s) /\ IsSequence(t)
    BY Concatenated DEF AreSegments
<1>2. AreSequences(x) /\ AreSequences(y) /\ Len(x) = Len(s) /\ Len(y) = Len(t)
    BY IxAreSequences
<1>3. IsJoined(w, x, y)
    BY <1>2, Concatenated DEF AreSequences
<1>4. \A i \in DOMAIN s : x[i] = s[i].ix
    BY DEF IxOf
<1>5. \A i \in DOMAIN t : y[i] = t[i].ix
    BY DEF IxOf
<1>6. \A i \in DOMAIN u : z[i] = u[i].ix
    BY DEF IxOf
<1>7. AreSegments(u) => AreSequences(z) /\ Len(z) = Len(u)
    BY IxAreSequences
<1>. HIDE DEF u, w, x, y, z
<1>8. /\ DOMAIN s = 1 .. Len(s) /\ DOMAIN t = 1 .. Len(t) /\ DOMAIN u = 1 .. Len(u)
      /\ Len(s) \in Nat /\ Len(t) \in Nat /\ IsSequence(u) /\ Len(u) = Len(s) + Len(t)
    BY <1>1, SequenceParts DEF IsJoined
<1>9. ASSUME NEW i \in 1 .. Len(u)
      PROVE  IsSequence(u[i].ix) /\ w[i] = u[i].ix
  <2>1. CASE i \in 1 .. Len(s)
      BY <1>1, <1>2, <1>3, <1>4, <1>8, <2>1 DEF IsJoined, AreSegments
  <2>2. CASE i \notin 1 .. Len(s)
    <3>. DEFINE j == i - Len(s)
    <3>1. j \in 1 .. Len(t) /\ i = Len(s) + j
        BY <1>8, <2>2, Behind
    <3>. HIDE DEF j
    <3>2. u[i] = t[j] /\ w[i] = y[j] /\ j \in DOMAIN t
        BY <1>1, <1>2, <1>3, <1>8, <3>1 DEF IsJoined
    <3>. QED  BY <1>5, <3>2 DEF AreSegments
  <2>. QED  BY <2>1, <2>2
<1>10. AreSegments(u)
    BY <1>8, <1>9 DEF AreSegments
<1>11. IsSequence(z) /\ IsSequence(w) /\ Len(z) = Len(w)
    BY <1>2, <1>3, <1>7, <1>8, <1>10 DEF IsJoined, AreSequences
<1>12. \A i \in 1 .. Len(z) : z[i] = w[i]
    BY <1>6, <1>7, <1>8, <1>9, <1>10
<1>13. z = w
    BY <1>11, <1>12, SameElements
<1>. QED  BY <1>10, <1>13 DEF u, w, x, y, z

\* The same, all of them in one sequence.
LEMMA PositionsJoined ==
    ASSUME NEW s, AreSegments(s), NEW t, AreSegments(t)
    PROVE  AreSegments(s \o t) /\ PositionsOf(s \o t) = PositionsOf(s) \o PositionsOf(t)
<1>1. AreSegments(s \o t) /\ IxOf(s \o t) = IxOf(s) \o IxOf(t)
    BY IxOfJoined, Zenon
<1>2. AreSequences(IxOf(s)) /\ AreSequences(IxOf(t))
    BY IxAreSequences, Zenon
<1>3. FlattenSeq(IxOf(s) \o IxOf(t)) = FlattenSeq(IxOf(s)) \o FlattenSeq(IxOf(t))
    BY <1>2, FlattenJoined, Zenon
<1>. QED  BY <1>1, <1>3, Zenon DEF PositionsOf

\* No segment, no position.
LEMMA NoPositions == AreSegments(<<>>) /\ PositionsOf(<<>>) = <<>>
<1>1. AreSegments(<<>>)
    BY EmptyIsSequence DEF AreSegments
<1>2. IxOf(<<>>) = <<>>
  <2>1. AreSequences(IxOf(<<>>)) /\ Len(IxOf(<<>>)) = 0
      BY <1>1, IxAreSequences, EmptyIsSequence, Zenon
  <2>. QED  BY <2>1, EmptyUnique DEF AreSequences
<1>. QED  BY <1>1, <1>2, FlattenEmpty, Zenon DEF PositionsOf

\* The positions of segments that come group by group.
LEMMA PositionsOfGroups ==
    ASSUME NEW ss, IsSequence(ss), \A i \in DOMAIN ss : AreSegments(ss[i]),
           NEW pp, pp = [i \in DOMAIN ss |-> PositionsOf(ss[i])]
    PROVE  /\ AreSegments(FlattenSeq(ss)) /\ AreSequences(pp)
           /\ PositionsOf(FlattenSeq(ss)) = FlattenSeq(pp)
<1>. DEFINE l == Len(ss)
<1>1. l \in Nat /\ DOMAIN ss = 1 .. l
    BY SequenceParts
<1>2. AreSequences(ss)
    BY DEF AreSequences, AreSegments
<1>3. IsSequence(pp) /\ Len(pp) = l /\ DOMAIN pp = 1 .. l
    BY <1>1, ByElements
<1>4. AreSequences(pp)
  <2>1. \A i \in DOMAIN ss : IsSequence(PositionsOf(ss[i]))
      BY IxAreSequences, FlattenIsSequence, Zenon DEF PositionsOf
  <2>. QED  BY <1>1, <1>3, <2>1 DEF AreSequences
<1>5. PICK f : Joins(f, ss) /\ FlattenSeq(ss) = f[Len(ss)]
    BY <1>2, FlattenSteps
<1>6. PICK g : Joins(g, pp) /\ FlattenSeq(pp) = g[Len(pp)]
    BY <1>4, FlattenSteps
<1>. DEFINE S == {n \in 0 .. l : AreSegments(f[n]) /\ PositionsOf(f[n]) = g[n]}
<1>7. 0 \in S
  <2>1. f[0] = <<>> /\ g[0] = <<>>
      BY <1>5, <1>6 DEF Joins
  <2>2. 0 \in 0 .. l
      BY <1>1
  <2>. QED  BY <2>1, <2>2, NoPositions, Zenon
<1>8. \A n \in 0 .. l - 1 : n \in S => n + 1 \in S
  <2>. SUFFICES ASSUME NEW n \in 0 .. l - 1, AreSegments(f[n]), PositionsOf(f[n]) = g[n]
                PROVE  AreSegments(f[n + 1]) /\ PositionsOf(f[n + 1]) = g[n + 1]
      BY <1>1
  <2>1. n + 1 \in 1 .. l /\ (n + 1) - 1 = n
      BY <1>1
  <2>2. f[n + 1] = f[n] \o ss[n + 1] /\ g[n + 1] = g[n] \o pp[n + 1]
      BY <1>3, <1>5, <1>6, <2>1 DEF Joins
  <2>3. AreSegments(ss[n + 1]) /\ pp[n + 1] = PositionsOf(ss[n + 1])
      BY <1>1, <2>1
  <2>4. /\ AreSegments(f[n] \o ss[n + 1])
        /\ PositionsOf(f[n] \o ss[n + 1]) = PositionsOf(f[n]) \o PositionsOf(ss[n + 1])
      BY <2>3, PositionsJoined, Zenon
  <2>. QED  BY <2>2, <2>3, <2>4, Zenon
<1>9. \A n \in 0 .. l : n \in S
  <2>. HIDE DEF S, l
  <2>. QED  BY <1>1, <1>7, <1>8, UpTo, Zenon
<1>10. l \in S
    BY <1>1, <1>9
<1>. QED  BY <1>3, <1>4, <1>5, <1>6, <1>10

-----------------------------------------------------------------------------
(* Slices *)

\* The last position of slice p.
EndOfSlice(l, p, n) == Least(p * n, l)

\* A length l is cut every n into this many slices, none of which is empty.
LEMMA CountOfSlices ==
    ASSUME NEW l \in Nat \ {0}, NEW n \in Nat \ {0}
    PROVE  /\ CeilDiv(l, n) \in Nat \ {0} /\ l <= CeilDiv(l, n) * n
           /\ EndOfSlice(l, CeilDiv(l, n), n) = l
           /\ \A p \in 1 .. CeilDiv(l, n) :
                 /\ (p - 1) * n \in Nat /\ (p - 1) * n < l /\ p * n = (p - 1) * n + n
                 /\ EndOfSlice(l, p - 1, n) = (p - 1) * n
                 /\ EndOfSlice(l, p, n) \in (p - 1) * n + 1 .. l
                 /\ EndOfSlice(l, p, n) <= (p - 1) * n + n
<1>. DEFINE c == (l + n - 1) \div n
<1>1. c \in Int /\ c * n <= l + n - 1 /\ l <= c * n
    OBVIOUS
<1>2. CeilDiv(l, n) = c
    BY DEF CeilDiv
<1>. HIDE DEF c
<1>3. c \in Nat \ {0}
  <2>1. c > 0
    <3>1. CASE c <= 0
      <4>1. c * n <= 0
          BY <1>1, <3>1
      <4>. QED  BY <1>1, <4>1
    <3>. QED  BY <1>1, <3>1
  <2>. QED  BY <1>1, <2>1
<1>4. ASSUME NEW p \in 1 .. c
      PROVE  /\ (p - 1) * n \in Nat /\ (p - 1) * n < l /\ p * n = (p - 1) * n + n
             /\ EndOfSlice(l, p - 1, n) = (p - 1) * n
             /\ EndOfSlice(l, p, n) \in (p - 1) * n + 1 .. l
             /\ EndOfSlice(l, p, n) <= (p - 1) * n + n
  <2>1. p - 1 \in Nat /\ p \in Nat
      BY <1>3
  <2>2. (p - 1) * n \in Nat /\ p * n = (p - 1) * n + n
      BY <2>1
  <2>3. p * n <= c * n
      BY <1>3, <2>1
  <2>4. (p - 1) * n < l
      BY <1>1, <1>3, <2>1, <2>2, <2>3
  <2>5. EndOfSlice(l, p - 1, n) = (p - 1) * n
      BY <2>2, <2>4 DEF EndOfSlice, Least
  <2>6. EndOfSlice(l, p, n) = IF p * n < l THEN p * n ELSE l
      BY DEF EndOfSlice, Least
  <2>7. EndOfSlice(l, p, n) \in (p - 1) * n + 1 .. l /\ EndOfSlice(l, p, n) <= (p - 1) * n + n
      BY <2>2, <2>4, <2>6
  <2>. QED  BY <2>2, <2>4, <2>5, <2>7
<1>5. EndOfSlice(l, c, n) = l
  <2>1. EndOfSlice(l, c, n) = IF c * n < l THEN c * n ELSE l
      BY DEF EndOfSlice, Least
  <2>2. c * n \in Int
      BY <1>1
  <2>. QED  BY <1>1, <2>1, <2>2
<1>. QED  BY <1>1, <1>2, <1>3, <1>4, <1>5

\* A slice is the cut between two such positions.
LEMMA SliceIsCut ==
    ASSUME NEW s, IsSequence(s), Len(s) # 0, NEW n \in Nat \ {0}, NEW p \in 1 .. CeilDiv(Len(s), n)
    PROVE  /\ IsCut(Slice(s, p, n), s, (p - 1) * n + 1, EndOfSlice(Len(s), p, n))
           /\ Len(Slice(s, p, n)) \in 1 .. n
<1>. DEFINE a == (p - 1) * n + 1
            b == EndOfSlice(Len(s), p, n)
<1>1. Len(s) \in Nat \ {0}
    BY SequenceParts
<1>2. a \in Nat \ {0} /\ b \in Nat /\ a <= b /\ b <= Len(s) /\ b <= (p - 1) * n + n
  <2>. DEFINE l == Len(s)
  <2>. HIDE DEF l
  <2>1. l \in Nat \ {0} /\ p \in 1 .. CeilDiv(l, n)
      BY <1>1 DEF l
  <2>2. /\ (p - 1) * n \in Nat /\ EndOfSlice(l, p, n) \in (p - 1) * n + 1 .. l
        /\ EndOfSlice(l, p, n) <= (p - 1) * n + n
      BY <2>1, CountOfSlices
  <2>3. b = EndOfSlice(l, p, n) /\ l = Len(s)
      BY DEF l
  <2>. HIDE DEF b
  <2>. QED  BY <2>1, <2>2, <2>3
<1>3. Slice(s, p, n) = SubSeq(s, a, b)
    BY DEF Slice, EndOfSlice
<1>4. IsCut(SubSeq(s, a, b), s, a, b)
  <2>1. a <= b + 1
      BY <1>2
  <2>. HIDE DEF a, b
  <2>. QED  BY <1>2, <2>1, Cut
<1>5. Len(Slice(s, p, n)) = b - a + 1
    BY <1>3, <1>4 DEF IsCut
<1>6. b - a + 1 \in 1 .. n
  <2>1. (p - 1) * n \in Nat
      BY <1>1, CountOfSlices
  <2>. HIDE DEF b
  <2>. QED  BY <1>2, <2>1
<1>. QED  BY <1>3, <1>4, <1>5, <1>6

\* The slices of a sequence, one after the other, are the sequence.
LEMMA SlicesAreAll ==
    ASSUME NEW s, IsSequence(s), Len(s) # 0, NEW n \in Nat \ {0},
           NEW sl, sl = [p \in 1 .. CeilDiv(Len(s), n) |-> Slice(s, p, n)]
    PROVE  AreSequences(sl) /\ FlattenSeq(sl) = s
<1>. DEFINE l == Len(s)
            c == CeilDiv(l, n)
            e(p) == EndOfSlice(l, p, n)
<1>1. l \in Nat \ {0}
    BY SequenceParts
<1>2. /\ c \in Nat \ {0} /\ e(c) = l
      /\ \A p \in 1 .. c : /\ (p - 1) * n \in Nat /\ e(p - 1) = (p - 1) * n
                           /\ e(p) \in (p - 1) * n + 1 .. l
  <2>. HIDE DEF l
  <2>. QED  BY <1>1, CountOfSlices
<1>. HIDE DEF c
<1>3. \A p \in 1 .. c : IsCut(Slice(s, p, n), s, (p - 1) * n + 1, e(p))
    BY SliceIsCut DEF c
<1>4. IsSequence(sl) /\ Len(sl) = c /\ DOMAIN sl = 1 .. c /\ \A p \in 1 .. c : sl[p] = Slice(s, p, n)
    BY <1>2, ByElements DEF c
<1>5. AreSequences(sl)
    BY <1>3, <1>4 DEF AreSequences, IsCut
<1>6. PICK f : Joins(f, sl) /\ FlattenSeq(sl) = f[Len(sl)]
    BY <1>5, FlattenSteps
<1>. DEFINE S == {p \in 0 .. c : Len(f[p]) = e(p) /\ \A i \in 1 .. e(p) : f[p][i] = s[i]}
<1>a. c \in Nat
    BY <1>2
<1>7. 0 \in S
  <2>1. f[0] = <<>>
      BY <1>6 DEF Joins
  <2>2. e(0) = 0
      BY <1>1 DEF EndOfSlice, Least
  <2>3. Len(f[0]) = 0
      BY <2>1
  <2>. QED  BY <1>2, <2>2, <2>3
<1>8. \A p \in 0 .. c - 1 : p \in S => p + 1 \in S
  <2>. SUFFICES ASSUME NEW p \in 0 .. c - 1, Len(f[p]) = e(p), \A i \in 1 .. e(p) : f[p][i] = s[i]
                PROVE  Len(f[p + 1]) = e(p + 1) /\ \A i \in 1 .. e(p + 1) : f[p + 1][i] = s[i]
      BY <1>a
  <2>. DEFINE q == p + 1
              a == (q - 1) * n
              t == sl[q]
  <2>1. q \in 1 .. c /\ q - 1 = p /\ p \in 0 .. c
      BY <1>a
  <2>. HIDE DEF q
  <2>2. f[q] = f[p] \o t /\ IsSequence(f[p])
      BY <1>4, <1>6, <2>1 DEF Joins
  <2>3. IsCut(t, s, a + 1, e(q))
      BY <1>3, <1>4, <2>1
  <2>4. a \in Nat /\ e(p) = a /\ e(q) \in a + 1 .. l
      BY <1>2, <2>1
  <2>5. IsJoined(f[q], f[p], t)
      BY <2>2, <2>3, Concatenated, Zenon DEF IsCut
  <2>. HIDE DEF a, t, e, l
  <2>6. l \in Nat /\ e(q) \in Nat /\ Len(t) = e(q) - a /\ \A i \in 1 .. e(q) - a : t[i] = s[a + i]
    <3>1. l \in Nat /\ e(q) \in Nat
        BY <1>1, <2>4
    <3>2. Len(t) = e(q) - (a + 1) + 1 /\ \A i \in 1 .. e(q) - (a + 1) + 1 : t[i] = s[(a + 1) + i - 1]
        BY <2>3 DEF IsCut
    <3>3. e(q) - (a + 1) + 1 = e(q) - a /\ \A i \in 1 .. e(q) - a : (a + 1) + i - 1 = a + i
        BY <2>4, <3>1
    <3>. QED  BY <3>1, <3>2, <3>3
  <2>7. Len(f[p]) = a /\ Len(f[q]) = a + Len(t)
      BY <2>4, <2>5 DEF IsJoined
  <2>8. Len(f[q]) = e(q)
      BY <2>4, <2>6, <2>7
  <2>9. ASSUME NEW i \in 1 .. e(q)
        PROVE  f[q][i] = s[i]
    <3>1. CASE i \in 1 .. a
        BY <2>4, <2>5, <2>7, <3>1 DEF IsJoined
    <3>2. CASE i \notin 1 .. a
      <4>1. i - a \in 1 .. e(q) - a /\ i = a + (i - a)
          BY <2>4, <2>6, <3>2
      <4>2. f[q][a + (i - a)] = t[i - a] /\ t[i - a] = s[a + (i - a)]
          BY <2>5, <2>6, <2>7, <4>1 DEF IsJoined
      <4>. QED  BY <4>1, <4>2
    <3>. QED  BY <3>1, <3>2
  <2>. QED  BY <2>8, <2>9 DEF q
<1>9. c \in S
  <2>1. \A p \in 0 .. c : p \in S
    <3>. HIDE DEF S, e, l
    <3>. QED  BY <1>2, <1>7, <1>8, UpTo, Zenon
  <2>2. c \in 0 .. c
      BY <1>2
  <2>. QED  BY <2>1, <2>2, Zenon
<1>. DEFINE w == FlattenSeq(sl)
<1>10. IsSequence(w) /\ Len(w) = l /\ \A i \in 1 .. l : w[i] = s[i]
  <2>1. w = f[c] /\ IsSequence(w)
      BY <1>4, <1>5, <1>6, FlattenIsSequence
  <2>2. Len(f[c]) = e(c) /\ \A i \in 1 .. e(c) : f[c][i] = s[i]
      BY <1>9
  <2>. HIDE DEF w, e
  <2>. QED  BY <1>2, <2>1, <2>2
<1>11. w = s
  <2>. HIDE DEF w
  <2>. QED  BY <1>10, SameElements
<1>. QED  BY <1>5, <1>11

-----------------------------------------------------------------------------
(* Values and instructions *)

PowerBy(f) == f = [k \in 0 .. WordBits |-> IF k = 0 THEN 1 ELSE 2 * f[k - 1]]

\* No power of two is zero.
LEMMA PowerPositive == \A k \in 0 .. WordBits : Power[k] \in Nat \ {0}
<1>. DEFINE step == [i \in 1 .. WordBits |-> [x \in Nat \ {0} |-> 2 * x]]
            h == CHOOSE f : PowerBy(f)
<1>1. WordBits \in Nat
    BY MachineAssumption
<1>2. step \in [1 .. WordBits -> [Nat \ {0} -> Nat \ {0}]]
    OBVIOUS
<1>3. PICK g : Iterates(g, WordBits, Nat \ {0}, 1, step)
  <2>. HIDE DEF step
  <2>1. 1 \in Nat \ {0}
      OBVIOUS
  <2>. QED  BY <1>1, <1>2, <2>1, IterationExists, Zenon
<1>4. /\ g = [k \in 0 .. WordBits |-> g[k]] /\ g[0] = 1
      /\ \A k \in 0 .. WordBits : g[k] \in Nat \ {0}
      /\ \A k \in 1 .. WordBits : g[k] = step[k][g[k - 1]]
    BY <1>3 DEF Iterates
<1>5. \A k \in 1 .. WordBits : g[k] = 2 * g[k - 1]
  <2>. TAKE k \in 1 .. WordBits
  <2>1. k - 1 \in 0 .. WordBits
      BY <1>1
  <2>. QED  BY <1>4, <2>1
<1>6. PowerBy(g)
  <2>1. ASSUME NEW k \in 0 .. WordBits
        PROVE  g[k] = IF k = 0 THEN 1 ELSE 2 * g[k - 1]
    <3>1. k = 0 \/ k \in 1 .. WordBits
        BY <1>1
    <3>. QED  BY <1>4, <1>5, <3>1
  <2>. QED  BY <1>4, <2>1 DEF PowerBy
<1>7. PowerBy(h)
    BY <1>6, Zenon
<1>8. Power = h
    BY Zenon DEF Power, PowerBy
<1>. HIDE DEF h
<1>9. h[0] = 1 /\ \A k \in 1 .. WordBits : h[k] = 2 * h[k - 1]
    BY <1>1, <1>7 DEF PowerBy
<1>. DEFINE S == {k \in 0 .. WordBits : h[k] \in Nat \ {0}}
<1>10. 0 \in S
    BY <1>1, <1>9
<1>11. \A k \in 0 .. WordBits - 1 : k \in S => k + 1 \in S
  <2>. SUFFICES ASSUME NEW k \in 0 .. WordBits - 1, h[k] \in Nat \ {0}
                PROVE  h[k + 1] \in Nat \ {0}
      BY <1>1
  <2>1. k + 1 \in 1 .. WordBits /\ (k + 1) - 1 = k
      BY <1>1
  <2>2. h[k + 1] = 2 * h[k]
      BY <1>9, <2>1
  <2>. QED  BY <2>2
<1>12. \A k \in 0 .. WordBits : k \in S
  <2>. HIDE DEF S
  <2>. QED  BY <1>1, <1>10, <1>11, UpTo, Zenon
<1>. QED  BY <1>8, <1>12

\* What the machine computes with: constants are words.
IsValue(v) == IsConst(v) => v[2] \in Nat

AreValues(s) == IsSequence(s) /\ \A i \in 1 .. Len(s) : IsValue(s[i])

IsInstruction(op) ==
    /\ op[1] \in {"const", "drop"} \cup LocalKinds \cup PureKinds \cup OpaqueKinds
    /\ Pops(op) \in Nat /\ Pushes(op) \in Nat
    /\ op[1] = "const" => op[2] \in Nat
    /\ op[1] \in LocalKinds => op[2] \in 0 .. NumLocals - 1

\* A constant that is natural before it is wrapped is natural after.
LEMMA ConstIsValue ==
    ASSUME NEW n \in Nat
    PROVE  IsValue(Const(n))
<1>1. WordSize \in Nat \ {0}
    BY PowerPositive, MachineAssumption DEF WordSize
<1>2. n % WordSize \in Nat
    BY <1>1
<1>3. Const(n)[2] = n % WordSize
    BY DEF Const
<1>. QED  BY <1>2, <1>3 DEF IsValue

\* What two values are folded or combined to is a value.
LEMMA ApplyIsValue ==
    ASSUME NEW kind \in PureKinds, NEW a, IsValue(a), NEW b, IsValue(b)
    PROVE  IsValue(Apply(kind, a, b))
<1>1. CASE IsConst(a) /\ IsConst(b)
  <2>1. a[2] \in Nat /\ b[2] \in Nat
      BY <1>1 DEF IsValue
  <2>2. b[2] % WordBits \in 0 .. WordBits
      BY <2>1, MachineAssumption
  <2>3. Power[b[2] % WordBits] \in Nat \ {0}
      BY <2>2, PowerPositive
  <2>. DEFINE p == Power[b[2] % WordBits]
              n == IF kind = "mul" THEN a[2] * b[2] ELSE a[2] \div p
  <2>. HIDE DEF p
  <2>4. n \in Nat
    <3>1. p \in Nat \ {0}
        BY <2>3 DEF p
    <3>2. a[2] \div p \in Nat
        BY <2>1, <3>1
    <3>3. a[2] * b[2] \in Nat
        BY <2>1
    <3>. QED  BY <3>2, <3>3
  <2>5. Apply(kind, a, b) = Const(n)
      BY <1>1 DEF Apply, Fold, p
  <2>. HIDE DEF n
  <2>. QED  BY <2>4, <2>5, ConstIsValue
<1>2. CASE ~(IsConst(a) /\ IsConst(b))
  <2>1. Apply(kind, a, b) = <<kind, a, b>>
      BY <1>2 DEF Apply
  <2>2. <<kind, a, b>>[1] = kind /\ kind # "const"
      BY DEF PureKinds
  <2>. QED  BY <2>1, <2>2 DEF IsValue, IsConst
<1>. QED  BY <1>1, <1>2

\* One value.
LEMMA OneValue ==
    ASSUME NEW v, IsValue(v)
    PROVE  AreValues(<<v>>) /\ Len(<<v>>) = 1
<1>1. <<v>> \in Seq({v}) /\ Len(<<v>>) = 1 /\ <<v>>[1] = v
    OBVIOUS
<1>2. IsSequence(<<v>>)
    BY <1>1, TypedSequence, Zenon
<1>. QED  BY <1>1, <1>2 DEF AreValues

\* What an instruction pushes are as many values as it says.
LEMMA OutputsAreValues ==
    ASSUME NEW op, IsInstruction(op), NEW m, NEW args, AreValues(args), Len(args) = Pops(op),
           op[1] = "get" => IsValue(m.locals[op[2]])
    PROVE  AreValues(Outputs(m, op, args)) /\ Len(Outputs(m, op, args)) = Pushes(op)
<1>. DEFINE out == Outputs(m, op, args)
<1>1. CASE op[1] = "const"
  <2>1. out = <<Const(op[2])>>
    <3>1. op[1] \notin {"get", "tee"} \cup PureKinds \cup OpaqueKinds
        BY <1>1 DEF PureKinds, OpaqueKinds
    <3>2. op[1] # "get" /\ op[1] # "tee" /\ op[1] \notin PureKinds /\ op[1] \notin OpaqueKinds
        BY <3>1
    <3>. QED  BY <1>1, <3>2, Zenon DEF Outputs
  <2>2. Pushes(op) = 1
      BY <1>1 DEF Pushes, FixedPushes
  <2>3. IsValue(Const(op[2]))
      BY <1>1, ConstIsValue DEF IsInstruction
  <2>. QED  BY <2>1, <2>2, <2>3, OneValue, Zenon
<1>2. CASE op[1] = "get"
  <2>1. out = <<m.locals[op[2]]>>
    <3>1. op[1] # "const" /\ op[1] # "tee" /\ op[1] \notin PureKinds /\ op[1] \notin OpaqueKinds
        BY <1>2 DEF PureKinds, OpaqueKinds
    <3>. QED  BY <1>2, <3>1, Zenon DEF Outputs
  <2>2. Pushes(op) = 1
      BY <1>2 DEF Pushes, FixedPushes
  <2>. QED  BY <1>2, <2>1, <2>2, OneValue, Zenon
<1>3. CASE op[1] = "tee"
  <2>1. out = args
    <3>1. op[1] # "const" /\ op[1] # "get" /\ op[1] \notin PureKinds /\ op[1] \notin OpaqueKinds
        BY <1>3 DEF PureKinds, OpaqueKinds
    <3>. QED  BY <1>3, <3>1, Zenon DEF Outputs
  <2>2. Pushes(op) = 1 /\ Pops(op) = 1
      BY <1>3 DEF Pops, Pushes, FixedPops, FixedPushes
  <2>. QED  BY <2>1, <2>2
<1>4. CASE op[1] \in PureKinds
  <2>1. Pushes(op) = 1 /\ Pops(op) = 2
      BY <1>4 DEF PureKinds, Pops, Pushes, FixedPops, FixedPushes
  <2>2. out = <<Apply(op[1], args[1], args[2])>>
    <3>1. op[1] # "const" /\ op[1] # "get" /\ op[1] # "tee" /\ op[1] \notin OpaqueKinds
        BY <1>4 DEF PureKinds, OpaqueKinds
    <3>. QED  BY <1>4, <3>1, Zenon DEF Outputs
  <2>3. IsValue(args[1]) /\ IsValue(args[2])
      BY <2>1 DEF AreValues
  <2>4. IsValue(Apply(op[1], args[1], args[2]))
      BY <1>4, <2>3, ApplyIsValue
  <2>. QED  BY <2>1, <2>2, <2>4, OneValue, Zenon
<1>5. CASE op[1] \in OpaqueKinds
  <2>1. out = [j \in 1 .. Pushes(op) |-> Result(Id(op), j - 1)]
    <3>1. op[1] # "const" /\ op[1] # "get" /\ op[1] # "tee" /\ op[1] \notin PureKinds
        BY <1>5 DEF PureKinds, OpaqueKinds
    <3>. QED  BY <1>5, <3>1, Zenon DEF Outputs
  <2>2. Pushes(op) \in Nat
      BY DEF IsInstruction
  <2>3. \A j \in 1 .. Pushes(op) : out[j] = Result(Id(op), j - 1)
      BY <2>1
  <2>4. IsSequence(out) /\ Len(out) = Pushes(op)
    <3>1. out = [j \in 1 .. Pushes(op) |-> out[j]]
        BY <2>1
    <3>. HIDE DEF out
    <3>. QED  BY <2>2, <3>1, ByElements
  <2>5. \A j : IsValue(Result(Id(op), j))
      BY DEF Result, IsValue, IsConst
  <2>. QED  BY <2>3, <2>4, <2>5 DEF AreValues
<1>6. CASE op[1] \in {"set", "drop"}
  <2>1. out = <<>>
    <3>1. /\ op[1] # "const" /\ op[1] # "get" /\ op[1] # "tee"
          /\ op[1] \notin PureKinds /\ op[1] \notin OpaqueKinds
        BY <1>6 DEF PureKinds, OpaqueKinds
    <3>. QED  BY <3>1, Zenon DEF Outputs
  <2>2. Pushes(op) = 0
      BY <1>6 DEF Pushes, FixedPushes
  <2>3. AreValues(<<>>)
      BY EmptyIsSequence DEF AreValues
  <2>. QED  BY <2>1, <2>2, <2>3, EmptyIsSequence, Zenon
<1>. QED  BY <1>1, <1>2, <1>3, <1>4, <1>5, <1>6 DEF IsInstruction, LocalKinds

-----------------------------------------------------------------------------
(* One instruction *)

\* A machine of the function: values on the stack and in the locals, and values
\* consumed by the opaque instructions.
IsMachine(m) ==
    /\ m = [stack |-> m.stack, locals |-> m.locals, meta |-> m.meta, ok |-> m.ok]
    /\ m.ok \in BOOLEAN
    /\ AreValues(m.stack)
    /\ m.locals = [s \in 0 .. NumLocals - 1 |-> m.locals[s]]
    /\ \A s \in 0 .. NumLocals - 1 : IsValue(m.locals[s])
    /\ IsSequence(m.meta)
    /\ \A i \in 1 .. Len(m.meta) : AreValues(m.meta[i].in)

\* Why an instruction of the function may fail.
Stops(m, op, max) ==
    \/ ~m.ok
    \/ Len(m.stack) < Pops(op)
    \/ Pushes(op) > 0 /\ Len(m.stack) - Pops(op) + Pushes(op) > max

\* Machines that differ at most in what they noted.
Agree(m, n) == m.stack = n.stack /\ m.locals = n.locals /\ m.ok = n.ok

\* A part of values.
LEMMA ValuesCut ==
    ASSUME NEW s, AreValues(s), NEW a \in Nat \ {0}, NEW b \in Nat, b <= Len(s), a <= b + 1
    PROVE  AreValues(SubSeq(s, a, b)) /\ Len(SubSeq(s, a, b)) = b - a + 1
<1>. DEFINE u == SubSeq(s, a, b)
<1>1. IsCut(u, s, a, b) /\ Len(s) \in Nat
    BY Cut, SequenceParts DEF AreValues
<1>. HIDE DEF u
<1>2. ASSUME NEW i \in 1 .. Len(u)
      PROVE  IsValue(u[i])
  <2>1. i \in 1 .. b - a + 1 /\ a + i - 1 \in 1 .. Len(s)
      BY <1>1 DEF IsCut
  <2>2. u[i] = s[a + i - 1]
      BY <1>1, <2>1 DEF IsCut
  <2>. QED  BY <2>1, <2>2 DEF AreValues
<1>3. IsSequence(u) /\ Len(u) = b - a + 1
    BY <1>1 DEF IsCut
<1>. QED  BY <1>2, <1>3 DEF u, AreValues

\* Values and values.
LEMMA ValuesJoined ==
    ASSUME NEW s, AreValues(s), NEW t, AreValues(t)
    PROVE  AreValues(s \o t) /\ Len(s \o t) = Len(s) + Len(t)
<1>. DEFINE u == s \o t
<1>1. IsJoined(u, s, t) /\ Len(s) \in Nat /\ Len(t) \in Nat
    BY Concatenated, SequenceParts DEF AreValues
<1>. HIDE DEF u
<1>2. IsSequence(u) /\ Len(u) = Len(s) + Len(t)
    BY <1>1 DEF IsJoined
<1>3. ASSUME NEW i \in 1 .. Len(u)
      PROVE  IsValue(u[i])
  <2>1. CASE i \in 1 .. Len(s)
      BY <1>1, <2>1 DEF IsJoined, AreValues
  <2>2. CASE i \notin 1 .. Len(s)
    <3>. DEFINE j == i - Len(s)
    <3>1. j \in 1 .. Len(t) /\ i = Len(s) + j
        BY <1>1, <1>2, <2>2, Behind
    <3>. HIDE DEF j
    <3>2. u[i] = t[j]
        BY <1>1, <3>1 DEF IsJoined
    <3>. QED  BY <3>1, <3>2 DEF AreValues
  <2>. QED  BY <2>1, <2>2
<1>. QED  BY <1>2, <1>3 DEF u, AreValues

\* Values from the last to the first.
LEMMA ValuesReversed ==
    ASSUME NEW s, AreValues(s)
    PROVE  AreValues(Reverse(s)) /\ Len(Reverse(s)) = Len(s)
<1>. DEFINE u == Reverse(s)
<1>1. Len(s) \in Nat
    BY SequenceParts DEF AreValues
<1>2. u = [i \in 1 .. Len(s) |-> u[i]] /\ \A i \in 1 .. Len(s) : u[i] = s[(Len(s) - i) + 1]
    BY DEF Reverse
<1>. HIDE DEF u
<1>3. IsSequence(u) /\ Len(u) = Len(s)
    BY <1>1, <1>2, ByElements
<1>4. \A i \in 1 .. Len(u) : IsValue(u[i])
  <2>. TAKE i \in 1 .. Len(u)
  <2>1. (Len(s) - i) + 1 \in 1 .. Len(s)
      BY <1>1, <1>3
  <2>. QED  BY <1>2, <1>3, <2>1 DEF AreValues
<1>. QED  BY <1>3, <1>4 DEF u, AreValues

\* Of the ways to fail, an instruction of the function knows these only.
LEMMA ExecByCase ==
    ASSUME NEW m, IsMachine(m), NEW op, IsInstruction(op), NEW max \in Int
    PROVE  LET height == Len(m.stack)
               rest   == SubSeq(m.stack, 1, height - Pops(op))
               args   == SubSeq(m.stack, height - Pops(op) + 1, height)
               note   == [id |-> Id(op), out |-> Outputs(m, op, args),
                          in |-> IF op[1] \in {"call", "opaque"} THEN args ELSE Reverse(args)]
           IN  Exec(m, op, max) =
                   IF Stops(m, op, max) THEN [m EXCEPT !.ok = FALSE]
                   ELSE [stack  |-> rest \o Outputs(m, op, args),
                         locals |-> IF op[1] \in {"set", "tee"}
                                    THEN [m.locals EXCEPT ![op[2]] = args[1]] ELSE m.locals,
                         meta   |-> IF IsOpaque(op) THEN Append(m.meta, note) ELSE m.meta,
                         ok     |-> TRUE]
<1>1. ~(op[1] \in LocalKinds /\ op[2] \notin DOMAIN m.locals)
  <2>1. DOMAIN m.locals = 0 .. NumLocals - 1
      BY DEF IsMachine
  <2>. QED  BY <2>1 DEF IsInstruction
<1>. QED  BY <1>1, Zenon DEF Exec, Stops

\* A failed instruction leaves everything else as it was.
LEMMA ExecStops ==
    ASSUME NEW m, IsMachine(m), NEW op, IsInstruction(op), NEW max \in Int, Stops(m, op, max)
    PROVE  /\ IsMachine(Exec(m, op, max)) /\ ~Exec(m, op, max).ok
           /\ Exec(m, op, max).stack = m.stack /\ Exec(m, op, max).locals = m.locals
           /\ Exec(m, op, max).meta = m.meta
<1>. DEFINE n == Exec(m, op, max)
<1>1. n = [m EXCEPT !.ok = FALSE]
    BY ExecByCase, Zenon
<1>2. m = [stack |-> m.stack, locals |-> m.locals, meta |-> m.meta, ok |-> m.ok]
    BY DEF IsMachine
<1>. HIDE DEF n
<1>3. n = [stack |-> m.stack, locals |-> m.locals, meta |-> m.meta, ok |-> FALSE]
  <2>1. m \in [stack : {m.stack}, locals : {m.locals}, meta : {m.meta}, ok : {m.ok}]
      BY <1>2
  <2>. QED  BY <1>1, <2>1
<1>4. n.stack = m.stack /\ n.locals = m.locals /\ n.meta = m.meta /\ n.ok = FALSE
    BY <1>3
<1>5. IsMachine(n)
    BY <1>3, <1>4, Zenon DEF IsMachine
<1>. QED  BY <1>4, <1>5 DEF n

\* An instruction that has its operands takes them from the stack, and pushes as
\* many values as it says.
LEMMA StackParts ==
    ASSUME NEW m, IsMachine(m), NEW op, IsInstruction(op), ~(Len(m.stack) < Pops(op))
    PROVE  LET height == Len(m.stack)
               rest   == SubSeq(m.stack, 1, height - Pops(op))
               args   == SubSeq(m.stack, height - Pops(op) + 1, height)
               out    == Outputs(m, op, args)
           IN  /\ height \in Nat /\ Pops(op) \in Nat /\ Pushes(op) \in Nat /\ height >= Pops(op)
               /\ AreValues(rest) /\ Len(rest) = height - Pops(op)
               /\ AreValues(args) /\ Len(args) = Pops(op)
               /\ AreValues(out) /\ Len(out) = Pushes(op)
               /\ AreValues(rest \o out) /\ Len(rest \o out) = Len(rest) + Len(out)
<1>. DEFINE height == Len(m.stack)
            rest   == SubSeq(m.stack, 1, height - Pops(op))
            args   == SubSeq(m.stack, height - Pops(op) + 1, height)
            out    == Outputs(m, op, args)
<1>1. height \in Nat /\ Pops(op) \in Nat /\ Pushes(op) \in Nat /\ height >= Pops(op)
  <2>1. height \in Nat
      BY SequenceParts DEF IsMachine, AreValues
  <2>2. Pops(op) \in Nat /\ Pushes(op) \in Nat
      BY DEF IsInstruction
  <2>3. ~(height < Pops(op))
      OBVIOUS
  <2>. HIDE DEF height
  <2>. QED  BY <2>1, <2>2, <2>3
<1>2. AreValues(rest) /\ Len(rest) = height - Pops(op) /\ AreValues(args) /\ Len(args) = Pops(op)
  <2>. DEFINE b == height - Pops(op)
  <2>1. b \in Nat /\ b <= height /\ height - b = Pops(op)
    <3>. HIDE DEF height
    <3>. QED  BY <1>1
  <2>. HIDE DEF b
  <2>2. AreValues(m.stack)
      BY DEF IsMachine
  <2>3. AreValues(SubSeq(m.stack, 1, b)) /\ Len(SubSeq(m.stack, 1, b)) = b - 1 + 1
      BY <1>1, <2>1, <2>2, ValuesCut
  <2>4. AreValues(SubSeq(m.stack, b + 1, height)) /\ Len(SubSeq(m.stack, b + 1, height)) = height - (b + 1) + 1
    <3>. DEFINE a == b + 1
    <3>1. a \in Nat \ {0} /\ a <= height + 1
        BY <1>1, <2>1
    <3>. HIDE DEF a
    <3>2. AreValues(SubSeq(m.stack, a, height)) /\ Len(SubSeq(m.stack, a, height)) = height - a + 1
        BY <1>1, <2>2, <3>1, ValuesCut
    <3>. QED  BY <3>2 DEF a
  <2>5. b - 1 + 1 = b /\ height - (b + 1) + 1 = Pops(op)
    <3>. HIDE DEF height
    <3>. QED  BY <1>1, <2>1
  <2>. QED  BY <2>3, <2>4, <2>5 DEF b
<1>. HIDE DEF rest, args
<1>3. AreValues(out) /\ Len(out) = Pushes(op)
  <2>1. op[1] = "get" => IsValue(m.locals[op[2]])
      BY DEF IsInstruction, IsMachine, LocalKinds
  <2>. QED  BY <1>2, <2>1, OutputsAreValues
<1>. HIDE DEF out
<1>4. AreValues(rest \o out) /\ Len(rest \o out) = Len(rest) + Len(out)
    BY <1>2, <1>3, ValuesJoined
<1>. QED  BY <1>1, <1>2, <1>3, <1>4 DEF rest, args, out

\* What an instruction that does not fail leads to.
LEMMA ExecGoes ==
    ASSUME NEW m, IsMachine(m), NEW op, IsInstruction(op), NEW max \in Int, ~Stops(m, op, max)
    PROVE  /\ IsMachine(Exec(m, op, max)) /\ Exec(m, op, max).ok
           /\ Len(Exec(m, op, max).stack) = Len(m.stack) - Pops(op) + Pushes(op)
           /\ ~IsOpaque(op) => Exec(m, op, max).meta = m.meta
           /\ IsOpaque(op) => \E note : /\ Exec(m, op, max).meta = Append(m.meta, note)
                                        /\ note.id = Id(op) /\ AreValues(note.in)
                                        /\ Len(note.in) = Pops(op)
<1>. DEFINE height == Len(m.stack)
            rest   == SubSeq(m.stack, 1, height - Pops(op))
            args   == SubSeq(m.stack, height - Pops(op) + 1, height)
            out    == Outputs(m, op, args)
            note   == [id |-> Id(op), out |-> out,
                       in |-> IF op[1] \in {"call", "opaque"} THEN args ELSE Reverse(args)]
            locals == IF op[1] \in {"set", "tee"} THEN [m.locals EXCEPT ![op[2]] = args[1]]
                      ELSE m.locals
            meta   == IF IsOpaque(op) THEN Append(m.meta, note) ELSE m.meta
            n == Exec(m, op, max)
<1>1. n = [stack |-> rest \o out, locals |-> locals, meta |-> meta, ok |-> TRUE]
    BY ExecByCase, Zenon
<1>2. /\ height \in Nat /\ Pops(op) \in Nat /\ Pushes(op) \in Nat /\ height >= Pops(op)
      /\ AreValues(rest) /\ Len(rest) = height - Pops(op)
      /\ AreValues(args) /\ Len(args) = Pops(op)
      /\ AreValues(out) /\ Len(out) = Pushes(op)
      /\ AreValues(rest \o out) /\ Len(rest \o out) = Len(rest) + Len(out)
  <2>1. ~(Len(m.stack) < Pops(op))
      BY Zenon DEF Stops
  <2>. QED  BY <2>1, StackParts, Zenon
<1>. HIDE DEF rest, args, out
<1>3. /\ locals = [s \in 0 .. NumLocals - 1 |-> locals[s]]
      /\ \A s \in 0 .. NumLocals - 1 : IsValue(locals[s])
  <2>1. /\ m.locals = [s \in 0 .. NumLocals - 1 |-> m.locals[s]]
        /\ \A s \in 0 .. NumLocals - 1 : IsValue(m.locals[s])
      BY DEF IsMachine
  <2>2. CASE op[1] \in {"set", "tee"}
    <3>1. Pops(op) = 1
        BY <2>2 DEF Pops, FixedPops
    <3>2. IsValue(args[1])
        BY <1>2, <3>1 DEF AreValues
    <3>3. op[2] \in 0 .. NumLocals - 1
        BY <2>2 DEF IsInstruction, LocalKinds
    <3>4. locals = [m.locals EXCEPT ![op[2]] = args[1]]
        BY <2>2
    <3>. HIDE DEF locals
    <3>5. locals = [s \in 0 .. NumLocals - 1 |-> IF s = op[2] THEN args[1] ELSE m.locals[s]]
        BY <2>1, <3>3, <3>4
    <3>. QED  BY <2>1, <3>2, <3>5
  <2>3. CASE op[1] \notin {"set", "tee"}
      BY <2>1, <2>3
  <2>. QED  BY <2>2, <2>3
<1>. HIDE DEF locals
<1>4. AreValues(note.in) /\ Len(note.in) = Pops(op) /\ note.id = Id(op)
    BY <1>2, ValuesReversed
<1>. HIDE DEF note
<1>5. IsSequence(m.meta) /\ \A i \in 1 .. Len(m.meta) : AreValues(m.meta[i].in)
    BY DEF IsMachine
<1>6. IsSequence(meta) /\ \A i \in 1 .. Len(meta) : AreValues(meta[i].in)
  <2>1. CASE ~IsOpaque(op)
      BY <1>5, <2>1
  <2>2. CASE IsOpaque(op)
    <3>1. IsAppended(meta, m.meta, note) /\ Len(m.meta) \in Nat
        BY <1>5, <2>2, Appended, SequenceParts
    <3>. HIDE DEF meta
    <3>2. ASSUME NEW i \in 1 .. Len(meta)
          PROVE  AreValues(meta[i].in)
      <4>1. i \in 1 .. Len(m.meta) \/ i = Len(m.meta) + 1
          BY <3>1 DEF IsAppended
      <4>2. CASE i \in 1 .. Len(m.meta)
          BY <1>5, <3>1, <4>2 DEF IsAppended
      <4>3. CASE i = Len(m.meta) + 1
          BY <1>4, <3>1, <4>3 DEF IsAppended
      <4>. QED  BY <4>1, <4>2, <4>3
    <3>. QED  BY <3>1, <3>2 DEF IsAppended
  <2>. QED  BY <2>1, <2>2
<1>7. n.stack = rest \o out /\ n.locals = locals /\ n.meta = meta /\ n.ok = TRUE
    BY <1>1
<1>8. n = [stack |-> n.stack, locals |-> n.locals, meta |-> n.meta, ok |-> n.ok]
    BY <1>1, <1>7, Zenon
<1>9. IsMachine(n)
  <2>1. n.ok \in BOOLEAN
      BY <1>7
  <2>. HIDE DEF n, meta
  <2>. QED  BY <1>2, <1>3, <1>6, <1>7, <1>8, <2>1, Zenon DEF IsMachine
<1>10. Len(n.stack) = height - Pops(op) + Pushes(op)
    BY <1>2, <1>7
<1>11. (~IsOpaque(op) => n.meta = m.meta) /\ (IsOpaque(op) => n.meta = Append(m.meta, note))
    BY <1>7
<1>. HIDE DEF n
<1>. QED  BY <1>4, <1>7, <1>9, <1>10, <1>11 DEF n

\* An instruction that fails leaves the locals, and a stack below the bound.
LEMMA BrokenLeaves ==
    ASSUME NEW m, IsMachine(m), m.ok, NEW op, IsInstruction(op), NEW max \in Nat, Stops(m, op, max)
    PROVE  LET n == Broken(m, op, max)
           IN  n.locals = m.locals /\ Len(n.stack) \in Nat /\ Len(n.stack) <= max
<1>. DEFINE height == Len(m.stack)
            rest   == SubSeq(m.stack, 1, height - Pops(op))
            args   == SubSeq(m.stack, height - Pops(op) + 1, height)
            all    == rest \o Outputs(m, op, args)
            n      == Broken(m, op, max)
<1>1. n = IF height < Pops(op) THEN [m EXCEPT !.stack = <<>>]
          ELSE [m EXCEPT !.stack = SubSeq(all, 1, max)]
  <2>1. ~(op[1] \in LocalKinds /\ op[2] \notin DOMAIN m.locals)
    <3>1. DOMAIN m.locals = 0 .. NumLocals - 1
        BY DEF IsMachine
    <3>. QED  BY <3>1 DEF IsInstruction
  <2>. QED  BY <2>1, Zenon DEF Broken
<1>2. ASSUME NEW stack
      PROVE  [m EXCEPT !.stack = stack].stack = stack /\ [m EXCEPT !.stack = stack].locals = m.locals
  <2>1. m = [stack |-> m.stack, locals |-> m.locals, meta |-> m.meta, ok |-> m.ok]
      BY DEF IsMachine
  <2>2. m \in [stack : {m.stack}, locals : {m.locals}, meta : {m.meta}, ok : {m.ok}]
      BY <2>1
  <2>. QED  BY <2>2
<1>3. CASE height < Pops(op)
  <2>1. n = [m EXCEPT !.stack = <<>>]
      BY <1>1, <1>3
  <2>2. n.stack = <<>> /\ n.locals = m.locals
      BY <1>2, <2>1
  <2>. QED  BY <2>2, EmptyIsSequence
<1>4. CASE ~(height < Pops(op))
  <2>1. n = [m EXCEPT !.stack = SubSeq(all, 1, max)]
      BY <1>1, <1>4, Zenon
  <2>2. n.stack = SubSeq(all, 1, max) /\ n.locals = m.locals
      BY <1>2, <2>1, Zenon
  <2>3. /\ height \in Nat /\ Pops(op) \in Nat /\ Pushes(op) \in Nat
        /\ AreValues(all) /\ Len(all) = height - Pops(op) + Pushes(op)
      BY <1>4, StackParts
  <2>4. height - Pops(op) + Pushes(op) > max
      BY <1>4, Zenon DEF Stops
  <2>. HIDE DEF height, all, n
  <2>5. IsSequence(all) /\ max <= Len(all) /\ 1 <= max + 1
      BY <2>3, <2>4 DEF AreValues
  <2>6. IsCut(SubSeq(all, 1, max), all, 1, max)
      BY <2>5, Cut
  <2>7. Len(SubSeq(all, 1, max)) = max
      BY <2>6 DEF IsCut
  <2>. QED  BY <2>2, <2>7 DEF n
<1>. QED  BY <1>3, <1>4

\* Machines that agree go on agreeing, whatever they noted before and whatever
\* their bounds are, as long as neither fails.
LEMMA ExecAgrees ==
    ASSUME NEW m, IsMachine(m), NEW n, IsMachine(n), Agree(m, n), NEW op, IsInstruction(op),
           NEW max \in Int, NEW bound \in Int, ~Stops(m, op, max), ~Stops(n, op, bound)
    PROVE  Agree(Exec(m, op, max), Exec(n, op, bound))
<1>. DEFINE height == Len(m.stack)
            rest   == SubSeq(m.stack, 1, height - Pops(op))
            args   == SubSeq(m.stack, height - Pops(op) + 1, height)
            locals == IF op[1] \in {"set", "tee"} THEN [m.locals EXCEPT ![op[2]] = args[1]]
                      ELSE m.locals
            a == Exec(m, op, max)
            b == Exec(n, op, bound)
<1>1. m.stack = n.stack /\ m.locals = n.locals
    BY DEF Agree
<1>2. Outputs(m, op, args) = Outputs(n, op, args)
    BY <1>1, Zenon DEF Outputs
<1>3. \E meta : a = [stack |-> rest \o Outputs(m, op, args), locals |-> locals,
                     meta |-> meta, ok |-> TRUE]
    BY ExecByCase, Zenon
<1>4. \E meta : b = [stack |-> rest \o Outputs(n, op, args), locals |-> locals,
                     meta |-> meta, ok |-> TRUE]
    BY <1>1, ExecByCase, Zenon
<1>. HIDE DEF a, b, rest, args, locals
<1>5. a.stack = rest \o Outputs(m, op, args) /\ a.locals = locals /\ a.ok = TRUE
    BY <1>3
<1>6. b.stack = rest \o Outputs(m, op, args) /\ b.locals = locals /\ b.ok = TRUE
    BY <1>2, <1>4
<1>. QED  BY <1>5, <1>6, Zenon DEF a, b, Agree

-----------------------------------------------------------------------------
(* Heights of a sequence of instructions *)

AreInstructions(ops) == IsSequence(ops) /\ \A k \in 1 .. Len(ops) : IsInstruction(ops[k])

Higher(prev, op) ==
    LET short == IF Pops(op) > prev.cur THEN Pops(op) - prev.cur ELSE 0
        cur   == prev.cur + short - Pops(op) + Pushes(op)
    IN  [cur |-> cur, init |-> prev.init + short, max |-> IF cur > prev.max THEN cur ELSE prev.max]

Level == [cur : Nat, init : Nat, max : Nat]

HeightsBy(b, ops) ==
    b = [k \in 0 .. Len(ops) |->
            IF k = 0 THEN [cur |-> 0, init |-> 0, max |-> 0]
            ELSE LET op    == ops[k]
                     prev  == b[k - 1]
                     short == IF Pops(op) > prev.cur THEN Pops(op) - prev.cur ELSE 0
                     cur   == prev.cur + short - Pops(op) + Pushes(op)
                 IN  [cur |-> cur, init |-> prev.init + short,
                      max |-> IF cur > prev.max THEN cur ELSE prev.max]]

\* One instruction more: the inputs and the greatest height can only grow, and
\* what is missing for its operands is counted as inputs.
LEMMA HigherLevel ==
    ASSUME NEW prev \in Level, NEW op, IsInstruction(op)
    PROVE  LET h == Higher(prev, op)
           IN  /\ h \in Level /\ h.init >= prev.init /\ h.max >= prev.max /\ h.cur <= h.max
               /\ h.cur - h.init = prev.cur - prev.init - Pops(op) + Pushes(op)
               /\ Pops(op) <= prev.cur + (h.init - prev.init)
               /\ h.cur <= prev.cur + Pushes(op)
<1>. DEFINE short == IF Pops(op) > prev.cur THEN Pops(op) - prev.cur ELSE 0
            cur   == prev.cur + short - Pops(op) + Pushes(op)
            top   == IF cur > prev.max THEN cur ELSE prev.max
            h == Higher(prev, op)
<1>1. prev.cur \in Nat /\ prev.init \in Nat /\ prev.max \in Nat /\ Pops(op) \in Nat /\ Pushes(op) \in Nat
    BY DEF Level, IsInstruction
<1>2. /\ short \in Nat /\ prev.cur + short - Pops(op) \in Nat /\ Pops(op) <= prev.cur + short
      /\ prev.cur + short - Pops(op) <= prev.cur
    BY <1>1
<1>3. h = [cur |-> cur, init |-> prev.init + short, max |-> top]
    BY DEF Higher
<1>. HIDE DEF short
<1>4. cur \in Nat /\ cur <= prev.cur + Pushes(op) /\ prev.init + short \in Nat
    BY <1>1, <1>2
<1>5. cur - (prev.init + short) = prev.cur - prev.init - Pops(op) + Pushes(op)
    BY <1>1, <1>2
<1>. HIDE DEF cur
<1>6. top \in Nat /\ top >= prev.max /\ cur <= top
    BY <1>1, <1>4
<1>. HIDE DEF top, h
<1>7. h.cur = cur /\ h.init = prev.init + short /\ h.max = top
    BY <1>3
<1>8. h \in Level
    BY <1>3, <1>4, <1>6 DEF Level
<1>. QED  BY <1>1, <1>2, <1>4, <1>5, <1>6, <1>7, <1>8 DEF h

\* What the recursion of Heights computes.
LEMMA HeightsSteps ==
    ASSUME NEW ops, AreInstructions(ops)
    PROVE  LET b == Heights(ops)
           IN  /\ b[0] = [cur |-> 0, init |-> 0, max |-> 0]
               /\ \A k \in 0 .. Len(ops) : b[k] \in Level
               /\ \A k \in 1 .. Len(ops) : b[k] = Higher(b[k - 1], ops[k])
<1>. DEFINE l == Len(ops)
            zero == [cur |-> 0, init |-> 0, max |-> 0]
            step == [i \in 1 .. l |-> [r \in Level |-> Higher(r, ops[i])]]
            h == CHOOSE b : HeightsBy(b, ops)
<1>1. l \in Nat
    BY SequenceParts DEF AreInstructions
<1>2. zero \in Level
    BY DEF Level
<1>3. step \in [1 .. l -> [Level -> Level]]
  <2>1. \A i \in 1 .. l, r \in Level : Higher(r, ops[i]) \in Level
      BY HigherLevel DEF AreInstructions
  <2>. QED  BY <2>1
<1>4. PICK g : Iterates(g, l, Level, zero, step)
  <2>. HIDE DEF step, l, zero
  <2>. QED  BY <1>1, <1>2, <1>3, IterationExists, Zenon
<1>5. /\ g = [k \in 0 .. l |-> g[k]] /\ g[0] = zero
      /\ \A k \in 0 .. l : g[k] \in Level
      /\ \A k \in 1 .. l : g[k] = step[k][g[k - 1]]
    BY <1>4 DEF Iterates
<1>6. \A k \in 1 .. l : g[k] = Higher(g[k - 1], ops[k])
  <2>. TAKE k \in 1 .. l
  <2>1. k - 1 \in 0 .. l
      BY <1>1
  <2>. QED  BY <1>5, <2>1
<1>7. HeightsBy(g, ops)
  <2>1. ASSUME NEW k \in 0 .. l
        PROVE  g[k] = IF k = 0 THEN zero ELSE Higher(g[k - 1], ops[k])
    <3>1. k = 0 \/ k \in 1 .. l
        BY <1>1
    <3>. QED  BY <1>5, <1>6, <3>1
  <2>2. g = [k \in 0 .. l |-> IF k = 0 THEN zero ELSE Higher(g[k - 1], ops[k])]
      BY <1>5, <2>1
  <2>. QED  BY <2>2, Zenon DEF HeightsBy, Higher
<1>8. HeightsBy(h, ops)
    BY <1>7, Zenon
<1>9. Heights(ops) = h
    BY Zenon DEF Heights, HeightsBy
<1>10. h = [k \in 0 .. l |-> IF k = 0 THEN zero ELSE Higher(h[k - 1], ops[k])]
    BY <1>8, Zenon DEF HeightsBy, Higher
<1>. HIDE DEF h
<1>11. h[0] = zero /\ \A k \in 1 .. l : h[k] = Higher(h[k - 1], ops[k])
    BY <1>1, <1>10
<1>. DEFINE S == {k \in 0 .. l : h[k] \in Level}
<1>12. 0 \in S
    BY <1>1, <1>2, <1>11
<1>13. \A k \in 0 .. l - 1 : k \in S => k + 1 \in S
  <2>. SUFFICES ASSUME NEW k \in 0 .. l - 1, h[k] \in Level
                PROVE  h[k + 1] \in Level
      BY <1>1
  <2>1. k + 1 \in 1 .. l /\ (k + 1) - 1 = k
      BY <1>1
  <2>2. h[k + 1] = Higher(h[k], ops[k + 1]) /\ IsInstruction(ops[k + 1])
      BY <1>11, <2>1 DEF AreInstructions
  <2>. QED  BY <2>2, HigherLevel
<1>14. \A k \in 0 .. l : k \in S
  <2>. HIDE DEF S, l
  <2>. QED  BY <1>1, <1>12, <1>13, UpTo, Zenon
<1>. QED  BY <1>9, <1>11, <1>14

\* One step of it.
LEMMA HeightsGrow ==
    ASSUME NEW ops, AreInstructions(ops), NEW k \in 1 .. Len(ops)
    PROVE  LET p == Heights(ops)[k - 1]
               q == Heights(ops)[k]
           IN  /\ p \in Level /\ q \in Level
               /\ q.init >= p.init /\ q.max >= p.max /\ q.cur <= q.max
               /\ q.cur - q.init = p.cur - p.init - Pops(ops[k]) + Pushes(ops[k])
               /\ Pops(ops[k]) <= p.cur + (q.init - p.init)
               /\ q.cur <= p.cur + Pushes(ops[k])
<1>. DEFINE p == Heights(ops)[k - 1]
            q == Heights(ops)[k]
<1>1. k - 1 \in 0 .. Len(ops) /\ k \in 0 .. Len(ops)
    BY SequenceParts DEF AreInstructions
<1>2. p \in Level /\ q \in Level /\ q = Higher(p, ops[k])
    BY <1>1, HeightsSteps
<1>3. IsInstruction(ops[k])
    BY DEF AreInstructions
<1>. HIDE DEF p, q
<1>. QED  BY <1>2, <1>3, HigherLevel DEF p, q

\* The inputs and the greatest height so far are never less than before.
LEMMA HeightsMonotone ==
    ASSUME NEW ops, AreInstructions(ops), NEW j \in 0 .. Len(ops), NEW k \in j .. Len(ops)
    PROVE  LET b == Heights(ops)
           IN  b[j].init <= b[k].init /\ b[j].max <= b[k].max /\ b[k].cur <= b[k].max
<1>. DEFINE b == Heights(ops)
            S == {i \in 0 .. Len(ops) - j : /\ b[j].init <= b[j + i].init
                                            /\ b[j].max <= b[j + i].max}
<1>1. Len(ops) \in Nat /\ Len(ops) - j \in Nat
    BY SequenceParts DEF AreInstructions
<1>2. \A i \in 0 .. Len(ops) : b[i] \in Level
    BY HeightsSteps
<1>3. \A i \in 1 .. Len(ops) : /\ b[i - 1] \in Level /\ b[i].cur <= b[i].max
                               /\ b[i].init >= b[i - 1].init /\ b[i].max >= b[i - 1].max
    BY HeightsGrow
<1>4. b[0] = [cur |-> 0, init |-> 0, max |-> 0]
    BY HeightsSteps
<1>. HIDE DEF b
<1>5. 0 \in S
    BY <1>1, <1>2 DEF Level
<1>6. \A i \in 0 .. (Len(ops) - j) - 1 : i \in S => i + 1 \in S
  <2>. SUFFICES ASSUME NEW i \in 0 .. (Len(ops) - j) - 1, i \in S
                PROVE  i + 1 \in S
      OBVIOUS
  <2>. DEFINE n == j + i
  <2>1. /\ n + 1 \in 1 .. Len(ops) /\ n \in 0 .. Len(ops) /\ (n + 1) - 1 = n /\ j + (i + 1) = n + 1
        /\ i + 1 \in 0 .. Len(ops) - j
      BY <1>1
  <2>2. b[j].init <= b[n].init /\ b[j].max <= b[n].max
      OBVIOUS
  <2>. HIDE DEF n
  <2>3. /\ b[n] \in Level /\ b[n + 1] \in Level /\ b[j] \in Level
        /\ b[n + 1].init >= b[n].init /\ b[n + 1].max >= b[n].max
    <3>1. j \in 0 .. Len(ops) /\ n + 1 \in 0 .. Len(ops)
        BY <1>1, <2>1
    <3>. QED  BY <1>2, <1>3, <2>1, <3>1
  <2>4. b[j].init <= b[n + 1].init /\ b[j].max <= b[n + 1].max
    <3>1. \A r \in Level : r.init \in Nat /\ r.max \in Nat
        BY DEF Level
    <3>2. /\ b[n].init \in Nat /\ b[n + 1].init \in Nat /\ b[j].init \in Nat
          /\ b[n].max \in Nat /\ b[n + 1].max \in Nat /\ b[j].max \in Nat
        BY <2>3, <3>1
    <3>3. \A x, y, z \in Nat : x <= y /\ z >= y => x <= z
        OBVIOUS
    <3>. QED  BY <2>2, <2>3, <3>2, <3>3
  <2>. QED  BY <2>1, <2>4
<1>7. \A i \in 0 .. Len(ops) - j : i \in S
  <2>. HIDE DEF S
  <2>. QED  BY <1>1, <1>5, <1>6, UpTo, Zenon
<1>8. k - j \in 0 .. Len(ops) - j /\ j + (k - j) = k
    BY <1>1
<1>9. b[j].init <= b[k].init /\ b[j].max <= b[k].max
  <2>1. k - j \in S
      BY <1>7, <1>8
  <2>. QED  BY <1>8, <2>1
<1>10. b[k].cur <= b[k].max
  <2>1. k = 0 \/ k \in 1 .. Len(ops)
      BY <1>1
  <2>. QED  BY <1>3, <1>4, <2>1
<1>. QED  BY <1>9, <1>10 DEF b

\* A part of a sequence has the heights of the sequence up to there.
LEMMA HeightsOfStart ==
    ASSUME NEW ops, AreInstructions(ops), NEW d \in 0 .. Len(ops)
    PROVE  /\ AreInstructions(SubSeq(ops, 1, d)) /\ Len(SubSeq(ops, 1, d)) = d
           /\ \A k \in 0 .. d : Heights(SubSeq(ops, 1, d))[k] = Heights(ops)[k]
<1>. DEFINE u == SubSeq(ops, 1, d)
            a == Heights(u)
            b == Heights(ops)
            S == {k \in 0 .. d : a[k] = b[k]}
<1>1. Len(ops) \in Nat /\ d \in Nat
    BY SequenceParts DEF AreInstructions
<1>2. IsSequence(u) /\ Len(u) = d /\ \A k \in 1 .. d : u[k] = ops[k]
  <2>1. IsCut(u, ops, 1, d)
      BY <1>1, Cut DEF AreInstructions
  <2>. HIDE DEF u
  <2>. QED  BY <1>1, <2>1 DEF IsCut
<1>. HIDE DEF u
<1>3. AreInstructions(u)
    BY <1>1, <1>2 DEF AreInstructions
<1>4. a[0] = b[0] /\ \A k \in 1 .. d : a[k] = Higher(a[k - 1], ops[k]) /\ b[k] = Higher(b[k - 1], ops[k])
    BY <1>1, <1>2, <1>3, HeightsSteps
<1>. HIDE DEF a, b
<1>5. 0 \in S
    BY <1>1, <1>4
<1>6. \A k \in 0 .. d - 1 : k \in S => k + 1 \in S
  <2>. SUFFICES ASSUME NEW k \in 0 .. d - 1, a[k] = b[k]
                PROVE  a[k + 1] = b[k + 1]
      BY <1>1
  <2>1. k + 1 \in 1 .. d /\ (k + 1) - 1 = k
      BY <1>1
  <2>. QED  BY <1>4, <2>1
<1>7. \A k \in 0 .. d : k \in S
  <2>. HIDE DEF S
  <2>. QED  BY <1>1, <1>5, <1>6, UpTo, Zenon
<1>. QED  BY <1>2, <1>3, <1>7 DEF a, b, u

\* StackBounds bounds the inputs and every height.
LEMMA BoundsOfHeights ==
    ASSUME NEW ops, AreInstructions(ops)
    PROVE  LET b == Heights(ops)[Len(ops)]
           IN  /\ b \in Level /\ StackBounds(ops).init = b.init
               /\ StackBounds(ops).max \in Nat
               /\ b.init <= StackBounds(ops).max /\ b.max <= StackBounds(ops).max
<1>. DEFINE b == Heights(ops)[Len(ops)]
<1>1. b \in Level
  <2>1. Len(ops) \in 0 .. Len(ops)
      BY SequenceParts DEF AreInstructions
  <2>. QED  BY <2>1, HeightsSteps
<1>2. StackBounds(ops) = [init |-> b.init, max |-> IF b.init > b.max THEN b.init ELSE b.max]
    BY Zenon DEF StackBounds
<1>. HIDE DEF b
<1>3. b.init \in Nat /\ b.max \in Nat
    BY <1>1 DEF Level
<1>. QED  BY <1>1, <1>2, <1>3 DEF b

-----------------------------------------------------------------------------
(* The execution of a sequence of instructions *)

ExecutesBy(f, m, ops, max) ==
    f = [k \in 0 .. Len(ops) |-> IF k = 0 THEN m ELSE Exec(f[k - 1], ops[k], max)]

\* What the recursion of Execution computes.
LEMMA ExecutionSteps ==
    ASSUME NEW m, NEW ops, IsSequence(ops), NEW max
    PROVE  LET at == Execution(m, ops, max)
           IN  at[0] = m /\ \A k \in 1 .. Len(ops) : at[k] = Exec(at[k - 1], ops[k], max)
<1>. DEFINE l == Len(ops)
            Starts(f, n) == f = [k \in 0 .. n |-> IF k = 0 THEN m ELSE Exec(f[k - 1], ops[k], max)]
            S == {n \in 0 .. l : \E f : Starts(f, n)}
            h == CHOOSE f : ExecutesBy(f, m, ops, max)
<1>1. l \in Nat
    BY SequenceParts
<1>2. 0 \in S
  <2>. DEFINE f == [k \in 0 .. 0 |-> m]
  <2>1. Starts(f, 0)
      OBVIOUS
  <2>. HIDE DEF f, Starts
  <2>. QED  BY <1>1, <2>1
<1>3. \A n \in 0 .. l - 1 : n \in S => n + 1 \in S
  <2>. SUFFICES ASSUME NEW n \in 0 .. l - 1, NEW f, Starts(f, n)
                PROVE  n + 1 \in 0 .. l /\ \E g : Starts(g, n + 1)
      BY Zenon
  <2>. DEFINE g == [k \in 0 .. n + 1 |-> IF k <= n THEN f[k] ELSE Exec(f[n], ops[n + 1], max)]
  <2>1. n \in Nat /\ n + 1 \in 0 .. l
      BY <1>1
  <2>2. \A k \in 0 .. n : f[k] = IF k = 0 THEN m ELSE Exec(f[k - 1], ops[k], max)
      BY Zenon
  <2>3. Starts(g, n + 1)
    <3>1. ASSUME NEW k \in 0 .. n + 1
          PROVE  g[k] = IF k = 0 THEN m ELSE Exec(g[k - 1], ops[k], max)
      <4>1. CASE k <= n
        <5>1. k \in 0 .. n /\ (k # 0 => k - 1 \in 0 .. n + 1 /\ k - 1 <= n)
            BY <2>1, <4>1
        <5>2. g[k] = f[k] /\ (k # 0 => g[k - 1] = f[k - 1])
            BY <4>1, <5>1
        <5>3. f[k] = IF k = 0 THEN m ELSE Exec(f[k - 1], ops[k], max)
            BY <2>2, <5>1, Zenon
        <5>. HIDE DEF g, Starts
        <5>. QED  BY <5>2, <5>3
      <4>2. CASE ~(k <= n)
        <5>1. k = n + 1 /\ k # 0 /\ k - 1 = n /\ n \in 0 .. n + 1 /\ n <= n
            BY <2>1, <4>2
        <5>2. g[k] = Exec(f[n], ops[n + 1], max) /\ g[k - 1] = f[n]
            BY <4>2, <5>1
        <5>. HIDE DEF g, Starts
        <5>. QED  BY <5>1, <5>2
      <4>. QED  BY <4>1, <4>2
    <3>2. g = [k \in 0 .. n + 1 |-> g[k]]
        OBVIOUS
    <3>. HIDE DEF g
    <3>. QED  BY <3>1, <3>2
  <2>. QED  BY <2>1, <2>3, Zenon
<1>4. \E f : Starts(f, l)
  <2>1. \A n \in 0 .. l : n \in S
    <3>. HIDE DEF S, l
    <3>. QED  BY <1>1, <1>2, <1>3, UpTo, Zenon
  <2>2. l \in 0 .. l
      BY <1>1
  <2>. QED  BY <2>1, <2>2, Zenon
<1>5. ExecutesBy(h, m, ops, max)
    BY <1>4, Zenon DEF ExecutesBy
<1>6. Execution(m, ops, max) = h
    BY Zenon DEF Execution, ExecutesBy
<1>. HIDE DEF h
<1>7. h[0] = m /\ \A k \in 1 .. l : h[k] = Exec(h[k - 1], ops[k], max)
    BY <1>1, <1>5 DEF ExecutesBy
<1>. QED  BY <1>6, <1>7

\* The machines of an execution; one that failed is followed by none that did not.
LEMMA ExecutionOfMachines ==
    ASSUME NEW m, IsMachine(m), NEW ops, AreInstructions(ops), NEW max \in Int
    PROVE  LET at == Execution(m, ops, max)
           IN  /\ \A k \in 0 .. Len(ops) : IsMachine(at[k])
               /\ \A k \in 1 .. Len(ops) : at[k].ok <=> ~Stops(at[k - 1], ops[k], max)
<1>. DEFINE at == Execution(m, ops, max)
            S == {k \in 0 .. Len(ops) : IsMachine(at[k])}
<1>1. IsSequence(ops) /\ Len(ops) \in Nat /\ \A k \in 1 .. Len(ops) : IsInstruction(ops[k])
    BY SequenceParts DEF AreInstructions
<1>2. at[0] = m /\ \A k \in 1 .. Len(ops) : at[k] = Exec(at[k - 1], ops[k], max)
    BY <1>1, ExecutionSteps
<1>. HIDE DEF at
<1>3. 0 \in S
    BY <1>1, <1>2
<1>4. \A k \in 0 .. Len(ops) - 1 : k \in S => k + 1 \in S
  <2>. SUFFICES ASSUME NEW k \in 0 .. Len(ops) - 1, IsMachine(at[k])
                PROVE  IsMachine(at[k + 1])
      BY <1>1
  <2>1. k + 1 \in 1 .. Len(ops) /\ (k + 1) - 1 = k
      BY <1>1
  <2>2. at[k + 1] = Exec(at[k], ops[k + 1], max) /\ IsInstruction(ops[k + 1])
      BY <1>1, <1>2, <2>1
  <2>3. CASE Stops(at[k], ops[k + 1], max)
      BY <2>2, <2>3, ExecStops, Zenon
  <2>4. CASE ~Stops(at[k], ops[k + 1], max)
      BY <2>2, <2>4, ExecGoes, Zenon
  <2>. QED  BY <2>3, <2>4
<1>5. \A k \in 0 .. Len(ops) : k \in S
  <2>. HIDE DEF S
  <2>. QED  BY <1>1, <1>3, <1>4, UpTo, Zenon
<1>6. ASSUME NEW k \in 1 .. Len(ops)
      PROVE  at[k].ok <=> ~Stops(at[k - 1], ops[k], max)
  <2>1. k - 1 \in 0 .. Len(ops)
      BY <1>1
  <2>2. IsMachine(at[k - 1]) /\ IsInstruction(ops[k]) /\ at[k] = Exec(at[k - 1], ops[k], max)
      BY <1>1, <1>2, <1>5, <2>1
  <2>3. Stops(at[k - 1], ops[k], max) => ~at[k].ok
      BY <2>2, ExecStops, Zenon
  <2>4. ~Stops(at[k - 1], ops[k], max) => at[k].ok
      BY <2>2, ExecGoes, Zenon
  <2>. QED  BY <2>3, <2>4
<1>. QED  BY <1>5, <1>6 DEF at

\* The height of the stack before an instruction, of which the start counts from
\* the inputs on, and after it.
Height(ops, start, k) == start - Heights(ops)[k].init + Heights(ops)[k].cur

\* The height is an integer.
LEMMA HeightType ==
    ASSUME NEW ops, AreInstructions(ops), NEW start \in Nat, NEW k \in 0 .. Len(ops)
    PROVE  Height(ops, start, k) \in Int
<1>1. Heights(ops)[k] \in Level
    BY HeightsSteps
<1>. QED  BY <1>1 DEF Height, Level

\* A machine with enough inputs fails for its bound only.
LEMMA StopsByBound ==
    ASSUME NEW ops, AreInstructions(ops), NEW k \in 1 .. Len(ops), NEW max \in Int,
           NEW start \in Nat, Heights(ops)[Len(ops)].init <= start,
           NEW m, IsMachine(m), m.ok, Len(m.stack) = Height(ops, start, k - 1)
    PROVE  /\ Stops(m, ops[k], max) <=> Pushes(ops[k]) > 0 /\ Height(ops, start, k) > max
           /\ Len(m.stack) - Pops(ops[k]) + Pushes(ops[k]) = Height(ops, start, k)
<1>. DEFINE p == Heights(ops)[k - 1]
            q == Heights(ops)[k]
            op == ops[k]
            last == Heights(ops)[Len(ops)]
<1>1. /\ p \in Level /\ q \in Level
      /\ q.init >= p.init
      /\ q.cur - q.init = p.cur - p.init - Pops(op) + Pushes(op)
      /\ Pops(op) <= p.cur + (q.init - p.init)
    BY HeightsGrow
<1>2. last \in Level /\ q.init <= last.init
  <2>1. k \in 0 .. Len(ops) /\ Len(ops) \in k .. Len(ops)
      BY SequenceParts DEF AreInstructions
  <2>. QED  BY <2>1, HeightsMonotone, BoundsOfHeights
<1>3. last.init <= start
    OBVIOUS
<1>4. Pops(op) \in Nat /\ Pushes(op) \in Nat
    BY DEF AreInstructions, IsInstruction
<1>5. Height(ops, start, k - 1) = start - p.init + p.cur /\ Height(ops, start, k) = start - q.init + q.cur
    BY DEF Height
<1>. HIDE DEF p, q, op, last
<1>. DEFINE pi == p.init
            pc == p.cur
            qi == q.init
            qc == q.cur
            li == last.init
            a == Pops(op)
            b == Pushes(op)
<1>6. /\ pi \in Nat /\ pc \in Nat /\ qi \in Nat /\ qc \in Nat /\ li \in Nat /\ a \in Nat /\ b \in Nat
      /\ qi >= pi /\ qc - qi = pc - pi - a + b /\ a <= pc + (qi - pi) /\ qi <= li /\ li <= start
    BY <1>1, <1>2, <1>3, <1>4 DEF Level
<1>7. (start - pi + pc) - a + b = start - qi + qc /\ ~(start - pi + pc < a)
  <2>. HIDE DEF pi, pc, qi, qc, li, a, b
  <2>. QED  BY <1>6
<1>8. Len(m.stack) = start - p.init + p.cur
    BY <1>5
<1>9. Stops(m, op, max) <=> (Pushes(op) > 0 /\ start - q.init + q.cur > max)
    BY <1>7, <1>8 DEF Stops
<1>. QED  BY <1>5, <1>7, <1>8, <1>9 DEF op

\* The height of an execution that has not failed, and what its bound has seen.
LEMMA ExecutionHeights ==
    ASSUME NEW ops, AreInstructions(ops), NEW m, IsMachine(m), m.ok, NEW max \in Int,
           Heights(ops)[Len(ops)].init <= Len(m.stack), NEW d \in 0 .. Len(ops),
           Execution(m, ops, max)[d].ok
    PROVE  /\ \A k \in 0 .. d : /\ Execution(m, ops, max)[k].ok
                                /\ Len(Execution(m, ops, max)[k].stack) = Height(ops, Len(m.stack), k)
           /\ \A k \in 1 .. d : Pushes(ops[k]) > 0 => Height(ops, Len(m.stack), k) <= max
<1>. DEFINE at == Execution(m, ops, max)
            start == Len(m.stack)
            Fine(k) == at[k].ok /\ Len(at[k].stack) = Height(ops, start, k)
<1>1. Len(ops) \in Nat /\ start \in Nat /\ d \in Nat
    BY SequenceParts DEF AreInstructions, IsMachine, AreValues
<1>2. at[0] = m /\ \A k \in 1 .. Len(ops) : at[k] = Exec(at[k - 1], ops[k], max)
    BY ExecutionSteps DEF AreInstructions
<1>3. /\ \A k \in 0 .. Len(ops) : IsMachine(at[k])
      /\ \A k \in 1 .. Len(ops) : at[k].ok <=> ~Stops(at[k - 1], ops[k], max)
    BY ExecutionOfMachines
<1>4. at[d].ok
    OBVIOUS
<1>5. Height(ops, start, 0) = start
  <2>1. Heights(ops)[0] = [cur |-> 0, init |-> 0, max |-> 0]
      BY HeightsSteps
  <2>. QED  BY <1>1, <2>1 DEF Height
<1>. HIDE DEF at, start
<1>. DEFINE S == {i \in 0 .. d : at[d - i].ok}
<1>6. \A i \in 0 .. d : i \in S
  <2>1. 0 \in S
      BY <1>1, <1>4
  <2>2. \A i \in 0 .. d - 1 : i \in S => i + 1 \in S
    <3>. SUFFICES ASSUME NEW i \in 0 .. d - 1, at[d - i].ok
                  PROVE  at[d - (i + 1)].ok
        BY <1>1
    <3>1. d - i \in 1 .. Len(ops) /\ (d - i) - 1 = d - (i + 1)
        BY <1>1
    <3>. QED  BY <1>3, <3>1 DEF Stops
  <2>. HIDE DEF S
  <2>. QED  BY <1>1, <2>1, <2>2, UpTo, Zenon
<1>7. \A k \in 0 .. d : at[k].ok
  <2>. TAKE k \in 0 .. d
  <2>1. d - k \in 0 .. d /\ d - (d - k) = k
      BY <1>1
  <2>2. d - k \in S
      BY <1>6, <2>1
  <2>. QED  BY <2>1, <2>2
<1>. HIDE DEF S
<1>8. Heights(ops)[Len(ops)].init <= start
    BY DEF start
<1>9. ASSUME NEW k \in 1 .. d, Len(at[k - 1].stack) = Height(ops, start, k - 1)
      PROVE  /\ Len(at[k].stack) = Height(ops, start, k)
             /\ Pushes(ops[k]) > 0 => Height(ops, start, k) <= max
  <2>1. k \in 1 .. Len(ops) /\ k - 1 \in 0 .. Len(ops) /\ k - 1 \in 0 .. d /\ k \in 0 .. d
      BY <1>1
  <2>2. /\ IsMachine(at[k - 1]) /\ at[k - 1].ok /\ IsInstruction(ops[k])
        /\ ~Stops(at[k - 1], ops[k], max) /\ at[k] = Exec(at[k - 1], ops[k], max)
      BY <1>2, <1>3, <1>7, <2>1 DEF AreInstructions
  <2>3. /\ Stops(at[k - 1], ops[k], max) <=> Pushes(ops[k]) > 0 /\ Height(ops, start, k) > max
        /\ Len(at[k - 1].stack) - Pops(ops[k]) + Pushes(ops[k]) = Height(ops, start, k)
      BY <1>1, <1>8, <1>9, <2>1, <2>2, StopsByBound
  <2>4. Len(at[k].stack) = Len(at[k - 1].stack) - Pops(ops[k]) + Pushes(ops[k])
      BY <2>2, ExecGoes
  <2>5. Height(ops, start, k) \in Int
      BY <1>1, <2>1, HeightType
  <2>. QED  BY <2>2, <2>3, <2>4, <2>5
<1>. DEFINE T == {k \in 0 .. d : Len(at[k].stack) = Height(ops, start, k)}
<1>10. \A k \in 0 .. d : k \in T
  <2>1. 0 \in T
      BY <1>1, <1>2, <1>5 DEF start
  <2>2. \A k \in 0 .. d - 1 : k \in T => k + 1 \in T
    <3>. SUFFICES ASSUME NEW k \in 0 .. d - 1, Len(at[k].stack) = Height(ops, start, k)
                  PROVE  Len(at[k + 1].stack) = Height(ops, start, k + 1)
        BY <1>1
    <3>1. k + 1 \in 1 .. d /\ (k + 1) - 1 = k
        BY <1>1
    <3>. QED  BY <1>9, <3>1
  <2>. HIDE DEF T
  <2>. QED  BY <1>1, <2>1, <2>2, UpTo, Zenon
<1>11. \A k \in 1 .. d : Pushes(ops[k]) > 0 => Height(ops, start, k) <= max
  <2>. TAKE k \in 1 .. d
  <2>1. k - 1 \in 0 .. d
      BY <1>1
  <2>. QED  BY <1>9, <1>10, <2>1
<1>. QED  BY <1>7, <1>10, <1>11 DEF at, start

\* An execution that starts with enough inputs under a bound no push exceeds
\* does not fail.
LEMMA ExecutionGoesOn ==
    ASSUME NEW ops, AreInstructions(ops), NEW m, IsMachine(m), m.ok, NEW max \in Int,
           Heights(ops)[Len(ops)].init <= Len(m.stack),
           \A k \in 1 .. Len(ops) : Pushes(ops[k]) > 0 => Height(ops, Len(m.stack), k) <= max
    PROVE  \A k \in 0 .. Len(ops) : Execution(m, ops, max)[k].ok
<1>. DEFINE at == Execution(m, ops, max)
            start == Len(m.stack)
            S == {k \in 0 .. Len(ops) : at[k].ok}
<1>1. Len(ops) \in Nat /\ start \in Nat
    BY SequenceParts DEF AreInstructions, IsMachine, AreValues
<1>2. at[0] = m
    BY ExecutionSteps DEF AreInstructions
<1>3. /\ \A k \in 0 .. Len(ops) : IsMachine(at[k])
      /\ \A k \in 1 .. Len(ops) : at[k].ok <=> ~Stops(at[k - 1], ops[k], max)
    BY ExecutionOfMachines
<1>4. 0 \in S
    BY <1>1, <1>2
<1>5. \A k \in 0 .. Len(ops) - 1 : k \in S => k + 1 \in S
  <2>. SUFFICES ASSUME NEW k \in 0 .. Len(ops) - 1, at[k].ok
                PROVE  at[k + 1].ok
      BY <1>1
  <2>1. k + 1 \in 1 .. Len(ops) /\ (k + 1) - 1 = k /\ k \in 0 .. Len(ops) /\ k \in 0 .. k
      BY <1>1
  <2>2. Len(at[k].stack) = Height(ops, start, k)
      BY <2>1, ExecutionHeights
  <2>3. Height(ops, start, k + 1) \in Int
    <3>1. k + 1 \in 0 .. Len(ops)
        BY <1>1
    <3>. QED  BY <1>1, <3>1, HeightType
  <2>4. Pushes(ops[k + 1]) > 0 => Height(ops, start, k + 1) <= max
      BY <2>1
  <2>5. ~Stops(at[k], ops[k + 1], max)
    <3>. HIDE DEF at
    <3>1. Stops(at[k], ops[k + 1], max) <=> Pushes(ops[k + 1]) > 0 /\ Height(ops, start, k + 1) > max
        BY <1>1, <1>3, <2>1, <2>2, StopsByBound
    <3>. QED  BY <2>3, <2>4, <3>1
  <2>. HIDE DEF at
  <2>. QED  BY <1>3, <2>1, <2>5
<1>6. \A k \in 0 .. Len(ops) : k \in S
  <2>. HIDE DEF S
  <2>. QED  BY <1>1, <1>4, <1>5, UpTo, Zenon
<1>. QED  BY <1>6

\* A part of a sequence is executed like the sequence up to there.
LEMMA ExecutionOfStart ==
    ASSUME NEW m, NEW ops, IsSequence(ops), NEW d \in 0 .. Len(ops), NEW max
    PROVE  \A k \in 0 .. d : Execution(m, SubSeq(ops, 1, d), max)[k] = Execution(m, ops, max)[k]
<1>. DEFINE u == SubSeq(ops, 1, d)
            a == Execution(m, u, max)
            b == Execution(m, ops, max)
            S == {k \in 0 .. d : a[k] = b[k]}
<1>1. Len(ops) \in Nat /\ d \in Nat
    BY SequenceParts
<1>2. IsSequence(u) /\ Len(u) = d /\ \A k \in 1 .. d : u[k] = ops[k]
  <2>1. IsCut(u, ops, 1, d)
      BY <1>1, Cut
  <2>. HIDE DEF u
  <2>. QED  BY <1>1, <2>1 DEF IsCut
<1>. HIDE DEF u
<1>3. a[0] = m /\ \A k \in 1 .. Len(u) : a[k] = Exec(a[k - 1], u[k], max)
    BY <1>2, ExecutionSteps
<1>4. b[0] = m /\ \A k \in 1 .. Len(ops) : b[k] = Exec(b[k - 1], ops[k], max)
    BY ExecutionSteps
<1>. HIDE DEF a, b
<1>5. 0 \in S
    BY <1>1, <1>3, <1>4
<1>6. \A k \in 0 .. d - 1 : k \in S => k + 1 \in S
  <2>. SUFFICES ASSUME NEW k \in 0 .. d - 1, a[k] = b[k]
                PROVE  a[k + 1] = b[k + 1]
      BY <1>1
  <2>1. k + 1 \in 1 .. d /\ k + 1 \in 1 .. Len(ops) /\ (k + 1) - 1 = k
      BY <1>1
  <2>. QED  BY <1>2, <1>3, <1>4, <2>1
<1>7. \A k \in 0 .. d : k \in S
  <2>. HIDE DEF S
  <2>. QED  BY <1>1, <1>5, <1>6, UpTo, Zenon
<1>. QED  BY <1>7 DEF a, b, u

\* If an execution does not fail, that of a slice of its instructions goes the same
\* way, from a machine that agrees and under a bound that is no less.
LEMMA SliceExecutes ==
    ASSUME NEW ops, AreInstructions(ops), NEW m, IsMachine(m), NEW max \in Int,
           \A k \in 0 .. Len(ops) : Execution(m, ops, max)[k].ok,
           NEW a \in 0 .. Len(ops), NEW b \in a .. Len(ops), NEW u, IsCut(u, ops, a + 1, b),
           NEW n, IsMachine(n), Agree(Execution(m, ops, max)[a], n), NEW bound \in Int, max <= bound
    PROVE  /\ AreInstructions(u) /\ Len(u) = b - a
           /\ \A j \in 0 .. b - a : /\ IsMachine(Execution(n, u, bound)[j])
                                    /\ Agree(Execution(m, ops, max)[a + j], Execution(n, u, bound)[j])
<1>. DEFINE at == Execution(m, ops, max)
            to == Execution(n, u, bound)
            S == {j \in 0 .. b - a : Agree(at[a + j], to[j])}
<1>1. Len(ops) \in Nat /\ a \in Nat /\ b \in Nat /\ b - a \in Nat
    BY SequenceParts DEF AreInstructions
<1>2. IsSequence(u) /\ Len(u) = b - a /\ \A j \in 1 .. b - a : u[j] = ops[a + j]
  <2>1. IsSequence(u) /\ Len(u) = b - (a + 1) + 1 /\ \A j \in 1 .. b - (a + 1) + 1 : u[j] = ops[(a + 1) + j - 1]
      BY DEF IsCut
  <2>2. b - (a + 1) + 1 = b - a /\ \A j \in 1 .. b - a : (a + 1) + j - 1 = a + j
      BY <1>1
  <2>. QED  BY <2>1, <2>2
<1>3. AreInstructions(u)
  <2>1. \A j \in 1 .. b - a : a + j \in 1 .. Len(ops)
      BY <1>1
  <2>. QED  BY <1>2, <2>1 DEF AreInstructions
<1>4. /\ \A k \in 0 .. Len(ops) : IsMachine(at[k])
      /\ \A k \in 1 .. Len(ops) : at[k].ok <=> ~Stops(at[k - 1], ops[k], max)
    BY ExecutionOfMachines
<1>5. \A j \in 0 .. b - a : IsMachine(to[j])
    BY <1>2, <1>3, ExecutionOfMachines
<1>6. \A k \in 1 .. Len(ops) : at[k] = Exec(at[k - 1], ops[k], max)
    BY ExecutionSteps DEF AreInstructions
<1>7. to[0] = n /\ \A j \in 1 .. b - a : to[j] = Exec(to[j - 1], u[j], bound)
    BY <1>2, ExecutionSteps
<1>8. Agree(at[a], n) /\ \A k \in 0 .. Len(ops) : at[k].ok
    OBVIOUS
<1>. HIDE DEF at, to
<1>9. 0 \in S
    BY <1>1, <1>7, <1>8
<1>10. \A j \in 0 .. (b - a) - 1 : j \in S => j + 1 \in S
  <2>. SUFFICES ASSUME NEW j \in 0 .. (b - a) - 1, Agree(at[a + j], to[j])
                PROVE  Agree(at[a + (j + 1)], to[j + 1])
      BY <1>1
  <2>. DEFINE k == a + (j + 1)
  <2>1. /\ j + 1 \in 1 .. b - a /\ (j + 1) - 1 = j /\ j \in 0 .. b - a
        /\ k \in 1 .. Len(ops) /\ k - 1 = a + j /\ k - 1 \in 0 .. Len(ops) /\ k \in 0 .. Len(ops)
      BY <1>1
  <2>. HIDE DEF k
  <2>2. /\ IsMachine(at[k - 1]) /\ IsMachine(to[j]) /\ Agree(at[k - 1], to[j])
        /\ IsInstruction(ops[k]) /\ u[j + 1] = ops[k]
        /\ at[k] = Exec(at[k - 1], ops[k], max) /\ to[j + 1] = Exec(to[j], ops[k], bound)
    <3>1. u[j + 1] = ops[k]
        BY <1>2, <2>1 DEF k
    <3>2. IsInstruction(ops[k])
        BY <2>1 DEF AreInstructions
    <3>3. Agree(at[k - 1], to[j])
        BY <2>1
    <3>. QED  BY <1>4, <1>5, <1>6, <1>7, <2>1, <3>1, <3>2, <3>3
  <2>3. ~Stops(at[k - 1], ops[k], max)
      BY <1>4, <1>8, <2>1
  <2>4. ~Stops(to[j], ops[k], bound)
    <3>. DEFINE s == Len(at[k - 1].stack)
                p == Pops(ops[k])
                q == Pushes(ops[k])
    <3>1. at[k - 1].ok /\ to[j].ok /\ Len(to[j].stack) = s
        BY <2>2, <2>3 DEF Agree, Stops
    <3>2. s \in Nat /\ p \in Nat /\ q \in Nat
        BY <2>2, SequenceParts DEF IsMachine, AreValues, IsInstruction
    <3>3. ~(s < p) /\ ~(q > 0 /\ s - p + q > max)
        BY <2>3 DEF Stops
    <3>. HIDE DEF s, p, q
    <3>4. ~(q > 0 /\ s - p + q > bound)
        BY <3>2, <3>3
    <3>. QED  BY <3>1, <3>3, <3>4 DEF Stops, p, q
  <2>5. Agree(at[k], to[j + 1])
      BY <2>2, <2>3, <2>4, ExecAgrees
  <2>. QED  BY <2>5 DEF k
<1>11. \A j \in 0 .. b - a : j \in S
  <2>. HIDE DEF S
  <2>. QED  BY <1>1, <1>9, <1>10, UpTo, Zenon
<1>. QED  BY <1>2, <1>3, <1>5, <1>11 DEF at, to

-----------------------------------------------------------------------------
(* Operators and the instructions they become *)

\* What the operators of a body carry.
LEMMA OperatorParts ==
    ASSUME NEW x \in Operators(NumLocals)
    PROVE  /\ x[1] \in {"block", "loop", "if", "else", "br", "end", "return", "nop", "select",
                        "size", "grow", "drop", "mul", "shr", "get", "set", "tee", "const",
                        "gget", "gset", "call", "load", "load8", "load64", "store", "store8",
                        "store64", "calli"}
           /\ x[1] \in LocalKinds => x[2] \in 0 .. NumLocals - 1
           /\ x[1] \in {"const", "gget", "gset", "call", "load", "load8", "load64", "store",
                        "store8", "store64"} => x[2] \in Nat
           /\ x[1] = "calli" => x[2] \in DOMAIN FuncTypes
<1>1. CASE x \in {<<k>> : k \in {"block", "loop", "if", "else", "br", "end", "return", "nop",
                                 "select", "size", "grow", "drop", "mul", "shr"}}
  <2>1. PICK k \in {"block", "loop", "if", "else", "br", "end", "return", "nop",
                    "select", "size", "grow", "drop", "mul", "shr"} : x = <<k>>
      BY <1>1
  <2>2. x[1] = k
      BY <2>1
  <2>. QED  BY <2>2 DEF LocalKinds
<1>2. CASE x \in {"get", "set", "tee"} \X (0 .. NumLocals - 1)
    BY <1>2 DEF LocalKinds
<1>3. CASE x \in {"const", "gget", "gset", "call",
                  "load", "load8", "load64", "store", "store8", "store64"} \X Nat
    BY <1>3 DEF LocalKinds
<1>4. CASE x \in {"calli"} \X DOMAIN FuncTypes
    BY <1>4 DEF LocalKinds
<1>. QED  BY <1>1, <1>2, <1>3, <1>4 DEF Operators

\* What a supported operator becomes.
LEMMA SemByKind ==
    ASSUME NEW x \in Operators(NumLocals), Supported(x), NEW id
    PROVE  /\ x[1] \in {"load", "load8"} => Sem(x, id) = <<"load", id, x[2]>>
           /\ x[1] \in {"store", "store8"} => Sem(x, id) = <<"store", id, x[2]>>
           /\ x[1] \in {"gget", "gset"} => Sem(x, id) = <<x[1], id, x[2]>>
           /\ x[1] = "call" => /\ x[2] \in DOMAIN FuncTypes
                               /\ Sem(x, id) = <<"call", id, FuncTypes[x[2]].params,
                                                 FuncTypes[x[2]].results>>
           /\ x[1] \in DOMAIN Opaques => Sem(x, id) = <<"opaque", id>> \o Opaques[x[1]]
           /\ x[1] \in {"get", "set", "tee", "const", "drop", "mul", "shr"} => Sem(x, id) = x
           /\ x[1] \in {"load", "load8", "store", "store8", "gget", "gset", "call"} \cup DOMAIN Opaques
                           \cup {"get", "set", "tee", "const", "drop", "mul", "shr"}
<1>. DEFINE k == x[1]
<1>1. DOMAIN Opaques = {"load64", "store64", "size", "grow"}
    BY DEF Opaques
<1>2. k \in {"load", "load8", "store", "store8", "gget", "gset", "call"} \cup DOMAIN Opaques
                \cup {"get", "set", "tee", "const", "drop", "mul", "shr"}
  <2>1. k \notin {"block", "loop", "if", "else", "br", "calli", "end", "return", "select", "nop"}
      BY DEF Supported, IsControl, Begins, Finishes
  <2>. QED  BY <1>1, <2>1, OperatorParts
<1>3. k \in {"load", "load8"} => Sem(x, id) = <<"load", id, x[2]>>
  <2>. SUFFICES ASSUME k \in {"load", "load8"} PROVE Sem(x, id) = <<"load", id, x[2]>>
      OBVIOUS
  <2>1. /\ k \notin {"store", "store8"} /\ k \notin {"gget", "gset"} /\ k # "call"
        /\ k \notin DOMAIN Opaques
      BY <1>1
  <2>. QED  BY <2>1, Zenon DEF Sem
<1>4. k \in {"store", "store8"} => Sem(x, id) = <<"store", id, x[2]>>
  <2>. SUFFICES ASSUME k \in {"store", "store8"} PROVE Sem(x, id) = <<"store", id, x[2]>>
      OBVIOUS
  <2>1. /\ k \notin {"load", "load8"} /\ k \notin {"gget", "gset"} /\ k # "call"
        /\ k \notin DOMAIN Opaques
      BY <1>1
  <2>. QED  BY <2>1, Zenon DEF Sem
<1>5. k \in {"gget", "gset"} => Sem(x, id) = <<k, id, x[2]>>
  <2>. SUFFICES ASSUME k \in {"gget", "gset"} PROVE Sem(x, id) = <<k, id, x[2]>>
      OBVIOUS
  <2>1. /\ k \notin {"load", "load8"} /\ k \notin {"store", "store8"} /\ k # "call"
        /\ k \notin DOMAIN Opaques
      BY <1>1
  <2>. QED  BY <2>1, Zenon DEF Sem
<1>6. k = "call" => /\ x[2] \in DOMAIN FuncTypes
                    /\ Sem(x, id) = <<"call", id, FuncTypes[x[2]].params, FuncTypes[x[2]].results>>
  <2>. SUFFICES ASSUME k = "call"
                PROVE  /\ x[2] \in DOMAIN FuncTypes
                       /\ Sem(x, id) = <<"call", id, FuncTypes[x[2]].params, FuncTypes[x[2]].results>>
      OBVIOUS
  <2>1. /\ k \notin {"load", "load8"} /\ k \notin {"store", "store8"} /\ k \notin {"gget", "gset"}
        /\ k \notin DOMAIN Opaques
      BY <1>1
  <2>2. x[2] \in DOMAIN FuncTypes
      BY DEF Supported
  <2>. QED  BY <2>1, <2>2, Zenon DEF Sem
<1>7. k \in DOMAIN Opaques => Sem(x, id) = <<"opaque", id>> \o Opaques[k]
  <2>. SUFFICES ASSUME k \in DOMAIN Opaques PROVE Sem(x, id) = <<"opaque", id>> \o Opaques[k]
      OBVIOUS
  <2>1. /\ k \notin {"load", "load8"} /\ k \notin {"store", "store8"} /\ k \notin {"gget", "gset"}
        /\ k # "call"
      BY <1>1
  <2>. QED  BY <2>1, Zenon DEF Sem
<1>8. k \in {"get", "set", "tee", "const", "drop", "mul", "shr"} => Sem(x, id) = x
  <2>. SUFFICES ASSUME k \in {"get", "set", "tee", "const", "drop", "mul", "shr"}
                PROVE  Sem(x, id) = x
      OBVIOUS
  <2>1. /\ k \notin {"load", "load8"} /\ k \notin {"store", "store8"} /\ k \notin {"gget", "gset"}
        /\ k # "call" /\ k \notin DOMAIN Opaques
      BY <1>1
  <2>. QED  BY <2>1, Zenon DEF Sem
<1>. QED  BY <1>2, <1>3, <1>4, <1>5, <1>6, <1>7, <1>8

\* The five fields of a pair joined with a triple.
LEMMA JoinedFields ==
    ASSUME NEW s, NEW t, NEW u, IsJoined(u, s, t), Len(s) = 2, Len(t) = 3
    PROVE  u[1] = s[1] /\ u[2] = s[2] /\ u[3] = t[1] /\ u[4] = t[2] /\ u[5] = t[3]
<1>1. /\ \A i \in 1 .. 2 : u[i] = s[i]
      /\ \A i \in 1 .. 3 : u[2 + i] = t[i]
    BY DEF IsJoined
<1>2. 2 + 1 = 3 /\ 2 + 2 = 4 /\ 2 + 3 = 5 /\ 1 \in 1 .. 3 /\ 2 \in 1 .. 3 /\ 3 \in 1 .. 3
    OBVIOUS
<1>. QED  BY <1>1, <1>2

\* The fields of an operator that is kept as an opaque one.
LEMMA OpaqueFields ==
    ASSUME NEW k \in DOMAIN Opaques, NEW id
    PROVE  LET op == <<"opaque", id>> \o Opaques[k]
           IN  op[1] = "opaque" /\ op[2] = id /\ op[3] \in Nat /\ op[4] \in Nat
<1>. DEFINE s == <<"opaque", id>>
            t == Opaques[k]
            u == s \o t
<1>1. s \in Seq({"opaque", id}) /\ Len(s) = 2 /\ s[1] = "opaque" /\ s[2] = id
    OBVIOUS
<1>2. PICK a \in Nat, b \in Nat, c \in BOOLEAN : t = <<a, b, c>>
  <2>1. k \in {"load64", "store64", "size", "grow"}
      BY DEF Opaques
  <2>2. /\ Opaques["load64"] = <<1, 1, FALSE>> /\ Opaques["store64"] = <<2, 0, TRUE>>
        /\ Opaques["size"] = <<0, 1, FALSE>> /\ Opaques["grow"] = <<1, 1, FALSE>>
      BY Zenon DEF Opaques
  <2>3. t = <<1, 1, FALSE>> \/ t = <<2, 0, TRUE>> \/ t = <<0, 1, FALSE>>
      BY <2>1, <2>2, Zenon
  <2>. HIDE DEF t
  <2>. QED  BY <2>3
<1>3. t \in Seq({a, b, c}) /\ Len(t) = 3 /\ t[1] \in Nat /\ t[2] \in Nat
  <2>1. /\ <<a, b, c>> \in Seq({a, b, c}) /\ Len(<<a, b, c>>) = 3
        /\ <<a, b, c>>[1] = a /\ <<a, b, c>>[2] = b
      OBVIOUS
  <2>. HIDE DEF t
  <2>. QED  BY <1>2, <2>1, Zenon
<1>4. IsSequence(s) /\ IsSequence(t)
    BY <1>1, <1>3, TypedSequence, Zenon
<1>5. IsJoined(u, s, t)
    BY <1>4, Concatenated, Zenon
<1>. HIDE DEF s, t, u
<1>6. u[1] = s[1] /\ u[2] = s[2] /\ u[3] = t[1] /\ u[4] = t[2]
    BY <1>1, <1>3, <1>5, JoinedFields
<1>7. u[1] = "opaque" /\ u[2] = id /\ u[3] \in Nat /\ u[4] \in Nat
    BY <1>1, <1>3, <1>6
<1>. QED  BY <1>7, Zenon DEF s, t, u

\* A supported operator becomes an instruction.
LEMMA SemIsInstruction ==
    ASSUME NEW x \in Operators(NumLocals), Supported(x), NEW id
    PROVE  IsInstruction(Sem(x, id))
<1>. DEFINE op == Sem(x, id)
<1>1. CASE x[1] \in {"load", "load8"}
  <2>1. op = <<"load", id, x[2]>>
      BY <1>1, SemByKind
  <2>2. op[1] = "load"
      BY <2>1
  <2>. QED  BY <2>2 DEF IsInstruction, OpaqueKinds, LocalKinds, Pops, Pushes, FixedPops, FixedPushes
<1>2. CASE x[1] \in {"store", "store8"}
  <2>1. op = <<"store", id, x[2]>>
      BY <1>2, SemByKind
  <2>2. op[1] = "store"
      BY <2>1
  <2>. QED  BY <2>2 DEF IsInstruction, OpaqueKinds, LocalKinds, Pops, Pushes, FixedPops, FixedPushes
<1>3. CASE x[1] \in {"gget", "gset"}
  <2>1. op = <<x[1], id, x[2]>>
      BY <1>3, SemByKind
  <2>2. op[1] = x[1]
      BY <2>1
  <2>. HIDE DEF op
  <2>. QED  BY <1>3, <2>2 DEF IsInstruction, OpaqueKinds, LocalKinds, Pops, Pushes, FixedPops,
                              FixedPushes, op
<1>4. CASE x[1] = "call"
  <2>1. op = <<"call", id, FuncTypes[x[2]].params, FuncTypes[x[2]].results>> /\ x[2] \in DOMAIN FuncTypes
      BY <1>4, SemByKind
  <2>2. op[1] = "call" /\ op[3] = FuncTypes[x[2]].params /\ op[4] = FuncTypes[x[2]].results
      BY <2>1
  <2>3. FuncTypes[x[2]].params \in Nat /\ FuncTypes[x[2]].results \in Nat
      BY <2>1, TypesAssumption
  <2>. HIDE DEF op
  <2>. QED  BY <2>2, <2>3 DEF IsInstruction, OpaqueKinds, LocalKinds, Pops, Pushes, op
<1>5. CASE x[1] \in DOMAIN Opaques
  <2>1. op = <<"opaque", id>> \o Opaques[x[1]]
      BY <1>5, SemByKind
  <2>. HIDE DEF op
  <2>2. op[1] = "opaque" /\ op[3] \in Nat /\ op[4] \in Nat
      BY <1>5, <2>1, OpaqueFields, Zenon
  <2>. QED  BY <2>2 DEF IsInstruction, OpaqueKinds, LocalKinds, Pops, Pushes, op
<1>6. CASE x[1] \in {"get", "set", "tee", "const", "drop", "mul", "shr"}
  <2>1. op = x
      BY <1>6, SemByKind
  <2>. HIDE DEF op
  <2>2. /\ x[1] \in LocalKinds => x[2] \in 0 .. NumLocals - 1
        /\ x[1] = "const" => x[2] \in Nat
      BY OperatorParts
  <2>. QED  BY <1>6, <2>1, <2>2 DEF IsInstruction, OpaqueKinds, LocalKinds, PureKinds, Pops, Pushes,
                                    FixedPops, FixedPushes, op
<1>. QED  BY <1>1, <1>2, <1>3, <1>4, <1>5, <1>6, SemByKind


\* An instruction with an id has the one it was given, and takes one.
LEMMA SemIds ==
    ASSUME NEW x \in Operators(NumLocals), Supported(x), NEW id, IsOpaque(Sem(x, id))
    PROVE  TakesId(x) /\ Id(Sem(x, id)) = id
<1>. DEFINE op == Sem(x, id)
<1>1. x[1] \notin {"get", "set", "tee", "const", "drop", "mul", "shr"}
  <2>. SUFFICES ASSUME x[1] \in {"get", "set", "tee", "const", "drop", "mul", "shr"} PROVE FALSE
      OBVIOUS
  <2>1. op = x
      BY SemByKind
  <2>. HIDE DEF op
  <2>. QED  BY <2>1 DEF IsOpaque, OpaqueKinds, op
<1>2. TakesId(x)
    BY <1>1, SemByKind DEF TakesId
<1>3. CASE x[1] \in {"load", "load8"}
  <2>1. op = <<"load", id, x[2]>>
      BY <1>3, SemByKind
  <2>. QED  BY <1>2, <2>1 DEF Id
<1>4. CASE x[1] \in {"store", "store8"}
  <2>1. op = <<"store", id, x[2]>>
      BY <1>4, SemByKind
  <2>. QED  BY <1>2, <2>1 DEF Id
<1>5. CASE x[1] \in {"gget", "gset"}
  <2>1. op = <<x[1], id, x[2]>>
      BY <1>5, SemByKind
  <2>. QED  BY <1>2, <2>1 DEF Id
<1>6. CASE x[1] = "call"
  <2>1. op = <<"call", id, FuncTypes[x[2]].params, FuncTypes[x[2]].results>>
      BY <1>6, SemByKind
  <2>. QED  BY <1>2, <2>1 DEF Id
<1>7. CASE x[1] \in DOMAIN Opaques
  <2>1. op = <<"opaque", id>> \o Opaques[x[1]]
      BY <1>7, SemByKind
  <2>. HIDE DEF op
  <2>2. op[2] = id
      BY <1>7, <2>1, OpaqueFields, Zenon
  <2>. QED  BY <1>2, <2>2 DEF Id, op
<1>. QED  BY <1>1, <1>3, <1>4, <1>5, <1>6, <1>7, SemByKind

-----------------------------------------------------------------------------
(* Blocks *)

\* A set of numbers that has all those below each of its own is an interval.
LEMMA InitialSet ==
    ASSUME NEW l \in Nat, NEW I, I \subseteq 1 .. l, \A i \in I : 1 .. i \subseteq I
    PROVE  I = 1 .. Cardinality(I) /\ Cardinality(I) \in 0 .. l
<1>1. CASE I = {}
  <2>1. Cardinality(I) = 0
      BY <1>1, FS_EmptySet
  <2>. QED  BY <1>1, <2>1
<1>2. CASE I # {}
  <2>1. I \subseteq 0 .. l
      OBVIOUS
  <2>2. PICK n \in I : \A m \in I : m <= n
      BY <1>2, <2>1, GreatestNumber
  <2>3. I = 1 .. n /\ n \in 1 .. l
    <3>1. n \in 1 .. l /\ 1 .. n \subseteq I
        OBVIOUS
    <3>2. I \subseteq 1 .. n
        BY <2>2, <3>1
    <3>. QED  BY <3>1, <3>2
  <2>4. Cardinality(1 .. n) = n
      BY <2>3, FS_Interval
  <2>. QED  BY <2>3, <2>4
<1>. QED  BY <1>1, <1>2

\* s has the positions after lo up to hi.
IsStretch(s, lo, hi) == /\ IsSequence(s) /\ Len(s) = hi - lo /\ lo \in Nat /\ hi \in Nat /\ lo <= hi
                        /\ \A k \in 1 .. hi - lo : s[k] = lo + k

\* One position more.
LEMMA StretchAppended ==
    ASSUME NEW s, NEW lo, NEW hi, IsStretch(s, lo, hi), NEW u, IsAppended(u, s, hi + 1)
    PROVE  IsStretch(u, lo, hi + 1)
<1>1. /\ Len(s) = hi - lo /\ lo \in Nat /\ hi \in Nat /\ lo <= hi
      /\ \A k \in 1 .. hi - lo : s[k] = lo + k
    BY DEF IsStretch
<1>2. /\ IsSequence(u) /\ Len(u) = (hi - lo) + 1
      /\ \A i \in 1 .. hi - lo : u[i] = s[i]
      /\ u[(hi - lo) + 1] = hi + 1
    BY <1>1, Zenon DEF IsAppended
<1>3. ASSUME NEW k \in 1 .. (hi + 1) - lo
      PROVE  u[k] = lo + k
  <2>1. k \in 1 .. hi - lo \/ k = (hi - lo) + 1
      BY <1>1
  <2>2. CASE k \in 1 .. hi - lo
      BY <1>1, <1>2, <2>2
  <2>3. CASE k = (hi - lo) + 1
    <3>1. lo + k = hi + 1
        BY <1>1, <2>3
    <3>. QED  BY <1>2, <2>3, <3>1
  <2>. QED  BY <2>1, <2>2, <2>3
<1>. QED  BY <1>1, <1>2, <1>3 DEF IsStretch

\* An empty stretch.
LEMMA EmptyStretch ==
    ASSUME NEW n \in Nat
    PROVE  IsStretch(<<>>, n, n)
BY EmptyIsSequence DEF IsStretch

\* A sequence of one.
LEMMA OneElement ==
    ASSUME NEW e
    PROVE  IsSequence(<<e>>) /\ Len(<<e>>) = 1 /\ <<e>>[1] = e
<1>1. <<e>> \in Seq({e}) /\ Len(<<e>>) = 1 /\ <<e>>[1] = e
    OBVIOUS
<1>. QED  BY <1>1, TypedSequence, Zenon

\* Joining with one element is appending it.
LEMMA OneAppended ==
    ASSUME NEW s, IsSequence(s), NEW e
    PROVE  IsAppended(s \o <<e>>, s, e)
<1>. DEFINE t == <<e>>
            u == s \o t
<1>1. IsSequence(t) /\ Len(t) = 1 /\ t[1] = e
    BY OneElement
<1>2. IsJoined(u, s, t)
    BY <1>1, Concatenated
<1>. HIDE DEF t, u
<1>3. u[Len(s) + 1] = e
    BY <1>1, <1>2 DEF IsJoined
<1>4. IsAppended(u, s, e)
    BY <1>1, <1>2, <1>3 DEF IsJoined, IsAppended
<1>. QED  BY <1>4 DEF t, u

\* Only the first and the last of these positions may hold a control operator.
Enclosed(code, lo, hi) == \A p \in lo + 2 .. hi - 1 : ~IsControl(code[p])

\* A block without the control operators at its ends is a stretch.
LEMMA OptimizableIsStretch ==
    ASSUME NEW code, NEW block, NEW lo, NEW hi, IsStretch(block, lo, hi), Enclosed(code, lo, hi)
    PROVE  \E x \in lo .. hi : \E y \in x .. hi :
               /\ IsStretch(Optimizable(code, block), x, y)
               /\ \A p \in x + 1 .. y : ~IsControl(code[p])
<1>. DEFINE n == hi - lo
            ss == [k \in DOMAIN block |-> IF IsControl(code[block[k]]) THEN <<>> ELSE <<block[k]>>]
            Good(s, k) == \E x \in lo .. hi : \E y \in x .. hi :
                              /\ IsStretch(s, x, y) /\ y <= lo + k /\ (k < n => y = lo + k)
                              /\ \A p \in x + 1 .. y : ~IsControl(code[p])
<1>1. /\ lo \in Nat /\ hi \in Nat /\ lo <= hi /\ n \in Nat /\ Len(block) = n
      /\ DOMAIN block = 1 .. n /\ \A k \in 1 .. n : block[k] = lo + k
    BY SequenceParts DEF IsStretch
<1>2. \A k \in 1 .. n : ss[k] = IF IsControl(code[lo + k]) THEN <<>> ELSE <<lo + k>>
    BY <1>1
<1>3. ss = [k \in 1 .. n |-> ss[k]]
    BY <1>1
<1>4. Optimizable(code, block) = FlattenSeq(ss)
    BY DEF Optimizable
<1>. HIDE DEF ss, n
<1>5. IsSequence(ss) /\ Len(ss) = n /\ DOMAIN ss = 1 .. n
    BY <1>1, <1>3, ByElements
<1>6. AreSequences(ss)
    BY <1>2, <1>5, EmptyIsSequence, OneElement DEF AreSequences
<1>7. PICK f : Joins(f, ss) /\ FlattenSeq(ss) = f[n]
    BY <1>5, <1>6, FlattenSteps
<1>8. /\ f[0] = <<>>
      /\ \A k \in 1 .. n : f[k] = f[k - 1] \o ss[k]
      /\ \A k \in 0 .. n : IsSequence(f[k])
    BY <1>5, <1>7 DEF Joins
<1>. DEFINE S == {k \in 0 .. n : Good(f[k], k)}
<1>9. 0 \in S
  <2>1. IsStretch(f[0], lo, lo)
      BY <1>1, <1>8, EmptyStretch
  <2>2. lo \in lo .. hi /\ lo <= lo + 0 /\ lo = lo + 0 /\ \A p \in lo + 1 .. lo : FALSE
      BY <1>1
  <2>3. Good(f[0], 0)
      BY <2>1, <2>2
  <2>. HIDE DEF Good
  <2>. QED  BY <1>1, <2>3
<1>10. \A k \in 0 .. n - 1 : k \in S => k + 1 \in S
  <2>. SUFFICES ASSUME NEW k \in 0 .. n - 1, Good(f[k], k)
                PROVE  Good(f[k + 1], k + 1)
    <3>. HIDE DEF Good
    <3>. QED  BY <1>1
  <2>1. PICK x \in lo .. hi : \E y \in x .. hi :
                              /\ IsStretch(f[k], x, y) /\ y <= lo + k /\ (k < n => y = lo + k)
                              /\ \A p \in x + 1 .. y : ~IsControl(code[p])
      OBVIOUS
  <2>2. PICK y \in x .. hi : /\ IsStretch(f[k], x, y) /\ y <= lo + k /\ (k < n => y = lo + k)
                             /\ \A p \in x + 1 .. y : ~IsControl(code[p])
      BY <2>1
  <2>3. /\ k + 1 \in 1 .. n /\ (k + 1) - 1 = k /\ k < n /\ k \in Nat /\ y = lo + k /\ lo + (k + 1) = y + 1
        /\ k \in 0 .. n /\ n = hi - lo
      BY <1>1, <2>2 DEF n
  <2>4. f[k + 1] = f[k] \o ss[k + 1] /\ ss[k + 1] = IF IsControl(code[y + 1]) THEN <<>> ELSE <<y + 1>>
      BY <1>2, <1>8, <2>3
  <2>5. IsSequence(f[k])
      BY <2>2 DEF IsStretch
  <2>6. CASE ~IsControl(code[y + 1])
    <3>1. f[k + 1] = f[k] \o <<y + 1>>
        BY <2>4, <2>6
    <3>2. IsAppended(f[k + 1], f[k], y + 1)
        BY <2>5, <3>1, OneAppended, Zenon
    <3>3. IsStretch(f[k + 1], x, y + 1)
        BY <2>2, <3>2, StretchAppended, Zenon
    <3>4. y + 1 \in x .. hi /\ y + 1 <= lo + (k + 1) /\ y + 1 = lo + (k + 1)
        BY <1>1, <2>3
    <3>5. \A p \in x + 1 .. y + 1 : ~IsControl(code[p])
      <4>1. \A p \in x + 1 .. y + 1 : p \in x + 1 .. y \/ p = y + 1
          BY <1>1
      <4>. QED  BY <2>2, <2>6, <4>1
    <3>. QED  BY <3>3, <3>4, <3>5
  <2>7. CASE IsControl(code[y + 1])
    <3>1. f[k + 1] = f[k]
        BY <2>4, <2>5, <2>7, EmptyJoined
    <3>2. CASE k + 1 < n
      <4>1. y + 1 <= hi - 1
          BY <1>1, <2>3, <3>2
      <4>2. ~(lo + 2 <= y + 1)
        <5>1. lo + 2 <= y + 1 => y + 1 \in lo + 2 .. hi - 1
            BY <1>1, <2>3, <4>1
        <5>. QED  BY <2>7, <5>1 DEF Enclosed
      <4>3. y = lo /\ x = lo /\ k = 0
          BY <1>1, <2>3, <4>2
      <4>4. f[k + 1] = <<>>
          BY <1>8, <3>1, <4>3
      <4>5. IsStretch(f[k + 1], lo + 1, lo + 1)
          BY <1>1, <4>4, EmptyStretch
      <4>6. lo + 1 \in lo .. hi /\ lo + 1 \in lo + 1 .. hi /\ lo + 1 = lo + (k + 1) /\ lo + 1 <= lo + (k + 1)
          BY <1>1, <2>3, <4>3
      <4>7. \A p \in (lo + 1) + 1 .. lo + 1 : FALSE
          BY <1>1
      <4>. QED  BY <4>5, <4>6, <4>7
    <3>3. CASE ~(k + 1 < n)
      <4>1. IsStretch(f[k + 1], x, y) /\ y <= lo + (k + 1)
          BY <1>1, <2>2, <2>3, <3>1
      <4>. QED  BY <2>2, <3>3, <4>1
    <3>. QED  BY <3>2, <3>3
  <2>. QED  BY <2>6, <2>7
<1>11. \A k \in 0 .. n : k \in S
  <2>. HIDE DEF S
  <2>. QED  BY <1>1, <1>9, <1>10, UpTo, Zenon
<1>12. Good(f[n], n)
  <2>1. n \in 0 .. n
      BY <1>1
  <2>. HIDE DEF Good
  <2>. QED  BY <1>11, <2>1
<1>. QED  BY <1>4, <1>7, <1>12

\* One operator of blocks_from_operators, and the whole of it.
PutAt(code, acc, i) ==
    CASE code[i][1] \in Begins ->
             [done |-> Append(acc.done, acc.cur), cur |-> <<i>>]
      [] code[i][1] \in Finishes ->
             [done |-> Append(acc.done, Append(acc.cur, i)), cur |-> <<>>]
      [] OTHER -> [done |-> acc.done, cur |-> Append(acc.cur, i)]

PutsBy(f, code) ==
    f = [i \in 0 .. Len(code) |->
            IF i = 0 THEN [done |-> <<>>, cur |-> <<>>]
            ELSE LET Put(acc, k) ==
                         CASE code[k][1] \in Begins ->
                                  [done |-> Append(acc.done, acc.cur), cur |-> <<k>>]
                           [] code[k][1] \in Finishes ->
                                  [done |-> Append(acc.done, Append(acc.cur, k)), cur |-> <<>>]
                           [] OTHER -> [done |-> acc.done, cur |-> Append(acc.cur, k)]
                 IN  Put(f[i - 1], i)]

\* What the recursion of BlocksOf computes.
LEMMA BlocksSteps ==
    ASSUME NEW code, Len(code) \in Nat
    PROVE  \E f : /\ f[0] = [done |-> <<>>, cur |-> <<>>]
                  /\ \A i \in 1 .. Len(code) : f[i] = PutAt(code, f[i - 1], i)
                  /\ BlocksOf(code) = IF f[Len(code)].cur = <<>> THEN f[Len(code)].done
                                      ELSE Append(f[Len(code)].done, f[Len(code)].cur)
<1>. DEFINE l == Len(code)
            zero == [done |-> <<>>, cur |-> <<>>]
            Starts(f, n) == f = [i \in 0 .. n |-> IF i = 0 THEN zero ELSE PutAt(code, f[i - 1], i)]
            S == {n \in 0 .. l : \E f : Starts(f, n)}
            h == CHOOSE f : PutsBy(f, code)
<1>1. l \in Nat
    OBVIOUS
<1>. HIDE DEF zero
<1>2. 0 \in S
  <2>. DEFINE f == [i \in 0 .. 0 |-> zero]
  <2>1. Starts(f, 0)
      OBVIOUS
  <2>. HIDE DEF f, Starts
  <2>. QED  BY <1>1, <2>1
<1>3. \A n \in 0 .. l - 1 : n \in S => n + 1 \in S
  <2>. SUFFICES ASSUME NEW n \in 0 .. l - 1, NEW f, Starts(f, n)
                PROVE  n + 1 \in 0 .. l /\ \E g : Starts(g, n + 1)
      BY Zenon
  <2>. DEFINE g == [i \in 0 .. n + 1 |-> IF i <= n THEN f[i] ELSE PutAt(code, f[n], n + 1)]
  <2>1. n \in Nat /\ n + 1 \in 0 .. l
      BY <1>1
  <2>2. \A i \in 0 .. n : f[i] = IF i = 0 THEN zero ELSE PutAt(code, f[i - 1], i)
      BY Zenon
  <2>3. Starts(g, n + 1)
    <3>1. ASSUME NEW i \in 0 .. n + 1
          PROVE  g[i] = IF i = 0 THEN zero ELSE PutAt(code, g[i - 1], i)
      <4>1. CASE i <= n
        <5>1. i \in 0 .. n /\ (i # 0 => i - 1 \in 0 .. n + 1 /\ i - 1 <= n)
            BY <2>1, <4>1
        <5>2. g[i] = f[i] /\ (i # 0 => g[i - 1] = f[i - 1])
            BY <4>1, <5>1
        <5>3. f[i] = IF i = 0 THEN zero ELSE PutAt(code, f[i - 1], i)
            BY <2>2, <5>1, Zenon
        <5>. HIDE DEF g, Starts
        <5>. QED  BY <5>2, <5>3
      <4>2. CASE ~(i <= n)
        <5>1. i = n + 1 /\ i # 0 /\ i - 1 = n /\ n \in 0 .. n + 1 /\ n <= n
            BY <2>1, <4>2
        <5>2. g[i] = PutAt(code, f[n], n + 1) /\ g[i - 1] = f[n]
            BY <4>2, <5>1
        <5>. HIDE DEF g, Starts
        <5>. QED  BY <5>1, <5>2
      <4>. QED  BY <4>1, <4>2
    <3>2. g = [i \in 0 .. n + 1 |-> g[i]]
        OBVIOUS
    <3>. HIDE DEF g
    <3>. QED  BY <3>1, <3>2
  <2>. QED  BY <2>1, <2>3, Zenon
<1>4. \E f : Starts(f, l)
  <2>1. \A n \in 0 .. l : n \in S
    <3>. HIDE DEF S, l
    <3>. QED  BY <1>1, <1>2, <1>3, UpTo, Zenon
  <2>2. l \in 0 .. l
      BY <1>1
  <2>. QED  BY <2>1, <2>2, Zenon
<1>5. \A f : PutsBy(f, code) <=> Starts(f, l)
    BY Zenon DEF PutsBy, PutAt, zero
<1>6. PutsBy(h, code)
    BY <1>4, <1>5, Zenon
<1>7. BlocksOf(code) = IF h[l].cur = <<>> THEN h[l].done ELSE Append(h[l].done, h[l].cur)
    BY Zenon DEF BlocksOf, PutsBy
<1>8. Starts(h, l)
    BY <1>5, <1>6
<1>. HIDE DEF h
<1>9. h[0] = zero /\ \A i \in 1 .. l : h[i] = PutAt(code, h[i - 1], i)
    BY <1>1, <1>8
<1>. QED  BY <1>7, <1>9 DEF zero

\* The blocks in done are stretches of the body, one after the other up to hi; e
\* says where they end.
AreBlocks(done, e, code, hi) ==
    /\ IsSequence(done) /\ hi \in Nat
    /\ e[0] = 0 /\ e[Len(done)] = hi
    /\ \A b \in 1 .. Len(done) : /\ IsStretch(done[b], e[b - 1], e[b]) /\ e[b] <= hi
                                 /\ Enclosed(code, e[b - 1], e[b])

\* No block yet.
LEMMA NoBlocks ==
    ASSUME NEW code
    PROVE  AreBlocks(<<>>, [b \in {0} |-> 0], code, 0)
BY EmptyIsSequence DEF AreBlocks

\* One block more.
LEMMA MoreBlocks ==
    ASSUME NEW done, NEW e, NEW code, NEW lo, AreBlocks(done, e, code, lo),
           NEW s, NEW hi, IsStretch(s, lo, hi), Enclosed(code, lo, hi),
           NEW d, IsAppended(d, done, s)
    PROVE  \E g : AreBlocks(d, g, code, hi)
<1>. DEFINE l == Len(done)
            g == [b \in 0 .. l + 1 |-> IF b <= l THEN e[b] ELSE hi]
<1>1. /\ l \in Nat /\ lo \in Nat /\ hi \in Nat /\ lo <= hi /\ e[0] = 0 /\ e[l] = lo
      /\ \A b \in 1 .. l : /\ IsStretch(done[b], e[b - 1], e[b]) /\ e[b] <= lo
                           /\ Enclosed(code, e[b - 1], e[b])
    BY SequenceParts DEF AreBlocks, IsStretch
<1>2. /\ IsSequence(d) /\ Len(d) = l + 1 /\ d[l + 1] = s /\ \A b \in 1 .. l : d[b] = done[b]
    BY DEF IsAppended
<1>. HIDE DEF l
<1>3. g[0] = 0 /\ g[l + 1] = hi
    BY <1>1
<1>4. ASSUME NEW b \in 1 .. l + 1
      PROVE  IsStretch(d[b], g[b - 1], g[b]) /\ g[b] <= hi /\ Enclosed(code, g[b - 1], g[b])
  <2>1. CASE b <= l
    <3>1. b \in 1 .. l /\ g[b] = e[b] /\ g[b - 1] = e[b - 1]
        BY <1>1, <2>1
    <3>2. e[b] \in Nat /\ e[b] <= lo
        BY <1>1, <3>1 DEF IsStretch
    <3>. HIDE DEF g
    <3>. QED  BY <1>1, <1>2, <3>1, <3>2
  <2>2. CASE ~(b <= l)
    <3>1. b = l + 1 /\ g[b] = hi /\ g[b - 1] = lo
        BY <1>1, <2>2
    <3>. HIDE DEF g
    <3>. QED  BY <1>1, <1>2, <3>1
  <2>. QED  BY <2>1, <2>2
<1>. HIDE DEF g
<1>5. AreBlocks(d, g, code, hi)
    BY <1>1, <1>2, <1>3, <1>4 DEF AreBlocks
<1>. QED  BY <1>5

\* The blocks that are done, and the one that is not.
Parsed(acc, code, i) ==
    \E j \in 0 .. i : \E e : /\ AreBlocks(acc.done, e, code, j) /\ IsStretch(acc.cur, j, i)
                             /\ \A p \in j + 2 .. i : ~IsControl(code[p])

\* Every operator goes on parsing.
LEMMA PutParses ==
    ASSUME NEW code, NEW i \in Nat \ {0}, NEW acc, Parsed(acc, code, i - 1)
    PROVE  Parsed(PutAt(code, acc, i), code, i)
<1>. DEFINE n == PutAt(code, acc, i)
            done == acc.done
            cur == acc.cur
<1>1. PICK j \in 0 .. i - 1 : \E e : /\ AreBlocks(done, e, code, j) /\ IsStretch(cur, j, i - 1)
                                     /\ \A p \in j + 2 .. i - 1 : ~IsControl(code[p])
    BY DEF Parsed
<1>2. PICK e : /\ AreBlocks(done, e, code, j) /\ IsStretch(cur, j, i - 1)
               /\ \A p \in j + 2 .. i - 1 : ~IsControl(code[p])
    BY <1>1
<1>3. j \in Nat /\ i - 1 \in Nat /\ j <= i - 1 /\ (i - 1) + 1 = i /\ j \in 0 .. i
    OBVIOUS
<1>4. IsSequence(done) /\ IsSequence(cur)
    BY <1>2 DEF AreBlocks, IsStretch
<1>5. IsStretch(Append(cur, i), j, i)
  <2>1. IsAppended(Append(cur, i), cur, (i - 1) + 1)
      BY <1>3, <1>4, Appended
  <2>2. IsStretch(Append(cur, i), j, (i - 1) + 1)
      BY <1>2, <2>1, StretchAppended, Zenon
  <2>. QED  BY <1>3, <2>2
<1>6. CASE code[i][1] \in Begins
  <2>0. code[i][1] \notin Finishes
      BY <1>6 DEF Begins, Finishes
  <2>1. n = [done |-> Append(done, cur), cur |-> <<i>>]
      BY <1>6, <2>0, Zenon DEF PutAt
  <2>2. Enclosed(code, j, i - 1)
    <3>1. \A p \in j + 2 .. (i - 1) - 1 : p \in j + 2 .. i - 1
        BY <1>3
    <3>. QED  BY <1>2, <3>1 DEF Enclosed
  <2>3. IsAppended(Append(done, cur), done, cur)
      BY <1>4, Appended
  <2>4. PICK g : AreBlocks(Append(done, cur), g, code, i - 1)
      BY <1>2, <2>2, <2>3, MoreBlocks
  <2>5. IsStretch(<<i>>, i - 1, i)
    <3>1. IsSequence(<<i>>) /\ Len(<<i>>) = 1 /\ <<i>>[1] = i
        BY OneElement
    <3>. DEFINE s == <<i>>
    <3>. HIDE DEF s
    <3>2. IsSequence(s) /\ Len(s) = 1 /\ s[1] = i
        BY <3>1 DEF s
    <3>3. i - (i - 1) = 1 /\ \A k \in 1 .. 1 : s[k] = (i - 1) + k
        BY <3>2
    <3>4. IsStretch(s, i - 1, i)
        BY <1>3, <3>2, <3>3 DEF IsStretch
    <3>. QED  BY <3>4 DEF s
  <2>6. \A p \in (i - 1) + 2 .. i : FALSE
      BY <1>3
  <2>7. n.done = Append(done, cur) /\ n.cur = <<i>>
      BY <2>1
  <2>8. i - 1 \in 0 .. i
      BY <1>3
  <2>. HIDE DEF n
  <2>9. \E f : AreBlocks(n.done, f, code, i - 1)
      BY <2>4, <2>7, Zenon
  <2>10. IsStretch(n.cur, i - 1, i)
      BY <2>5, <2>7, Zenon
  <2>11. Parsed(n, code, i)
      BY <2>6, <2>8, <2>9, <2>10, Zenon DEF Parsed
  <2>. QED  BY <2>11 DEF n
<1>7. CASE code[i][1] \in Finishes /\ code[i][1] \notin Begins
  <2>1. n = [done |-> Append(done, Append(cur, i)), cur |-> <<>>]
      BY <1>7, Zenon DEF PutAt
  <2>2. Enclosed(code, j, i)
      BY <1>2 DEF Enclosed
  <2>. DEFINE s == Append(cur, i)
  <2>. HIDE DEF s
  <2>3. IsAppended(Append(done, s), done, s)
      BY <1>4, Appended
  <2>4. PICK g : AreBlocks(Append(done, s), g, code, i)
      BY <1>2, <1>5, <2>2, <2>3, MoreBlocks DEF s
  <2>5. IsStretch(<<>>, i, i)
      BY EmptyStretch
  <2>6. \A p \in i + 2 .. i : FALSE
      BY <1>3
  <2>7. n.done = Append(done, s) /\ n.cur = <<>>
      BY <2>1 DEF s
  <2>8. i \in 0 .. i
      BY <1>3
  <2>. HIDE DEF n
  <2>9. \E f : AreBlocks(n.done, f, code, i)
      BY <2>4, <2>7, Zenon
  <2>10. IsStretch(n.cur, i, i)
      BY <2>5, <2>7, Zenon
  <2>11. Parsed(n, code, i)
      BY <2>6, <2>8, <2>9, <2>10, Zenon DEF Parsed
  <2>. QED  BY <2>11 DEF n
<1>8. CASE code[i][1] \notin Finishes /\ code[i][1] \notin Begins
  <2>1. n = [done |-> done, cur |-> Append(cur, i)]
      BY <1>8, Zenon DEF PutAt
  <2>2. n.done = done /\ n.cur = Append(cur, i)
      BY <2>1
  <2>3. \A p \in j + 2 .. i : ~IsControl(code[p])
    <3>1. \A p \in j + 2 .. i : p \in j + 2 .. i - 1 \/ p = i
        BY <1>3
    <3>2. ~IsControl(code[i])
        BY <1>8 DEF IsControl
    <3>. QED  BY <1>2, <3>1, <3>2
  <2>. HIDE DEF n
  <2>4. Parsed(n, code, i)
      BY <1>2, <1>3, <1>5, <2>2, <2>3, Zenon DEF Parsed
  <2>. QED  BY <2>4 DEF n
<1>. QED  BY <1>6, <1>7, <1>8

\* The blocks of a body are stretches of it, one after the other.
LEMMA BlocksAreStretches ==
    ASSUME NEW code, IsSequence(code)
    PROVE  \E e : AreBlocks(BlocksOf(code), e, code, Len(code))
<1>. DEFINE l == Len(code)
<1>1. l \in Nat
    BY SequenceParts
<1>2. PICK f : /\ f[0] = [done |-> <<>>, cur |-> <<>>]
               /\ \A i \in 1 .. l : f[i] = PutAt(code, f[i - 1], i)
               /\ BlocksOf(code) = IF f[l].cur = <<>> THEN f[l].done
                                   ELSE Append(f[l].done, f[l].cur)
    BY <1>1, BlocksSteps
<1>. HIDE DEF l
<1>. DEFINE S == {i \in 0 .. l : Parsed(f[i], code, i)}
<1>3. 0 \in S
  <2>1. f[0].done = <<>> /\ f[0].cur = <<>>
      BY <1>2
  <2>2. IsStretch(<<>>, 0, 0) /\ AreBlocks(<<>>, [b \in {0} |-> 0], code, 0)
      BY EmptyStretch, NoBlocks
  <2>3. 0 \in 0 .. 0 /\ \A p \in 0 + 2 .. 0 : FALSE
      OBVIOUS
  <2>4. \E e : AreBlocks(f[0].done, e, code, 0)
      BY <2>1, <2>2, Zenon
  <2>5. IsStretch(f[0].cur, 0, 0)
      BY <2>1, <2>2, Zenon
  <2>6. Parsed(f[0], code, 0)
      BY <2>3, <2>4, <2>5, Zenon DEF Parsed
  <2>. QED  BY <1>1, <2>6
<1>4. \A i \in 0 .. l - 1 : i \in S => i + 1 \in S
  <2>. SUFFICES ASSUME NEW i \in 0 .. l - 1, Parsed(f[i], code, i)
                PROVE  Parsed(f[i + 1], code, i + 1)
      BY <1>1
  <2>1. i + 1 \in 1 .. l /\ (i + 1) - 1 = i /\ i + 1 \in Nat \ {0}
      BY <1>1
  <2>2. f[i + 1] = PutAt(code, f[i], i + 1)
      BY <1>2, <2>1
  <2>. QED  BY <2>1, <2>2, PutParses
<1>5. Parsed(f[l], code, l)
  <2>1. \A i \in 0 .. l : i \in S
    <3>. HIDE DEF S
    <3>. QED  BY <1>1, <1>3, <1>4, UpTo, Zenon
  <2>2. l \in 0 .. l
      BY <1>1
  <2>. QED  BY <2>1, <2>2
<1>6. PICK j \in 0 .. l : \E e : /\ AreBlocks(f[l].done, e, code, j) /\ IsStretch(f[l].cur, j, l)
                                 /\ \A p \in j + 2 .. l : ~IsControl(code[p])
    BY <1>5 DEF Parsed
<1>7. PICK e : /\ AreBlocks(f[l].done, e, code, j) /\ IsStretch(f[l].cur, j, l)
               /\ \A p \in j + 2 .. l : ~IsControl(code[p])
    BY <1>6
<1>8. CASE f[l].cur = <<>>
  <2>1. Len(f[l].cur) = 0
      BY <1>8, EmptyIsSequence
  <2>2. Len(f[l].cur) = l - j
      BY <1>7 DEF IsStretch
  <2>3. j = l
      BY <1>1, <2>1, <2>2
  <2>4. AreBlocks(BlocksOf(code), e, code, l)
      BY <1>2, <1>7, <1>8, <2>3
  <2>. QED  BY <2>4 DEF l
<1>9. CASE f[l].cur # <<>>
  <2>1. IsAppended(Append(f[l].done, f[l].cur), f[l].done, f[l].cur)
      BY <1>7, Appended, Zenon DEF AreBlocks
  <2>2. Enclosed(code, j, l)
    <3>1. \A p \in j + 2 .. l - 1 : p \in j + 2 .. l
        BY <1>1
    <3>. QED  BY <1>7, <3>1 DEF Enclosed
  <2>3. \E g : AreBlocks(Append(f[l].done, f[l].cur), g, code, l)
      BY <1>7, <2>1, <2>2, MoreBlocks
  <2>4. BlocksOf(code) = Append(f[l].done, f[l].cur)
      BY <1>2, <1>9
  <2>. QED  BY <2>3, <2>4 DEF l
<1>. QED  BY <1>8, <1>9

-----------------------------------------------------------------------------
(* Raw segments *)

\* The operators of a body are those of the function.
IsBody(code) == code \in Seq(Operators(NumLocals))

\* The operators of a body.
LEMMA BodyParts ==
    ASSUME NEW code, IsBody(code)
    PROVE  /\ IsSequence(code) /\ Len(code) \in Nat /\ DOMAIN code = 1 .. Len(code)
           /\ \A p \in 1 .. Len(code) : code[p] \in Operators(NumLocals)
<1>1. code \in Seq(Operators(NumLocals))
    BY DEF IsBody
<1>. DEFINE A == Operators(NumLocals)
<1>. HIDE DEF A
<1>2. code \in Seq(A)
    BY <1>1 DEF A
<1>3. IsSequence(code) /\ \A p \in 1 .. Len(code) : code[p] \in A
    BY <1>2, TypedSequence
<1>. QED  BY <1>3, SequenceParts DEF A

\* One instruction.
LEMMA OneInstruction ==
    ASSUME NEW op, IsInstruction(op)
    PROVE  AreInstructions(<<op>>)
<1>. DEFINE s == <<op>>
<1>1. IsSequence(s) /\ Len(s) = 1 /\ s[1] = op
    BY OneElement
<1>. HIDE DEF s
<1>2. \A k \in 1 .. Len(s) : s[k] = op
    BY <1>1
<1>3. AreInstructions(s)
    BY <1>1, <1>2 DEF AreInstructions
<1>. QED  BY <1>3 DEF s

\* What an operator does to the stack is what an instruction does, or nothing.
LEMMA EffectIsInstructions ==
    ASSUME NEW x \in Operators(NumLocals)
    PROVE  AreInstructions(Effect(x))
<1>. DEFINE k == x[1]
<1>0. AreInstructions(<<>>)
    BY EmptyIsSequence DEF AreInstructions
<1>1. CASE k \in {"block", "loop", "if", "else", "br", "end", "nop"}
  <2>1. /\ k # "calli" /\ k # "call" /\ k # "select" /\ k # "return"
      BY <1>1
  <2>2. Effect(x) = <<>>
      BY <1>1, <2>1, Zenon DEF Effect
  <2>. QED  BY <1>0, <2>2
<1>2. CASE k = "calli"
  <2>. DEFINE op == <<"call", 0, 1 + FuncTypes[x[2]].params, FuncTypes[x[2]].results>>
  <2>1. k \notin {"block", "loop", "if", "else", "br", "end", "nop"} /\ k # "call" /\ k # "select" /\ k # "return"
      BY <1>2
  <2>2. Effect(x) = <<op>>
      BY <1>2, <2>1, Zenon DEF Effect
  <2>3. FuncTypes[x[2]].params \in Nat /\ FuncTypes[x[2]].results \in Nat
    <3>1. x[2] \in DOMAIN FuncTypes
        BY <1>2, OperatorParts
    <3>. QED  BY <3>1, TypesAssumption
  <2>4. op[1] = "call" /\ op[3] \in Nat /\ op[4] \in Nat
      BY <2>3
  <2>. HIDE DEF op
  <2>5. IsInstruction(op)
      BY <2>4 DEF IsInstruction, OpaqueKinds, LocalKinds, Pops, Pushes
  <2>. QED  BY <2>2, <2>5, OneInstruction
<1>3. CASE k = "call" /\ ~Supported(x)
  <2>1. k \notin {"block", "loop", "if", "else", "br", "end", "nop"} /\ k # "calli" /\ k # "select" /\ k # "return"
      BY <1>3
  <2>2. Effect(x) = <<>>
      BY <1>3, <2>1, Zenon DEF Effect
  <2>. QED  BY <1>0, <2>2
<1>4. CASE k = "select"
  <2>. DEFINE op == <<"opaque", 0, 3, 1, FALSE>>
  <2>1. k \notin {"block", "loop", "if", "else", "br", "end", "nop"} /\ k # "calli" /\ k # "call" /\ k # "return"
      BY <1>4
  <2>2. Effect(x) = <<op>>
      BY <1>4, <2>1, Zenon DEF Effect
  <2>3. op[1] = "opaque" /\ op[3] = 3 /\ op[4] = 1
      OBVIOUS
  <2>. HIDE DEF op
  <2>4. IsInstruction(op)
      BY <2>3 DEF IsInstruction, OpaqueKinds, LocalKinds, Pops, Pushes
  <2>. QED  BY <2>2, <2>4, OneInstruction
<1>5. CASE k = "return"
  <2>. DEFINE op == <<"opaque", 0, 0, 0, FALSE>>
  <2>1. k \notin {"block", "loop", "if", "else", "br", "end", "nop"} /\ k # "calli" /\ k # "call" /\ k # "select"
      BY <1>5
  <2>2. Effect(x) = <<op>>
      BY <1>5, <2>1, Zenon DEF Effect
  <2>3. op[1] = "opaque" /\ op[3] = 0 /\ op[4] = 0
      OBVIOUS
  <2>. HIDE DEF op
  <2>4. IsInstruction(op)
      BY <2>3 DEF IsInstruction, OpaqueKinds, LocalKinds, Pops, Pushes
  <2>. QED  BY <2>2, <2>4, OneInstruction
<1>6. CASE /\ k \notin {"block", "loop", "if", "else", "br", "end", "nop"}
           /\ k # "calli" /\ ~(k = "call" /\ ~Supported(x)) /\ k # "select" /\ k # "return"
  <2>1. Effect(x) = <<Sem(x, 0)>>
      BY <1>6, Zenon DEF Effect
  <2>2. Supported(x)
      BY <1>6 DEF Supported, IsControl, Begins, Finishes
  <2>. QED  BY <2>1, <2>2, SemIsInstruction, OneInstruction
<1>. QED  BY <1>1, <1>2, <1>3, <1>4, <1>5, <1>6

\* The bound of the function is a number.
LEMMA TemplateType ==
    ASSUME NEW code, IsBody(code)
    PROVE  Template(code) \in Nat
<1>. DEFINE ss == [i \in DOMAIN code |-> Effect(code[i])]
            ops == FlattenSeq(ss)
<1>1. Len(code) \in Nat /\ DOMAIN code = 1 .. Len(code)
    BY BodyParts
<1>2. \A i \in DOMAIN code : AreInstructions(Effect(code[i]))
    BY BodyParts, EffectIsInstructions
<1>3. ss = [i \in 1 .. Len(code) |-> ss[i]] /\ \A i \in 1 .. Len(code) : AreInstructions(ss[i])
    BY <1>1, <1>2
<1>4. Template(code) = StackBounds(ops).max + StackSlack
    BY Zenon DEF Template
<1>. HIDE DEF ss
<1>5. AreSequences(ss) /\ DOMAIN ss = 1 .. Len(code)
  <2>1. IsSequence(ss) /\ DOMAIN ss = 1 .. Len(code)
      BY <1>1, <1>3, ByElements
  <2>. QED  BY <1>3, <2>1 DEF AreSequences, AreInstructions
<1>6. IsSequence(ops) /\ DOMAIN ops = 1 .. Len(ops)
    BY <1>5, FlattenIsSequence, SequenceParts
<1>7. \A i \in 1 .. Len(ops) : IsInstruction(ops[i])
  <2>. TAKE i \in 1 .. Len(ops)
  <2>1. PICK b \in DOMAIN ss : \E k \in DOMAIN ss[b] : ops[i] = ss[b][k]
      BY <1>5, <1>6, FlattenElements
  <2>2. PICK k \in DOMAIN ss[b] : ops[i] = ss[b][k]
      BY <2>1
  <2>3. AreInstructions(ss[b]) /\ DOMAIN ss[b] = 1 .. Len(ss[b])
      BY <1>3, <1>5, SequenceParts DEF AreInstructions
  <2>. QED  BY <2>2, <2>3 DEF AreInstructions
<1>. HIDE DEF ops
<1>8. AreInstructions(ops)
    BY <1>6, <1>7 DEF AreInstructions
<1>9. StackBounds(ops).max \in Nat
    BY <1>8, BoundsOfHeights
<1>. QED  BY <1>4, <1>9, MachineAssumption

\* What is collected of a block is a stretch of supported operators.
LEMMA CollectedIsStretch ==
    ASSUME NEW code, NEW block, NEW lo, NEW hi, IsStretch(block, lo, hi), Enclosed(code, lo, hi)
    PROVE  \E x \in lo .. hi : \E y \in x .. hi :
               /\ IsStretch(Collected(code, block), x, y)
               /\ \A p \in x + 1 .. y : Supported(code[p])
<1>. DEFINE ops == Optimizable(code, block)
<1>1. PICK x \in lo .. hi : \E y \in x .. hi : IsStretch(ops, x, y)
    BY OptimizableIsStretch
<1>2. PICK y \in x .. hi : IsStretch(ops, x, y)
    BY <1>1
<1>. DEFINE I == {i \in DOMAIN ops : \A j \in 1 .. i : Supported(code[ops[j]])}
            n == Cardinality(I)
<1>3. Collected(code, block) = SubSeq(ops, 1, n)
    BY DEF Collected
<1>. HIDE DEF ops
<1>4. /\ lo \in Nat /\ hi \in Nat /\ x \in Nat /\ y \in Nat /\ x <= y /\ y <= hi /\ lo <= x
      /\ IsSequence(ops) /\ Len(ops) = y - x /\ DOMAIN ops = 1 .. y - x
      /\ \A k \in 1 .. y - x : ops[k] = x + k
  <2>1. IsSequence(ops) /\ Len(ops) = y - x /\ \A k \in 1 .. y - x : ops[k] = x + k
      BY <1>2 DEF IsStretch
  <2>2. DOMAIN ops = 1 .. y - x
      BY <2>1, SequenceParts
  <2>3. lo \in Nat /\ hi \in Nat
      BY DEF IsStretch
  <2>. QED  BY <2>1, <2>2, <2>3
<1>5. I = 1 .. n /\ n \in 0 .. y - x
  <2>1. I \subseteq 1 .. y - x /\ \A i \in I : 1 .. i \subseteq I
    <3>1. ASSUME NEW i \in I, NEW j \in 1 .. i
          PROVE  j \in I
        BY <1>4
    <3>. QED  BY <1>4, <3>1
  <2>2. y - x \in Nat
      BY <1>4
  <2>. HIDE DEF I
  <2>. QED  BY <2>1, <2>2, InitialSet
<1>6. \A p \in x + 1 .. x + n : Supported(code[p])
  <2>. TAKE p \in x + 1 .. x + n
  <2>1. p - x \in 1 .. n /\ p - x \in 1 .. y - x /\ x + (p - x) = p
    <3>. HIDE DEF n
    <3>. QED  BY <1>4, <1>5
  <2>2. p - x \in I
      BY <1>5, <2>1
  <2>3. ops[p - x] = p
      BY <1>4, <2>1
  <2>4. p - x \in 1 .. p - x
      BY <2>1
  <2>. QED  BY <2>2, <2>3, <2>4
<1>. HIDE DEF I, n
<1>. DEFINE u == SubSeq(ops, 1, n)
<1>7. IsCut(u, ops, 1, n)
  <2>1. 1 \in Nat \ {0} /\ n \in Nat /\ n <= Len(ops) /\ 1 <= n + 1
      BY <1>4, <1>5
  <2>. QED  BY <1>4, <2>1, Cut
<1>. HIDE DEF u
<1>8. IsStretch(u, x, x + n)
  <2>1. IsSequence(u) /\ Len(u) = n - 1 + 1 /\ \A i \in 1 .. n - 1 + 1 : u[i] = ops[1 + i - 1]
      BY <1>7 DEF IsCut
  <2>2. n - 1 + 1 = n /\ (x + n) - x = n /\ x + n \in Nat /\ x <= x + n
      BY <1>4, <1>5
  <2>3. \A i \in 1 .. n : u[i] = x + i
    <3>. TAKE i \in 1 .. n
    <3>1. i \in 1 .. n - 1 + 1 /\ 1 + i - 1 = i /\ i \in 1 .. y - x
        BY <1>4, <1>5
    <3>. QED  BY <1>4, <2>1, <3>1
  <2>. QED  BY <1>4, <2>1, <2>2, <2>3 DEF IsStretch
<1>9. x + n \in x .. hi
    BY <1>4, <1>5
<1>. QED  BY <1>3, <1>6, <1>8, <1>9 DEF u

\* A segment or chunk before it is executed.
IsChunk(code, c) ==
    /\ IsSequence(c.ix) /\ IsSequence(c.ops) /\ Len(c.ops) = Len(c.ix) /\ Len(c.ix) # 0
    /\ \A k \in 1 .. Len(c.ix) : /\ c.ix[k] \in 1 .. Len(code) /\ Supported(code[c.ix[k]])
                                 /\ \E id \in Nat : c.ops[k] = Sem(code[c.ix[k]], id)
                                 /\ IsOpaque(c.ops[k]) => Id(c.ops[k]) \in c.texts
    /\ \A k \in 1 .. Len(c.ix) - 1 : c.ix[k + 1] = c.ix[k] + 1
    /\ \A j, k \in 1 .. Len(c.ix) :
          j < k /\ IsOpaque(c.ops[j]) /\ IsOpaque(c.ops[k]) => Id(c.ops[j]) # Id(c.ops[k])
    /\ c.template \in Nat

\* Positions that ascend between lo and hi.
Within(s, lo, hi) == /\ IsSequence(s) /\ lo \in Nat /\ hi \in Nat /\ lo <= hi
                     /\ \A i \in 1 .. Len(s) : s[i] \in lo + 1 .. hi
                     /\ \A i, j \in 1 .. Len(s) : i < j => s[i] < s[j]

\* Positions that ascend, then positions above them that ascend.
LEMMA WithinJoined ==
    ASSUME NEW s, NEW lo, NEW mid, Within(s, lo, mid), NEW t, NEW hi, Within(t, mid, hi)
    PROVE  Within(s \o t, lo, hi)
<1>. DEFINE u == s \o t
            l == Len(s)
            m == Len(t)
<1>1. IsJoined(u, s, t) /\ l \in Nat /\ m \in Nat
    BY Concatenated, SequenceParts DEF Within
<1>. HIDE DEF u
<1>2. /\ lo \in Nat /\ mid \in Nat /\ hi \in Nat /\ lo <= mid /\ mid <= hi
      /\ \A i \in 1 .. l : s[i] \in lo + 1 .. mid
      /\ \A i \in 1 .. m : t[i] \in mid + 1 .. hi
      /\ \A i, j \in 1 .. l : i < j => s[i] < s[j]
      /\ \A i, j \in 1 .. m : i < j => t[i] < t[j]
    BY DEF Within
<1>3. /\ IsSequence(u) /\ Len(u) = l + m
      /\ \A i \in 1 .. l : u[i] = s[i]
      /\ \A i \in 1 .. m : u[l + i] = t[i]
    BY <1>1 DEF IsJoined
<1>. HIDE DEF l, m
<1>4. \A i \in 1 .. l + m : i \in 1 .. l \/ (i - l \in 1 .. m /\ i = l + (i - l))
    BY <1>1
<1>5. ASSUME NEW i \in 1 .. l + m
      PROVE  u[i] \in lo + 1 .. hi
  <2>1. CASE i \in 1 .. l
      BY <1>2, <1>3, <2>1
  <2>2. CASE i - l \in 1 .. m /\ i = l + (i - l)
    <3>1. u[i] = t[i - l]
        BY <1>3, <2>2
    <3>. QED  BY <1>2, <2>2, <3>1
  <2>. QED  BY <1>4, <2>1, <2>2
<1>6. ASSUME NEW i \in 1 .. l + m, NEW j \in 1 .. l + m, i < j
      PROVE  u[i] < u[j]
  <2>1. CASE j \in 1 .. l
    <3>1. i \in 1 .. l
        BY <1>1, <1>6, <2>1
    <3>. QED  BY <1>2, <1>3, <1>6, <2>1, <3>1
  <2>2. CASE j - l \in 1 .. m /\ j = l + (j - l)
    <3>1. u[j] = t[j - l]
        BY <1>3, <2>2
    <3>2. CASE i \in 1 .. l
      <4>1. u[i] = s[i] /\ s[i] \in lo + 1 .. mid /\ t[j - l] \in mid + 1 .. hi
          BY <1>2, <1>3, <2>2, <3>2
      <4>. QED  BY <1>2, <3>1, <4>1
    <3>3. CASE i - l \in 1 .. m /\ i = l + (i - l)
      <4>1. u[i] = t[i - l]
          BY <1>3, <3>3
      <4>2. i - l < j - l
          BY <1>1, <1>6
      <4>. QED  BY <1>2, <2>2, <3>1, <3>3, <4>1, <4>2
    <3>. QED  BY <1>4, <3>2, <3>3
  <2>. QED  BY <1>4, <2>1, <2>2
<1>7. Within(u, lo, hi)
    BY <1>2, <1>3, <1>5, <1>6 DEF Within
<1>. QED  BY <1>7 DEF u

\* A segment alone.
LEMMA PositionsOfOne ==
    ASSUME NEW c, IsSequence(c.ix)
    PROVE  /\ AreSegments(<<c>>) /\ Len(<<c>>) = 1 /\ DOMAIN <<c>> = {1} /\ <<c>>[1] = c
           /\ PositionsOf(<<c>>) = c.ix
<1>. DEFINE s == <<c>>
            xx == IxOf(s)
<1>1. IsSequence(s) /\ Len(s) = 1 /\ s[1] = c /\ DOMAIN s = {1}
    BY OneElement
<1>. HIDE DEF s
<1>2. AreSegments(s)
    BY <1>1 DEF AreSegments
<1>3. AreSequences(xx) /\ Len(xx) = 1 /\ xx[1] = c.ix
    BY <1>1, <1>2, IxAreSequences DEF IxOf
<1>. HIDE DEF xx
<1>4. PICK f : Joins(f, xx) /\ FlattenSeq(xx) = f[Len(xx)]
    BY <1>3, FlattenSteps
<1>5. f[1] = <<>> \o c.ix
  <2>1. f[0] = <<>> /\ \A i \in 1 .. 1 : f[i] = f[i - 1] \o xx[i]
      BY <1>3, <1>4 DEF Joins
  <2>2. 1 \in 1 .. 1 /\ 1 - 1 = 0
      OBVIOUS
  <2>3. f[1] = f[1 - 1] \o xx[1]
      BY <2>1, <2>2
  <2>. QED  BY <1>3, <2>1, <2>2, <2>3
<1>6. f[1] = c.ix
    BY <1>5, EmptyJoined
<1>7. PositionsOf(s) = c.ix
    BY <1>3, <1>4, <1>6 DEF PositionsOf, xx
<1>. QED  BY <1>1, <1>2, <1>7 DEF s

\* extract_from_body, of one block.
RawOf(code, block) ==
    LET ix == Collected(code, block)
        ops == SemsOf(code, ix)
    IN  IF ix = <<>> THEN <<>>
        ELSE <<[ix |-> ix, ops |-> ops, part |-> <<0, 1>>, template |-> Template(code),
                texts |-> {Id(op) : op \in {op \in ToSet(ops) : IsOpaque(op)}}]>>

\* The ids count what was collected before, so that none is given twice.
LEMMA SemsOfStretch ==
    ASSUME NEW code, IsBody(code), NEW ix, IsSequence(ix),
           \A k \in 1 .. Len(ix) : ix[k] \in 1 .. Len(code) /\ Supported(code[ix[k]])
    PROVE  /\ IsSequence(SemsOf(code, ix)) /\ Len(SemsOf(code, ix)) = Len(ix)
           /\ \A k \in 1 .. Len(ix) : \E id \in Nat : SemsOf(code, ix)[k] = Sem(code[ix[k]], id)
           /\ \A j, k \in 1 .. Len(ix) :
                 j < k /\ IsOpaque(SemsOf(code, ix)[j]) /\ IsOpaque(SemsOf(code, ix)[k])
                 => Id(SemsOf(code, ix)[j]) # Id(SemsOf(code, ix)[k])
<1>. DEFINE ops == SemsOf(code, ix)
            Before(i) == {j \in 1..(i - 1) : TakesId(code[ix[j]])}
            Number(i) == Cardinality(Before(i))
<1>1. Len(ix) \in Nat /\ DOMAIN ix = 1 .. Len(ix)
    BY SequenceParts
<1>2. \A k \in 1 .. Len(ix) : ops[k] = Sem(code[ix[k]], Number(k))
    BY <1>1 DEF SemsOf
<1>3. \A k \in 1 .. Len(ix) : Number(k) \in Nat /\ IsFiniteSet(Before(k))
  <2>. TAKE k \in 1 .. Len(ix)
  <2>1. IsFiniteSet(1 .. (k - 1))
      BY <1>1, FS_Interval
  <2>2. Before(k) \subseteq 1 .. (k - 1)
      OBVIOUS
  <2>. HIDE DEF Before
  <2>. QED  BY <2>1, <2>2, FS_Subset, FS_CardinalityType
<1>4. ops = [k \in 1 .. Len(ix) |-> ops[k]]
    BY <1>1 DEF SemsOf
<1>5. ASSUME NEW j \in 1 .. Len(ix), NEW k \in 1 .. Len(ix), j < k,
             IsOpaque(ops[j]), IsOpaque(ops[k])
      PROVE  Id(ops[j]) # Id(ops[k])
  <2>1. \A i \in 1 .. Len(ix) : code[ix[i]] \in Operators(NumLocals) /\ Supported(code[ix[i]])
      BY BodyParts
  <2>2. TakesId(code[ix[j]]) /\ Id(ops[j]) = Number(j) /\ Id(ops[k]) = Number(k)
    <3>1. \A i \in 1 .. Len(ix) :
              IsOpaque(ops[i]) => TakesId(code[ix[i]]) /\ Id(ops[i]) = Number(i)
      <4>. TAKE i \in 1 .. Len(ix)
      <4>. HAVE IsOpaque(ops[i])
      <4>. DEFINE id == Number(i)
      <4>. HIDE DEF Number, ops, id
      <4>1. ops[i] = Sem(code[ix[i]], id)
          BY <1>2 DEF id
      <4>. QED  BY <2>1, <4>1, SemIds DEF id
    <3>. HIDE DEF ops, Number
    <3>. QED  BY <1>5, <3>1
  <2>3. Before(j) \subseteq Before(k) /\ j \in Before(k) /\ j \notin Before(j)
      BY <1>1, <1>5, <2>2
  <2>. HIDE DEF Before
  <2>4. Number(j) # Number(k)
      BY <1>3, <2>3, FS_Subset
  <2>. QED  BY <2>2, <2>4
<1>. HIDE DEF ops, Number
<1>6. IsSequence(ops) /\ Len(ops) = Len(ix)
    BY <1>1, <1>4, ByElements
<1>. QED  BY <1>2, <1>3, <1>5, <1>6 DEF ops

\* A block gives nothing or a chunk of its own.
LEMMA RawOfStretch ==
    ASSUME NEW code, IsBody(code), NEW block, NEW lo, NEW hi, hi <= Len(code),
           IsStretch(block, lo, hi), Enclosed(code, lo, hi)
    PROVE  /\ AreSegments(RawOf(code, block)) /\ Within(PositionsOf(RawOf(code, block)), lo, hi)
           /\ \A k \in DOMAIN RawOf(code, block) : IsChunk(code, RawOf(code, block)[k])
<1>. DEFINE ix == Collected(code, block)
            ops == SemsOf(code, ix)
            texts == {Id(op) : op \in {op \in ToSet(ops) : IsOpaque(op)}}
            c == [ix |-> ix, ops |-> ops, part |-> <<0, 1>>, template |-> Template(code),
                  texts |-> texts]
<1>1. lo \in Nat /\ hi \in Nat /\ lo <= hi /\ Len(code) \in Nat
    BY BodyParts DEF IsStretch
<1>2. PICK x \in lo .. hi : \E y \in x .. hi : /\ IsStretch(ix, x, y)
                                               /\ \A p \in x + 1 .. y : Supported(code[p])
    BY CollectedIsStretch
<1>3. PICK y \in x .. hi : IsStretch(ix, x, y) /\ \A p \in x + 1 .. y : Supported(code[p])
    BY <1>2
<1>4. RawOf(code, block) = IF ix = <<>> THEN <<>> ELSE <<c>>
    BY DEF RawOf
<1>. HIDE DEF ix
<1>5. /\ IsSequence(ix) /\ Len(ix) = y - x /\ x \in Nat /\ y \in Nat /\ x <= y /\ y <= hi /\ lo <= x
      /\ \A k \in 1 .. Len(ix) : ix[k] = x + k /\ x + k \in x + 1 .. y
  <2>1. /\ IsSequence(ix) /\ Len(ix) = y - x /\ x \in Nat /\ y \in Nat
        /\ \A k \in 1 .. y - x : ix[k] = x + k
      BY <1>3 DEF IsStretch
  <2>. QED  BY <1>1, <2>1
<1>6. \A k \in 1 .. Len(ix) : ix[k] \in 1 .. Len(code) /\ Supported(code[ix[k]])
  <2>. TAKE k \in 1 .. Len(ix)
  <2>1. ix[k] \in x + 1 .. y
      BY <1>5
  <2>. QED  BY <1>1, <1>3, <1>5, <2>1
<1>7. /\ IsSequence(ops) /\ Len(ops) = Len(ix)
      /\ \A k \in 1 .. Len(ix) : \E id \in Nat : ops[k] = Sem(code[ix[k]], id)
      /\ \A j, k \in 1 .. Len(ix) :
            j < k /\ IsOpaque(ops[j]) /\ IsOpaque(ops[k]) => Id(ops[j]) # Id(ops[k])
    BY <1>5, <1>6, SemsOfStretch
<1>8. \A k \in 1 .. Len(ix) : IsOpaque(ops[k]) => Id(ops[k]) \in texts
  <2>1. \A k \in 1 .. Len(ix) : ops[k] \in ToSet(ops)
      BY <1>7, SequenceParts DEF ToSet
  <2>. HIDE DEF ops
  <2>. QED  BY <2>1
<1>. HIDE DEF ops, texts
<1>a. c.ix = ix /\ c.ops = ops /\ c.texts = texts /\ c.template = Template(code)
    OBVIOUS
<1>9. CASE ix = <<>>
  <2>1. RawOf(code, block) = <<>>
      BY <1>4, <1>9
  <2>2. Within(<<>>, lo, hi)
      BY <1>1, EmptyIsSequence DEF Within
  <2>3. DOMAIN <<>> = {}
      BY EmptyIsSequence
  <2>4. AreSegments(<<>>) /\ PositionsOf(<<>>) = <<>>
      BY NoPositions
  <2>5. \A k \in DOMAIN <<>> : FALSE
      BY <2>3
  <2>. QED  BY <2>1, <2>2, <2>4, <2>5, Zenon
<1>b. CASE ix # <<>>
  <2>1. RawOf(code, block) = <<c>>
      BY <1>4, <1>b
  <2>2. Len(ix) # 0
      BY <1>5, <1>b, EmptyUnique
  <2>3. Within(ix, lo, hi)
      BY <1>1, <1>5 DEF Within
  <2>4. IsChunk(code, c)
    <3>1. Template(code) \in Nat
        BY TemplateType
    <3>2. \A k \in 1 .. Len(ix) - 1 : ix[k + 1] = ix[k] + 1
      <4>. TAKE k \in 1 .. Len(ix) - 1
      <4>1. k \in 1 .. Len(ix) /\ k + 1 \in 1 .. Len(ix)
          BY <1>5
      <4>. QED  BY <1>5, <4>1
    <3>. HIDE DEF c
    <3>. QED  BY <1>5, <1>6, <1>7, <1>8, <1>a, <2>2, <3>1, <3>2 DEF IsChunk
  <2>. HIDE DEF c
  <2>5. /\ AreSegments(<<c>>) /\ DOMAIN <<c>> = {1} /\ <<c>>[1] = c /\ PositionsOf(<<c>>) = c.ix
      BY <1>5, <1>a, PositionsOfOne
  <2>6. Within(PositionsOf(<<c>>), lo, hi)
      BY <1>a, <2>3, <2>5
  <2>7. \A k \in DOMAIN <<c>> : IsChunk(code, <<c>>[k])
      BY <2>4, <2>5
  <2>. QED  BY <2>1, <2>5, <2>6, <2>7, Zenon
<1>. QED  BY <1>9, <1>b

\* The raw segments of a body are chunks of it, in its order.
LEMMA RawAreChunks ==
    ASSUME NEW code, IsBody(code)
    PROVE  /\ AreSegments(RawSegments(code))
           /\ \A i \in DOMAIN RawSegments(code) : IsChunk(code, RawSegments(code)[i])
           /\ Within(PositionsOf(RawSegments(code)), 0, Len(code))
<1>. DEFINE blocks == BlocksOf(code)
            ss == [b \in DOMAIN blocks |-> RawOf(code, blocks[b])]
            pp == [b \in DOMAIN ss |-> PositionsOf(ss[b])]
            l == Len(blocks)
<1>1. Len(code) \in Nat /\ IsSequence(code)
    BY BodyParts
<1>2. PICK e : AreBlocks(blocks, e, code, Len(code))
    BY <1>1, BlocksAreStretches
<1>3. RawSegments(code) = FlattenSeq(ss)
    BY Zenon DEF RawSegments, RawOf
<1>. HIDE DEF blocks
<1>4. /\ IsSequence(blocks) /\ l \in Nat /\ DOMAIN blocks = 1 .. l /\ e[0] = 0 /\ e[l] = Len(code)
      /\ \A b \in 1 .. l : /\ IsStretch(blocks[b], e[b - 1], e[b]) /\ e[b] <= Len(code)
                           /\ Enclosed(code, e[b - 1], e[b])
    BY <1>2, SequenceParts DEF AreBlocks
<1>. HIDE DEF l
<1>5. ss = [b \in 1 .. l |-> ss[b]] /\ \A b \in 1 .. l : ss[b] = RawOf(code, blocks[b])
    BY <1>4
<1>. HIDE DEF ss
<1>6. IsSequence(ss) /\ Len(ss) = l /\ DOMAIN ss = 1 .. l
    BY <1>4, <1>5, ByElements
<1>7. \A b \in 1 .. l : /\ AreSegments(ss[b]) /\ Within(PositionsOf(ss[b]), e[b - 1], e[b])
                        /\ \A k \in DOMAIN ss[b] : IsChunk(code, ss[b][k])
    BY <1>4, <1>5, RawOfStretch
<1>8. /\ AreSegments(FlattenSeq(ss)) /\ AreSequences(pp)
      /\ PositionsOf(FlattenSeq(ss)) = FlattenSeq(pp)
  <2>1. pp = [b \in DOMAIN ss |-> PositionsOf(ss[b])]
      OBVIOUS
  <2>. HIDE DEF pp
  <2>. QED  BY <1>6, <1>7, <2>1, PositionsOfGroups
<1>9. Len(pp) = l /\ \A b \in 1 .. l : pp[b] = PositionsOf(ss[b])
  <2>1. DOMAIN pp = 1 .. l /\ IsSequence(pp) /\ \A b \in 1 .. l : pp[b] = PositionsOf(ss[b])
      BY <1>6, <1>8 DEF AreSequences
  <2>. HIDE DEF pp
  <2>2. Len(pp) \in Nat /\ DOMAIN pp = 1 .. Len(pp)
      BY <2>1, SequenceParts
  <2>3. 1 .. Len(pp) = 1 .. l
      BY <2>1, <2>2
  <2>. DEFINE m == Len(pp)
  <2>. HIDE DEF m
  <2>4. m \in Nat /\ 1 .. m = 1 .. l
      BY <2>2, <2>3 DEF m
  <2>5. m = l
    <3>1. m \in 1 .. m \/ m = 0
        BY <2>4
    <3>2. l \in 1 .. l \/ l = 0
        BY <1>4
    <3>. QED  BY <1>4, <2>4, <3>1, <3>2
  <2>. QED  BY <2>1, <2>5 DEF m
<1>. HIDE DEF pp
<1>10. PICK f : Joins(f, pp) /\ FlattenSeq(pp) = f[l]
    BY <1>8, <1>9, FlattenSteps
<1>. DEFINE S == {b \in 0 .. l : Within(f[b], 0, e[b])}
<1>11. 0 \in S
  <2>1. f[0] = <<>>
      BY <1>10 DEF Joins
  <2>2. Within(<<>>, 0, 0)
      BY EmptyIsSequence DEF Within
  <2>. QED  BY <1>4, <2>1, <2>2
<1>12. \A b \in 0 .. l - 1 : b \in S => b + 1 \in S
  <2>. SUFFICES ASSUME NEW b \in 0 .. l - 1, Within(f[b], 0, e[b])
                PROVE  Within(f[b + 1], 0, e[b + 1])
      BY <1>4
  <2>1. b + 1 \in 1 .. l /\ (b + 1) - 1 = b
      BY <1>4
  <2>2. f[b + 1] = f[b] \o pp[b + 1]
      BY <1>9, <1>10, <2>1 DEF Joins
  <2>3. Within(pp[b + 1], e[b], e[b + 1])
      BY <1>7, <1>9, <2>1
  <2>. QED  BY <2>2, <2>3, WithinJoined, Zenon
<1>13. Within(f[l], 0, Len(code))
  <2>1. \A b \in 0 .. l : b \in S
    <3>. HIDE DEF S
    <3>. QED  BY <1>4, <1>11, <1>12, UpTo, Zenon
  <2>2. l \in 0 .. l
      BY <1>4
  <2>. QED  BY <1>4, <2>1, <2>2
<1>14. ASSUME NEW i \in DOMAIN FlattenSeq(ss)
       PROVE  IsChunk(code, FlattenSeq(ss)[i])
  <2>1. AreSequences(ss)
      BY <1>6, <1>7 DEF AreSequences, AreSegments
  <2>2. PICK b \in DOMAIN ss : \E k \in DOMAIN ss[b] : FlattenSeq(ss)[i] = ss[b][k]
      BY <2>1, FlattenElements
  <2>. QED  BY <1>6, <1>7, <2>2
<1>. QED  BY <1>3, <1>8, <1>10, <1>13, <1>14

-----------------------------------------------------------------------------
(* The mechanical split *)

\* A slice of a chunk is a chunk.
LEMMA SliceIsChunk ==
    ASSUME NEW code, NEW c, IsChunk(code, c), NEW n \in Nat \ {0}, NEW p \in 1 .. CeilDiv(Len(c.ops), n),
           NEW d, d.ix = Slice(c.ix, p, n), d.ops = Slice(c.ops, p, n),
           d.template = c.template, d.texts = TextsOf(d.ops, c.texts)
    PROVE  IsChunk(code, d) /\ Len(d.ops) <= n
<1>. DEFINE l == Len(c.ix)
            a == (p - 1) * n
            b == EndOfSlice(l, p, n)
<1>1. /\ IsSequence(c.ix) /\ IsSequence(c.ops) /\ Len(c.ops) = l /\ l # 0 /\ l \in Nat
      /\ c.template \in Nat
    BY SequenceParts DEF IsChunk
<1>2. /\ IsCut(d.ix, c.ix, a + 1, b) /\ IsCut(d.ops, c.ops, a + 1, b)
      /\ Len(d.ix) \in 1 .. n /\ Len(d.ops) \in 1 .. n
    BY <1>1, SliceIsCut
<1>3. a \in Nat /\ b \in a + 1 .. l
  <2>. HIDE DEF l
  <2>1. p \in 1 .. CeilDiv(l, n)
      BY <1>1
  <2>. QED  BY <1>1, <2>1, CountOfSlices
<1>. HIDE DEF a, b
<1>. DEFINE m == b - a
<1>4. m \in Nat /\ m = b - (a + 1) + 1 /\ \A k \in 1 .. m : a + k \in 1 .. l /\ (a + 1) + k - 1 = a + k
    BY <1>1, <1>3
<1>. HIDE DEF m
<1>5. /\ IsSequence(d.ix) /\ IsSequence(d.ops) /\ Len(d.ix) = m /\ Len(d.ops) = m
      /\ \A k \in 1 .. m : d.ix[k] = c.ix[a + k] /\ d.ops[k] = c.ops[a + k]
    BY <1>2, <1>4 DEF IsCut
<1>6. \A k \in 1 .. m : /\ d.ix[k] \in 1 .. Len(code) /\ Supported(code[d.ix[k]])
                        /\ \E id \in Nat : d.ops[k] = Sem(code[d.ix[k]], id)
  <2>. TAKE k \in 1 .. m
  <2>1. a + k \in 1 .. Len(c.ix) /\ d.ix[k] = c.ix[a + k] /\ d.ops[k] = c.ops[a + k]
      BY <1>4, <1>5
  <2>2. /\ c.ix[a + k] \in 1 .. Len(code) /\ Supported(code[c.ix[a + k]])
        /\ \E id \in Nat : c.ops[a + k] = Sem(code[c.ix[a + k]], id)
      BY <2>1, Zenon DEF IsChunk
  <2>. QED  BY <2>1, <2>2, Zenon
<1>7. \A k \in 1 .. m : IsOpaque(d.ops[k]) => Id(d.ops[k]) \in d.texts
  <2>. TAKE k \in 1 .. m
  <2>. HAVE IsOpaque(d.ops[k])
  <2>1. Id(d.ops[k]) \in c.texts
      BY <1>4, <1>5 DEF IsChunk
  <2>2. d.ops[k] \in ToSet(d.ops)
      BY <1>5, SequenceParts DEF ToSet
  <2>. QED  BY <2>1, <2>2 DEF TextsOf
<1>8. \A k \in 1 .. m - 1 : d.ix[k + 1] = d.ix[k] + 1
  <2>. TAKE k \in 1 .. m - 1
  <2>1. k \in 1 .. m /\ k + 1 \in 1 .. m /\ a + (k + 1) = (a + k) + 1 /\ a + k \in 1 .. l - 1
    <3>1. k + 1 \in 1 .. m /\ k \in 1 .. m
        BY <1>4
    <3>2. a + (k + 1) \in 1 .. l
        BY <1>4, <3>1
    <3>. HIDE DEF l
    <3>. QED  BY <1>1, <1>3, <3>1, <3>2
  <2>2. c.ix[(a + k) + 1] = c.ix[a + k] + 1
      BY <2>1 DEF IsChunk
  <2>. QED  BY <1>5, <2>1, <2>2
<1>9. \A j, k \in 1 .. m :
          j < k /\ IsOpaque(d.ops[j]) /\ IsOpaque(d.ops[k]) => Id(d.ops[j]) # Id(d.ops[k])
  <2>. TAKE j, k \in 1 .. m
  <2>1. j < k => a + j < a + k
      BY <1>3, <1>4
  <2>2. /\ a + j \in 1 .. Len(c.ix) /\ a + k \in 1 .. Len(c.ix)
        /\ d.ops[j] = c.ops[a + j] /\ d.ops[k] = c.ops[a + k]
      BY <1>4, <1>5
  <2>. QED  BY <2>1, <2>2, Zenon DEF IsChunk
<1>. HIDE DEF l
<1>. QED  BY <1>1, <1>2, <1>5, <1>6, <1>7, <1>8, <1>9 DEF IsChunk

\* The parts of a chunk are chunks that have its positions.
LEMMA SplitIsChunks ==
    ASSUME NEW code, NEW c, IsChunk(code, c), NEW n \in Nat
    PROVE  /\ AreSegments(SplitRaw(c, n)) /\ PositionsOf(SplitRaw(c, n)) = c.ix
           /\ \A k \in DOMAIN SplitRaw(c, n) : /\ IsChunk(code, SplitRaw(c, n)[k])
                                               /\ n > 0 => Len(SplitRaw(c, n)[k].ops) <= n
<1>1. IsSequence(c.ix) /\ IsSequence(c.ops) /\ Len(c.ops) = Len(c.ix) /\ Len(c.ix) # 0 /\ Len(c.ix) \in Nat
    BY SequenceParts DEF IsChunk
<1>2. CASE n = 0 \/ Len(c.ops) <= n
  <2>1. SplitRaw(c, n) = <<c>>
      BY <1>2 DEF SplitRaw
  <2>2. AreSegments(<<c>>) /\ DOMAIN <<c>> = {1} /\ <<c>>[1] = c /\ PositionsOf(<<c>>) = c.ix
      BY <1>1, PositionsOfOne
  <2>3. n > 0 => Len(c.ops) <= n
      BY <1>2
  <2>4. \A k \in DOMAIN <<c>> : <<c>>[k] = c
      BY <2>2
  <2>. QED  BY <2>1, <2>2, <2>3, <2>4
<1>3. CASE ~(n = 0 \/ Len(c.ops) <= n)
  <2>. DEFINE count == CeilDiv(Len(c.ops), n)
              part(p) == LET ops == Slice(c.ops, p, n) IN
                         [ix |-> Slice(c.ix, p, n), ops |-> ops,
                          part |-> <<p - 1, count>>, template |-> c.template,
                          texts |-> TextsOf(ops, c.texts)]
              r == [p \in 1 .. count |-> part(p)]
              sl == [p \in 1 .. count |-> Slice(c.ix, p, n)]
  <2>1. SplitRaw(c, n) = r
      BY <1>3, Zenon DEF SplitRaw
  <2>2. n \in Nat \ {0}
      BY <1>3
  <2>3. count \in Nat /\ count = CeilDiv(Len(c.ix), n)
    <3>. DEFINE l == Len(c.ix)
    <3>. HIDE DEF l
    <3>1. l \in Nat \ {0} /\ Len(c.ops) = l
        BY <1>1 DEF l
    <3>. QED  BY <2>2, <3>1, CountOfSlices DEF l
  <2>4. \A p \in 1 .. count : /\ part(p).ix = Slice(c.ix, p, n) /\ part(p).ops = Slice(c.ops, p, n)
                              /\ part(p).template = c.template
                              /\ part(p).texts = TextsOf(part(p).ops, c.texts)
      OBVIOUS
  <2>. HIDE DEF part
  <2>5. \A p \in 1 .. count : IsChunk(code, part(p)) /\ Len(part(p).ops) <= n
    <3>. TAKE p \in 1 .. count
    <3>. DEFINE d == part(p)
    <3>1. /\ d.ix = Slice(c.ix, p, n) /\ d.ops = Slice(c.ops, p, n)
          /\ d.template = c.template /\ d.texts = TextsOf(d.ops, c.texts)
        BY <2>4
    <3>. HIDE DEF d
    <3>2. IsChunk(code, d) /\ Len(d.ops) <= n
        BY <2>2, <3>1, SliceIsChunk
    <3>. QED  BY <3>2 DEF d
  <2>6. r = [p \in 1 .. count |-> r[p]] /\ \A p \in 1 .. count : r[p] = part(p)
      OBVIOUS
  <2>7. sl = [p \in 1 .. CeilDiv(Len(c.ix), n) |-> Slice(c.ix, p, n)]
      BY <2>3
  <2>8. AreSequences(sl) /\ FlattenSeq(sl) = c.ix
    <3>. HIDE DEF sl
    <3>. QED  BY <1>1, <2>2, <2>7, SlicesAreAll
  <2>9. IxOf(r) = sl
      BY <2>4, <2>6 DEF IxOf
  <2>. HIDE DEF r, sl, count
  <2>10. IsSequence(r) /\ DOMAIN r = 1 .. count
      BY <2>3, <2>6, ByElements
  <2>11. AreSegments(r)
      BY <2>5, <2>6, <2>10 DEF AreSegments, IsChunk
  <2>12. PositionsOf(r) = c.ix
      BY <2>8, <2>9 DEF PositionsOf
  <2>. QED  BY <2>1, <2>5, <2>6, <2>10, <2>11, <2>12
<1>. QED  BY <1>2, <1>3

\* The split of all segments.
Splits(s, n) == FlattenSeq([i \in DOMAIN s |-> SplitRaw(s[i], n)])

\* split_raw_segments, of the segments of a body.
LEMMA SplitsAreChunks ==
    ASSUME NEW code, NEW s, AreSegments(s), \A i \in DOMAIN s : IsChunk(code, s[i]), NEW n \in Nat
    PROVE  LET t == Splits(s, n)
           IN  /\ AreSegments(t) /\ PositionsOf(t) = PositionsOf(s)
               /\ \A i \in DOMAIN t : IsChunk(code, t[i]) /\ (n > 0 => Len(t[i].ops) <= n)
<1>. DEFINE t == Splits(s, n)
            ss == [i \in DOMAIN s |-> SplitRaw(s[i], n)]
            pp == [i \in DOMAIN ss |-> PositionsOf(ss[i])]
<1>1. IsSequence(s) /\ Len(s) \in Nat /\ DOMAIN s = 1 .. Len(s)
    BY SequenceParts DEF AreSegments
<1>2. \A i \in DOMAIN s : /\ ss[i] = SplitRaw(s[i], n) /\ AreSegments(ss[i])
                          /\ PositionsOf(ss[i]) = s[i].ix
                          /\ \A k \in DOMAIN ss[i] : /\ IsChunk(code, ss[i][k])
                                                     /\ n > 0 => Len(ss[i][k].ops) <= n
    BY SplitIsChunks
<1>3. ss = [i \in 1 .. Len(s) |-> ss[i]]
    BY <1>1
<1>4. t = FlattenSeq(ss)
    BY DEF Splits
<1>. HIDE DEF ss, t
<1>5. IsSequence(ss) /\ DOMAIN ss = DOMAIN s
    BY <1>1, <1>3, ByElements
<1>6. pp = IxOf(s)
    BY <1>2, <1>5 DEF IxOf
<1>7. AreSegments(t) /\ PositionsOf(t) = FlattenSeq(pp)
  <2>1. pp = [i \in DOMAIN ss |-> PositionsOf(ss[i])]
      OBVIOUS
  <2>. HIDE DEF pp
  <2>. QED  BY <1>2, <1>4, <1>5, <2>1, PositionsOfGroups
<1>8. PositionsOf(t) = PositionsOf(s)
    BY <1>6, <1>7, Zenon DEF PositionsOf
<1>9. AreSequences(ss)
    BY <1>2, <1>5 DEF AreSequences, AreSegments
<1>10. ASSUME NEW i \in DOMAIN t
       PROVE  IsChunk(code, t[i]) /\ (n > 0 => Len(t[i].ops) <= n)
  <2>0. i \in DOMAIN FlattenSeq(ss) /\ t[i] = FlattenSeq(ss)[i]
      BY <1>4
  <2>1. PICK b \in DOMAIN ss : \E k \in DOMAIN ss[b] : t[i] = ss[b][k]
      BY <1>9, <2>0, FlattenElements, Zenon
  <2>. QED  BY <1>2, <1>5, <2>1
<1>. QED  BY <1>7, <1>8, <1>10 DEF t

-----------------------------------------------------------------------------
(* Materialization *)

\* What a chunk executes are instructions of the function.
LEMMA ChunkInstructions ==
    ASSUME NEW code, IsBody(code), NEW c, IsChunk(code, c)
    PROVE  AreInstructions(c.ops) /\ Len(c.ops) \in Nat \ {0}
<1>1. IsSequence(c.ops) /\ Len(c.ops) = Len(c.ix) /\ Len(c.ix) # 0 /\ Len(c.ops) \in Nat
    BY SequenceParts DEF IsChunk
<1>2. ASSUME NEW k \in 1 .. Len(c.ix)
      PROVE  IsInstruction(c.ops[k])
  <2>1. /\ c.ix[k] \in 1 .. Len(code) /\ Supported(code[c.ix[k]])
        /\ \E id \in Nat : c.ops[k] = Sem(code[c.ix[k]], id)
      BY DEF IsChunk
  <2>2. PICK id \in Nat : c.ops[k] = Sem(code[c.ix[k]], id)
      BY <2>1
  <2>3. code[c.ix[k]] \in Operators(NumLocals)
      BY <2>1, BodyParts
  <2>. QED  BY <2>1, <2>2, <2>3, SemIsInstruction
<1>. QED  BY <1>1, <1>2 DEF AreInstructions

\* Machines start with the inputs as values and with fresh locals.
LEMMA EntryIsMachine ==
    ASSUME NEW n \in Nat
    PROVE  /\ IsMachine(Entry(InStack(n), NumLocals)) /\ Entry(InStack(n), NumLocals).ok
           /\ Entry(InStack(n), NumLocals).stack = InStack(n) /\ Len(InStack(n)) = n
           /\ Entry(InStack(n), NumLocals).locals = FreshLocals
           /\ Entry(InStack(n), NumLocals).meta = <<>>
           /\ Machine([stack |-> InStack(n), locals |-> FreshLocals]) = Entry(InStack(n), NumLocals)
<1>. DEFINE m == Entry(InStack(n), NumLocals)
            st == InStack(n)
<1>1. st = [i \in 1 .. n |-> st[i]] /\ \A i \in 1 .. n : st[i] = InSym(i - 1)
    BY DEF InStack
<1>2. m = [stack |-> st, locals |-> FreshLocals, meta |-> <<>>, ok |-> TRUE]
    BY DEF Entry, FreshLocals
<1>3. Machine([stack |-> st, locals |-> FreshLocals]) = m
    BY <1>2 DEF Machine
<1>. HIDE DEF st
<1>4. IsSequence(st) /\ Len(st) = n
    BY <1>1, ByElements
<1>5. AreValues(st)
  <2>1. \A i : IsValue(InSym(i))
      BY DEF InSym, IsValue, IsConst
  <2>. QED  BY <1>1, <1>4, <2>1 DEF AreValues
<1>. HIDE DEF m
<1>6. m.stack = st /\ m.locals = FreshLocals /\ m.meta = <<>> /\ m.ok = TRUE
    BY <1>2
<1>7. /\ FreshLocals = [s \in 0 .. NumLocals - 1 |-> FreshLocals[s]]
      /\ \A s \in 0 .. NumLocals - 1 : IsValue(FreshLocals[s])
  <2>1. \A s : IsValue(LocalSym(s))
      BY DEF LocalSym, IsValue, IsConst
  <2>. QED  BY <2>1 DEF FreshLocals
<1>8. IsSequence(<<>>) /\ Len(<<>>) = 0
    BY EmptyIsSequence
<1>9. m = [stack |-> m.stack, locals |-> m.locals, meta |-> m.meta, ok |-> m.ok]
    BY <1>2, <1>6, Zenon
<1>. DEFINE e == <<>>
<1>. HIDE DEF e
<1>a. m.meta = e /\ IsSequence(e) /\ Len(e) = 0
    BY <1>6, <1>8 DEF e
<1>10. IsMachine(m)
  <2>1. m.ok \in BOOLEAN /\ AreValues(m.stack)
      BY <1>5, <1>6
  <2>2. /\ m.locals = [s \in 0 .. NumLocals - 1 |-> m.locals[s]]
        /\ \A s \in 0 .. NumLocals - 1 : IsValue(m.locals[s])
      BY <1>6, <1>7, Zenon
  <2>3. IsSequence(m.meta) /\ \A i \in 1 .. Len(m.meta) : AreValues(m.meta[i].in)
      BY <1>a
  <2>. QED  BY <1>9, <2>1, <2>2, <2>3, Zenon DEF IsMachine
<1>. QED  BY <1>3, <1>4, <1>6, <1>10 DEF m, st

\* An execution that has not failed was never above its bound.
LEMMA StackBounded ==
    ASSUME NEW ops, AreInstructions(ops), NEW m, IsMachine(m), NEW max \in Int, Len(m.stack) <= max,
           NEW d \in 0 .. Len(ops), Execution(m, ops, max)[d].ok
    PROVE  \A k \in 0 .. d : Execution(m, ops, max)[k].ok /\ Len(Execution(m, ops, max)[k].stack) <= max
<1>. DEFINE at == Execution(m, ops, max)
<1>1. Len(ops) \in Nat /\ d \in Nat
    BY SequenceParts DEF AreInstructions
<1>2. at[0] = m /\ \A k \in 1 .. Len(ops) : at[k] = Exec(at[k - 1], ops[k], max)
    BY ExecutionSteps DEF AreInstructions
<1>3. /\ \A k \in 0 .. Len(ops) : IsMachine(at[k])
      /\ \A k \in 1 .. Len(ops) : at[k].ok <=> ~Stops(at[k - 1], ops[k], max)
    BY ExecutionOfMachines
<1>4. at[d].ok
    OBVIOUS
<1>. HIDE DEF at
<1>. DEFINE S == {i \in 0 .. d : at[d - i].ok}
<1>5. \A i \in 0 .. d : i \in S
  <2>1. 0 \in S
      BY <1>1, <1>4
  <2>2. \A i \in 0 .. d - 1 : i \in S => i + 1 \in S
    <3>. SUFFICES ASSUME NEW i \in 0 .. d - 1, at[d - i].ok
                  PROVE  at[d - (i + 1)].ok
        BY <1>1
    <3>1. d - i \in 1 .. Len(ops) /\ (d - i) - 1 = d - (i + 1)
        BY <1>1
    <3>. QED  BY <1>3, <3>1 DEF Stops
  <2>. HIDE DEF S
  <2>. QED  BY <1>1, <2>1, <2>2, UpTo, Zenon
<1>6. \A k \in 0 .. d : at[k].ok
  <2>. TAKE k \in 0 .. d
  <2>1. d - k \in 0 .. d /\ d - (d - k) = k
      BY <1>1
  <2>2. d - k \in S
      BY <1>5, <2>1
  <2>. QED  BY <2>1, <2>2
<1>. HIDE DEF S
<1>. DEFINE T == {k \in 0 .. d : Len(at[k].stack) <= max}
<1>7. \A k \in 0 .. d : k \in T
  <2>1. 0 \in T
      BY <1>1, <1>2
  <2>2. \A k \in 0 .. d - 1 : k \in T => k + 1 \in T
    <3>. SUFFICES ASSUME NEW k \in 0 .. d - 1, Len(at[k].stack) <= max
                  PROVE  Len(at[k + 1].stack) <= max
        BY <1>1
    <3>1. k + 1 \in 1 .. Len(ops) /\ (k + 1) - 1 = k /\ k \in 0 .. Len(ops) /\ k + 1 \in 0 .. d
        BY <1>1
    <3>2. /\ IsMachine(at[k]) /\ IsInstruction(ops[k + 1]) /\ ~Stops(at[k], ops[k + 1], max)
          /\ at[k + 1] = Exec(at[k], ops[k + 1], max)
        BY <1>2, <1>3, <1>6, <3>1 DEF AreInstructions
    <3>. DEFINE s == Len(at[k].stack)
                p == Pops(ops[k + 1])
                q == Pushes(ops[k + 1])
    <3>3. Len(at[k + 1].stack) = s - p + q
        BY <3>2, ExecGoes
    <3>4. s \in Nat /\ p \in Nat /\ q \in Nat /\ s <= max
        BY <3>2, SequenceParts DEF IsMachine, AreValues, IsInstruction
    <3>5. ~(q > 0 /\ s - p + q > max)
        BY <3>2 DEF Stops
    <3>. HIDE DEF s, p, q
    <3>6. s - p + q <= max
        BY <3>4, <3>5
    <3>. QED  BY <3>3, <3>6
  <2>. HIDE DEF T
  <2>. QED  BY <1>1, <2>1, <2>2, UpTo, Zenon
<1>. QED  BY <1>6, <1>7 DEF at

\* The instructions that do not fail are the first ones.
LEMMA DoneIsInitial ==
    ASSUME NEW ops, AreInstructions(ops), NEW m, IsMachine(m), m.ok, NEW max \in Int,
           NEW done, done = Cardinality({k \in 1 .. Len(ops) : Execution(m, ops, max)[k].ok})
    PROVE  /\ done \in 0 .. Len(ops) /\ Execution(m, ops, max)[done].ok
           /\ \A k \in 1 .. Len(ops) : Execution(m, ops, max)[k].ok <=> k <= done
<1>. DEFINE at == Execution(m, ops, max)
            I == {k \in 1 .. Len(ops) : at[k].ok}
<1>1. Len(ops) \in Nat
    BY SequenceParts DEF AreInstructions
<1>2. at[0] = m
    BY ExecutionSteps DEF AreInstructions
<1>3. \A k \in 1 .. Len(ops) : at[k].ok <=> ~Stops(at[k - 1], ops[k], max)
    BY ExecutionOfMachines
<1>. HIDE DEF at
<1>4. \A i \in I : 1 .. i \subseteq I
  <2>. TAKE i \in I
  <2>. DEFINE S == {j \in 0 .. i - 1 : at[i - j].ok}
  <2>1. i \in Nat \ {0} /\ i \in 1 .. Len(ops) /\ at[i].ok
      BY <1>1
  <2>2. 0 \in S
      BY <2>1
  <2>3. \A j \in 0 .. (i - 1) - 1 : j \in S => j + 1 \in S
    <3>. SUFFICES ASSUME NEW j \in 0 .. (i - 1) - 1, at[i - j].ok
                  PROVE  at[i - (j + 1)].ok
        BY <2>1
    <3>1. i - j \in 1 .. Len(ops) /\ (i - j) - 1 = i - (j + 1)
        BY <1>1, <2>1
    <3>. QED  BY <1>3, <3>1 DEF Stops
  <2>4. \A j \in 0 .. i - 1 : j \in S
    <3>1. i - 1 \in Nat
        BY <2>1
    <3>. HIDE DEF S
    <3>. QED  BY <2>2, <2>3, <3>1, UpTo, Zenon
  <2>5. ASSUME NEW j \in 1 .. i
        PROVE  j \in I
    <3>1. i - j \in 0 .. i - 1 /\ i - (i - j) = j /\ j \in 1 .. Len(ops)
        BY <1>1, <2>1
    <3>2. i - j \in S
        BY <2>4, <3>1
    <3>. QED  BY <3>1, <3>2
  <2>. QED  BY <2>5
<1>5. I \subseteq 1 .. Len(ops) /\ done = Cardinality(I)
    BY DEF at
<1>6. I = 1 .. done /\ done \in 0 .. Len(ops)
  <2>. HIDE DEF I
  <2>. QED  BY <1>1, <1>4, <1>5, InitialSet
<1>7. at[done].ok
  <2>1. done = 0 \/ done \in 1 .. done
      BY <1>1, <1>6
  <2>. QED  BY <1>2, <1>6, <2>1
<1>8. \A k \in 1 .. Len(ops) : at[k].ok <=> k <= done
  <2>. TAKE k \in 1 .. Len(ops)
  <2>1. at[k].ok <=> k \in I
      OBVIOUS
  <2>2. k \in 1 .. done <=> k <= done
      BY <1>1, <1>6
  <2>. QED  BY <1>6, <2>1, <2>2
<1>. QED  BY <1>6, <1>7, <1>8 DEF at

\* The machine a chunk starts with, its bound, and where it leads.
Start(c) == Entry(SeededStack(c.ops), NumLocals)

Bound(c) == Most(StackBounds(c.ops).max, c.template) + StackSlack

Runs(c) == Execution(Start(c), c.ops, Bound(c))

\* What became of the first d instructions of a chunk.  Only if they are all is
\* the final state where they lead.
IsSegment(s, c, d) ==
    /\ s.ops = SubSeq(c.ops, 1, d) /\ Len(s.ops) = d
    /\ s.init = [stack |-> InStack(StackBounds(s.ops).init), locals |-> FreshLocals]
    /\ d = Len(c.ops) => s.fin = FinSince(Runs(c)[d], FreshLocals)
    /\ s.meta = Runs(c)[d].meta
    /\ s.max \in Nat /\ Bound(c) <= s.max /\ StackBounds(s.ops).max <= s.max

\* The start of a chunk is a machine with all inputs, below the bound.
LEMMA StartOfChunk ==
    ASSUME NEW code, IsBody(code), NEW c, IsChunk(code, c)
    PROVE  /\ IsMachine(Start(c)) /\ Start(c).ok /\ Start(c).locals = FreshLocals /\ Start(c).meta = <<>>
           /\ Start(c).stack = InStack(StackBounds(c.ops).init)
           /\ Len(Start(c).stack) = StackBounds(c.ops).init
           /\ StackBounds(c.ops).init = Heights(c.ops)[Len(c.ops)].init
           /\ StackBounds(c.ops).init \in Nat
           /\ StackBounds(c.ops).max \in Nat /\ Bound(c) \in Nat
           /\ StackBounds(c.ops).init <= Bound(c) /\ StackBounds(c.ops).max + StackSlack <= Bound(c)
<1>. DEFINE n == StackBounds(c.ops).init
            x == StackBounds(c.ops).max
            b == Heights(c.ops)[Len(c.ops)]
<1>1. AreInstructions(c.ops)
    BY ChunkInstructions
<1>2. b \in Level /\ n = b.init /\ x \in Nat /\ b.init <= x
    BY <1>1, BoundsOfHeights
<1>3. c.template \in Nat /\ StackSlack \in Nat
    BY MachineAssumption DEF IsChunk
<1>4. Bound(c) = (IF x < c.template THEN c.template ELSE x) + StackSlack
    BY DEF Bound, Most
<1>5. Start(c) = Entry(InStack(n), NumLocals)
    BY DEF Start, SeededStack
<1>. HIDE DEF n, x, b
<1>6. n \in Nat /\ n <= x
    BY <1>2 DEF Level
<1>7. Bound(c) \in Nat /\ n <= Bound(c) /\ x + StackSlack <= Bound(c)
    BY <1>2, <1>3, <1>4, <1>6
<1>8. /\ IsMachine(Start(c)) /\ Start(c).ok /\ Start(c).locals = FreshLocals /\ Start(c).meta = <<>>
      /\ Start(c).stack = InStack(n) /\ Len(Start(c).stack) = n
    BY <1>5, <1>6, EntryIsMachine
<1>. QED  BY <1>2, <1>6, <1>7, <1>8 DEF n, x, b

\* A state of a machine below a bound is within it.
LEMMA StateFits ==
    ASSUME NEW m, NEW max \in Int, Len(m.stack) <= max,
           NEW state, state.stack = m.stack, DOMAIN state.locals \subseteq 0 .. NumLocals - 1
    PROVE  Fits(state, max)
<1>1. NumLocals \in Nat
    BY PipelineAssumption
<1>2. \A s \in 0 .. NumLocals - 1 : s <= Most(NumLocals, 1) - 1
    BY <1>1 DEF Most
<1>. QED  BY <1>2 DEF Fits

\* The final state of a machine: its stack, and the locals that differ from
\* those it started with.
LEMMA FinOfMachine ==
    ASSUME NEW m, IsMachine(m), NEW start
    PROVE  /\ FinSince(m, start).stack = m.stack
           /\ DOMAIN FinSince(m, start).locals \subseteq 0 .. NumLocals - 1
           /\ \A s \in 0 .. NumLocals - 1 : s \in DOMAIN FinSince(m, start).locals <=> m.locals[s] # start[s]
           /\ \A s \in DOMAIN FinSince(m, start).locals : FinSince(m, start).locals[s] = m.locals[s]
<1>. DEFINE changed == {s \in DOMAIN m.locals : m.locals[s] # start[s]}
            g == [s \in changed |-> m.locals[s]]
<1>1. DOMAIN m.locals = 0 .. NumLocals - 1
    BY DEF IsMachine
<1>2. FinSince(m, start) = [stack |-> m.stack, locals |-> g]
    BY DEF FinSince
<1>3. DOMAIN g = changed /\ \A s \in changed : g[s] = m.locals[s]
    OBVIOUS
<1>. HIDE DEF g
<1>. QED  BY <1>1, <1>2, <1>3

\* What materialization makes of a chunk: nothing, if its first instruction fails,
\* and a segment of the instructions that do not fail otherwise.
LEMMA MaterializedIs ==
    ASSUME NEW code, IsBody(code), NEW c, IsChunk(code, c), NEW i
    PROVE  \E d \in 0 .. Len(c.ops) :
              /\ \A k \in 1 .. Len(c.ops) : Runs(c)[k].ok <=> k <= d
              /\ Runs(c)[d].ok
              /\ IF d = 0 THEN Materialize(c, i) = <<>>
                 ELSE \E s : Materialize(c, i) = <<s>> /\ s.of = i /\ IsSegment(s, c, d)
<1>. DEFINE at == Runs(c)
            d == Cardinality({k \in 1..Len(c.ops) : at[k].ok})
            ops == SubSeq(c.ops, 1, d)
            max == Most(Bound(c), StackBounds(ops).max + StackSlack)
            init == [stack |-> InStack(StackBounds(ops).init), locals |-> FreshLocals]
            last == IF d = Len(c.ops) THEN at[d] ELSE Broken(at[d], c.ops[d + 1], Bound(c))
            fin == FinSince(last, FreshLocals)
            s == [of |-> i, ops |-> ops, init |-> init, fin |-> fin, max |-> max,
                  texts |-> TextsOf(ops, c.texts), meta |-> at[d].meta,
                  deps |-> ComputeDependencies(ops, at[d].meta)]
<1>1. Materialize(c, i) = IF d = 0 \/ ~Fits(init, max) \/ ~Fits(fin, max) THEN <<>> ELSE <<s>>
    BY Zenon DEF Materialize, Runs, Start, Bound
<1>2. AreInstructions(c.ops) /\ Len(c.ops) \in Nat \ {0} /\ IsSequence(c.ops)
    BY ChunkInstructions DEF AreInstructions
<1>3. IsMachine(Start(c)) /\ Start(c).ok /\ Bound(c) \in Nat /\ Len(Start(c).stack) <= Bound(c)
    BY StartOfChunk
<1>4. d \in 0 .. Len(c.ops) /\ at[d].ok /\ \A k \in 1 .. Len(c.ops) : at[k].ok <=> k <= d
  <2>. DEFINE o == c.ops
              m == Start(c)
              b == Bound(c)
  <2>1. at = Execution(m, o, b)
      BY DEF Runs
  <2>. HIDE DEF at
  <2>2. d = Cardinality({k \in 1 .. Len(o) : Execution(m, o, b)[k].ok})
      BY <2>1
  <2>3. AreInstructions(o) /\ IsMachine(m) /\ m.ok /\ b \in Int
      BY <1>2, <1>3
  <2>. HIDE DEF d, o, m, b
  <2>4. /\ d \in 0 .. Len(o) /\ Execution(m, o, b)[d].ok
        /\ \A k \in 1 .. Len(o) : Execution(m, o, b)[k].ok <=> k <= d
      BY <2>2, <2>3, DoneIsInitial
  <2>. QED  BY <2>1, <2>4, Zenon DEF o
<1>. HIDE DEF d
<1>5. AreInstructions(ops) /\ Len(ops) = d
    BY <1>2, <1>4, HeightsOfStart
<1>. HIDE DEF ops
<1>6. StackBounds(ops).max \in Nat /\ StackBounds(ops).init \in Nat /\ StackBounds(ops).init <= StackBounds(ops).max
    BY <1>5, BoundsOfHeights DEF Level
<1>7. max \in Nat /\ Bound(c) <= max /\ StackBounds(ops).max <= max
  <2>1. StackSlack \in Nat
      BY MachineAssumption
  <2>. QED  BY <1>3, <1>6, <2>1 DEF Most
<1>. HIDE DEF max
<1>8. Fits(init, max)
  <2>. DEFINE m == Entry(InStack(StackBounds(ops).init), NumLocals)
  <2>1. IsMachine(m) /\ m.stack = init.stack /\ Len(m.stack) = StackBounds(ops).init /\ init.locals = FreshLocals
      BY <1>6, EntryIsMachine
  <2>2. Len(m.stack) <= max
      BY <1>6, <1>7, <2>1
  <2>3. DOMAIN FreshLocals \subseteq 0 .. NumLocals - 1
      BY DEF FreshLocals
  <2>. HIDE DEF m, init
  <2>. QED  BY <1>7, <2>1, <2>2, <2>3, StateFits
<1>9. Fits(fin, max)
  <2>1. IsMachine(at[d]) /\ Len(at[d].stack) <= Bound(c) /\ Len(at[d].stack) \in Nat
    <3>1. IsMachine(at[d])
        BY <1>2, <1>3, <1>4, ExecutionOfMachines DEF Runs
    <3>2. \A k \in 0 .. d : Len(at[k].stack) <= Bound(c)
      <4>. DEFINE o == c.ops
                  m == Start(c)
                  b == Bound(c)
      <4>1. at = Execution(m, o, b)
          BY DEF Runs
      <4>. HIDE DEF at
      <4>2. AreInstructions(o) /\ IsMachine(m) /\ b \in Int /\ Len(m.stack) <= b /\ d \in 0 .. Len(o)
          BY <1>2, <1>3, <1>4
      <4>3. Execution(m, o, b)[d].ok
          BY <1>4, <4>1
      <4>. HIDE DEF o, m, b
      <4>4. \A k \in 0 .. d : Len(Execution(m, o, b)[k].stack) <= b
          BY <4>2, <4>3, StackBounded
      <4>. QED  BY <4>1, <4>4, Zenon DEF b
    <3>3. d \in 0 .. d
        BY <1>2, <1>4
    <3>. QED  BY <3>1, <3>2, <3>3, SequenceParts DEF IsMachine, AreValues
  <2>2. last.locals = at[d].locals /\ Len(last.stack) \in Nat /\ Len(last.stack) <= Bound(c)
    <3>1. CASE d = Len(c.ops)
        BY <2>1, <3>1
    <3>2. CASE d # Len(c.ops)
      <4>. DEFINE o == c.ops
                  b == Bound(c)
                  m == at[d]
      <4>1. PICK k \in 1 .. Len(o) : k = d + 1 /\ k - 1 = d /\ ~(k <= d)
        <5>1. d + 1 \in 1 .. Len(o) /\ ~(d + 1 <= d) /\ (d + 1) - 1 = d
            BY <1>2, <1>4, <3>2
        <5>. QED  BY <5>1
      <4>2. ~at[k].ok
          BY <1>4, <4>1
      <4>3. Stops(m, o[k], b)
        <5>. DEFINE n == Start(c)
        <5>1. at = Execution(n, o, b)
            BY DEF Runs
        <5>2. AreInstructions(o) /\ IsMachine(n) /\ b \in Int
            BY <1>2, <1>3
        <5>. HIDE DEF at, o, b, n
        <5>3. \A j \in 1 .. Len(o) : at[j].ok <=> ~Stops(at[j - 1], o[j], b)
            BY <5>1, <5>2, ExecutionOfMachines
        <5>4. at[k].ok <=> ~Stops(at[k - 1], o[k], b)
            BY <5>3
        <5>. QED  BY <4>1, <4>2, <5>4, Zenon
      <4>4. IsInstruction(o[k]) /\ IsMachine(m) /\ m.ok
          BY <1>2, <1>4, <2>1, <4>1 DEF AreInstructions
      <4>5. last = Broken(m, o[k], b)
          BY <3>2, <4>1
      <4>. HIDE DEF last, m, o
      <4>. DEFINE n == Broken(m, o[k], b)
      <4>6. n.locals = m.locals /\ Len(n.stack) \in Nat /\ Len(n.stack) <= b
          BY <1>3, <4>3, <4>4, BrokenLeaves
      <4>. HIDE DEF n
      <4>7. last = n
          BY <4>5 DEF n
      <4>. QED  BY <4>6, <4>7 DEF m
    <3>. QED  BY <3>1, <3>2
  <2>3. DOMAIN at[d].locals = 0 .. NumLocals - 1
      BY <2>1 DEF IsMachine
  <2>. HIDE DEF last
  <2>4. fin.stack = last.stack /\ DOMAIN fin.locals \subseteq 0 .. NumLocals - 1
      BY <2>2, <2>3 DEF FinSince
  <2>5. Len(last.stack) <= max
      BY <1>3, <1>7, <2>2
  <2>. HIDE DEF fin
  <2>. QED  BY <1>7, <2>4, <2>5, StateFits
<1>10. s.of = i /\ IsSegment(s, c, d)
  <2>0. d = Len(c.ops) => fin = FinSince(at[d], FreshLocals)
      BY Zenon
  <2>1. /\ s.of = i /\ s.ops = ops /\ s.init = init /\ s.fin = fin /\ s.meta = at[d].meta /\ s.max = max
      OBVIOUS
  <2>2. ops = SubSeq(c.ops, 1, d)
      BY DEF ops
  <2>3. init = [stack |-> InStack(StackBounds(s.ops).init), locals |-> FreshLocals]
      BY <2>1
  <2>. HIDE DEF s, init
  <2>. QED  BY <1>5, <1>7, <2>0, <2>1, <2>2, <2>3 DEF IsSegment
<1>. HIDE DEF s, init, fin
<1>11. IF d = 0 THEN Materialize(c, i) = <<>> ELSE Materialize(c, i) = <<s>>
    BY <1>1, <1>8, <1>9
<1>. QED  BY <1>4, <1>10, <1>11

\* A segment is executed from its own entry state, under its own bound, without a
\* failure, even if the chunk was cut short.
LEMMA SegmentExecutes ==
    ASSUME NEW code, IsBody(code), NEW c, IsChunk(code, c), NEW d \in 1 .. Len(c.ops),
           Runs(c)[d].ok, NEW s, IsSegment(s, c, d)
    PROVE  /\ AreInstructions(s.ops) /\ Len(s.ops) = d
           /\ IsMachine(Machine(s.init)) /\ Machine(s.init).ok /\ Len(Machine(s.init).stack) <= s.max
           /\ s.init.locals = FreshLocals
           /\ \A k \in 0 .. d : Execution(Machine(s.init), s.ops, s.max)[k].ok
<1>. DEFINE ops == c.ops
            u == s.ops
            m == Start(c)
            b == Bound(c)
            n == Machine(s.init)
            h == Heights(ops)
            g == Heights(u)
            start == Len(m.stack)
            low == Len(n.stack)
<1>1. AreInstructions(ops) /\ Len(ops) \in Nat \ {0} /\ d \in 0 .. Len(ops) /\ d \in Nat
    BY ChunkInstructions
<1>2. IsMachine(m) /\ m.ok /\ b \in Nat /\ h[Len(ops)].init = start
    BY StartOfChunk
<1>3. u = SubSeq(ops, 1, d) /\ s.max \in Nat /\ b <= s.max /\ StackBounds(u).max <= s.max
    BY DEF IsSegment
<1>4. AreInstructions(u) /\ Len(u) = d /\ \A k \in 0 .. d : g[k] = h[k]
  <2>. HIDE DEF u, ops
  <2>. QED  BY <1>1, <1>3, HeightsOfStart
<1>5. \A k \in 1 .. d : u[k] = ops[k]
  <2>. HIDE DEF u, ops
  <2>1. IsCut(SubSeq(ops, 1, d), ops, 1, d)
      BY <1>1, Cut DEF AreInstructions
  <2>2. IsCut(u, ops, 1, d)
      BY <1>3, <2>1, Zenon
  <2>3. d - 1 + 1 = d /\ \A k \in 1 .. d : 1 + k - 1 = k
      BY <1>1
  <2>. QED  BY <2>2, <2>3 DEF IsCut
<1>6. /\ StackBounds(u).init = g[d].init /\ StackBounds(u).init \in Nat
      /\ StackBounds(u).init <= s.max
  <2>1. /\ g[Len(u)] \in Level /\ StackBounds(u).init = g[Len(u)].init
        /\ StackBounds(u).max \in Nat /\ g[Len(u)].init <= StackBounds(u).max
      BY <1>4, BoundsOfHeights
  <2>. DEFINE x == StackBounds(u)
  <2>. HIDE DEF x, u, g
  <2>. QED  BY <1>3, <1>4, <2>1 DEF Level
<1>7. /\ IsMachine(n) /\ n.ok /\ low = g[d].init /\ low \in Nat /\ low <= s.max
      /\ s.init.locals = FreshLocals
  <2>1. s.init = [stack |-> InStack(StackBounds(u).init), locals |-> FreshLocals]
      BY DEF IsSegment
  <2>2. n = Entry(InStack(StackBounds(u).init), NumLocals) /\ s.init.locals = FreshLocals
    <3>. DEFINE x == StackBounds(u).init
    <3>1. x \in Nat /\ s.init = [stack |-> InStack(x), locals |-> FreshLocals]
        BY <1>6, <2>1
    <3>. HIDE DEF x
    <3>2. Machine([stack |-> InStack(x), locals |-> FreshLocals]) = Entry(InStack(x), NumLocals)
        BY <3>1, EntryIsMachine, Zenon
    <3>3. s.init.locals = FreshLocals
        BY <3>1
    <3>4. n = Entry(InStack(x), NumLocals)
        BY <3>1, <3>2, Zenon
    <3>. QED  BY <3>3, <3>4 DEF x
  <2>. DEFINE x == StackBounds(u).init
  <2>3. x \in Nat /\ n = Entry(InStack(x), NumLocals) /\ x = g[d].init /\ x <= s.max
      BY <1>6, <2>2
  <2>. HIDE DEF x, n, g
  <2>4. IsMachine(n) /\ n.ok /\ Len(n.stack) = x
      BY <2>3, EntryIsMachine
  <2>. QED  BY <2>2, <2>3, <2>4
<1>8. \A k \in 1 .. d : Pushes(ops[k]) > 0 => Height(ops, start, k) <= b
  <2>1. Execution(m, ops, b)[d].ok
      BY DEF Runs
  <2>. HIDE DEF m, ops, b
  <2>2. h[Len(ops)].init <= Len(m.stack)
    <3>1. Len(m.stack) \in Nat
        BY <1>2, SequenceParts DEF IsMachine, AreValues
    <3>. QED  BY <1>2, <3>1
  <2>. QED  BY <1>1, <1>2, <2>1, <2>2, ExecutionHeights
<1>9. \A k \in 1 .. d : Pushes(u[k]) > 0 => Height(u, low, k) <= s.max
  <2>. TAKE k \in 1 .. d
  <2>1. g[k] = h[k] /\ g[d] = h[d] /\ u[k] = ops[k] /\ k \in 0 .. Len(ops)
      BY <1>1, <1>4, <1>5
  <2>2. h[d].init <= h[Len(ops)].init
    <3>1. Len(ops) \in d .. Len(ops)
        BY <1>1
    <3>. QED  BY <1>1, <3>1, HeightsMonotone
  <2>3. h[k] \in Level /\ h[d] \in Level /\ start \in Nat
    <3>1. start \in Nat
        BY <1>2, SequenceParts DEF IsMachine, AreValues
    <3>. QED  BY <1>1, <2>1, <3>1, HeightsSteps
  <2>4. Height(u, low, k) = low - g[k].init + g[k].cur /\ Height(ops, start, k) = start - h[k].init + h[k].cur
      BY DEF Height
  <2>5. low <= start
    <3>. HIDE DEF start, low, h, g
    <3>. QED  BY <1>2, <1>7, <2>1, <2>2, <2>3
  <2>6. Height(u, low, k) <= Height(ops, start, k)
    <3>. HIDE DEF start, low, h, g
    <3>. QED  BY <1>7, <2>1, <2>3, <2>4, <2>5 DEF Level
  <2>7. Height(u, low, k) \in Int /\ Height(ops, start, k) \in Int
    <3>1. low \in Nat /\ start \in Nat /\ k \in 0 .. Len(u) /\ k \in 0 .. Len(ops)
        BY <1>4, <1>7, <2>1, <2>3
    <3>. HIDE DEF start, low, u, ops
    <3>. QED  BY <1>1, <1>4, <3>1, HeightType
  <2>. HIDE DEF start, low, u, ops, b
  <2>. QED  BY <1>2, <1>3, <1>8, <2>1, <2>6, <2>7
<1>10. \A k \in 0 .. d : Execution(n, u, s.max)[k].ok
  <2>. HIDE DEF u, n
  <2>1. Heights(u)[Len(u)].init <= Len(n.stack)
      BY <1>4, <1>7
  <2>2. \A k \in 1 .. Len(u) : Pushes(u[k]) > 0 => Height(u, Len(n.stack), k) <= s.max
      BY <1>4, <1>9
  <2>3. \A k \in 0 .. Len(u) : Execution(n, u, s.max)[k].ok
    <3>. DEFINE x == s.max
    <3>1. x \in Int /\ AreInstructions(u) /\ IsMachine(n) /\ n.ok
        BY <1>3, <1>4, <1>7
    <3>2. \A k \in 1 .. Len(u) : Pushes(u[k]) > 0 => Height(u, Len(n.stack), k) <= x
        BY <2>2
    <3>. HIDE DEF x
    <3>3. \A k \in 0 .. Len(u) : Execution(n, u, x)[k].ok
        BY <2>1, <3>1, <3>2, ExecutionGoesOn
    <3>. QED  BY <3>3 DEF x
  <2>. QED  BY <1>4, <2>3
<1>. QED  BY <1>3, <1>4, <1>7, <1>10

\* What a segment of the whole chunk calls its final state is where it leads.
LEMMA WholeIsReached ==
    ASSUME NEW code, IsBody(code), NEW c, IsChunk(code, c), NEW d, d = Len(c.ops),
           Runs(c)[d].ok, NEW s, IsSegment(s, c, d)
    PROVE  Reaches(s) /\ Agree(Runs(c)[d], Run(Machine(s.init), s.ops, s.max))
<1>. DEFINE ops == c.ops
            m == Start(c)
            b == Bound(c)
            n == Machine(s.init)
<1>1. AreInstructions(ops) /\ IsSequence(ops) /\ d \in Nat \ {0} /\ d = Len(ops)
    BY ChunkInstructions DEF AreInstructions
<1>2. /\ IsMachine(m) /\ m.ok /\ m.locals = FreshLocals /\ m.meta = <<>>
      /\ m.stack = InStack(StackBounds(ops).init) /\ StackBounds(ops).init \in Nat
      /\ b \in Nat /\ Len(m.stack) <= b
    BY StartOfChunk
<1>3. s.ops = ops /\ s.max \in Nat /\ b <= s.max /\ s.fin = FinSince(Runs(c)[d], FreshLocals)
  <2>1. SubSeq(ops, 1, Len(ops)) = ops
    <3>1. IsCut(SubSeq(ops, 1, d), ops, 1, d)
        BY <1>1, Cut
    <3>. DEFINE v == SubSeq(ops, 1, d)
    <3>. HIDE DEF v, ops
    <3>2. IsSequence(v) /\ Len(v) = d /\ \A k \in 1 .. d : v[k] = ops[k]
        BY <1>1, <3>1 DEF IsCut, v
    <3>3. v = ops
        BY <1>1, <3>2, SameElements
    <3>. QED  BY <1>1, <3>3 DEF v
  <2>. QED  BY <2>1 DEF IsSegment
<1>4. n = m /\ s.init.locals = FreshLocals
  <2>. DEFINE x == StackBounds(ops).init
  <2>1. s.init = [stack |-> InStack(x), locals |-> FreshLocals]
      BY <1>3 DEF IsSegment
  <2>2. x \in Nat
      BY <1>2
  <2>3. m = Entry(InStack(x), NumLocals)
      BY DEF Start, SeededStack
  <2>. HIDE DEF x, m
  <2>. QED  BY <2>1, <2>2, <2>3, EntryIsMachine
<1>5. Runs(c) = Execution(m, ops, b)
    BY DEF Runs
<1>. HIDE DEF m, ops, b, n
<1>6. \A k \in 0 .. d : Execution(m, ops, b)[k].ok
  <2>1. Execution(m, ops, b)[d].ok /\ d \in 0 .. Len(ops)
      BY <1>1, <1>5
  <2>2. b \in Int /\ AreInstructions(ops) /\ IsMachine(m) /\ Len(m.stack) <= b
      BY <1>1, <1>2
  <2>3. \A k \in 0 .. d : Execution(m, ops, b)[k].ok /\ Len(Execution(m, ops, b)[k].stack) <= b
      BY <2>1, <2>2, StackBounded, Zenon
  <2>. QED  BY <2>3
<1>7. IsCut(ops, ops, 0 + 1, d)
  <2>1. d - (0 + 1) + 1 = d /\ \A k \in 1 .. d : (0 + 1) + k - 1 = k
      BY <1>1
  <2>. QED  BY <1>1, <2>1 DEF IsCut
<1>8. Agree(Execution(m, ops, b)[d], Execution(m, ops, s.max)[d])
  <2>1. Agree(Execution(m, ops, b)[0], m)
      BY <1>1, ExecutionSteps DEF Agree
  <2>2. 0 \in 0 .. Len(ops) /\ d \in 0 .. Len(ops) /\ s.max \in Int /\ b \in Int
      BY <1>1, <1>2, <1>3
  <2>3. \A j \in 0 .. d - 0 : Agree(Execution(m, ops, b)[0 + j], Execution(m, ops, s.max)[j])
      BY <1>1, <1>2, <1>3, <1>6, <1>7, <2>1, <2>2, SliceExecutes
  <2>4. d \in 0 .. d - 0 /\ 0 + d = d
      BY <1>1
  <2>. QED  BY <2>3, <2>4
<1>9. Run(n, s.ops, s.max) = Execution(m, ops, s.max)[d]
    BY <1>1, <1>3, <1>4 DEF Run
<1>10. Agree(Runs(c)[d], Run(n, s.ops, s.max))
    BY <1>5, <1>8, <1>9
<1>11. Run(n, s.ops, s.max).ok
  <2>1. d \in 0 .. d
      BY <1>1
  <2>. QED  BY <1>5, <1>6, <1>10, <2>1 DEF Agree
<1>12. FinSince(Run(n, s.ops, s.max), s.init.locals) = s.fin
    BY <1>3, <1>4, <1>10 DEF Agree, FinSince
<1>. QED  BY <1>10, <1>11, <1>12 DEF Reaches, n

\* The machines of a split: what the one machine is after every chunk.
MachinesBy(f, s, n) ==
    f = [p \in 0..CeilDiv(Len(s.ops), n) |->
            IF p = 0 THEN Machine(s.init)
            ELSE Run([f[p - 1] EXCEPT !.meta = <<>>], Slice(s.ops, p, n), s.max)]

Machines(s, n) == CHOOSE f : MachinesBy(f, s, n)

Forget(m) == [m EXCEPT !.meta = <<>>]

\* What the recursion of SplitSegment computes.
LEMMA MachinesSteps ==
    ASSUME NEW s, NEW n, CeilDiv(Len(s.ops), n) \in Nat
    PROVE  /\ Machines(s, n)[0] = Machine(s.init)
           /\ \A p \in 1 .. CeilDiv(Len(s.ops), n) :
                 Machines(s, n)[p] = Run(Forget(Machines(s, n)[p - 1]), Slice(s.ops, p, n), s.max)
<1>. DEFINE l == CeilDiv(Len(s.ops), n)
            zero == Machine(s.init)
            Step(m, p) == Run([m EXCEPT !.meta = <<>>], Slice(s.ops, p, n), s.max)
            Starts(f, k) == f = [i \in 0 .. k |-> IF i = 0 THEN zero ELSE Step(f[i - 1], i)]
            S == {k \in 0 .. l : \E f : Starts(f, k)}
            h == Machines(s, n)
<1>1. l \in Nat
    OBVIOUS
<1>2. \A f : MachinesBy(f, s, n) <=> Starts(f, l)
    BY Zenon DEF MachinesBy
<1>3. \A m, p : Step(m, p) = Run(Forget(m), Slice(s.ops, p, n), s.max)
    BY Zenon DEF Forget
<1>. HIDE DEF zero, Step
<1>4. 0 \in S
  <2>. DEFINE f == [i \in 0 .. 0 |-> zero]
  <2>1. Starts(f, 0)
      OBVIOUS
  <2>. HIDE DEF f, Starts
  <2>. QED  BY <1>1, <2>1
<1>5. \A k \in 0 .. l - 1 : k \in S => k + 1 \in S
  <2>. SUFFICES ASSUME NEW k \in 0 .. l - 1, NEW f, Starts(f, k)
                PROVE  k + 1 \in 0 .. l /\ \E g : Starts(g, k + 1)
      BY Zenon
  <2>. DEFINE g == [i \in 0 .. k + 1 |-> IF i <= k THEN f[i] ELSE Step(f[k], k + 1)]
  <2>1. k \in Nat /\ k + 1 \in 0 .. l
      BY <1>1
  <2>2. \A i \in 0 .. k : f[i] = IF i = 0 THEN zero ELSE Step(f[i - 1], i)
      BY Zenon
  <2>3. Starts(g, k + 1)
    <3>1. ASSUME NEW i \in 0 .. k + 1
          PROVE  g[i] = IF i = 0 THEN zero ELSE Step(g[i - 1], i)
      <4>1. CASE i <= k
        <5>1. i \in 0 .. k /\ (i # 0 => i - 1 \in 0 .. k + 1 /\ i - 1 <= k)
            BY <2>1, <4>1
        <5>2. g[i] = f[i] /\ (i # 0 => g[i - 1] = f[i - 1])
            BY <4>1, <5>1
        <5>3. f[i] = IF i = 0 THEN zero ELSE Step(f[i - 1], i)
            BY <2>2, <5>1, Zenon
        <5>. HIDE DEF g, Starts
        <5>. QED  BY <5>2, <5>3
      <4>2. CASE ~(i <= k)
        <5>1. i = k + 1 /\ i # 0 /\ i - 1 = k /\ k \in 0 .. k + 1 /\ k <= k
            BY <2>1, <4>2
        <5>2. g[i] = Step(f[k], k + 1) /\ g[i - 1] = f[k]
            BY <4>2, <5>1
        <5>. HIDE DEF g, Starts
        <5>. QED  BY <5>1, <5>2
      <4>. QED  BY <4>1, <4>2
    <3>2. g = [i \in 0 .. k + 1 |-> g[i]]
        OBVIOUS
    <3>. HIDE DEF g
    <3>. QED  BY <3>1, <3>2
  <2>. QED  BY <2>1, <2>3, Zenon
<1>6. \E f : Starts(f, l)
  <2>1. \A k \in 0 .. l : k \in S
    <3>. HIDE DEF S, l
    <3>. QED  BY <1>1, <1>4, <1>5, UpTo, Zenon
  <2>2. l \in 0 .. l
      BY <1>1
  <2>. QED  BY <2>1, <2>2, Zenon
<1>7. Starts(h, l)
    BY <1>2, <1>6, Zenon DEF Machines
<1>. HIDE DEF h
<1>8. h[0] = zero /\ \A p \in 1 .. l : h[p] = Step(h[p - 1], p)
    BY <1>1, <1>7
<1>. QED  BY <1>3, <1>8, Zenon DEF h, zero

\* A chunk of a split, as SplitSegment makes it, and whether it is in bounds.
Part(s, n, p) ==
    LET ops == Slice(s.ops, p, n)
        M == Machines(s, n)
    IN  [ops |-> ops, max |-> Most(s.max, StackBounds(ops).max + StackSlack),
         init |-> IF p = 1 THEN s.init ELSE Carry(M[p - 1]),
         fin |-> FinSince(M[p], M[p - 1].locals),
         meta |-> M[p].meta, texts |-> TextsOf(ops, s.texts), of |-> s.of,
         deps |-> ComputeDependencies(ops, M[p].meta)]

PartFits(s, n, p) ==
    /\ Machines(s, n)[p].ok
    /\ Fits(Part(s, n, p).init, Part(s, n, p).max)
    /\ Fits(Part(s, n, p).fin, Part(s, n, p).max)

\* If all chunks are in bounds they are what the segment is split into.
LEMMA SplitInParts ==
    ASSUME NEW s, NEW n, n # 0, ~(Len(s.ops) <= n),
           \A p \in 1 .. CeilDiv(Len(s.ops), n) : PartFits(s, n, p)
    PROVE  SplitSegment(s, n) =
               [ok |-> TRUE, whole |-> FALSE,
                chunks |-> [p \in 1 .. CeilDiv(Len(s.ops), n) |-> Part(s, n, p)]]
<1>. DEFINE M == Machines(s, n)
            bad == {p \in 1 .. CeilDiv(Len(s.ops), n) : ~PartFits(s, n, p)}
<1>1. SplitSegment(s, n) =
         IF bad = {} THEN [ok |-> TRUE, whole |-> FALSE,
                           chunks |-> [p \in 1 .. CeilDiv(Len(s.ops), n) |-> Part(s, n, p)]]
         ELSE [ok |-> M[Min(bad)].ok, whole |-> TRUE, chunks |-> <<s>>]
    BY Zenon DEF SplitSegment, Machines, MachinesBy, Part, PartFits
<1>2. bad = {}
    BY Zenon
<1>. QED  BY <1>1, <1>2, Zenon

\* A segment that its own machine executes to the end.
Executable(s) ==
    /\ AreInstructions(s.ops) /\ Len(s.ops) # 0 /\ s.max \in Nat
    /\ IsMachine(Machine(s.init)) /\ Machine(s.init).ok /\ Len(Machine(s.init).stack) <= s.max
    /\ s.init.locals = FreshLocals
    /\ \A k \in 0 .. Len(s.ops) : Execution(Machine(s.init), s.ops, s.max)[k].ok

Leads(s) == Execution(Machine(s.init), s.ops, s.max)

Slices(s, n) == CeilDiv(Len(s.ops), n)

\* A machine that forgets what it noted goes on the same way.
LEMMA Forgets ==
    ASSUME NEW m, IsMachine(m)
    PROVE  /\ Forget(m) = [stack |-> m.stack, locals |-> m.locals, meta |-> <<>>, ok |-> m.ok]
           /\ IsMachine(Forget(m)) /\ Agree(m, Forget(m))
<1>1. Forget(m) = [stack |-> m.stack, locals |-> m.locals, meta |-> <<>>, ok |-> m.ok]
  <2>1. m \in [stack : {m.stack}, locals : {m.locals}, meta : {m.meta}, ok : {m.ok}]
      BY DEF IsMachine
  <2>. QED  BY <2>1 DEF Forget
<1>. DEFINE f == Forget(m)
<1>2. f.stack = m.stack /\ f.locals = m.locals /\ f.meta = <<>> /\ f.ok = m.ok
    BY <1>1
<1>3. f = [stack |-> f.stack, locals |-> f.locals, meta |-> f.meta, ok |-> f.ok]
    BY <1>1, <1>2
<1>. HIDE DEF f
<1>4. IsMachine(f)
    BY <1>2, <1>3, EmptyIsSequence DEF IsMachine
<1>. QED  BY <1>1, <1>2, <1>4 DEF Agree, f

\* The bounds of a slice, and where its execution leads from a machine like the
\* one before it.
LEMMA SliceOfSegment ==
    ASSUME NEW s, Executable(s), NEW n \in Nat \ {0}, NEW p \in 1 .. Slices(s, n),
           NEW m, IsMachine(m), Agree(Leads(s)[EndOfSlice(Len(s.ops), p - 1, n)], m),
           NEW bound \in Int, s.max <= bound
    PROVE  /\ AreInstructions(Slice(s.ops, p, n))
           /\ IsMachine(Run(m, Slice(s.ops, p, n), bound))
           /\ Agree(Leads(s)[EndOfSlice(Len(s.ops), p, n)], Run(m, Slice(s.ops, p, n), bound))
<1>. DEFINE ops == s.ops
            l == Len(ops)
            u == Slice(ops, p, n)
            a == EndOfSlice(l, p - 1, n)
            b == EndOfSlice(l, p, n)
            k == Machine(s.init)
            max == s.max
            E == Execution(k, ops, max)
<1>1. /\ AreInstructions(ops) /\ IsSequence(ops) /\ l \in Nat \ {0} /\ max \in Int
      /\ IsMachine(k) /\ \A i \in 0 .. l : E[i].ok
    BY SequenceParts DEF Executable, AreInstructions
<1>2. Leads(s) = E
    BY DEF Leads
<1>3. p \in 1 .. CeilDiv(l, n)
    BY DEF Slices
<1>. HIDE DEF ops, k, max
<1>4. /\ a = (p - 1) * n /\ (p - 1) * n \in Nat /\ (p - 1) * n < l
      /\ b \in (p - 1) * n + 1 .. l
  <2>. HIDE DEF l, a, b
  <2>1. EndOfSlice(l, p - 1, n) = (p - 1) * n /\ (p - 1) * n \in Nat /\ (p - 1) * n < l
        /\ EndOfSlice(l, p, n) \in (p - 1) * n + 1 .. l
      BY <1>1, <1>3, CountOfSlices
  <2>. QED  BY <2>1 DEF a, b
<1>5. IsCut(u, ops, a + 1, b)
  <2>1. IsCut(u, ops, (p - 1) * n + 1, b)
      BY <1>1, <1>3, SliceIsCut
  <2>. QED  BY <1>4, <2>1
<1>. DEFINE x == (p - 1) * n
<1>6. a \in 0 .. l /\ b \in a .. l
  <2>1. a = x /\ x \in Nat /\ x < l /\ b \in x + 1 .. l
      BY <1>4
  <2>. HIDE DEF x, l, a, b
  <2>. QED  BY <1>1, <2>1
<1>7. Agree(E[a], m)
    BY <1>2 DEF ops
<1>. HIDE DEF u, a, b
<1>8. /\ AreInstructions(u) /\ Len(u) = b - a
      /\ \A j \in 0 .. b - a : /\ IsMachine(Execution(m, u, bound)[j])
                               /\ Agree(E[a + j], Execution(m, u, bound)[j])
  <2>1. max <= bound
      BY DEF max
  <2>. QED  BY <1>1, <1>5, <1>6, <1>7, <2>1, SliceExecutes
<1>9. b - a \in 0 .. b - a /\ a + (b - a) = b
  <2>. HIDE DEF l
  <2>. QED  BY <1>1, <1>6
<1>10. IsMachine(Run(m, u, bound)) /\ Agree(E[b], Run(m, u, bound))
    BY <1>8, <1>9 DEF Run
<1>. QED  BY <1>2, <1>8, <1>10 DEF u, b, ops

\* The machines of a split are those of the segment at the ends of the slices.
LEMMA MachinesOfSplit ==
    ASSUME NEW s, Executable(s), NEW n \in Nat \ {0}
    PROVE  \A p \in 0 .. Slices(s, n) :
              /\ IsMachine(Machines(s, n)[p])
              /\ Agree(Leads(s)[EndOfSlice(Len(s.ops), p, n)], Machines(s, n)[p])
              /\ Machines(s, n)[p].ok /\ Len(Machines(s, n)[p].stack) <= s.max
<1>. DEFINE l == Len(s.ops)
            count == Slices(s, n)
            M == Machines(s, n)
            E == Leads(s)
            Good(p) == IsMachine(M[p]) /\ Agree(E[EndOfSlice(l, p, n)], M[p])
            S == {p \in 0 .. count : Good(p)}
<1>1. /\ AreInstructions(s.ops) /\ IsSequence(s.ops) /\ l \in Nat \ {0} /\ s.max \in Nat
      /\ IsMachine(Machine(s.init)) /\ Len(Machine(s.init).stack) <= s.max
      /\ \A i \in 0 .. l : E[i].ok
    BY SequenceParts DEF Executable, AreInstructions, Leads
<1>2. /\ count \in Nat \ {0}
      /\ \A p \in 1 .. count : EndOfSlice(l, p, n) \in (p - 1) * n + 1 .. l /\ (p - 1) * n \in Nat
    BY <1>1, CountOfSlices DEF Slices
<1>3. M[0] = Machine(s.init) /\ \A p \in 1 .. count : M[p] = Run(Forget(M[p - 1]), Slice(s.ops, p, n), s.max)
  <2>1. CeilDiv(Len(s.ops), n) \in Nat
      BY <1>2 DEF Slices
  <2>. QED  BY <2>1, MachinesSteps DEF Slices
<1>4. EndOfSlice(l, 0, n) = 0
  <2>. HIDE DEF l
  <2>1. 0 * n = 0
      OBVIOUS
  <2>. QED  BY <1>1, <2>1 DEF EndOfSlice, Least
<1>5. 0 \in S
  <2>1. E[0] = Machine(s.init)
    <3>. DEFINE o == s.ops
                k == Machine(s.init)
                x == s.max
    <3>1. IsSequence(o) /\ E = Execution(k, o, x)
        BY <1>1 DEF Leads
    <3>. HIDE DEF o, k, x, E
    <3>2. Execution(k, o, x)[0] = k
        BY <3>1, ExecutionSteps
    <3>. QED  BY <3>1, <3>2 DEF k
  <2>2. Good(0)
      BY <1>1, <1>3, <1>4, <2>1 DEF Agree
  <2>3. 0 \in 0 .. count
      BY <1>2
  <2>. HIDE DEF Good
  <2>. QED  BY <2>2, <2>3
<1>6. \A p \in 0 .. count - 1 : p \in S => p + 1 \in S
  <2>. SUFFICES ASSUME NEW p \in 0 .. count - 1, Good(p)
                PROVE  p + 1 \in 0 .. count /\ Good(p + 1)
      BY Zenon
  <2>. DEFINE q == p + 1
  <2>1. q \in 1 .. count /\ q - 1 = p /\ q \in 0 .. count
      BY <1>2
  <2>2. IsMachine(Forget(M[p])) /\ Agree(M[p], Forget(M[p]))
      BY Forgets
  <2>3. Agree(E[EndOfSlice(l, q - 1, n)], Forget(M[p]))
      BY <2>1, <2>2 DEF Agree
  <2>4. M[q] = Run(Forget(M[p]), Slice(s.ops, q, n), s.max)
      BY <1>3, <2>1
  <2>. HIDE DEF q, l, M
  <2>5. /\ IsMachine(Run(Forget(M[p]), Slice(s.ops, q, n), s.max))
        /\ Agree(E[EndOfSlice(Len(s.ops), q, n)], Run(Forget(M[p]), Slice(s.ops, q, n), s.max))
    <3>. DEFINE f == Forget(M[p])
                x == s.max
    <3>1. x \in Int /\ x <= x /\ s.max <= x
        BY <1>1
    <3>2. IsMachine(f) /\ Agree(Leads(s)[EndOfSlice(Len(s.ops), q - 1, n)], f)
        BY <2>2, <2>3 DEF l
    <3>. HIDE DEF f, x
    <3>3. /\ IsMachine(Run(f, Slice(s.ops, q, n), x))
          /\ Agree(Leads(s)[EndOfSlice(Len(s.ops), q, n)], Run(f, Slice(s.ops, q, n), x))
        BY <2>1, <3>1, <3>2, SliceOfSegment
    <3>. QED  BY <3>3 DEF f, x
  <2>6. Good(q)
      BY <2>4, <2>5 DEF l
  <2>. QED  BY <2>1, <2>6 DEF q
<1>7. \A p \in 0 .. count : Good(p)
  <2>1. \A p \in 0 .. count : p \in S
    <3>1. count \in Nat
        BY <1>2
    <3>. HIDE DEF S, count
    <3>. QED  BY <1>5, <1>6, <3>1, UpTo, Zenon
  <2>. QED  BY <2>1, Zenon
<1>8. \A k \in 0 .. l : E[k].ok /\ Len(E[k].stack) <= s.max
  <2>. DEFINE o == s.ops
              k == Machine(s.init)
              x == s.max
  <2>1. AreInstructions(o) /\ IsMachine(k) /\ x \in Int /\ Len(k.stack) <= x /\ Len(o) \in 0 .. Len(o)
      BY <1>1
  <2>2. Execution(k, o, x)[Len(o)].ok
      BY <1>1, <2>1 DEF Leads
  <2>. HIDE DEF o, k, x
  <2>3. \A i \in 0 .. Len(o) : Execution(k, o, x)[i].ok /\ Len(Execution(k, o, x)[i].stack) <= x
      BY <2>1, <2>2, StackBounded
  <2>. QED  BY <2>3 DEF Leads, o, k, x
<1>9. \A p \in 0 .. count : EndOfSlice(l, p, n) \in 0 .. l
  <2>. TAKE p \in 0 .. count
  <2>1. CASE p = 0
      BY <1>1, <1>4, <2>1
  <2>2. CASE p # 0
    <3>. DEFINE e == EndOfSlice(l, p, n)
                x == (p - 1) * n
    <3>1. p \in 1 .. count
        BY <1>2, <2>2
    <3>2. e \in x + 1 .. l /\ x \in Nat
        BY <1>2, <3>1
    <3>. HIDE DEF e, x, l
    <3>3. e \in 0 .. l
        BY <1>1, <3>2
    <3>. QED  BY <3>3 DEF e
  <2>. QED  BY <2>1, <2>2
<1>. HIDE DEF M, E, l
<1>10. \A p \in 0 .. count : M[p].ok /\ Len(M[p].stack) <= s.max
    BY <1>7, <1>8, <1>9 DEF Agree
<1>. QED  BY <1>7, <1>10 DEF M, E, l, count

\* One value for every local of the function.
AllLocals(f) == DOMAIN f = 0 .. NumLocals - 1

\* What a machine changed, laid over what it started with, is what it has.
LEMMA Overlaid ==
    ASSUME NEW m, IsMachine(m), NEW start, AllLocals(start),
           NEW fin, fin = FinSince(m, start)
    PROVE  [x \in DOMAIN start |-> IF x \in DOMAIN fin.locals THEN fin.locals[x] ELSE start[x]]
           = m.locals
<1>1. /\ \A x \in 0 .. NumLocals - 1 : x \in DOMAIN fin.locals <=> m.locals[x] # start[x]
      /\ \A x \in DOMAIN fin.locals : fin.locals[x] = m.locals[x]
    BY FinOfMachine
<1>2. m.locals = [x \in 0 .. NumLocals - 1 |-> m.locals[x]]
    BY DEF IsMachine
<1>. DEFINE g == [x \in 0 .. NumLocals - 1 |-> IF x \in DOMAIN fin.locals THEN fin.locals[x] ELSE start[x]]
            h == [x \in 0 .. NumLocals - 1 |-> m.locals[x]]
<1>3. \A x \in 0 .. NumLocals - 1 : (IF x \in DOMAIN fin.locals THEN fin.locals[x] ELSE start[x]) = m.locals[x]
    BY <1>1
<1>4. g = h
    BY <1>3
<1>. HIDE DEF g, h
<1>5. m.locals = g
    BY <1>2, <1>4, Zenon DEF h
<1>. QED  BY <1>5 DEF g, AllLocals

\* The fields of a chunk of a split.
LEMMA PartFields ==
    ASSUME NEW s, Executable(s), NEW n \in Nat \ {0}, NEW p \in 1 .. Slices(s, n)
    PROVE  LET c == Part(s, n, p)
               M == Machines(s, n)
           IN  /\ c.ops = Slice(s.ops, p, n) /\ AreInstructions(c.ops)
               /\ c.max \in Nat /\ s.max <= c.max
               /\ c.init.stack = M[p - 1].stack /\ c.init.locals = M[p - 1].locals
               /\ c.fin = FinSince(M[p], M[p - 1].locals)
               /\ Machine(c.init) = Forget(M[p - 1])
<1>. DEFINE c == Part(s, n, p)
            M == Machines(s, n)
            u == Slice(s.ops, p, n)
            x == StackBounds(u).max
<1>1. /\ c.ops = u /\ c.fin = FinSince(M[p], M[p - 1].locals)
      /\ c.max = Most(s.max, x + StackSlack)
      /\ c.init = IF p = 1 THEN s.init ELSE Carry(M[p - 1])
    BY DEF Part
<1>2. CeilDiv(Len(s.ops), n) \in Nat \ {0} /\ Slices(s, n) = CeilDiv(Len(s.ops), n)
  <2>. DEFINE l == Len(s.ops)
  <2>1. l \in Nat \ {0}
      BY SequenceParts DEF Executable, AreInstructions
  <2>. HIDE DEF l
  <2>2. CeilDiv(l, n) \in Nat \ {0}
      BY <2>1, CountOfSlices
  <2>. QED  BY <2>2 DEF l, Slices
<1>3. p - 1 \in 0 .. Slices(s, n) /\ p \in Nat
    BY <1>2
<1>4. /\ IsMachine(M[p - 1]) /\ M[p - 1].ok
      /\ Agree(Leads(s)[EndOfSlice(Len(s.ops), p - 1, n)], M[p - 1])
    BY <1>3, MachinesOfSplit
<1>5. AreInstructions(u)
  <2>. DEFINE m == M[p - 1]
              z == s.max
  <2>1. /\ IsMachine(m) /\ Agree(Leads(s)[EndOfSlice(Len(s.ops), p - 1, n)], m)
        /\ z \in Int /\ s.max <= z
      BY <1>4 DEF Executable
  <2>. HIDE DEF m, z
  <2>. QED  BY <2>1, SliceOfSegment
<1>6. c.max \in Nat /\ s.max <= c.max
  <2>1. x \in Nat /\ StackSlack \in Nat /\ s.max \in Nat
    <3>. HIDE DEF u
    <3>. QED  BY <1>5, BoundsOfHeights, MachineAssumption DEF Executable
  <2>. HIDE DEF x, c
  <2>. QED  BY <1>1, <2>1 DEF Most
<1>7. Machines(s, n)[0] = Machine(s.init)
    BY <1>2, MachinesSteps
<1>8. c.init.stack = M[p - 1].stack /\ c.init.locals = M[p - 1].locals
  <2>1. CASE p = 1
    <3>1. p - 1 = 0 /\ c.init = s.init
        BY <1>1, <2>1
    <3>. QED  BY <1>7, <3>1 DEF Machine
  <2>2. CASE p # 1
    <3>1. c.init = [stack |-> M[p - 1].stack, locals |-> M[p - 1].locals]
        BY <1>1, <2>2 DEF Carry
    <3>. HIDE DEF c, M
    <3>. QED  BY <3>1
  <2>. QED  BY <2>1, <2>2
<1>. HIDE DEF c, u, x
<1>9. Machine(c.init) = Forget(M[p - 1])
  <2>. DEFINE m == M[p - 1]
  <2>1. /\ Forget(m) = [stack |-> m.stack, locals |-> m.locals, meta |-> <<>>, ok |-> m.ok]
        /\ m.ok \in BOOLEAN
      BY <1>4, Forgets DEF IsMachine
  <2>2. m.ok = TRUE /\ c.init.stack = m.stack /\ c.init.locals = m.locals
      BY <1>4, <1>8, <2>1
  <2>. HIDE DEF m
  <2>3. Machine(c.init) = [stack |-> m.stack, locals |-> m.locals, meta |-> <<>>, ok |-> TRUE]
      BY <2>2 DEF Machine
  <2>. QED  BY <2>1, <2>2, <2>3 DEF m
<1>. QED  BY <1>1, <1>5, <1>6, <1>8, <1>9 DEF c, u

\* No chunk of a split is out of bounds.
LEMMA PartsFit ==
    ASSUME NEW s, Executable(s), NEW n \in Nat \ {0}, NEW p \in 1 .. Slices(s, n)
    PROVE  PartFits(s, n, p)
<1>. DEFINE c == Part(s, n, p)
            M == Machines(s, n)
            x == c.max
<1>1. /\ x \in Nat /\ s.max <= x /\ s.max \in Nat
      /\ c.init.stack = M[p - 1].stack /\ c.init.locals = M[p - 1].locals
      /\ c.fin = FinSince(M[p], M[p - 1].locals)
  <2>1. s.max \in Nat
      BY DEF Executable
  <2>. QED  BY <2>1, PartFields
<1>2. p - 1 \in 0 .. Slices(s, n) /\ p \in 0 .. Slices(s, n)
  <2>. DEFINE l == Len(s.ops)
  <2>1. l \in Nat \ {0}
      BY SequenceParts DEF Executable, AreInstructions
  <2>. HIDE DEF l
  <2>2. CeilDiv(l, n) \in Nat
      BY <2>1, CountOfSlices
  <2>3. Slices(s, n) \in Nat
      BY <2>2 DEF l, Slices
  <2>. QED  BY <2>3
<1>3. \A q \in 0 .. Slices(s, n) : IsMachine(M[q]) /\ M[q].ok /\ Len(M[q].stack) <= s.max
    BY MachinesOfSplit
<1>. DEFINE a == M[p - 1]
            b == M[p]
            i == c.init
            f == c.fin
<1>4. /\ IsMachine(a) /\ Len(a.stack) <= s.max /\ Len(a.stack) \in Nat
      /\ IsMachine(b) /\ Len(b.stack) <= s.max /\ Len(b.stack) \in Nat /\ b.ok
    BY <1>2, <1>3, SequenceParts DEF IsMachine, AreValues
<1>5. i.stack = a.stack /\ i.locals = a.locals /\ f = FinSince(b, a.locals)
    BY <1>1
<1>. HIDE DEF a, b, i, f, x
<1>6. Len(a.stack) <= x /\ Len(b.stack) <= x /\ x \in Int
    BY <1>1, <1>4
<1>7. Fits(i, x)
  <2>1. DOMAIN i.locals \subseteq 0 .. NumLocals - 1
      BY <1>4, <1>5 DEF IsMachine
  <2>. QED  BY <1>4, <1>5, <1>6, <2>1, StateFits
<1>8. Fits(f, x)
  <2>1. f.stack = b.stack /\ DOMAIN f.locals \subseteq 0 .. NumLocals - 1
      BY <1>4, <1>5, FinOfMachine
  <2>. QED  BY <1>4, <1>6, <2>1, StateFits
<1>. QED  BY <1>4, <1>7, <1>8 DEF PartFits, b, i, f, x

\* Every chunk of a split reaches its own final state.
LEMMA PartsReach ==
    ASSUME NEW s, Executable(s), NEW n \in Nat \ {0}, NEW p \in 1 .. Slices(s, n)
    PROVE  Reaches(Part(s, n, p))
<1>. DEFINE c == Part(s, n, p)
            M == Machines(s, n)
            x == c.max
            a == M[p - 1]
            b == M[p]
            u == Slice(s.ops, p, n)
            l == Len(s.ops)
<1>1. /\ c.ops = u /\ x \in Int /\ s.max <= x
      /\ c.init.locals = a.locals /\ c.fin = FinSince(b, a.locals)
      /\ Machine(c.init) = Forget(a)
    BY PartFields
<1>2. p - 1 \in 0 .. Slices(s, n) /\ p \in 0 .. Slices(s, n)
  <2>1. l \in Nat \ {0}
      BY SequenceParts DEF Executable, AreInstructions
  <2>. HIDE DEF l
  <2>2. CeilDiv(l, n) \in Nat
      BY <2>1, CountOfSlices
  <2>3. Slices(s, n) \in Nat
      BY <2>2 DEF l, Slices
  <2>. QED  BY <2>3
<1>3. /\ IsMachine(a) /\ Agree(Leads(s)[EndOfSlice(l, p - 1, n)], a)
      /\ Agree(Leads(s)[EndOfSlice(l, p, n)], b) /\ b.ok
    BY <1>2, MachinesOfSplit
<1>. DEFINE g == Forget(a)
            r == Run(g, u, x)
<1>4. IsMachine(g) /\ Agree(Leads(s)[EndOfSlice(l, p - 1, n)], g)
    BY <1>3, Forgets DEF Agree
<1>5. Agree(Leads(s)[EndOfSlice(l, p, n)], r)
  <2>. HIDE DEF g, x
  <2>. QED  BY <1>1, <1>4, SliceOfSegment
<1>6. Run(Machine(c.init), c.ops, c.max) = r
    BY <1>1
<1>. HIDE DEF r, b, a, c
<1>7. r.ok /\ r.stack = b.stack /\ r.locals = b.locals
    BY <1>3, <1>5 DEF Agree
<1>8. FinSince(r, c.init.locals) = c.fin
    BY <1>1, <1>7 DEF FinSince
<1>. QED  BY <1>6, <1>7, <1>8 DEF Reaches, c

\* What a split of a segment into chunks gives: what CarriedChunksCompose asks of
\* it, whenever the segment reaches its own final state.
Composes(s, r) ==
    LET parts == r.chunks
        last == parts[Len(parts)]
        end == [carried |-> [x \in DOMAIN last.init.locals |->
                                IF x \in DOMAIN last.fin.locals THEN last.fin.locals[x]
                                                                ELSE last.init.locals[x]]]
    IN  /\ FlattenSeq([p \in DOMAIN parts |-> parts[p].ops]) = s.ops
        /\ \A p \in DOMAIN parts : Reaches(parts[p])
        /\ FinSince([stack |-> last.fin.stack, locals |-> end.carried], FreshLocals) = s.fin
        /\ r.whole => Len(s.ops) <= 2

\* The last chunk ends where the segment does.
LEMMA EndComposes ==
    ASSUME NEW s, Reaches(s), s.init.locals = FreshLocals,
           NEW m, IsMachine(m), Agree(Run(Machine(s.init), s.ops, s.max), m),
           NEW start, AllLocals(start),
           NEW last, last.init.locals = start, last.fin = FinSince(m, start),
           NEW over, over = [x \in DOMAIN last.init.locals |->
                                IF x \in DOMAIN last.fin.locals THEN last.fin.locals[x]
                                                                ELSE last.init.locals[x]]
    PROVE  FinSince([stack |-> last.fin.stack, locals |-> over], FreshLocals) = s.fin
<1>. DEFINE f == last.fin
            e == Run(Machine(s.init), s.ops, s.max)
<1>1. over = m.locals
  <2>1. f = FinSince(m, start)
      OBVIOUS
  <2>. HIDE DEF f
  <2>2. [x \in DOMAIN start |-> IF x \in DOMAIN f.locals THEN f.locals[x] ELSE start[x]] = m.locals
      BY <2>1, Overlaid
  <2>. QED  BY <2>2, Zenon DEF f
<1>2. f.stack = m.stack
    BY FinOfMachine
<1>3. s.fin = FinSince(e, FreshLocals)
    BY DEF Reaches
<1>4. e.stack = m.stack /\ e.locals = m.locals
    BY DEF Agree
<1>. DEFINE g == [stack |-> last.fin.stack, locals |-> over]
<1>5. g.stack = m.stack /\ g.locals = m.locals
    BY <1>1, <1>2
<1>. HIDE DEF g, e, f
<1>6. FinSince(g, FreshLocals) = FinSince(e, FreshLocals)
    BY <1>4, <1>5 DEF FinSince
<1>. QED  BY <1>3, <1>6 DEF g

\* A segment that is no longer than two is given back.
LEMMA WholeComposes ==
    ASSUME NEW s, Executable(s), Reaches(s), Len(s.ops) <= 2
    PROVE  SplitSegment(s, 2).ok /\ Composes(s, SplitSegment(s, 2))
<1>. DEFINE parts == <<s>>
            r == [ok |-> TRUE, whole |-> TRUE, chunks |-> <<s>>]
            over == [x \in DOMAIN s.init.locals |->
                        IF x \in DOMAIN s.fin.locals THEN s.fin.locals[x] ELSE s.init.locals[x]]
            e == Run(Machine(s.init), s.ops, s.max)
<1>1. SplitSegment(s, 2) = r
    BY DEF SplitSegment
<1>2. Len(parts) = 1 /\ DOMAIN parts = {1} /\ parts[1] = s
    OBVIOUS
<1>3. FlattenSeq([p \in DOMAIN parts |-> parts[p].ops]) = s.ops
  <2>. DEFINE sl == [p \in 1 .. CeilDiv(Len(s.ops), 2) |-> Slice(s.ops, p, 2)]
              ops == s.ops
  <2>1. IsSequence(ops) /\ ops # <<>> /\ Len(ops) \in {1, 2}
    <3>1. IsSequence(ops) /\ Len(ops) \in Nat /\ Len(ops) # 0 /\ Len(ops) <= 2
        BY SequenceParts DEF Executable, AreInstructions
    <3>. DEFINE l == Len(ops)
    <3>2. l \in {1, 2}
      <4>1. l \in Nat /\ l # 0 /\ l <= 2
          BY <3>1
      <4>. HIDE DEF l
      <4>. QED  BY <4>1
    <3>3. ops # <<>>
        BY <3>1, EmptyIsSequence
    <3>. QED  BY <3>1, <3>2, <3>3
  <2>2. [p \in DOMAIN parts |-> parts[p].ops] = <<ops>>
      OBVIOUS
  <2>. HIDE DEF ops
  <2>3. AreSequences(<<>>) /\ AreSequences(<<ops>>) /\ Append(<<>>, ops) = <<ops>>
    <3>1. AreSequences(<<>>)
        BY EmptyIsSequence DEF AreSequences
    <3>2. Append(<<>>, ops) = <<ops>>
        OBVIOUS
    <3>. QED  BY <2>1, <3>1, <3>2, MoreSequences
  <2>4. FlattenSeq(<<ops>>) = FlattenSeq(<<>>) \o ops
      BY <2>1, <2>3, FlattenNext
  <2>5. FlattenSeq(<<ops>>) = ops
      BY <2>1, <2>4, FlattenEmpty, EmptyJoined
  <2>. QED  BY <2>2, <2>5 DEF ops
<1>4. IsMachine(e) /\ Agree(e, e) /\ s.fin = FinSince(e, FreshLocals) /\ s.init.locals = FreshLocals
  <2>. DEFINE o == s.ops
              k == Machine(s.init)
              x == s.max
  <2>1. AreInstructions(o) /\ IsMachine(k) /\ x \in Int /\ Len(o) \in 0 .. Len(o) /\ s.init.locals = FreshLocals
    <3>1. Len(o) \in Nat
        BY SequenceParts DEF Executable, AreInstructions
    <3>. QED  BY <3>1 DEF Executable
  <2>. HIDE DEF o, k, x
  <2>2. IsMachine(Run(k, o, x))
      BY <2>1, ExecutionOfMachines DEF Run
  <2>. QED  BY <2>1, <2>2 DEF Agree, Reaches, o, k, x
<1>5. AllLocals(FreshLocals)
    BY DEF FreshLocals, AllLocals
<1>. HIDE DEF e
<1>6. FinSince([stack |-> s.fin.stack, locals |-> over], FreshLocals) = s.fin
  <2>. DEFINE start == FreshLocals
  <2>1. s.init.locals = start /\ s.fin = FinSince(e, start) /\ AllLocals(start)
      BY <1>4, <1>5
  <2>2. Agree(Run(Machine(s.init), s.ops, s.max), e)
      BY <1>4 DEF e
  <2>. HIDE DEF over
  <2>3. over = [x \in DOMAIN s.init.locals |->
                    IF x \in DOMAIN s.fin.locals THEN s.fin.locals[x] ELSE s.init.locals[x]]
      BY DEF over
  <2>4. s.init.locals = FreshLocals
      BY <1>4
  <2>. HIDE DEF start
  <2>. QED  BY <1>4, <2>1, <2>2, <2>3, <2>4, EndComposes
<1>7. Composes(s, r)
  <2>1. r.chunks = parts /\ r.whole = TRUE /\ parts[Len(parts)] = s
      BY <1>2
  <2>2. \A p \in DOMAIN parts : Reaches(parts[p])
      BY <1>2
  <2>. HIDE DEF r, parts
  <2>. QED  BY <1>3, <1>6, <2>1, <2>2 DEF Composes
<1>8. r.ok
    OBVIOUS
<1>. HIDE DEF r
<1>. QED  BY <1>1, <1>7, <1>8, Zenon

\* The chunks of a longer segment hold its instructions and lead to its end.
LEMMA PartsCompose ==
    ASSUME NEW s, Executable(s), Reaches(s),
           NEW r, r.whole = FALSE, r.chunks = [p \in 1 .. Slices(s, 2) |-> Part(s, 2, p)]
    PROVE  Composes(s, r)
<1>. DEFINE parts == r.chunks
            ops == s.ops
            count == Slices(s, 2)
            last == parts[Len(parts)]
            M == Machines(s, 2)
            over == [x \in DOMAIN last.init.locals |->
                        IF x \in DOMAIN last.fin.locals THEN last.fin.locals[x]
                                                        ELSE last.init.locals[x]]
<1>1. /\ IsSequence(ops) /\ Len(ops) \in Nat \ {0} /\ count = CeilDiv(Len(ops), 2)
      /\ s.init.locals = FreshLocals /\ AreInstructions(ops) /\ IsMachine(Machine(s.init)) /\ s.max \in Int
    BY SequenceParts DEF Executable, AreInstructions, Slices
<1>2. count \in Nat \ {0} /\ EndOfSlice(Len(ops), count, 2) = Len(ops)
  <2>. DEFINE l == Len(ops)
  <2>1. l \in Nat \ {0} /\ 2 \in Nat \ {0} /\ count = CeilDiv(l, 2)
      BY <1>1
  <2>. HIDE DEF l, count
  <2>2. CeilDiv(l, 2) \in Nat \ {0} /\ EndOfSlice(l, CeilDiv(l, 2), 2) = l
      BY <2>1, CountOfSlices
  <2>. QED  BY <2>1, <2>2 DEF l
<1>3. /\ DOMAIN parts = 1 .. count /\ Len(parts) = count
      /\ \A p \in 1 .. count : parts[p] = Part(s, 2, p)
  <2>1. parts = [p \in 1 .. count |-> Part(s, 2, p)] /\ count \in Nat
      BY <1>2
  <2>. HIDE DEF parts, count
  <2>. QED  BY <2>1
<1>4. \A p \in 1 .. count : LET c == parts[p]
                            IN  /\ c.ops = Slice(ops, p, 2)
                                /\ c.init.locals = M[p - 1].locals
                                /\ c.fin = FinSince(M[p], M[p - 1].locals)
    BY <1>3, PartFields
<1>5. \A p \in DOMAIN parts : Reaches(parts[p])
    BY <1>3, PartsReach
<1>6. FlattenSeq([p \in DOMAIN parts |-> parts[p].ops]) = ops
  <2>. DEFINE sl == [p \in 1 .. count |-> Slice(ops, p, 2)]
              tt == [p \in DOMAIN parts |-> parts[p].ops]
  <2>1. tt = sl
    <3>1. \A p \in 1 .. count : parts[p].ops = Slice(ops, p, 2)
        BY <1>4
    <3>2. DOMAIN parts = 1 .. count
        BY <1>3
    <3>. HIDE DEF parts, count, ops
    <3>. QED  BY <3>1, <3>2
  <2>2. sl = [p \in 1 .. CeilDiv(Len(ops), 2) |-> Slice(ops, p, 2)]
      BY <1>1
  <2>. HIDE DEF sl, ops, tt
  <2>3. FlattenSeq(sl) = ops
      BY <1>1, <2>2, SlicesAreAll
  <2>. QED  BY <2>1, <2>3 DEF tt
<1>7. /\ IsMachine(M[count]) /\ IsMachine(M[count - 1])
      /\ Agree(Run(Machine(s.init), s.ops, s.max), M[count])
  <2>1. count \in 0 .. count /\ count - 1 \in 0 .. count
      BY <1>2
  <2>2. \A p \in 0 .. count : IsMachine(M[p]) /\ Agree(Leads(s)[EndOfSlice(Len(ops), p, 2)], M[p])
      BY MachinesOfSplit
  <2>3. Run(Machine(s.init), s.ops, s.max) = Leads(s)[Len(ops)]
      BY DEF Run, Leads
  <2>. HIDE DEF M, count, ops
  <2>. QED  BY <1>2, <2>1, <2>2, <2>3
<1>. DEFINE m == M[count]
            start == M[count - 1].locals
<1>8. last.init.locals = start /\ last.fin = FinSince(m, start)
  <2>1. count \in 1 .. count /\ last = parts[count]
      BY <1>2, <1>3
  <2>. QED  BY <1>4, <2>1
<1>9. IsMachine(m) /\ Agree(Run(Machine(s.init), s.ops, s.max), m) /\ AllLocals(start)
    BY <1>7 DEF IsMachine, AllLocals
<1>10. FinSince([stack |-> last.fin.stack, locals |-> over], FreshLocals) = s.fin
  <2>1. over = [x \in DOMAIN last.init.locals |->
                    IF x \in DOMAIN last.fin.locals THEN last.fin.locals[x]
                                                    ELSE last.init.locals[x]]
      OBVIOUS
  <2>. HIDE DEF m, start, over, last
  <2>. QED  BY <1>1, <1>8, <1>9, <2>1, EndComposes
<1>. QED
  <2>. HIDE DEF parts
  <2>. QED  BY <1>5, <1>6, <1>10 DEF Composes, parts

\* A segment that is executed without a failure is split without one, and its
\* chunks compose if it reaches its own final state.
LEMMA SplitComposes ==
    ASSUME NEW s, Executable(s)
    PROVE  /\ SplitSegment(s, 2).ok = TRUE
           /\ Reaches(s) => Composes(s, SplitSegment(s, 2))
<1>. DEFINE r == SplitSegment(s, 2)
<1>1. Len(s.ops) \in Nat
    BY SequenceParts DEF Executable, AreInstructions
<1>2. CASE Len(s.ops) <= 2
  <2>1. r.ok = TRUE
      BY <1>2 DEF SplitSegment
  <2>. QED  BY <1>2, <2>1, WholeComposes
<1>3. CASE ~(Len(s.ops) <= 2)
  <2>1. \A p \in 1 .. CeilDiv(Len(s.ops), 2) : PartFits(s, 2, p)
    <3>1. 2 \in Nat \ {0}
        OBVIOUS
    <3>. QED  BY <3>1, PartsFit DEF Slices
  <2>2. r = [ok |-> TRUE, whole |-> FALSE,
             chunks |-> [p \in 1 .. CeilDiv(Len(s.ops), 2) |-> Part(s, 2, p)]]
    <3>1. 2 # 0
        OBVIOUS
    <3>. QED  BY <1>3, <2>1, <3>1, SplitInParts
  <2>3. r.ok = TRUE /\ r.whole = FALSE /\ r.chunks = [p \in 1 .. Slices(s, 2) |-> Part(s, 2, p)]
    <3>. DEFINE v == [p \in 1 .. CeilDiv(Len(s.ops), 2) |-> Part(s, 2, p)]
    <3>1. r = [ok |-> TRUE, whole |-> FALSE, chunks |-> v]
        BY <2>2
    <3>. HIDE DEF r, v
    <3>2. r.ok = TRUE /\ r.whole = FALSE /\ r.chunks = v
        BY <3>1
    <3>. QED  BY <3>2 DEF v, Slices
  <2>. HIDE DEF r
  <2>4. Reaches(s) => Composes(s, r)
      BY <2>3, PartsCompose
  <2>. QED  BY <2>3, <2>4 DEF r
<1>. QED  BY <1>1, <1>2, <1>3

\* A chunk no longer than the slack and one whose instructions push at most one
\* value each is executed to its end.
LEMMA ShortGoesOn ==
    ASSUME NEW code, IsBody(code), NEW c, IsChunk(code, c), Len(c.ops) <= StackSlack + 1,
           \A k \in 1 .. Len(c.ops) : Pushes(c.ops[k]) <= 1
    PROVE  Runs(c)[Len(c.ops)].ok
<1>. DEFINE ops == c.ops
            l == Len(ops)
            h == Heights(ops)
            m == Start(c)
            start == Len(m.stack)
            b == Bound(c)
            x == StackBounds(ops).max
<1>1. AreInstructions(ops) /\ l \in Nat \ {0}
    BY ChunkInstructions
<1>2. /\ IsMachine(m) /\ m.ok /\ start = h[l].init /\ start \in Nat
      /\ x \in Nat /\ b \in Nat /\ x + StackSlack <= b
    BY StartOfChunk
<1>3. h[l] \in Level /\ h[l].init <= x /\ h[l].max <= x
  <2>. HIDE DEF ops
  <2>. QED  BY <1>1, BoundsOfHeights
<1>. HIDE DEF ops, m, b, x
<1>4. /\ h[0].cur = 0 /\ \A k \in 0 .. l : h[k] \in Level
      /\ \A k \in 1 .. l : h[k].cur <= h[k - 1].cur + Pushes(ops[k]) /\ h[k].cur <= h[k].max
  <2>1. /\ h[0] = [cur |-> 0, init |-> 0, max |-> 0] /\ \A k \in 0 .. l : h[k] \in Level
      BY <1>1, HeightsSteps
  <2>2. \A k \in 1 .. l : h[k].cur <= h[k - 1].cur + Pushes(ops[k]) /\ h[k].cur <= h[k].max
      BY <1>1, HeightsGrow
  <2>. QED  BY <2>1, <2>2
<1>5. \A k \in 1 .. l : Pushes(ops[k]) \in Nat /\ Pushes(ops[k]) <= 1
    BY <1>1 DEF AreInstructions, IsInstruction, ops
<1>6. \A k \in 0 .. l : h[k].cur <= k
  <2>. DEFINE S == {k \in 0 .. l : h[k].cur <= k}
  <2>1. 0 \in S
      BY <1>1, <1>4
  <2>2. \A k \in 0 .. l - 1 : k \in S => k + 1 \in S
    <3>. SUFFICES ASSUME NEW k \in 0 .. l - 1, h[k].cur <= k
                  PROVE  k + 1 \in 0 .. l /\ h[k + 1].cur <= k + 1
        BY Zenon
    <3>. DEFINE q == k + 1
                p == Pushes(ops[q])
    <3>1. q \in 1 .. l /\ q - 1 = k /\ q \in 0 .. l /\ k \in 0 .. l
        BY <1>1
    <3>2. h[q].cur <= h[k].cur + p /\ p \in Nat /\ p <= 1 /\ h[q].cur \in Nat /\ h[k].cur \in Nat
        BY <1>4, <1>5, <3>1 DEF Level
    <3>. HIDE DEF p, h
    <3>3. h[q].cur <= q
        BY <1>1, <3>2
    <3>. QED  BY <3>1, <3>3
  <2>. HIDE DEF S, l
  <2>3. \A k \in 0 .. l : k \in S
      BY <1>1, <2>1, <2>2, UpTo, Zenon
  <2>. QED  BY <2>3 DEF S
<1>7. \A k \in 1 .. l : Height(ops, start, k) <= b
  <2>. TAKE k \in 1 .. l
  <2>1. Height(ops, start, k) = start - h[k].init + h[k].cur
      BY DEF Height
  <2>2. k \in 0 .. l /\ l \in 0 .. l
      BY <1>1
  <2>3. h[k] \in Level /\ h[k].cur <= k
      BY <1>4, <1>6, <2>2
  <2>4. StackSlack \in Nat /\ l <= StackSlack + 1
      BY MachineAssumption DEF ops
  <2>5. h[k].cur \in Nat /\ h[k].init \in Nat /\ h[l].cur \in Nat /\ h[l].init \in Nat /\ h[l].max \in Nat
      BY <1>3, <2>3 DEF Level
  <2>6. CASE k = l
    <3>1. h[l].cur <= h[l].max
        BY <1>1, <1>4
    <3>2. Height(ops, start, k) = h[l].cur
      <4>. HIDE DEF h, start, l
      <4>. QED  BY <1>2, <2>1, <2>5, <2>6
    <3>. HIDE DEF h, start, l
    <3>. QED  BY <1>2, <1>3, <2>4, <2>5, <3>1, <3>2
  <2>7. CASE k # l
    <3>. DEFINE u == h[k].cur
                i == h[k].init
                e == Height(ops, start, k)
    <3>1. start \in Nat /\ x \in Nat /\ start <= x /\ b \in Nat /\ x + StackSlack <= b
        BY <1>2, <1>3
    <3>2. u \in Nat /\ i \in Nat /\ e = start - i + u /\ u <= k /\ k <= StackSlack
      <4>1. k \in 1 .. l /\ l \in Nat
          BY <1>1
      <4>2. k <= StackSlack
        <5>. HIDE DEF l
        <5>. QED  BY <2>4, <2>7, <4>1
      <4>. QED  BY <2>1, <2>3, <2>5, <4>2
    <3>3. k \in Nat /\ StackSlack \in Nat
        BY <1>1, <2>4
    <3>. HIDE DEF u, i, e, start
    <3>4. e <= b
        BY <3>1, <3>2, <3>3
    <3>. QED  BY <3>4 DEF e
  <2>. QED  BY <2>6, <2>7
<1>8. \A k \in 0 .. l : Execution(m, ops, b)[k].ok
  <2>1. b \in Int /\ Heights(ops)[Len(ops)].init <= Len(m.stack)
      BY <1>2
  <2>2. \A k \in 1 .. Len(ops) : Pushes(ops[k]) > 0 => Height(ops, Len(m.stack), k) <= b
      BY <1>7
  <2>. QED  BY <1>1, <1>2, <2>1, <2>2, ExecutionGoesOn
<1>9. l \in 0 .. l
    BY <1>1
<1>. QED  BY <1>8, <1>9 DEF Runs, ops, m, b

-----------------------------------------------------------------------------
(* What the machine noted of the opaque instructions. *)

\* A note for each of the first d, none of another, with as many values as it takes.
Noted(meta, ops, d) ==
    /\ IsSequence(meta)
    /\ \A i \in 1 .. Len(meta) :
          \E k \in 1 .. d : /\ IsOpaque(ops[k]) /\ meta[i].id = Id(ops[k])
                            /\ AreValues(meta[i].in) /\ Len(meta[i].in) = Pops(ops[k])
    /\ \A k \in 1 .. d : IsOpaque(ops[k]) => \E i \in 1 .. Len(meta) : meta[i].id = Id(ops[k])

\* One opaque instruction more, one note more.
LEMMA MoreNotes ==
    ASSUME NEW ops, NEW k \in Nat, NEW meta, Noted(meta, ops, k),
           IsOpaque(ops[k + 1]), NEW note, note.id = Id(ops[k + 1]), AreValues(note.in),
           Len(note.in) = Pops(ops[k + 1])
    PROVE  Noted(Append(meta, note), ops, k + 1)
<1>. DEFINE u == Append(meta, note)
            l == Len(meta)
            q == k + 1
<1>1. IsSequence(meta) /\ l \in Nat
    BY SequenceParts DEF Noted
<1>2. IsAppended(u, meta, note)
    BY <1>1, Appended
<1>. HIDE DEF u
<1>3. /\ IsSequence(u) /\ Len(u) = l + 1 /\ u[l + 1] = note
      /\ \A i \in 1 .. l : u[i] = meta[i]
    BY <1>2 DEF IsAppended
<1>. DEFINE Of(e, j) == /\ IsOpaque(ops[j]) /\ e.id = Id(ops[j])
                        /\ AreValues(e.in) /\ Len(e.in) = Pops(ops[j])
<1>4. \A i \in 1 .. l : \E j \in 1 .. k : Of(meta[i], j)
    BY DEF Noted
<1>5. Of(note, q)
    OBVIOUS
<1>6. \A j \in 1 .. k : IsOpaque(ops[j]) => \E i \in 1 .. l : meta[i].id = Id(ops[j])
    BY DEF Noted
<1>7. note.id = Id(ops[q])
    OBVIOUS
<1>. HIDE DEF Of, l
<1>8. \A i \in 1 .. Len(u) : \E j \in 1 .. q : Of(u[i], j)
  <2>. TAKE i \in 1 .. Len(u)
  <2>1. CASE i \in 1 .. l
    <3>1. u[i] = meta[i] /\ \E j \in 1 .. k : Of(meta[i], j)
        BY <1>3, <1>4, <2>1
    <3>2. \A j \in 1 .. k : j \in 1 .. q
        OBVIOUS
    <3>. HIDE DEF q
    <3>. QED  BY <3>1, <3>2
  <2>2. CASE i \notin 1 .. l
    <3>1. i = l + 1 /\ q \in 1 .. q
        BY <1>1, <1>3, <2>2
    <3>. HIDE DEF q
    <3>. QED  BY <1>3, <1>5, <3>1
  <2>. QED  BY <2>1, <2>2
<1>9. \A j \in 1 .. q : IsOpaque(ops[j]) => \E i \in 1 .. Len(u) : u[i].id = Id(ops[j])
  <2>. SUFFICES ASSUME NEW j \in 1 .. q, IsOpaque(ops[j])
                PROVE  \E i \in 1 .. Len(u) : u[i].id = Id(ops[j])
      OBVIOUS
  <2>1. CASE j \in 1 .. k
    <3>1. PICK i \in 1 .. l : meta[i].id = Id(ops[j])
        BY <1>6, <2>1
    <3>2. i \in 1 .. Len(u) /\ u[i] = meta[i]
        BY <1>1, <1>3
    <3>. QED  BY <3>1, <3>2
  <2>2. CASE j \notin 1 .. k
    <3>1. j = q /\ l + 1 \in 1 .. Len(u)
        BY <1>1, <1>3, <2>2
    <3>. HIDE DEF q
    <3>. QED  BY <1>3, <1>7, <3>1
  <2>. QED  BY <2>1, <2>2
<1>. QED
  <2>1. \A i \in 1 .. Len(u) :
           \E j \in 1 .. q : /\ IsOpaque(ops[j]) /\ u[i].id = Id(ops[j])
                             /\ AreValues(u[i].in) /\ Len(u[i].in) = Pops(ops[j])
      BY <1>8 DEF Of
  <2>2. Noted(u, ops, q)
    <3>. HIDE DEF q
    <3>. QED  BY <1>3, <1>9, <2>1 DEF Noted
  <2>. QED  BY <2>2 DEF u, q

\* Any other instruction leaves them.
LEMMA SameNotes ==
    ASSUME NEW ops, NEW k \in Nat, NEW meta, Noted(meta, ops, k), ~IsOpaque(ops[k + 1])
    PROVE  Noted(meta, ops, k + 1)
<1>. DEFINE q == k + 1
            Of(e, j) == /\ IsOpaque(ops[j]) /\ e.id = Id(ops[j])
                        /\ AreValues(e.in) /\ Len(e.in) = Pops(ops[j])
<1>1. /\ IsSequence(meta) /\ \A i \in 1 .. Len(meta) : \E j \in 1 .. k : Of(meta[i], j)
      /\ \A j \in 1 .. k : IsOpaque(ops[j]) => \E i \in 1 .. Len(meta) : meta[i].id = Id(ops[j])
    BY DEF Noted
<1>2. \A j \in 1 .. k : j \in 1 .. q
    OBVIOUS
<1>3. \A j \in 1 .. q : j \in 1 .. k \/ j = q
    OBVIOUS
<1>4. ~IsOpaque(ops[q])
    OBVIOUS
<1>. HIDE DEF q, Of
<1>5. \A i \in 1 .. Len(meta) : \E j \in 1 .. q : Of(meta[i], j)
    BY <1>1, <1>2
<1>6. \A j \in 1 .. q : IsOpaque(ops[j]) => \E i \in 1 .. Len(meta) : meta[i].id = Id(ops[j])
    BY <1>1, <1>3, <1>4
<1>7. Noted(meta, ops, q)
    BY <1>1, <1>5, <1>6, Zenon DEF Noted, Of
<1>. QED  BY <1>7 DEF q

\* As long as an execution does not fail it notes every opaque instruction.
LEMMA ExecutionNotes ==
    ASSUME NEW m, IsMachine(m), m.meta = <<>>, NEW ops, AreInstructions(ops), NEW max \in Int,
           NEW d \in 0 .. Len(ops), \A k \in 0 .. d : Execution(m, ops, max)[k].ok
    PROVE  Noted(Execution(m, ops, max)[d].meta, ops, d)
<1>. DEFINE l == Len(ops)
            at == Execution(m, ops, max)
            Good(k) == Noted(at[k].meta, ops, k)
            S == {k \in 0 .. d : Good(k)}
<1>1. IsSequence(ops) /\ l \in Nat /\ d \in Nat /\ d <= l
    BY SequenceParts DEF AreInstructions
<1>2. /\ at[0] = m /\ \A k \in 1 .. l : at[k] = Exec(at[k - 1], ops[k], max)
      /\ \A k \in 0 .. l : IsMachine(at[k])
      /\ \A k \in 1 .. l : at[k].ok <=> ~Stops(at[k - 1], ops[k], max)
    BY <1>1, ExecutionSteps, ExecutionOfMachines
<1>3. 0 \in S
  <2>1. at[0].meta = <<>>
      BY <1>2
  <2>2. Noted(<<>>, ops, 0)
      BY EmptyIsSequence DEF Noted
  <2>3. Good(0) /\ 0 \in 0 .. d
      BY <1>1, <2>1, <2>2
  <2>. HIDE DEF Good
  <2>. QED  BY <2>3
<1>4. \A k \in 0 .. d - 1 : k \in S => k + 1 \in S
  <2>. SUFFICES ASSUME NEW k \in 0 .. d - 1, Good(k)
                PROVE  k + 1 \in 0 .. d /\ Good(k + 1)
      BY Zenon
  <2>. DEFINE q == k + 1
              n == at[k]
              op == ops[q]
  <2>1. q \in 1 .. l /\ q \in 0 .. d /\ q - 1 = k /\ k \in 0 .. l /\ k \in Nat
      BY <1>1
  <2>2. IsMachine(n) /\ at[q] = Exec(n, op, max) /\ ~Stops(n, op, max) /\ IsInstruction(op)
      BY <1>2, <2>1 DEF AreInstructions
  <2>3. Noted(n.meta, ops, k)
      OBVIOUS
  <2>4. IsOpaque(op) = IsOpaque(ops[k + 1])
      OBVIOUS
  <2>. DEFINE meta == n.meta
              e == Exec(n, op, max)
  <2>5. /\ ~IsOpaque(op) => e.meta = meta
        /\ IsOpaque(op) => \E note : /\ e.meta = Append(meta, note)
                                     /\ note.id = Id(op) /\ AreValues(note.in)
                                     /\ Len(note.in) = Pops(op)
    <3>. HIDE DEF n, op
    <3>. QED  BY <2>2, ExecGoes
  <2>6. Noted(e.meta, ops, k + 1)
    <3>. HIDE DEF meta, e
    <3>1. CASE ~IsOpaque(op)
      <4>1. e.meta = meta /\ Noted(meta, ops, k) /\ ~IsOpaque(ops[k + 1])
          BY <2>3, <2>5, <3>1 DEF meta
      <4>2. Noted(meta, ops, k + 1)
          BY <2>1, <4>1, SameNotes
      <4>. QED  BY <4>1, <4>2
    <3>2. CASE IsOpaque(op)
      <4>1. PICK note : /\ e.meta = Append(meta, note)
                        /\ note.id = Id(op) /\ AreValues(note.in) /\ Len(note.in) = Pops(op)
          BY <2>5, <3>2, Zenon
      <4>2. /\ Noted(meta, ops, k) /\ IsOpaque(ops[k + 1]) /\ note.id = Id(ops[k + 1])
            /\ AreValues(note.in) /\ Len(note.in) = Pops(ops[k + 1])
          BY <2>3, <3>2, <4>1 DEF meta
      <4>3. Noted(Append(meta, note), ops, k + 1)
          BY <2>1, <4>2, MoreNotes
      <4>. QED  BY <4>1, <4>3
    <3>. QED  BY <3>1, <3>2
  <2>7. Good(q)
    <3>1. at[q] = e
        BY <2>2
    <3>. QED  BY <2>6, <3>1
  <2>. QED  BY <2>1, <2>7
<1>5. \A k \in 0 .. d : k \in S
  <2>. HIDE DEF S
  <2>. QED  BY <1>1, <1>3, <1>4, UpTo, Zenon
<1>6. d \in 0 .. d
    BY <1>1
<1>. QED  BY <1>5, <1>6

\* What an opaque instruction consumed is what InputsOf finds, as no other has its id.
LEMMA InputsNoted ==
    ASSUME NEW ops, NEW d \in Nat, NEW meta, Noted(meta, ops, d),
           \A j, k \in 1 .. d : j < k /\ IsOpaque(ops[j]) /\ IsOpaque(ops[k]) => Id(ops[j]) # Id(ops[k]),
           NEW k \in 1 .. d, IsOpaque(ops[k])
    PROVE  AreValues(InputsOf(meta, Id(ops[k]))) /\ Len(InputsOf(meta, Id(ops[k]))) = Pops(ops[k])
<1>. DEFINE x == Id(ops[k])
            m == CHOOSE m \in ToSet(meta) : m.id = x
<1>1. InputsOf(meta, x) = m.in
    BY DEF InputsOf
<1>2. IsSequence(meta) /\ DOMAIN meta = 1 .. Len(meta)
    BY SequenceParts DEF Noted
<1>3. \E e \in ToSet(meta) : e.id = x
  <2>1. PICK i \in 1 .. Len(meta) : meta[i].id = x
      BY DEF Noted
  <2>2. meta[i] \in ToSet(meta)
      BY <1>2 DEF ToSet
  <2>. QED  BY <2>1, <2>2
<1>4. m \in ToSet(meta) /\ m.id = x
    BY <1>3, Zenon
<1>. HIDE DEF m
<1>5. PICK i \in 1 .. Len(meta) : m = meta[i]
    BY <1>2, <1>4 DEF ToSet
<1>6. PICK j \in 1 .. d : IsOpaque(ops[j]) /\ m.id = Id(ops[j]) /\ AreValues(m.in) /\ Len(m.in) = Pops(ops[j])
    BY <1>5 DEF Noted
<1>7. j = k
  <2>1. Id(ops[j]) = Id(ops[k])
      BY <1>4, <1>6
  <2>2. ~(j < k) /\ ~(k < j)
      BY <1>6, <2>1
  <2>. QED  BY <2>2
<1>. QED  BY <1>1, <1>6, <1>7

-----------------------------------------------------------------------------
(* The order of the instructions. *)

\* Instructions of the given kinds are a pair, the earlier one first.
LEMMA PairOrdered ==
    ASSUME NEW ops, NEW i \in DOMAIN ops, NEW j \in DOMAIN ops, i < j,
           NEW kinds, ops[i][1] \in kinds, ops[j][1] \in kinds
    PROVE  <<ops[i], ops[j]>> \in OrderedPairs(ops, kinds)
<1>. DEFINE A == Accesses(ops, kinds)
            q == <<i, j>>
<1>1. q \in A \X A /\ q[1] < q[2]
    BY DEF Accesses
<1>2. <<ops[i], ops[j]>> = <<ops[q[1]], ops[q[2]]>>
    OBVIOUS
<1>. HIDE DEF q, A
<1>3. q \in {r \in A \X A : r[1] < r[2]}
    BY <1>1, Zenon
<1>. QED  BY <1>2, <1>3, Zenon DEF OrderedPairs, A

\* A pair that depends on its order is listed.
LEMMA PairListed ==
    ASSUME NEW ops, NEW meta, NEW i \in DOMAIN ops, NEW j \in DOMAIN ops, i < j,
           \/ /\ ops[i][1] \in {"load", "store", "call"} /\ ops[j][1] \in {"load", "store", "call"}
              /\ AreDependentMem(ops[i], ops[j], meta)
           \/ /\ ops[i][1] \in {"gget", "gset", "call"} /\ ops[j][1] \in {"gget", "gset", "call"}
              /\ AreDependentVar(ops[i], ops[j])
    PROVE  <<Id(ops[i]), Id(ops[j])>> \in AllPairs(ops, meta)
<1>. DEFINE mem == {p \in OrderedPairs(ops, {"load", "store", "call"}) : AreDependentMem(p[1], p[2], meta)}
            var == {p \in OrderedPairs(ops, {"gget", "gset", "call"}) : AreDependentVar(p[1], p[2])}
            p == <<ops[i], ops[j]>>
<1>1. p[1] = ops[i] /\ p[2] = ops[j]
    OBVIOUS
<1>2. p \in mem \union var
  <2>. DEFINE M == OrderedPairs(ops, {"load", "store", "call"})
              V == OrderedPairs(ops, {"gget", "gset", "call"})
  <2>1. CASE /\ ops[i][1] \in {"load", "store", "call"} /\ ops[j][1] \in {"load", "store", "call"}
             /\ AreDependentMem(ops[i], ops[j], meta)
    <3>1. p \in M /\ AreDependentMem(p[1], p[2], meta)
        BY <1>1, <2>1, PairOrdered
    <3>. HIDE DEF p, M
    <3>2. p \in {r \in M : AreDependentMem(r[1], r[2], meta)}
        BY <3>1, Zenon
    <3>. QED  BY <3>2, Zenon DEF M
  <2>2. CASE /\ ops[i][1] \in {"gget", "gset", "call"} /\ ops[j][1] \in {"gget", "gset", "call"}
             /\ AreDependentVar(ops[i], ops[j])
    <3>1. p \in V /\ AreDependentVar(p[1], p[2])
        BY <1>1, <2>2, PairOrdered
    <3>. HIDE DEF p, V
    <3>2. p \in {r \in V : AreDependentVar(r[1], r[2])}
        BY <3>1, Zenon
    <3>. QED  BY <3>2, Zenon DEF V
  <2>. QED  BY <2>1, <2>2
<1>3. Conflicts(ops, meta) = {<<Id(r[1]), Id(r[2])>> : r \in mem \union var}
    BY Zenon DEF Conflicts
<1>. HIDE DEF mem, var, p
<1>4. <<Id(p[1]), Id(p[2])>> \in Conflicts(ops, meta)
    BY <1>2, <1>3, Zenon
<1>. QED  BY <1>1, <1>4 DEF AllPairs

Touching == {"load", "store", "load8", "store8", "load64", "store64", "gget", "gset", "call"}

\* What an instruction keeps of an operator that touches memory or a global.
Translates(op, x) ==
    /\ IsOpaque(op) /\ x[2] \in Nat
    /\ x[1] \in {"load64", "store64"} => op[1] = "opaque"
    /\ x[1] \in {"load", "load8"} => op[1] = "load" /\ op[3] = x[2]
    /\ x[1] \in {"store", "store8"} => op[1] = "store" /\ op[3] = x[2]
    /\ x[1] \in {"gget", "gset"} => op[1] = x[1] /\ op[3] = x[2]
    /\ x[1] = "call" => op[1] = "call"

\* An operator that touches memory or a global is translated so.
LEMMA SemTranslates ==
    ASSUME NEW x \in Operators(NumLocals), Supported(x), NEW id, x[1] \in Touching
    PROVE  Translates(Sem(x, id), x)
<1>. DEFINE op == Sem(x, id)
<1>1. x[2] \in Nat
    BY OperatorParts DEF Touching
<1>2. /\ x[1] \in {"load", "load8"} => op = <<"load", id, x[2]>>
      /\ x[1] \in {"store", "store8"} => op = <<"store", id, x[2]>>
      /\ x[1] \in {"gget", "gset"} => op = <<x[1], id, x[2]>>
      /\ x[1] = "call" => op = <<"call", id, FuncTypes[x[2]].params, FuncTypes[x[2]].results>>
      /\ x[1] \in DOMAIN Opaques => op = <<"opaque", id>> \o Opaques[x[1]]
    BY SemByKind
<1>3. x[1] \in {"load64", "store64"} => op[1] = "opaque"
  <2>1. DOMAIN Opaques = {"load64", "store64", "size", "grow"}
      BY DEF Opaques
  <2>2. \A k \in DOMAIN Opaques : (<<"opaque", id>> \o Opaques[k])[1] = "opaque"
      BY OpaqueFields
  <2>. HIDE DEF op
  <2>. QED  BY <1>2, <2>1, <2>2, Zenon
<1>. HIDE DEF op
<1>4. /\ x[1] \in {"load", "load8"} => op[1] = "load" /\ op[3] = x[2]
      /\ x[1] \in {"store", "store8"} => op[1] = "store" /\ op[3] = x[2]
      /\ x[1] \in {"gget", "gset"} => op[1] = x[1] /\ op[3] = x[2]
      /\ x[1] = "call" => op[1] = "call"
    BY <1>2
<1>5. IsOpaque(op)
    BY <1>3, <1>4 DEF IsOpaque, OpaqueKinds, Touching
<1>. QED  BY <1>1, <1>3, <1>4, <1>5 DEF Translates, op

\* The signed reading of an address is the address, or a word less.
LEMMA SignedIs ==
    ASSUME NEW v \in Nat
    PROVE  WordSize \in Nat \ {0} /\ Signed(v) \in {v, v - WordSize}
<1>1. WordSize \in Nat \ {0}
    BY PowerPositive, MachineAssumption DEF WordSize
<1>. QED  BY <1>1 DEF Signed

\* Two constants that are both read as they are, or both not.
SameSign(a, b) == (Signed(a[2]) = a[2]) <=> (Signed(b[2]) = b[2])

\* Of two instructions that disturb each other the order is kept, but for the gaps.
LEMMA OrderOfTwo ==
    ASSUME NEW ops, NEW meta, NEW i \in DOMAIN ops, NEW j \in DOMAIN ops, i < j,
           NEW x, Translates(ops[i], x), x[1] \in Touching,
           NEW y, Translates(ops[j], y), y[1] \in Touching,
           {x[1], y[1]} \cap Writes # {},
           NEW a, a = AddrSymbol(ops[i], meta), x[1] \in DOMAIN Bytes => ops[i][1] = "opaque" \/ IsValue(a),
           NEW b, b = AddrSymbol(ops[j], meta), y[1] \in DOMAIN Bytes => ops[j][1] = "opaque" \/ IsValue(b),
           \/ "call" \in {x[1], y[1]}
           \/ {x[1], y[1]} \subseteq {"gget", "gset"} /\ x[2] = y[2]
           \/ /\ {x[1], y[1]} \subseteq DOMAIN Bytes
              /\ "opaque" \notin {ops[i][1], ops[j][1]} /\ IsConst(a) /\ IsConst(b) =>
                    /\ a[2] + x[2] < b[2] + y[2] + Bytes[y[1]]
                    /\ b[2] + y[2] < a[2] + x[2] + Bytes[x[1]]
    PROVE  \/ <<Id(ops[i]), Id(ops[j])>> \in AllPairs(ops, meta)
           \/ "opaque" \in {ops[i][1], ops[j][1]}
           \/ /\ {ops[i][1], ops[j][1]} \subseteq {"load", "store"}
              /\ \/ ~IsConst(a) /\ ~IsConst(b) /\ a # b
                 \/ IsConst(a) /\ IsConst(b) /\ ~SameSign(a, b)
<1>. DEFINE p == ops[i]
            q == ops[j]
            Mem == {"load", "store", "call"}
            Var == {"gget", "gset", "call"}
<1>. SUFFICES ASSUME p[1] # "opaque", q[1] # "opaque",
                     <<Id(p), Id(q)>> \notin AllPairs(ops, meta),
                     ~(IsConst(a) /\ IsConst(b) /\ ~SameSign(a, b) /\ {p[1], q[1]} \subseteq {"load", "store"})
              PROVE  /\ {p[1], q[1]} \subseteq {"load", "store"}
                     /\ ~IsConst(a) /\ ~IsConst(b) /\ a # b
    OBVIOUS
<1>1. ~(p[1] \in Mem /\ q[1] \in Mem /\ AreDependentMem(p, q, meta))
    BY PairListed
<1>2. ~(p[1] \in Var /\ q[1] \in Var /\ AreDependentVar(p, q))
    BY PairListed
<1>3. /\ x[1] \in Touching \ {"load64", "store64"} /\ y[1] \in Touching \ {"load64", "store64"}
      /\ x[2] \in Nat /\ y[2] \in Nat
  <2>. HIDE DEF p, q
  <2>1. p[1] # "opaque" /\ q[1] # "opaque" /\ Translates(p, x) /\ Translates(q, y)
      BY DEF p, q
  <2>. QED  BY <2>1 DEF Translates, Touching
<1>4. /\ x[1] \in {"load", "load8"} => p[1] = "load" /\ p[3] = x[2]
      /\ x[1] \in {"store", "store8"} => p[1] = "store" /\ p[3] = x[2]
      /\ x[1] \in {"gget", "gset"} => p[1] = x[1] /\ p[3] = x[2]
      /\ x[1] = "call" => p[1] = "call"
    BY DEF Translates
<1>5. /\ y[1] \in {"load", "load8"} => q[1] = "load" /\ q[3] = y[2]
      /\ y[1] \in {"store", "store8"} => q[1] = "store" /\ q[3] = y[2]
      /\ y[1] \in {"gget", "gset"} => q[1] = y[1] /\ q[3] = y[2]
      /\ y[1] = "call" => q[1] = "call"
    BY DEF Translates
<1>6. DOMAIN Bytes = {"load", "store", "load8", "store8", "load64", "store64"}
    BY DEF Bytes
<1>. HIDE DEF p, q
<1>7. "call" \notin {x[1], y[1]}
  <2>. SUFFICES ASSUME "call" \in {x[1], y[1]} PROVE FALSE
      OBVIOUS
  <2>1. p[1] = "call" \/ q[1] = "call"
      BY <1>4, <1>5
  <2>2. AreDependentMem(p, q, meta)
      BY <2>1 DEF AreDependentMem
  <2>3. ~(p[1] = "call" /\ q[1] = "call") => AreDependentVar(p, q)
      BY <2>1 DEF AreDependentVar
  <2>4. p[1] \in {"load", "store", "gget", "gset", "call"} /\ q[1] \in {"load", "store", "gget", "gset", "call"}
      BY <1>3, <1>4, <1>5 DEF Touching
  <2>. QED  BY <1>1, <1>2, <2>1, <2>2, <2>3, <2>4
<1>8. ~({x[1], y[1]} \subseteq {"gget", "gset"} /\ x[2] = y[2])
  <2>. SUFFICES ASSUME {x[1], y[1]} \subseteq {"gget", "gset"}, x[2] = y[2] PROVE FALSE
      OBVIOUS
  <2>1. p[1] = x[1] /\ q[1] = y[1] /\ p[3] = q[3] /\ p[1] \in {"gget", "gset"} /\ q[1] \in {"gget", "gset"}
      BY <1>4, <1>5
  <2>2. p[1] = "gset" \/ q[1] = "gset"
      BY <2>1 DEF Writes
  <2>3. AreDependentVar(p, q)
      BY <2>1, <2>2 DEF AreDependentVar
  <2>. QED  BY <1>2, <2>1, <2>3
<1>9. /\ {x[1], y[1]} \subseteq {"load", "store", "load8", "store8"}
      /\ IsConst(a) /\ IsConst(b) =>
            /\ a[2] + x[2] < b[2] + y[2] + Bytes[y[1]]
            /\ b[2] + y[2] < a[2] + x[2] + Bytes[x[1]]
    BY <1>3, <1>6, <1>7, <1>8 DEF p, q
<1>10. p[1] \in {"load", "store"} /\ q[1] \in {"load", "store"} /\ p[3] = x[2] /\ q[3] = y[2]
    BY <1>4, <1>5, <1>9
<1>11. p[1] # "load" \/ q[1] # "load"
    BY <1>4, <1>5, <1>9 DEF Writes
<1>12. AreDependentMem(p, q, meta) <=>
          CASE IsConst(a) /\ IsConst(b)   -> Overlap(Signed(a[2]) + x[2], Signed(b[2]) + y[2])
            [] ~IsConst(a) /\ ~IsConst(b) -> a = b
            [] OTHER                      -> TRUE
  <2>1. a = AddrSymbol(p, meta) /\ b = AddrSymbol(q, meta)
      BY DEF p, q
  <2>2. p[1] # "call" /\ q[1] # "call"
      BY <1>10
  <2>3. AreDependentMem(p, q, meta) <=>
          CASE IsConst(a) /\ IsConst(b)   -> Overlap(EffectiveAddr(a, p), EffectiveAddr(b, q))
            [] ~IsConst(a) /\ ~IsConst(b) -> a = b
            [] OTHER                      -> TRUE
      BY <1>11, <2>1, <2>2, Zenon DEF AreDependentMem
  <2>4. EffectiveAddr(a, p) = Signed(a[2]) + x[2] /\ EffectiveAddr(b, q) = Signed(b[2]) + y[2]
      BY <1>10 DEF EffectiveAddr
  <2>. QED  BY <2>3, <2>4, Zenon
<1>13. ~AreDependentMem(p, q, meta)
    BY <1>1, <1>10
<1>14. IsValue(a) /\ IsValue(b)
  <2>1. x[1] \in DOMAIN Bytes /\ y[1] \in DOMAIN Bytes
      BY <1>6, <1>9
  <2>. QED  BY <2>1 DEF p, q
<1>15. IsConst(a) /\ IsConst(b) => Overlap(Signed(a[2]) + x[2], Signed(b[2]) + y[2])
  <2>. SUFFICES ASSUME IsConst(a), IsConst(b)
                PROVE  Overlap(Signed(a[2]) + x[2], Signed(b[2]) + y[2])
      OBVIOUS
  <2>1. Width \in Nat \ {0}
      BY DepsAssumption
  <2>2. Bytes[x[1]] \in 0 .. Width /\ Bytes[y[1]] \in 0 .. Width
      BY <1>9, <2>1 DEF Bytes
  <2>3. a[2] \in Nat /\ b[2] \in Nat
      BY <1>14 DEF IsValue
  <2>4. a[2] + x[2] < b[2] + y[2] + Bytes[y[1]] /\ b[2] + y[2] < a[2] + x[2] + Bytes[x[1]]
      BY <1>9
  <2>5. /\ WordSize \in Nat \ {0}
        /\ Signed(a[2]) \in {a[2], a[2] - WordSize} /\ Signed(b[2]) \in {b[2], b[2] - WordSize}
      BY <2>3, SignedIs
  <2>6. SameSign(a, b)
      BY <1>10
  <2>. DEFINE f == a[2]
              g == b[2]
              u == Signed(a[2])
              v == Signed(b[2])
              bx == Bytes[x[1]]
              by == Bytes[y[1]]
  <2>7. /\ f \in Nat /\ g \in Nat /\ u \in {f, f - WordSize} /\ v \in {g, g - WordSize}
        /\ u = f <=> v = g
        /\ bx \in 0 .. Width /\ by \in 0 .. Width
        /\ f + x[2] < g + y[2] + by /\ g + y[2] < f + x[2] + bx
    <3>1. u = f <=> v = g
        BY <2>6, Zenon DEF SameSign
    <3>. QED  BY <2>2, <2>3, <2>4, <2>5, <3>1
  <2>. HIDE DEF f, g, u, v, bx, by
  <2>8. u - f = v - g /\ u \in Int /\ v \in Int
      BY <2>5, <2>7
  <2>9. u + x[2] < v + y[2] + by /\ v + y[2] < u + x[2] + bx
      BY <1>3, <2>7, <2>8
  <2>10. Overlap(u + x[2], v + y[2])
    <3>. DEFINE lo == u + x[2]
                hi == v + y[2]
    <3>1. lo \in Int /\ hi \in Int /\ lo < hi + by /\ hi < lo + bx
        BY <1>3, <2>8, <2>9
    <3>. HIDE DEF lo, hi
    <3>2. Overlap(lo, hi)
        BY <2>1, <2>7, <3>1 DEF Overlap
    <3>. QED  BY <3>2 DEF lo, hi
  <2>. QED  BY <2>10 DEF u, v
<1>16. ~(IsConst(a) /\ IsConst(b))
  <2>. SUFFICES ASSUME IsConst(a), IsConst(b) PROVE FALSE
      OBVIOUS
  <2>1. AreDependentMem(p, q, meta) <=> Overlap(Signed(a[2]) + x[2], Signed(b[2]) + y[2])
      BY <1>12, Zenon
  <2>. QED  BY <1>13, <1>15, <2>1
<1>17. ~IsConst(a) /\ ~IsConst(b)
  <2>. SUFFICES ASSUME IsConst(a) \/ IsConst(b) PROVE FALSE
      OBVIOUS
  <2>1. AreDependentMem(p, q, meta) <=> TRUE
      BY <1>12, <1>16, Zenon
  <2>. QED  BY <1>13, <2>1
<1>18. a # b
  <2>1. AreDependentMem(p, q, meta) <=> a = b
      BY <1>12, <1>17, Zenon
  <2>. QED  BY <1>13, <2>1
<1>. QED  BY <1>10, <1>17, <1>18

\* A chunk has a position for every instruction, and gives no id twice.
LEMMA ChunkParts ==
    ASSUME NEW code, NEW c, IsChunk(code, c)
    PROVE  /\ Len(c.ops) = Len(c.ix)
           /\ \A p, q \in 1 .. Len(c.ix) :
                 p < q /\ IsOpaque(c.ops[p]) /\ IsOpaque(c.ops[q]) => Id(c.ops[p]) # Id(c.ops[q])
BY DEF IsChunk

\* Notes of the same instructions.
LEMMA NotedAlike ==
    ASSUME NEW meta, NEW ops, NEW d, Noted(meta, ops, d), NEW u, \A k \in 1 .. d : u[k] = ops[k]
    PROVE  Noted(meta, u, d)
<1>1. /\ IsSequence(meta)
      /\ \A n \in 1 .. Len(meta) :
            \E k \in 1 .. d : /\ IsOpaque(ops[k]) /\ meta[n].id = Id(ops[k])
                              /\ AreValues(meta[n].in) /\ Len(meta[n].in) = Pops(ops[k])
      /\ \A k \in 1 .. d : IsOpaque(ops[k]) => \E n \in 1 .. Len(meta) : meta[n].id = Id(ops[k])
    BY DEF Noted
<1>2. \A n \in 1 .. Len(meta) :
         \E k \in 1 .. d : /\ IsOpaque(u[k]) /\ meta[n].id = Id(u[k])
                           /\ AreValues(meta[n].in) /\ Len(meta[n].in) = Pops(u[k])
  <2>. TAKE n \in 1 .. Len(meta)
  <2>1. PICK k \in 1 .. d : /\ IsOpaque(ops[k]) /\ meta[n].id = Id(ops[k])
                            /\ AreValues(meta[n].in) /\ Len(meta[n].in) = Pops(ops[k])
      BY <1>1
  <2>2. u[k] = ops[k]
      OBVIOUS
  <2>. QED  BY <2>1, <2>2
<1>3. \A k \in 1 .. d : IsOpaque(u[k]) => \E n \in 1 .. Len(meta) : meta[n].id = Id(u[k])
    BY <1>1
<1>. QED  BY <1>1, <1>2, <1>3 DEF Noted

\* Of the instructions of a segment too.
LEMMA OrderOfSegment ==
    ASSUME IsBody(body), NEW s, IsChunk(body, raw[s.of]), NEW d \in 1 .. Len(raw[s.of].ops),
           Runs(raw[s.of])[d].ok, IsSegment(s, raw[s.of], d),
           NEW i \in DOMAIN s.ops, NEW j \in DOMAIN s.ops, i < j, Disturbs(s, i, j)
    PROVE  \/ <<Id(s.ops[i]), Id(s.ops[j])>> \in AllPairs(s.ops, s.meta)
           \/ "opaque" \in {s.ops[i][1], s.ops[j][1]}
           \/ /\ {s.ops[i][1], s.ops[j][1]} \subseteq {"load", "store"}
              /\ \/ /\ ~IsConst(Address(s, i)) /\ ~IsConst(Address(s, j))
                    /\ Address(s, i) # Address(s, j)
                 \/ SignsDiffer(s, i, j)
<1>. DEFINE c == raw[s.of]
            ops == c.ops
            u == s.ops
            meta == s.meta
            x == body[c.ix[i]]
            y == body[c.ix[j]]
            a == AddrSymbol(u[i], meta)
            b == AddrSymbol(u[j], meta)
<1>0. /\ IsChunk(body, c) /\ d \in 1 .. Len(c.ops) /\ Runs(c)[d].ok /\ IsSegment(s, c, d)
      /\ i \in DOMAIN u /\ j \in DOMAIN u
    OBVIOUS
<1>9. Operator(s, i) = x /\ Operator(s, j) = y
    BY DEF Operator
<1>. HIDE DEF c
<1>1. /\ AreInstructions(ops) /\ IsSequence(ops) /\ Len(ops) \in Nat \ {0} /\ Len(ops) = Len(c.ix)
      /\ d \in 0 .. Len(ops) /\ d \in Nat
  <2>. DEFINE l == Len(ops)
  <2>1. AreInstructions(ops) /\ IsSequence(ops) /\ l \in Nat \ {0} /\ l = Len(c.ix)
    <3>1. AreInstructions(c.ops) /\ Len(c.ops) \in Nat \ {0}
        BY <1>0, ChunkInstructions
    <3>2. Len(c.ops) = Len(c.ix)
        BY <1>0, ChunkParts
    <3>. QED  BY <3>1, <3>2 DEF AreInstructions
  <2>2. d \in 1 .. l
      BY <1>0
  <2>. HIDE DEF l
  <2>3. d \in 0 .. l /\ d \in Nat
      BY <2>1, <2>2
  <2>. QED  BY <2>1, <2>3 DEF l
<1>2. IsCut(u, ops, 1, d) /\ IsSequence(u) /\ Len(u) = d /\ DOMAIN u = 1 .. d
      /\ \A k \in 1 .. d : u[k] = ops[k]
  <2>1. u = SubSeq(ops, 1, d)
      BY <1>0 DEF IsSegment
  <2>. HIDE DEF u, ops
  <2>2. IsCut(SubSeq(ops, 1, d), ops, 1, d)
    <3>1. 1 \in Nat \ {0} /\ d <= Len(ops) /\ 1 <= d + 1
        BY <1>1
    <3>. QED  BY <1>1, <3>1, Cut
  <2>3. IsCut(u, ops, 1, d)
      BY <2>1, <2>2, Zenon
  <2>4. IsSequence(u) /\ Len(u) = d - 1 + 1 /\ \A k \in 1 .. d - 1 + 1 : u[k] = ops[1 + k - 1]
      BY <2>3 DEF IsCut
  <2>5. d - 1 + 1 = d /\ \A k \in 1 .. d : 1 + k - 1 = k
      BY <1>1
  <2>. QED  BY <2>3, <2>4, <2>5, SequenceParts
<1>3. i \in 1 .. d /\ j \in 1 .. d /\ i \in 1 .. Len(ops) /\ j \in 1 .. Len(ops)
  <2>1. i \in 1 .. d /\ j \in 1 .. d
      BY <1>0, <1>2
  <2>2. \A k \in 1 .. d : k \in 1 .. Len(ops)
      BY <1>1
  <2>. QED  BY <2>1, <2>2
<1>4. Noted(meta, u, d)
  <2>1. meta = Runs(c)[d].meta
      BY <1>0 DEF IsSegment
  <2>2. IsMachine(Start(c)) /\ Start(c).meta = <<>> /\ Bound(c) \in Nat /\ Len(Start(c).stack) <= Bound(c)
      BY <1>0, StartOfChunk
  <2>. DEFINE m == Start(c)
              z == Bound(c)
  <2>3. Runs(c) = Execution(m, ops, z)
      BY DEF Runs
  <2>4. IsMachine(m) /\ m.meta = <<>> /\ z \in Int /\ Len(m.stack) <= z
      BY <2>2
  <2>. HIDE DEF m, z, ops
  <2>5. Execution(m, ops, z)[d].ok
      BY <1>0, <2>3
  <2>6. \A k \in 0 .. d : Execution(m, ops, z)[k].ok
    <3>1. \A k \in 0 .. d : Execution(m, ops, z)[k].ok /\ Len(Execution(m, ops, z)[k].stack) <= z
        BY <1>1, <2>4, <2>5, StackBounded
    <3>. QED  BY <3>1
  <2>7. Noted(Execution(m, ops, z)[d].meta, ops, d)
      BY <1>1, <2>4, <2>6, ExecutionNotes
  <2>8. Noted(meta, ops, d)
      BY <2>1, <2>3, <2>7
  <2>. HIDE DEF u, meta
  <2>. QED  BY <1>2, <2>8, NotedAlike
<1>5. \A k \in 1 .. d : \A e \in 1 .. d : e < k /\ IsOpaque(u[e]) /\ IsOpaque(u[k]) => Id(u[e]) # Id(u[k])
  <2>. TAKE k \in 1 .. d
  <2>. TAKE e \in 1 .. d
  <2>1. k \in 1 .. Len(c.ix) /\ e \in 1 .. Len(c.ix) /\ u[k] = ops[k] /\ u[e] = ops[e]
    <3>1. \A q \in 1 .. d : q \in 1 .. Len(c.ix)
        BY <1>1
    <3>. QED  BY <1>2, <3>1
  <2>2. \A p, q \in 1 .. Len(c.ix) :
           p < q /\ IsOpaque(ops[p]) /\ IsOpaque(ops[q]) => Id(ops[p]) # Id(ops[q])
      BY <1>0, ChunkParts
  <2>. HIDE DEF ops, u
  <2>. QED  BY <2>1, <2>2
<1>6. \A k \in 1 .. d : LET z == body[c.ix[k]]
                        IN  /\ z \in Operators(NumLocals) /\ Supported(z) /\ IsInstruction(u[k])
                            /\ \E id \in Nat : u[k] = Sem(z, id)
  <2>. TAKE k \in 1 .. d
  <2>1. k \in 1 .. Len(c.ix) /\ k \in 1 .. Len(ops) /\ u[k] = ops[k]
    <3>1. \A q \in 1 .. d : q \in 1 .. Len(c.ix)
        BY <1>1
    <3>. QED  BY <1>1, <1>2, <3>1
  <2>2. /\ c.ix[k] \in 1 .. Len(body) /\ Supported(body[c.ix[k]])
        /\ \E id \in Nat : ops[k] = Sem(body[c.ix[k]], id)
      BY <1>0, <2>1 DEF IsChunk
  <2>3. body[c.ix[k]] \in Operators(NumLocals)
      BY <2>2, BodyParts
  <2>4. IsInstruction(ops[k])
      BY <1>1, <2>1 DEF AreInstructions
  <2>. QED  BY <2>1, <2>2, <2>3, <2>4
<1>7. \A k \in 1 .. d : LET z == body[c.ix[k]]
                        IN  z[1] \in Touching => Translates(u[k], z)
    BY <1>6, SemTranslates
<1>8. \A k \in 1 .. d : LET z == body[c.ix[k]]
                        IN  z[1] \in DOMAIN Bytes
                            => u[k][1] = "opaque" \/ IsValue(AddrSymbol(u[k], meta))
  <2>. SUFFICES ASSUME NEW k \in 1 .. d, body[c.ix[k]][1] \in DOMAIN Bytes, u[k][1] # "opaque"
                PROVE  IsValue(AddrSymbol(u[k], meta))
      BY Zenon
  <2>. DEFINE z == body[c.ix[k]]
              op == u[k]
              in == InputsOf(meta, Id(op))
  <2>1. z[1] \in Touching /\ z[1] \in {"load", "store", "load8", "store8", "load64", "store64"}
      BY DEF Bytes, Touching
  <2>2. Translates(op, z)
      BY <1>7, <2>1
  <2>3. IsOpaque(op) /\ op[1] \in {"load", "store"}
    <3>. HIDE DEF z
    <3>. QED  BY <2>1, <2>2 DEF Translates
  <2>4. Pops(op) \in {1, 2}
    <3>. HIDE DEF op
    <3>. QED  BY <2>3 DEF Pops, FixedPops
  <2>5. AreValues(in) /\ Len(in) = Pops(op)
    <3>. HIDE DEF meta, u
    <3>. QED  BY <1>1, <1>4, <1>5, <2>3, InputsNoted
  <2>6. AddrSymbol(op, meta) = in[Len(in)]
      BY DEF AddrSymbol, Last
  <2>. HIDE DEF in, op
  <2>7. IsValue(AddrSymbol(op, meta))
      BY <2>4, <2>5, <2>6 DEF AreValues
  <2>. QED  BY <2>7 DEF op
<1>10. /\ x[1] \in Touching /\ y[1] \in Touching /\ {x[1], y[1]} \cap Writes # {}
       /\ \/ "call" \in {x[1], y[1]}
          \/ {x[1], y[1]} \subseteq {"gget", "gset"} /\ x[2] = y[2]
          \/ {x[1], y[1]} \subseteq DOMAIN Bytes /\ MayMeet(s, i, j)
  <2>1. DOMAIN Bytes \cup {"gget", "gset", "call"} = Touching
      BY DEF Bytes, Touching
  <2>. HIDE DEF x, y
  <2>2. /\ {x[1], y[1]} \subseteq DOMAIN Bytes \cup {"gget", "gset", "call"}
        /\ {x[1], y[1]} \cap Writes # {}
        /\ \/ "call" \in {x[1], y[1]}
           \/ {x[1], y[1]} \subseteq {"gget", "gset"} /\ x[2] = y[2]
           \/ {x[1], y[1]} \subseteq DOMAIN Bytes /\ MayMeet(s, i, j)
      BY <1>9, Zenon DEF Disturbs
  <2>. QED  BY <2>1, <2>2
<1>11. /\ u[i][1] # "opaque" => Address(s, i) = a
       /\ u[j][1] # "opaque" => Address(s, j) = b
    BY DEF Address
<1>12. {x[1], y[1]} \subseteq DOMAIN Bytes /\ MayMeet(s, i, j) =>
         ("opaque" \notin {u[i][1], u[j][1]} /\ IsConst(a) /\ IsConst(b) =>
             /\ a[2] + x[2] < b[2] + y[2] + Bytes[y[1]]
             /\ b[2] + y[2] < a[2] + x[2] + Bytes[x[1]])
  <2>. HIDE DEF a, b, x, y
  <2>. QED  BY <1>9, <1>11 DEF MayMeet
<1>13. /\ Translates(u[i], x) /\ x[1] \in DOMAIN Bytes => u[i][1] = "opaque" \/ IsValue(a)
       /\ Translates(u[j], y) /\ y[1] \in DOMAIN Bytes => u[j][1] = "opaque" \/ IsValue(b)
  <2>1. Translates(u[i], x) /\ Translates(u[j], y)
      BY <1>3, <1>7, <1>10
  <2>2. x[1] \in DOMAIN Bytes => u[i][1] = "opaque" \/ IsValue(a)
      BY <1>3, <1>8
  <2>3. y[1] \in DOMAIN Bytes => u[j][1] = "opaque" \/ IsValue(b)
      BY <1>3, <1>8
  <2>. QED  BY <2>1, <2>2, <2>3
<1>14. Translates(u[i], x) /\ Translates(u[j], y)
    BY <1>3, <1>7, <1>10
<1>15. a = AddrSymbol(u[i], meta) /\ b = AddrSymbol(u[j], meta) /\ i \in DOMAIN u /\ j \in DOMAIN u
    BY <1>0
<1>. HIDE DEF a, b, x, y, u, meta
<1>16. \/ <<Id(u[i]), Id(u[j])>> \in AllPairs(u, meta)
       \/ "opaque" \in {u[i][1], u[j][1]}
       \/ /\ {u[i][1], u[j][1]} \subseteq {"load", "store"}
          /\ \/ ~IsConst(a) /\ ~IsConst(b) /\ a # b
             \/ IsConst(a) /\ IsConst(b) /\ ~SameSign(a, b)
    BY <1>10, <1>12, <1>13, <1>14, <1>15, OrderOfTwo
<1>17. \/ <<Id(u[i]), Id(u[j])>> \in AllPairs(u, meta)
       \/ "opaque" \in {u[i][1], u[j][1]}
       \/ /\ {u[i][1], u[j][1]} \subseteq {"load", "store"}
          /\ \/ /\ ~IsConst(Address(s, i)) /\ ~IsConst(Address(s, j))
                /\ Address(s, i) # Address(s, j)
             \/ SignsDiffer(s, i, j)
  <2>1. "opaque" \in {u[i][1], u[j][1]} \/ (Address(s, i) = a /\ Address(s, j) = b)
      BY <1>11
  <2>2. Address(s, i) = a /\ Address(s, j) = b /\ IsConst(a) /\ IsConst(b) /\ ~SameSign(a, b)
        => SignsDiffer(s, i, j)
      BY Zenon DEF SignsDiffer, SameSign
  <2>. QED  BY <1>16, <2>1, <2>2
<1>. QED  BY <1>17 DEF u, meta

-----------------------------------------------------------------------------
(* The inductive invariant, stated over the values of the variables: of raw, of *)
(* segs and of carried.                                                         *)

Stages == {"parse", "split", "materialize", "resplit", "done"}

\* The raw segments are chunks of the body at the positions its raw segments have.
RawKnown(code, n, st, r) ==
    /\ AreSegments(r) /\ \A i \in DOMAIN r : IsChunk(code, r[i])
    /\ Within(PositionsOf(r), 0, Len(code))
    /\ st = "split" => r = RawSegments(code)
    /\ st \notin {"parse", "split"} =>
          /\ PositionsOf(r) = PositionsOf(RawSegments(code))
          /\ n > 0 => \A i \in DOMAIN r : Len(r[i].ops) <= n

\* A segment is what became of the start of its chunk.
IsOf(r, s) ==
    /\ s.of \in DOMAIN r
    /\ \E d \in 1 .. Len(r[s.of].ops) : Runs(r[s.of])[d].ok /\ IsSegment(s, r[s.of], d)

Treated(st, n, i) == \/ st \in {"resplit", "done"}
                     \/ st = "materialize" /\ i < n

\* Every chunk treated so far that is executed to its end has its segment.
SegsKnown(st, r, n, sg) ==
    /\ IsSequence(sg) /\ \A j \in DOMAIN sg : IsOf(r, sg[j])
    /\ st \in {"parse", "split"} => sg = <<>> /\ n = 1
    /\ \A i \in DOMAIN r :
          Treated(st, n, i) /\ Runs(r[i])[Len(r[i].ops)].ok
          => \E j \in DOMAIN sg : sg[j].of = i /\ Len(sg[j].ops) = Len(r[i].ops)

\* The segments are split in their order.
CarriedKnown(st, sg, n, ca) ==
    /\ IsSequence(ca) /\ Len(ca) <= Len(sg)
    /\ st \in {"parse", "split", "materialize"} => ca = <<>>
    /\ st = "resplit" => Len(ca) = n - 1
    /\ \A i \in DOMAIN ca : ca[i] = SplitSegment(sg[i], 2)

Typed(code, n, st, k) == IsBody(code) /\ n \in Nat /\ st \in Stages /\ k \in Nat \ {0}

IInv == /\ Typed(body, limit, stage, next)
        /\ RawKnown(body, limit, stage, raw)
        /\ SegsKnown(stage, raw, next, segs)
        /\ CarriedKnown(stage, segs, next, carried)

\* It holds before the body is parsed.
LEMMA InitInv == Init => IInv
<1>. SUFFICES ASSUME Init PROVE IInv
    OBVIOUS
<1>1. IsSequence(<<>>) /\ Len(<<>>) = 0 /\ DOMAIN <<>> = {}
    BY EmptyIsSequence
<1>2. Typed(body, limit, stage, next)
  <2>1. body \in Bodies /\ limit \in Limits /\ stage = "parse" /\ next = 1
      BY DEF Init
  <2>2. IsBody(body) /\ limit \in Nat
      BY <2>1, PipelineAssumption DEF IsBody
  <2>. QED  BY <2>1, <2>2 DEF Typed, Stages
<1>3. RawKnown(body, limit, stage, raw)
  <2>1. raw = <<>> /\ stage = "parse"
      BY DEF Init
  <2>2. Len(body) \in Nat
      BY <1>2, BodyParts DEF Typed
  <2>3. AreSegments(<<>>) /\ PositionsOf(<<>>) = <<>>
      BY NoPositions
  <2>4. Within(<<>>, 0, Len(body))
    <3>. DEFINE l == Len(body)
                e == <<>>
    <3>1. l \in Nat /\ IsSequence(e) /\ Len(e) = 0
        BY <1>1, <2>2
    <3>. HIDE DEF l, e
    <3>2. Within(e, 0, l)
        BY <3>1 DEF Within
    <3>. QED  BY <3>2 DEF l, e
  <2>. QED  BY <1>1, <2>1, <2>3, <2>4 DEF RawKnown
<1>4. SegsKnown(stage, raw, next, segs)
  <2>1. raw = <<>> /\ segs = <<>> /\ stage = "parse" /\ next = 1
      BY DEF Init
  <2>. QED  BY <1>1, <2>1 DEF SegsKnown
<1>5. CarriedKnown(stage, segs, next, carried)
  <2>1. carried = <<>> /\ segs = <<>> /\ stage = "parse"
      BY DEF Init
  <2>. QED  BY <1>1, <2>1 DEF CarriedKnown
<1>. QED  BY <1>2, <1>3, <1>4, <1>5 DEF IInv

\* Parsing makes the raw segments of the body.
LEMMA ParseInv == IInv /\ Parse => IInv'
<1>. SUFFICES ASSUME IInv, Parse PROVE IInv'
    OBVIOUS
<1>1. /\ stage = "parse" /\ raw' = RawSegments(body) /\ stage' = "split"
      /\ body' = body /\ limit' = limit /\ next' = next /\ segs' = segs /\ carried' = carried
    BY DEF Parse
<1>2. Typed(body, limit, stage, next)' /\ IsBody(body)
    BY <1>1 DEF IInv, Typed, Stages
<1>3. RawKnown(body', limit', stage', raw')
  <2>. DEFINE r == RawSegments(body)
  <2>1. AreSegments(r) /\ (\A i \in DOMAIN r : IsChunk(body, r[i])) /\ Within(PositionsOf(r), 0, Len(body))
      BY <1>2, RawAreChunks
  <2>2. RawKnown(body, limit, "split", r)
    <3>1. r = RawSegments(body)
        OBVIOUS
    <3>. HIDE DEF r
    <3>. QED  BY <2>1, <3>1 DEF RawKnown
  <2>. QED  BY <1>1, <2>2
<1>4. SegsKnown(stage', raw', next', segs')
  <2>1. SegsKnown("parse", raw, next, segs)
      BY <1>1 DEF IInv
  <2>2. segs = <<>> /\ next = 1
      BY <2>1 DEF SegsKnown
  <2>3. \A r : SegsKnown("split", r, 1, <<>>)
      BY EmptyIsSequence DEF SegsKnown, Treated
  <2>. QED  BY <1>1, <2>2, <2>3
<1>5. CarriedKnown(stage', segs', next', carried')
  <2>1. CarriedKnown("parse", segs, next, carried)
      BY <1>1 DEF IInv
  <2>2. CarriedKnown("split", segs, next, carried)
      BY <2>1 DEF CarriedKnown
  <2>. QED  BY <1>1, <2>2
<1>. QED  BY <1>2, <1>3, <1>4, <1>5 DEF IInv

\* Splitting the raw segments leaves their positions.
LEMMA SplitInv == IInv /\ Split => IInv'
<1>. SUFFICES ASSUME IInv, Split PROVE IInv'
    OBVIOUS
<1>1. /\ stage = "split" /\ raw' = FlattenSeq([i \in DOMAIN raw |-> SplitRaw(raw[i], limit)])
      /\ stage' = "materialize"
      /\ body' = body /\ limit' = limit /\ next' = next /\ segs' = segs /\ carried' = carried
    BY DEF Split
<1>2. Typed(body, limit, stage, next)' /\ IsBody(body) /\ limit \in Nat
    BY <1>1 DEF IInv, Typed, Stages
<1>3. RawKnown(body', limit', stage', raw')
  <2>. DEFINE t == Splits(raw, limit)
              n == limit
              code == body
              s == raw
  <2>1. /\ AreSegments(s) /\ (\A i \in DOMAIN s : IsChunk(code, s[i])) /\ s = RawSegments(code)
        /\ Within(PositionsOf(s), 0, Len(code))
      BY <1>1 DEF IInv, RawKnown
  <2>2. t = Splits(s, n) /\ n \in Nat /\ raw' = t
      BY <1>1, <1>2 DEF Splits
  <2>. HIDE DEF t, n, code, s
  <2>3. /\ AreSegments(t) /\ PositionsOf(t) = PositionsOf(s)
        /\ \A i \in DOMAIN t : IsChunk(code, t[i]) /\ (n > 0 => Len(t[i].ops) <= n)
      BY <2>1, <2>2, SplitsAreChunks
  <2>4. RawKnown(code, n, "materialize", t)
      BY <2>1, <2>3 DEF RawKnown
  <2>. QED  BY <1>1, <2>2, <2>4 DEF n, code
<1>4. SegsKnown(stage', raw', next', segs')
  <2>1. SegsKnown("split", raw, next, segs)
      BY <1>1 DEF IInv
  <2>2. segs = <<>> /\ next = 1
      BY <2>1 DEF SegsKnown
  <2>3. AreSegments(raw')
      BY <1>3 DEF RawKnown
  <2>. DEFINE r == raw'
  <2>4. DOMAIN r = 1 .. Len(r)
      BY <2>3, SequenceParts DEF AreSegments
  <2>. HIDE DEF r
  <2>5. \A i \in DOMAIN r : ~Treated("materialize", 1, i)
      BY <2>4 DEF Treated
  <2>6. SegsKnown("materialize", r, 1, <<>>)
      BY <2>5, EmptyIsSequence DEF SegsKnown
  <2>. QED  BY <1>1, <2>2, <2>6 DEF r
<1>5. CarriedKnown(stage', segs', next', carried')
  <2>1. CarriedKnown("split", segs, next, carried)
      BY <1>1 DEF IInv
  <2>2. CarriedKnown("materialize", segs, next, carried)
      BY <2>1 DEF CarriedKnown
  <2>. QED  BY <1>1, <2>2
<1>. QED  BY <1>2, <1>3, <1>4, <1>5 DEF IInv

\* A segment is executed without a failure, and reaches its final state if it is
\* all of its chunk.
LEMMA OfExecutes ==
    ASSUME NEW code, IsBody(code), NEW r, \A i \in DOMAIN r : IsChunk(code, r[i]), NEW s, IsOf(r, s)
    PROVE  Executable(s) /\ (Len(s.ops) = Len(r[s.of].ops) => Reaches(s))
<1>. DEFINE c == r[s.of]
<1>1. IsChunk(code, c)
    BY DEF IsOf
<1>2. PICK d \in 1 .. Len(c.ops) : Runs(c)[d].ok /\ IsSegment(s, c, d)
    BY DEF IsOf
<1>. HIDE DEF c
<1>3. /\ AreInstructions(s.ops) /\ Len(s.ops) = d
      /\ IsMachine(Machine(s.init)) /\ Machine(s.init).ok /\ Len(Machine(s.init).stack) <= s.max
      /\ s.init.locals = FreshLocals
      /\ \A k \in 0 .. d : Execution(Machine(s.init), s.ops, s.max)[k].ok
    BY <1>1, <1>2, SegmentExecutes
<1>4. s.max \in Nat
    BY <1>2 DEF IsSegment
<1>5. Executable(s)
    BY <1>2, <1>3, <1>4 DEF Executable
<1>6. ASSUME Len(s.ops) = Len(c.ops) PROVE Reaches(s)
  <2>1. d = Len(c.ops)
      BY <1>3, <1>6
  <2>. QED  BY <1>1, <1>2, <2>1, WholeIsReached
<1>. QED  BY <1>5, <1>6 DEF c

\* The next chunk is treated: it gives the segment of what does not fail, if any.
LEMMA OneTreated ==
    ASSUME NEW code, IsBody(code), NEW r, AreSegments(r), \A i \in DOMAIN r : IsChunk(code, r[i]),
           NEW n \in DOMAIN r, NEW sg, SegsKnown("materialize", r, n, sg),
           NEW t, t = sg \o Materialize(r[n], n)
    PROVE  IsSequence(t) /\ SegsKnown("materialize", r, n + 1, t)
<1>. DEFINE c == r[n]
            l == Len(c.ops)
            Has(i, e) == e.of = i /\ Len(e.ops) = Len(r[i].ops)
<1>1. n \in Nat \ {0} /\ DOMAIN r = 1 .. Len(r) /\ Len(r) \in Nat
  <2>1. DOMAIN r = 1 .. Len(r) /\ Len(r) \in Nat
      BY SequenceParts DEF AreSegments
  <2>. QED  BY <2>1
<1>2. /\ IsSequence(sg) /\ \A j \in DOMAIN sg : IsOf(r, sg[j])
      /\ \A i \in DOMAIN r : i < n /\ Runs(r[i])[Len(r[i].ops)].ok => \E j \in DOMAIN sg : Has(i, sg[j])
    BY DEF SegsKnown, Treated
<1>3. l \in Nat \ {0}
    BY ChunkInstructions
<1>4. PICK d \in 0 .. l :
         /\ \A k \in 1 .. l : Runs(c)[k].ok <=> k <= d
         /\ Runs(c)[d].ok
         /\ IF d = 0 THEN Materialize(c, n) = <<>>
            ELSE \E s : Materialize(c, n) = <<s>> /\ s.of = n /\ IsSegment(s, c, d)
    BY MaterializedIs
<1>5. \A i \in DOMAIN r : i < n + 1 <=> i < n \/ i = n
    BY <1>1
<1>6. Runs(c)[l].ok => d = l
  <2>1. l \in 1 .. l
      BY <1>3
  <2>2. Runs(c)[l].ok <=> l <= d
      BY <1>4, <2>1
  <2>. HIDE DEF l
  <2>. QED  BY <1>3, <2>2
<1>. HIDE DEF Has
<1>7. \A u : /\ IsSequence(u) /\ \A j \in DOMAIN u : IsOf(r, u[j])
             /\ \A i \in DOMAIN r : i < n + 1 /\ Runs(r[i])[Len(r[i].ops)].ok => \E j \in DOMAIN u : Has(i, u[j])
             => SegsKnown("materialize", r, n + 1, u)
    BY DEF SegsKnown, Treated, Has
<1>8. CASE d = 0
  <2>1. t = sg
    <3>1. Materialize(c, n) = <<>>
        BY <1>4, <1>8
    <3>. QED  BY <1>2, <3>1, EmptyJoined
  <2>2. ~Runs(c)[l].ok
      BY <1>3, <1>6, <1>8
  <2>3. \A i \in DOMAIN r : i < n + 1 /\ Runs(r[i])[Len(r[i].ops)].ok => \E j \in DOMAIN t : Has(i, t[j])
      BY <1>2, <1>5, <2>1, <2>2
  <2>. QED  BY <1>2, <1>7, <2>1, <2>3
<1>9. CASE d # 0
  <2>1. PICK s : Materialize(c, n) = <<s>> /\ s.of = n /\ IsSegment(s, c, d)
      BY <1>4, <1>9, Zenon
  <2>2. IsAppended(t, sg, s)
    <3>1. IsAppended(sg \o <<s>>, sg, s)
        BY <1>2, OneAppended
    <3>2. t = sg \o <<s>>
        BY <2>1
    <3>. QED  BY <3>1, <3>2, Zenon
  <2>3. /\ IsSequence(t) /\ Len(t) = Len(sg) + 1 /\ Len(sg) \in Nat
        /\ DOMAIN t = 1 .. Len(sg) + 1 /\ DOMAIN sg = 1 .. Len(sg)
        /\ t[Len(sg) + 1] = s /\ \A j \in 1 .. Len(sg) : t[j] = sg[j]
    <3>1. /\ IsSequence(t) /\ Len(t) = Len(sg) + 1
          /\ t[Len(sg) + 1] = s /\ \A j \in 1 .. Len(sg) : t[j] = sg[j]
        BY <2>2 DEF IsAppended
    <3>. QED  BY <1>2, <3>1, SequenceParts
  <2>4. IsOf(r, s)
    <3>1. d \in 1 .. l
        BY <1>3, <1>9
    <3>. QED  BY <1>4, <2>1, <3>1 DEF IsOf
  <2>. DEFINE g == Len(sg)
  <2>5. g \in Nat /\ DOMAIN t = 1 .. g + 1 /\ DOMAIN sg = 1 .. g /\ t[g + 1] = s /\ \A j \in 1 .. g : t[j] = sg[j]
      BY <2>3
  <2>. HIDE DEF g
  <2>6. \A j \in DOMAIN t : j \in 1 .. g \/ j = g + 1
      BY <2>5
  <2>7. (\A j \in DOMAIN sg : j \in DOMAIN t) /\ g + 1 \in DOMAIN t
      BY <2>5
  <2>8. \A j \in DOMAIN t : IsOf(r, t[j])
      BY <1>2, <2>4, <2>5, <2>6
  <2>9. \A i \in DOMAIN r : i < n + 1 /\ Runs(r[i])[Len(r[i].ops)].ok => \E j \in DOMAIN t : Has(i, t[j])
    <3>. SUFFICES ASSUME NEW i \in DOMAIN r, i < n + 1, Runs(r[i])[Len(r[i].ops)].ok
                  PROVE  \E j \in DOMAIN t : Has(i, t[j])
        BY Zenon
    <3>1. CASE i < n
      <4>1. PICK j \in DOMAIN sg : Has(i, sg[j])
          BY <1>2, <3>1
      <4>2. j \in DOMAIN t /\ t[j] = sg[j]
          BY <2>5, <2>7
      <4>. QED  BY <4>1, <4>2
    <3>2. CASE i = n
      <4>1. d = l
          BY <1>6, <3>2
      <4>2. Len(s.ops) = l
          BY <2>1, <4>1 DEF IsSegment
      <4>3. Has(i, t[g + 1])
          BY <2>1, <2>5, <3>2, <4>2 DEF Has
      <4>. QED  BY <2>7, <4>3
    <3>. QED  BY <1>5, <3>1, <3>2
  <2>. QED  BY <1>7, <2>3, <2>8, <2>9
<1>. QED  BY <1>8, <1>9

\* Materialization goes on with the next chunk, or is done.
LEMMA MaterializeInv == IInv /\ MaterializeNext => IInv'
<1>. SUFFICES ASSUME IInv, MaterializeNext PROVE IInv'
    OBVIOUS
<1>1. /\ stage = "materialize" /\ body' = body /\ limit' = limit /\ raw' = raw /\ carried' = carried
      /\ IF next \in DOMAIN raw
         THEN segs' = segs \o Materialize(raw[next], next) /\ next' = next + 1 /\ stage' = stage
         ELSE stage' = "resplit" /\ next' = 1 /\ segs' = segs
    BY DEF MaterializeNext
<1>2. IsBody(body) /\ limit \in Nat /\ next \in Nat \ {0}
    BY DEF IInv, Typed
<1>3. RawKnown(body, limit, "materialize", raw)
    BY <1>1 DEF IInv
<1>4. AreSegments(raw) /\ \A i \in DOMAIN raw : IsChunk(body, raw[i])
    BY <1>3 DEF RawKnown
<1>5. SegsKnown("materialize", raw, next, segs) /\ CarriedKnown("materialize", segs, next, carried)
    BY <1>1 DEF IInv
<1>6. carried = <<>>
    BY <1>5 DEF CarriedKnown
<1>7. CASE next \in DOMAIN raw
  <2>. DEFINE t == segs \o Materialize(raw[next], next)
              r == raw
              code == body
              n == next
  <2>1. /\ IsBody(code) /\ AreSegments(r) /\ (\A i \in DOMAIN r : IsChunk(code, r[i])) /\ n \in DOMAIN r
        /\ SegsKnown("materialize", r, n, segs) /\ t = segs \o Materialize(r[n], n)
      BY <1>2, <1>4, <1>5, <1>7
  <2>2. /\ segs' = t /\ next' = n + 1 /\ stage' = "materialize" /\ raw' = r /\ n \in Nat \ {0}
        /\ body' = code
      BY <1>1, <1>2, <1>7
  <2>. HIDE DEF t, r, code, n
  <2>3. IsSequence(t) /\ SegsKnown("materialize", r, n + 1, t)
      BY <2>1, OneTreated
  <2>4. Typed(code, limit, "materialize", n + 1)
      BY <1>2, <2>1, <2>2 DEF Typed, Stages
  <2>5. CarriedKnown("materialize", t, n + 1, <<>>)
    <3>1. Len(t) \in Nat
        BY <2>3, SequenceParts
    <3>. QED  BY <3>1, EmptyIsSequence DEF CarriedKnown
  <2>6. Typed(body', limit', stage', next')
      BY <1>1, <2>2, <2>4
  <2>7. RawKnown(body', limit', stage', raw')
      BY <1>1, <1>3, <2>2
  <2>8. SegsKnown(stage', raw', next', segs')
      BY <2>2, <2>3
  <2>9. CarriedKnown(stage', segs', next', carried')
      BY <1>1, <1>6, <2>2, <2>5
  <2>. QED  BY <2>6, <2>7, <2>8, <2>9 DEF IInv
<1>8. CASE next \notin DOMAIN raw
  <2>1. stage' = "resplit" /\ next' = 1 /\ segs' = segs
      BY <1>1, <1>8
  <2>2. Typed(body', limit', stage', next')
      BY <1>1, <1>2, <2>1 DEF Typed, Stages
  <2>3. RawKnown(body', limit', stage', raw')
    <3>1. RawKnown(body, limit, "resplit", raw)
        BY <1>3 DEF RawKnown
    <3>. QED  BY <1>1, <2>1, <3>1
  <2>4. SegsKnown(stage', raw', next', segs')
    <3>1. \A i \in DOMAIN raw : i < next
      <4>. DEFINE l == Len(raw)
      <4>1. DOMAIN raw = 1 .. l /\ l \in Nat
          BY <1>4, SequenceParts DEF AreSegments
      <4>. HIDE DEF l
      <4>. QED  BY <1>2, <1>8, <4>1
    <3>2. \A i \in DOMAIN raw : Treated("materialize", next, i)
        BY <3>1 DEF Treated
    <3>3. SegsKnown("resplit", raw, 1, segs)
        BY <1>5, <3>2 DEF SegsKnown
    <3>. QED  BY <1>1, <2>1, <3>3
  <2>5. CarriedKnown(stage', segs', next', carried')
    <3>1. Len(segs) \in Nat
        BY <1>5, SequenceParts DEF SegsKnown
    <3>2. CarriedKnown("resplit", segs, 1, <<>>)
        BY <3>1, EmptyIsSequence DEF CarriedKnown
    <3>. QED  BY <1>1, <1>6, <2>1, <3>2
  <2>. QED  BY <2>2, <2>3, <2>4, <2>5 DEF IInv
<1>. QED  BY <1>7, <1>8

\* The next segment is split, or all are.
LEMMA ResplitInv == IInv /\ Resplit => IInv'
<1>. SUFFICES ASSUME IInv, Resplit PROVE IInv'
    OBVIOUS
<1>. DEFINE result == SplitSegment(segs[next], 2)
<1>1. /\ stage = "resplit" /\ body' = body /\ limit' = limit /\ raw' = raw /\ segs' = segs
      /\ IF next \in DOMAIN segs
         THEN /\ carried' = Append(carried, result)
              /\ stage' = IF result.ok THEN "resplit" ELSE "panic"
              /\ next' = next + 1
         ELSE stage' = "done" /\ next' = next /\ carried' = carried
    BY Zenon DEF Resplit
<1>2. IsBody(body) /\ limit \in Nat /\ next \in Nat \ {0}
    BY DEF IInv, Typed
<1>3. RawKnown(body, limit, "resplit", raw)
    BY <1>1 DEF IInv
<1>4. \A i \in DOMAIN raw : IsChunk(body, raw[i])
    BY <1>3 DEF RawKnown
<1>5. SegsKnown("resplit", raw, next, segs) /\ CarriedKnown("resplit", segs, next, carried)
    BY <1>1 DEF IInv
<1>6. IsSequence(segs) /\ \A j \in DOMAIN segs : IsOf(raw, segs[j])
    BY <1>5 DEF SegsKnown
<1>7. /\ IsSequence(carried) /\ Len(carried) = next - 1
      /\ \A i \in DOMAIN carried : carried[i] = SplitSegment(segs[i], 2)
    BY <1>5 DEF CarriedKnown
<1>8. CASE next \in DOMAIN segs
  <2>1. result.ok = TRUE
    <3>. DEFINE s == segs[next]
    <3>1. IsOf(raw, s)
        BY <1>6, <1>8
    <3>. HIDE DEF s
    <3>2. Executable(s)
        BY <1>2, <1>4, <3>1, OfExecutes
    <3>3. SplitSegment(s, 2).ok = TRUE
        BY <3>2, SplitComposes
    <3>. QED  BY <3>3 DEF s
  <2>2. stage' = "resplit" /\ next' = next + 1 /\ carried' = Append(carried, result)
      BY <1>1, <1>8, <2>1
  <2>. DEFINE ca == Append(carried, result)
              g == Len(carried)
              l == Len(segs)
  <2>3. IsAppended(ca, carried, result)
      BY <1>7, Appended
  <2>4. l \in Nat /\ DOMAIN segs = 1 .. l /\ g \in Nat /\ DOMAIN carried = 1 .. g /\ g = next - 1
      BY <1>6, <1>7, SequenceParts
  <2>5. result = SplitSegment(segs[next], 2)
      OBVIOUS
  <2>. HIDE DEF ca, result
  <2>6. /\ IsSequence(ca) /\ Len(ca) = g + 1 /\ DOMAIN ca = 1 .. Len(ca)
        /\ ca[g + 1] = result /\ \A i \in 1 .. g : ca[i] = carried[i]
      BY <2>3, SequenceParts DEF IsAppended
  <2>. HIDE DEF g, l
  <2>7. g + 1 = next /\ next \in 1 .. l
      BY <1>2, <1>8, <2>4
  <2>8. \A i \in DOMAIN ca : ca[i] = SplitSegment(segs[i], 2)
    <3>. TAKE i \in DOMAIN ca
    <3>1. i \in 1 .. g \/ i = next
        BY <2>4, <2>6, <2>7
    <3>. QED  BY <1>7, <2>4, <2>5, <2>6, <2>7, <3>1
  <2>9. Len(ca) <= Len(segs) /\ Len(ca) = (next + 1) - 1
      BY <1>2, <2>4, <2>6, <2>7 DEF l
  <2>10. CarriedKnown("resplit", segs, next + 1, ca)
      BY <2>6, <2>8, <2>9 DEF CarriedKnown
  <2>11. CarriedKnown(stage', segs', next', carried')
      BY <1>1, <2>2, <2>10 DEF ca
  <2>12. Typed(body', limit', stage', next')
      BY <1>1, <1>2, <2>2 DEF Typed, Stages
  <2>13. RawKnown(body', limit', stage', raw')
      BY <1>1, <1>3, <2>2
  <2>14. SegsKnown(stage', raw', next', segs')
    <3>1. SegsKnown("resplit", raw, next + 1, segs)
        BY <1>5 DEF SegsKnown, Treated
    <3>. QED  BY <1>1, <2>2, <3>1
  <2>. QED  BY <2>11, <2>12, <2>13, <2>14 DEF IInv
<1>9. CASE next \notin DOMAIN segs
  <2>1. stage' = "done" /\ next' = next /\ carried' = carried
      BY <1>1, <1>9
  <2>2. Typed(body', limit', stage', next')
      BY <1>1, <1>2, <2>1 DEF Typed, Stages
  <2>3. RawKnown(body, limit, "done", raw)
      BY <1>3 DEF RawKnown
  <2>4. SegsKnown("done", raw, next, segs)
      BY <1>5 DEF SegsKnown, Treated
  <2>5. CarriedKnown("done", segs, next, carried)
      BY <1>5 DEF CarriedKnown
  <2>. QED  BY <1>1, <2>1, <2>2, <2>3, <2>4, <2>5 DEF IInv
<1>. QED  BY <1>8, <1>9

\* Every step keeps the invariant.
LEMMA StepInv == IInv /\ [Next]_vars => IInv'
<1>. SUFFICES ASSUME IInv, [Next]_vars PROVE IInv'
    OBVIOUS
<1>1. CASE Parse
    BY <1>1, ParseInv
<1>2. CASE Split
    BY <1>2, SplitInv
<1>3. CASE MaterializeNext
    BY <1>3, MaterializeInv
<1>4. CASE Resplit
    BY <1>4, ResplitInv
<1>5. CASE UNCHANGED vars
    BY <1>5 DEF vars, IInv
<1>. QED  BY <1>1, <1>2, <1>3, <1>4, <1>5 DEF Next

\* Every behaviour keeps the invariant.
THEOREM Invariance == Spec => []IInv
<1>1. Init => IInv
    BY InitInv
<1>2. IInv /\ [Next]_vars => IInv'
    BY StepInv
<1>. QED  BY <1>1, <1>2, PTL DEF Spec

-----------------------------------------------------------------------------
(* The properties. *)

\* The invariant gives the chunks their positions in the body.
LEMMA SegmentsByInv == IInv => SegmentsAreRuns
<1>. SUFFICES ASSUME IInv PROVE SegmentsAreRuns
    OBVIOUS
<1>1. /\ RawKnown(body, limit, stage, raw) /\ stage \in Stages
    BY DEF IInv, Typed
<1>2. /\ AreSegments(raw) /\ \A i \in DOMAIN raw : IsChunk(body, raw[i])
    BY <1>1 DEF RawKnown
<1>3. Within(PositionsOf(raw), 0, Len(body))
    BY <1>1 DEF RawKnown
<1>4. stage \notin {"parse", "split"} =>
          /\ PositionsOf(raw) = PositionsOf(RawSegments(body))
          /\ limit > 0 => \A i \in DOMAIN raw : Len(raw[i].ops) <= limit
    BY <1>1 DEF RawKnown
<1>5. \A i \in DOMAIN raw : /\ IsRun(raw[i].ix)
                            /\ \A p \in ToSet(raw[i].ix) : ~IsControl(body[p])
                            /\ \A op \in ToSet(raw[i].ops) : IsOpaque(op) => Id(op) \in raw[i].texts
  <2>. TAKE i \in DOMAIN raw
  <2>. DEFINE c == raw[i]
              code == body
              l == Len(c.ix)
  <2>1. IsChunk(code, c)
      BY <1>2
  <2>. HIDE DEF c, code
  <2>2. /\ IsSequence(c.ix) /\ IsSequence(c.ops) /\ Len(c.ops) = l
        /\ \A k \in 1 .. l : Supported(code[c.ix[k]]) /\ (IsOpaque(c.ops[k]) => Id(c.ops[k]) \in c.texts)
        /\ \A k \in 1 .. l - 1 : c.ix[k + 1] = c.ix[k] + 1
      BY <2>1 DEF IsChunk
  <2>3. l \in Nat /\ DOMAIN c.ix = 1 .. l /\ DOMAIN c.ops = 1 .. l
      BY <2>2, SequenceParts
  <2>4. IsRun(c.ix)
    <3>. SUFFICES ASSUME NEW k \in 2 .. l PROVE c.ix[k] = c.ix[k - 1] + 1
        BY DEF IsRun
    <3>. DEFINE j == k - 1
    <3>1. j \in 1 .. l - 1 /\ j + 1 = k
      <4>. HIDE DEF l
      <4>. QED  BY <2>3
    <3>2. c.ix[j + 1] = c.ix[j] + 1
        BY <2>2, <3>1
    <3>. HIDE DEF j
    <3>3. c.ix[k] = c.ix[j] + 1
        BY <3>1, <3>2
    <3>. QED  BY <3>3 DEF j
  <2>5. \A p \in ToSet(c.ix) : ~IsControl(code[p])
      BY <2>2, <2>3 DEF ToSet, Supported
  <2>6. \A op \in ToSet(c.ops) : IsOpaque(op) => Id(op) \in c.texts
      BY <2>2, <2>3 DEF ToSet
  <2>. QED  BY <2>4, <2>5, <2>6 DEF c, code
<1>6. \A i, j \in DOMAIN PositionsOf(raw) : i < j => PositionsOf(raw)[i] < PositionsOf(raw)[j]
  <2>. DEFINE all == PositionsOf(raw)
              l == Len(body)
  <2>1. Within(all, 0, l)
      BY <1>3
  <2>. HIDE DEF all, l
  <2>2. IsSequence(all) /\ \A i, j \in 1 .. Len(all) : i < j => all[i] < all[j]
      BY <2>1 DEF Within
  <2>3. DOMAIN all = 1 .. Len(all)
      BY <2>2, SequenceParts
  <2>. QED  BY <2>2, <2>3 DEF all
<1>. QED  BY <1>4, <1>5, <1>6, Zenon DEF SegmentsAreRuns, PositionsOf, IxOf

\* Every segment is executed without a failure, and reaches its final state if it is
\* all of its chunk.
LEMMA SegsExecute == IInv => \A j \in DOMAIN segs : /\ Executable(segs[j]) /\ IsOf(raw, segs[j])
                                                    /\ IsWhole(segs[j]) => Reaches(segs[j])
<1>. SUFFICES ASSUME IInv, NEW j \in DOMAIN segs
              PROVE  /\ Executable(segs[j]) /\ IsOf(raw, segs[j])
                     /\ IsWhole(segs[j]) => Reaches(segs[j])
    OBVIOUS
<1>. DEFINE s == segs[j]
<1>1. IsBody(body) /\ \A i \in DOMAIN raw : IsChunk(body, raw[i])
    BY DEF IInv, Typed, RawKnown
<1>2. IsOf(raw, s)
    BY DEF IInv, SegsKnown
<1>. HIDE DEF s
<1>3. Executable(s) /\ (Len(s.ops) = Len(raw[s.of].ops) => Reaches(s))
    BY <1>1, <1>2, OfExecutes
<1>. QED  BY <1>2, <1>3 DEF s, IsWhole

\* So that the final state is reached,
LEMMA FinByInv == IInv => FinIsReached
BY SegsExecute DEF FinIsReached

\* a short chunk has a segment that is all of it,
LEMMA ShortByInv == IInv => ShortIsWhole
<1>. SUFFICES ASSUME IInv, stage \in {"resplit", "done"}, NEW i \in DOMAIN raw,
                     Len(raw[i].ops) <= StackSlack + 1, \A op \in ToSet(raw[i].ops) : Pushes(op) <= 1
              PROVE  \E j \in DOMAIN segs : segs[j].of = i /\ IsWhole(segs[j])
    BY DEF ShortIsWhole
<1>. DEFINE c == raw[i]
<1>1. IsBody(body) /\ IsChunk(body, c)
    BY DEF IInv, Typed, RawKnown
<1>2. Runs(c)[Len(c.ops)].ok
  <2>1. Len(c.ops) <= StackSlack + 1 /\ \A op \in ToSet(c.ops) : Pushes(op) <= 1
      OBVIOUS
  <2>. HIDE DEF c
  <2>2. IsSequence(c.ops)
    <3>1. AreInstructions(c.ops)
        BY <1>1, ChunkInstructions
    <3>. QED  BY <3>1 DEF AreInstructions
  <2>3. \A k \in 1 .. Len(c.ops) : Pushes(c.ops[k]) <= 1
    <3>1. DOMAIN c.ops = 1 .. Len(c.ops)
        BY <2>2, SequenceParts
    <3>. QED  BY <2>1, <3>1 DEF ToSet
  <2>. QED  BY <1>1, <2>1, <2>3, ShortGoesOn
<1>3. Treated(stage, next, i)
    BY DEF Treated
<1>4. SegsKnown(stage, raw, next, segs)
    BY DEF IInv
<1>5. \E j \in DOMAIN segs : segs[j].of = i /\ Len(segs[j].ops) = Len(raw[i].ops)
    BY <1>2, <1>3, <1>4 DEF SegsKnown
<1>. QED  BY <1>5 DEF IsWhole

\* what a segment is split into composes,
LEMMA ComposeByInv == IInv => CarriedChunksCompose
<1>. SUFFICES ASSUME IInv PROVE CarriedChunksCompose
    OBVIOUS
<1>1. stage # "panic"
    BY DEF IInv, Typed, Stages
<1>2. \A i \in DOMAIN carried : IsWhole(segs[i]) => Composes(segs[i], carried[i])
  <2>. SUFFICES ASSUME NEW i \in DOMAIN carried, IsWhole(segs[i]) PROVE Composes(segs[i], carried[i])
      OBVIOUS
  <2>1. CarriedKnown(stage, segs, next, carried) /\ SegsKnown(stage, raw, next, segs)
      BY DEF IInv
  <2>2. carried[i] = SplitSegment(segs[i], 2)
      BY <2>1 DEF CarriedKnown
  <2>3. i \in DOMAIN segs
    <3>. DEFINE g == Len(carried)
                l == Len(segs)
    <3>1. IsSequence(carried) /\ IsSequence(segs) /\ g <= l
        BY <2>1 DEF CarriedKnown, SegsKnown
    <3>2. g \in Nat /\ DOMAIN carried = 1 .. g /\ l \in Nat /\ DOMAIN segs = 1 .. l
        BY <3>1, SequenceParts
    <3>. HIDE DEF g, l
    <3>. QED  BY <3>1, <3>2
  <2>. DEFINE s == segs[i]
  <2>4. Executable(s) /\ Reaches(s)
      BY <2>3, SegsExecute
  <2>. HIDE DEF s
  <2>5. Composes(s, SplitSegment(s, 2))
      BY <2>4, SplitComposes
  <2>. QED  BY <2>2, <2>5 DEF s
<1>. QED  BY <1>1, <1>2, Zenon DEF CarriedChunksCompose, Composes

\* and the order of its instructions is kept.
LEMMA OrderByInv == IInv => OnlyKnownGapsInOrder
<1>. SUFFICES ASSUME IInv, NEW n \in DOMAIN segs,
                     NEW i \in DOMAIN segs[n].ops, NEW j \in DOMAIN segs[n].ops,
                     i < j, Disturbs(segs[n], i, j)
              PROVE  LET s == segs[n] IN
                     \/ <<Id(s.ops[i]), Id(s.ops[j])>> \in AllPairs(s.ops, s.meta)
                     \/ "opaque" \in {s.ops[i][1], s.ops[j][1]}
                     \/ /\ {s.ops[i][1], s.ops[j][1]} \subseteq {"load", "store"}
                        /\ \/ /\ ~IsConst(Address(s, i)) /\ ~IsConst(Address(s, j))
                              /\ Address(s, i) # Address(s, j)
                           \/ SignsDiffer(s, i, j)
    BY Zenon DEF OnlyKnownGapsInOrder
<1>. DEFINE s == segs[n]
<1>1. IsOf(raw, s)
    BY SegsExecute
<1>2. IsBody(body) /\ \A k \in DOMAIN raw : IsChunk(body, raw[k])
    BY DEF IInv, Typed, RawKnown
<1>3. i \in DOMAIN s.ops /\ j \in DOMAIN s.ops /\ Disturbs(s, i, j)
    OBVIOUS
<1>. HIDE DEF s
<1>4. IsChunk(body, raw[s.of])
    BY <1>1, <1>2 DEF IsOf
<1>5. PICK d \in 1 .. Len(raw[s.of].ops) : Runs(raw[s.of])[d].ok /\ IsSegment(s, raw[s.of], d)
    BY <1>1 DEF IsOf
<1>6. \/ <<Id(s.ops[i]), Id(s.ops[j])>> \in AllPairs(s.ops, s.meta)
      \/ "opaque" \in {s.ops[i][1], s.ops[j][1]}
      \/ /\ {s.ops[i][1], s.ops[j][1]} \subseteq {"load", "store"}
         /\ \/ /\ ~IsConst(Address(s, i)) /\ ~IsConst(Address(s, j))
               /\ Address(s, i) # Address(s, j)
            \/ SignsDiffer(s, i, j)
    BY <1>2, <1>3, <1>4, <1>5, OrderOfSegment
<1>. QED  BY <1>6 DEF s

\* Segments and chunks are stretches of the body without a branch in their middle, in
\* its order, with the text of every instruction that has an id; the split loses
\* nothing and respects the limit (blocks_from_operators, classify_block_segments,
\* split_raw_segments).
THEOREM SegmentsAreStretches == Spec => []SegmentsAreRuns
BY Invariance, SegmentsByInv, PTL

\* The final state of a segment that was not cut short is what its instructions reach
\* from its entry state, under its own bound (materialize_raw_segment).
THEOREM FinalStatesAreReached == Spec => []FinIsReached
BY Invariance, FinByInv, PTL

\* A chunk no longer than the slack and one, of instructions that push at most one
\* value, is executed to its end and kept (stack_bounds_ops, SegmentBounds::new).
THEOREM ShortChunksAreWhole == Spec => []ShortIsWhole
BY Invariance, ShortByInv, PTL

\* Splitting a segment into chunks that carry the state on never fails; the chunks
\* hold its instructions, reach their own final states and together its final state
\* (split_segment).
THEOREM ChunksCompose == Spec => []CarriedChunksCompose
BY Invariance, ComposeByInv, PTL

\* Two instructions of a segment of which one may change what the other reads or
\* writes are in the dependency list, but for accesses kept as opaque ones and
\* addresses written differently (collect_mem_accesses, are_dependent_mem,
\* are_dependent_var).
THEOREM ObservableOrderIsListed == Spec => []OnlyKnownGapsInOrder
BY Invariance, OrderByInv, PTL

=============================================================================
