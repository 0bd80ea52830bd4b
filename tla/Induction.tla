------------------------------ MODULE Induction ------------------------------
(***************************************************************************)
(* Induction for a set of numbers: what the proofs about recursive         *)
(* functions rest on; the first use of it, FlattenSeq; and sequences cut   *)
(* and put together again.                                                 *)
(***************************************************************************)
EXTENDS Integers, WellFoundedInduction, SequencesExt, SequenceTheorems, TLAPS

(* Induction over the numbers, for a set of them. *)
LEMMA SetInduction ==
    ASSUME NEW S, 0 \in S, \A n \in Nat : n \in S => n + 1 \in S
    PROVE  \A n \in Nat : n \in S
<1> DEFINE T == {n \in Nat : n \notin S}
           R == {ss \in Nat \X Nat : ss[1] < ss[2]}
<1> SUFFICES ASSUME T # {} PROVE FALSE
  OBVIOUS
<1>1. IsWellFoundedOn(R, Nat)
  BY NatLessThanWellFounded DEF OpToRel
<1>2. PICK x \in T : \A y \in T : ~(<<y, x>> \in R)
  <2> HIDE DEF R
  <2> QED
    BY <1>1, WFMin
<1>3. x # 0 /\ x - 1 \in Nat
  BY <1>2
<1>4. <<x - 1, x>> \in R
  BY <1>2, <1>3
<1>5. x - 1 \in S
  BY <1>2, <1>3, <1>4
<1> QED
  BY <1>2, <1>3, <1>5

-----------------------------------------------------------------------------
(* FlattenSeq is defined with a recursive function. *)

\* One sequence after the other: \o, to be unfolded where its properties are needed.
Then(s, t) == s \o t

\* Two sequences over a set make one over it.
LEMMA ThenTyped ==
    ASSUME NEW T, NEW s \in Seq(T), NEW t \in Seq(T)
    PROVE  Then(s, t) \in Seq(T)
BY ConcatProperties DEF Then

\* An empty sequence adds nothing, on either side.
LEMMA ThenEmpty ==
    ASSUME NEW T, NEW s \in Seq(T)
    PROVE  Then(s, <<>>) = s /\ Then(<<>>, s) = s
BY ConcatEmptySeq DEF Then

\* Three sequences, put together from the left or from the right.
LEMMA ThenAssociative ==
    ASSUME NEW T, NEW s \in Seq(T), NEW t \in Seq(T), NEW u \in Seq(T)
    PROVE  Then(Then(s, t), u) = Then(s, Then(t, u))
BY ConcatAssociative DEF Then

\* f is that function, for the first n of the sequences.
IsFlatten(s, f, n) ==
    f = [i \in 1 .. n |-> IF i = 1 THEN s[i] ELSE Then(f[i - 1], s[i])]

\* There is one.
LEMMA FlattenExists ==
    ASSUME NEW s
    PROVE  \A n \in Nat : \E f : IsFlatten(s, f, n)
<1> DEFINE S == {n \in Nat : \E f : IsFlatten(s, f, n)}
<1>1. 0 \in S
  <2> DEFINE f == [i \in 1 .. 0 |-> s[i]]
  <2>1. IsFlatten(s, f, 0)
    BY DEF IsFlatten
  <2> QED
    BY <2>1
<1>2. ASSUME NEW n \in Nat, n \in S PROVE n + 1 \in S
  <2>1. PICK f : IsFlatten(s, f, n)
    BY <1>2
  <2> DEFINE new(i) == IF i = 1 THEN s[i] ELSE Then(f[i - 1], s[i])
             g == [i \in 1 .. n + 1 |-> new(i)]
  <2>2. \A i \in 1 .. n : g[i] = f[i]
    BY <2>1 DEF IsFlatten
  <2>3. g = [i \in 1 .. n + 1 |-> new(i)]
    OBVIOUS
  <2> HIDE DEF g
  <2>4. \A i \in 1 .. n + 1 : i # 1 => g[i - 1] = f[i - 1]
    BY <2>2
  <2>5. \A i \in 1 .. n + 1 : new(i) = IF i = 1 THEN s[i] ELSE Then(g[i - 1], s[i])
    BY <2>4
  <2> HIDE DEF new
  <2>6. IsFlatten(s, g, n + 1)
    BY <2>3, <2>5 DEF IsFlatten
  <2> QED
    BY <2>6
<1> HIDE DEF S
<1>3. \A n \in Nat : n \in S
  BY <1>1, <1>2, SetInduction
<1> QED
  BY <1>3 DEF S

\* What FlattenSeq is, for at least one sequence.
LEMMA FlattenIs ==
    ASSUME NEW T, NEW s \in Seq(Seq(T)), s # <<>>
    PROVE  \E f : IsFlatten(s, f, Len(s)) /\ FlattenSeq(s) = f[Len(s)]
<1> DEFINE f == CHOOSE f : IsFlatten(s, f, Len(s))
<1>1. Len(s) \in Nat /\ Len(s) # 0
  OBVIOUS
<1>2. IsFlatten(s, f, Len(s))
  BY <1>1, FlattenExists
<1>3. FlattenSeq(s) = f[Len(s)]
  BY <1>1 DEF FlattenSeq, IsFlatten, Then
<1> QED
  BY <1>2, <1>3

\* No sequences.
LEMMA FlattenEmpty == FlattenSeq(<<>>) = <<>>
BY DEF FlattenSeq

\* Its values.
LEMMA FlattenSteps ==
    ASSUME NEW T, NEW s \in Seq(Seq(T)), NEW f, IsFlatten(s, f, Len(s))
    PROVE  /\ \A i \in 1 .. Len(s) : f[i] \in Seq(T)
           /\ Len(s) > 0 => f[1] = s[1]
           /\ \A i \in 1 .. Len(s) - 1 : f[i + 1] = Then(f[i], s[i + 1])
<1>0. Len(s) \in Nat /\ \A i \in 1 .. Len(s) : s[i] \in Seq(T)
  OBVIOUS
<1>1. \A i \in 1 .. Len(s) : f[i] = IF i = 1 THEN s[i] ELSE Then(f[i - 1], s[i])
  BY DEF IsFlatten
<1> DEFINE S == {n \in Nat : n > 0 /\ n <= Len(s) => f[n] \in Seq(T)}
<1>2. 0 \in S
  OBVIOUS
<1>3. ASSUME NEW n \in Nat, n \in S PROVE n + 1 \in S
  <2> SUFFICES ASSUME n + 1 <= Len(s) PROVE f[n + 1] \in Seq(T)
    OBVIOUS
  <2>1. CASE n = 0
    BY <1>0, <1>1, <2>1
  <2>2. CASE n > 0
    <3>1. f[n] \in Seq(T) /\ s[n + 1] \in Seq(T)
      BY <1>0, <1>3, <2>2
    <3>2. f[n + 1] = Then(f[n], s[n + 1])
      BY <1>0, <1>1, <2>2
    <3> QED
      BY <3>1, <3>2, ThenTyped
  <2> QED
    BY <2>1, <2>2
<1> HIDE DEF S
<1>4. \A n \in Nat : n \in S
  BY <1>2, <1>3, SetInduction
<1>5. \A i \in 1 .. Len(s) : f[i] \in Seq(T)
  BY <1>0, <1>4 DEF S
<1> QED
  BY <1>0, <1>1, <1>5

\* FlattenSeq of sequences over a set is one over it.
LEMMA FlattenTyped ==
    ASSUME NEW T, NEW s \in Seq(Seq(T))
    PROVE  FlattenSeq(s) \in Seq(T)
<1>1. CASE s = <<>>
  BY <1>1, FlattenEmpty, EmptySeq, Zenon
<1>2. CASE s # <<>>
  <2>1. PICK f : IsFlatten(s, f, Len(s)) /\ FlattenSeq(s) = f[Len(s)]
    BY <1>2, FlattenIs
  <2>2. Len(s) \in 1 .. Len(s)
    BY <1>2
  <2> QED
    BY <2>1, <2>2, FlattenSteps
<1> QED
  BY <1>1, <1>2

\* The first sequence, then the others.
LEMMA FlattenCons ==
    ASSUME NEW T, NEW s \in Seq(Seq(T)), s # <<>>
    PROVE  FlattenSeq(s) = Then(s[1], FlattenSeq(Tail(s)))
<1> DEFINE t == Tail(s)
<1>0. /\ Len(s) \in Nat \ {0} /\ s[1] \in Seq(T)
      /\ t \in Seq(Seq(T)) /\ Len(t) = Len(s) - 1
      /\ \A i \in 1 .. Len(t) : t[i] = s[i + 1] /\ t[i] \in Seq(T)
  OBVIOUS
<1> HIDE DEF t
<1>1. PICK f : IsFlatten(s, f, Len(s)) /\ FlattenSeq(s) = f[Len(s)]
  BY FlattenIs
<1>2. /\ f[1] = s[1] /\ \A i \in 1 .. Len(s) : f[i] \in Seq(T)
      /\ \A i \in 1 .. Len(s) - 1 : f[i + 1] = Then(f[i], s[i + 1])
  <2>1. Len(s) > 0
    BY <1>0
  <2> QED
    BY <1>1, <2>1, FlattenSteps
<1>3. CASE t = <<>>
  <2>1. Len(s) = 1
    BY <1>0, <1>3
  <2>2. Then(s[1], <<>>) = s[1]
    BY <1>0, ThenEmpty
  <2> QED
    BY <1>1, <1>2, <1>3, <2>1, <2>2, FlattenEmpty DEF t
<1>4. CASE t # <<>>
  <2>1. PICK g : IsFlatten(t, g, Len(t)) /\ FlattenSeq(t) = g[Len(t)]
    BY <1>0, <1>4, FlattenIs
  <2>2. /\ g[1] = t[1] /\ \A i \in 1 .. Len(t) : g[i] \in Seq(T)
        /\ \A i \in 1 .. Len(t) - 1 : g[i + 1] = Then(g[i], t[i + 1])
    <3>1. Len(t) > 0
      BY <1>0, <1>4
    <3> QED
      BY <1>0, <2>1, <3>1, FlattenSteps
  <2> DEFINE S == {n \in Nat : n > 0 /\ n <= Len(t) => f[n + 1] = Then(s[1], g[n])}
  <2>3. 0 \in S
    OBVIOUS
  <2>4. ASSUME NEW n \in Nat, n \in S PROVE n + 1 \in S
    <3> SUFFICES ASSUME n + 1 <= Len(t) PROVE f[(n + 1) + 1] = Then(s[1], g[n + 1])
      OBVIOUS
    <3>1. /\ n + 1 \in 1 .. Len(s) - 1 /\ n + 1 \in 1 .. Len(t)
          /\ t[n + 1] = s[(n + 1) + 1] /\ t[n + 1] \in Seq(T)
      BY <1>0
    <3>2. f[(n + 1) + 1] = Then(f[n + 1], t[n + 1])
      BY <1>2, <3>1
    <3>3. CASE n = 0
      BY <1>2, <2>2, <3>2, <3>3
    <3>4. CASE n > 0
      <4>1. f[n + 1] = Then(s[1], g[n])
        BY <2>4, <3>4
      <4>2. g[n] \in Seq(T) /\ g[n + 1] = Then(g[n], t[n + 1])
        BY <2>2, <3>4, <1>0
      <4> QED
        BY <1>0, <3>1, <3>2, <4>1, <4>2, ThenAssociative
    <3> QED
      BY <3>3, <3>4
  <2> HIDE DEF S
  <2>5. \A n \in Nat : n \in S
    BY <2>3, <2>4, SetInduction
  <2>6. Len(t) \in Nat /\ Len(t) > 0 /\ Len(s) = Len(t) + 1
    BY <1>0, <1>4
  <2>7. f[Len(t) + 1] = Then(s[1], g[Len(t)])
    BY <2>5, <2>6 DEF S
  <2> QED
    BY <1>1, <2>1, <2>6, <2>7 DEF t
<1> QED
  BY <1>3, <1>4

\* The alternatives from the i-th on.
LEMMA FlattenFrom ==
    ASSUME NEW T, NEW s \in Seq(Seq(T)), NEW i \in 1 .. Len(s)
    PROVE  FlattenSeq(SubSeq(s, i, Len(s))) = Then(s[i], FlattenSeq(SubSeq(s, i + 1, Len(s))))
<1> DEFINE t == SubSeq(s, i, Len(s))
<1>1. t \in Seq(Seq(T)) /\ t # <<>> /\ t[1] = s[i]
  <2>1. Len(s) \in Nat /\ i \in Int /\ Len(s) \in Int /\ i <= Len(s)
    OBVIOUS
  <2>2. /\ t \in Seq(Seq(T)) /\ Len(t) = Len(s) - i + 1
        /\ t[1] = s[i]
    BY <2>1, SubSeqProperties
  <2> HIDE DEF t
  <2>3. Len(t) > 0
    BY <2>1, <2>2
  <2> QED
    BY <2>2, <2>3
<1>2. Tail(t) = SubSeq(s, i + 1, Len(s))
  BY HeadTailOfSubSeq
<1> HIDE DEF t
<1>3. FlattenSeq(t) = Then(s[i], FlattenSeq(Tail(t)))
  BY <1>1, FlattenCons
<1> QED
  BY <1>2, <1>3, Zenon DEF t

\* What is at each place.
LEMMA ThenAt ==
    ASSUME NEW T, NEW s \in Seq(T), NEW t \in Seq(T), NEW i \in 1 .. Len(s) + Len(t)
    PROVE  Then(s, t)[i] = IF i <= Len(s) THEN s[i] ELSE t[i - Len(s)]
BY ConcatProperties DEF Then

\* The first of two sequences without its head, then the other.
LEMMA ThenTail ==
    ASSUME NEW T, NEW s \in Seq(T), s # <<>>, NEW t \in Seq(T)
    PROVE  /\ Then(s, t) \in Seq(T) /\ Then(s, t) # <<>> /\ Then(s, t)[1] = s[1]
           /\ Tail(Then(s, t)) = Then(Tail(s), t)
<1> DEFINE u == Then(s, t)
           v == Then(Tail(s), t)
<1>1. /\ Len(s) \in Nat /\ Len(s) > 0 /\ Len(t) \in Nat
      /\ Tail(s) \in Seq(T) /\ Len(Tail(s)) = Len(s) - 1
      /\ \A i \in 1 .. Len(s) - 1 : Tail(s)[i] = s[i + 1]
  BY HeadTailProperties
<1>2. u \in Seq(T) /\ Len(u) = Len(s) + Len(t)
  BY ConcatProperties DEF Then
<1>3. v \in Seq(T) /\ Len(v) = Len(s) - 1 + Len(t)
  BY <1>1, ConcatProperties DEF Then
<1>4. u[1] = s[1]
  <2>1. 1 \in 1 .. Len(s) + Len(t)
    BY <1>1
  <2> QED
    BY <1>1, <2>1, ThenAt
<1> HIDE DEF u
<1>5. /\ Tail(u) \in Seq(T) /\ Len(Tail(u)) = Len(s) - 1 + Len(t)
      /\ \A i \in 1 .. Len(Tail(u)) : Tail(u)[i] = u[i + 1]
  <2>1. Len(u) > 0
    BY <1>1, <1>2
  <2>2. u # <<>>
    BY <2>1
  <2> QED
    BY <1>1, <1>2, <2>2, HeadTailProperties
<1>6. ASSUME NEW i \in 1 .. Len(s) - 1 + Len(t) PROVE Tail(u)[i] = v[i]
  <2>1. Tail(u)[i] = u[i + 1]
    BY <1>5
  <2>2. u[i + 1] = IF i + 1 <= Len(s) THEN s[i + 1] ELSE t[i + 1 - Len(s)]
    <3>1. i + 1 \in 1 .. Len(s) + Len(t)
      BY <1>1
    <3> QED
      BY <3>1, ThenAt DEF u
  <2>3. v[i] = IF i <= Len(Tail(s)) THEN Tail(s)[i] ELSE t[i - Len(Tail(s))]
    <3>1. i \in 1 .. Len(Tail(s)) + Len(t)
      BY <1>1
    <3> QED
      BY <1>1, <3>1, ThenAt
  <2> HIDE DEF v
  <2>4. CASE i <= Len(s) - 1
    <3>1. i <= Len(Tail(s)) /\ i + 1 <= Len(s) /\ i \in 1 .. Len(s) - 1
      BY <1>1, <2>4
    <3>2. v[i] = Tail(s)[i] /\ u[i + 1] = s[i + 1]
      BY <2>2, <2>3, <2>4, <3>1
    <3> QED
      BY <1>1, <2>1, <3>1, <3>2
  <2>5. CASE i > Len(s) - 1
    <3>1. ~(i <= Len(Tail(s))) /\ ~(i + 1 <= Len(s)) /\ i - Len(Tail(s)) = i + 1 - Len(s)
      BY <1>1, <2>5
    <3>2. v[i] = t[i - Len(Tail(s))] /\ u[i + 1] = t[i + 1 - Len(s)]
      BY <2>2, <2>3, <3>1
    <3> QED
      BY <2>1, <3>1, <3>2
  <2>6. i <= Len(s) - 1 \/ i > Len(s) - 1
    BY <1>1
  <2> QED
    BY <2>4, <2>5, <2>6
<1> HIDE DEF v
<1>7. Tail(u) = v
  BY <1>3, <1>5, <1>6, SeqEqual
<1>8. u # <<>>
  <2>1. Len(u) > 0
    BY <1>1, <1>2
  <2> QED
    BY <2>1
<1> QED
  BY <1>2, <1>4, <1>7, <1>8 DEF u, v

\* Flattening two sequences of sequences, one after the other.
LEMMA FlattenThen ==
    ASSUME NEW T, NEW t \in Seq(Seq(T))
    PROVE  \A n \in Nat : \A s \in Seq(Seq(T)) :
             Len(s) = n => FlattenSeq(Then(s, t)) = Then(FlattenSeq(s), FlattenSeq(t))
<1> DEFINE S == {n \in Nat : \A s \in Seq(Seq(T)) :
                   Len(s) = n => FlattenSeq(Then(s, t)) = Then(FlattenSeq(s), FlattenSeq(t))}
<1>1. 0 \in S
  <2> SUFFICES ASSUME NEW s \in Seq(Seq(T)), Len(s) = 0
               PROVE  FlattenSeq(Then(s, t)) = Then(FlattenSeq(s), FlattenSeq(t))
    OBVIOUS
  <2>1. s = <<>>
    OBVIOUS
  <2>2. Then(s, t) = t
    BY <2>1, ThenEmpty
  <2>3. FlattenSeq(t) \in Seq(T)
    BY FlattenTyped
  <2>4. Then(<<>>, FlattenSeq(t)) = FlattenSeq(t)
    BY <2>3, ThenEmpty
  <2> QED
    BY <2>1, <2>2, <2>4, FlattenEmpty
<1>2. ASSUME NEW n \in Nat, n \in S PROVE n + 1 \in S
  <2> SUFFICES ASSUME NEW s \in Seq(Seq(T)), Len(s) = n + 1
               PROVE  FlattenSeq(Then(s, t)) = Then(FlattenSeq(s), FlattenSeq(t))
    OBVIOUS
  <2>1. s # <<>> /\ s[1] \in Seq(T) /\ Tail(s) \in Seq(Seq(T)) /\ Len(Tail(s)) = n
    OBVIOUS
  <2>2. /\ Then(s, t) \in Seq(Seq(T)) /\ Then(s, t) # <<>> /\ Then(s, t)[1] = s[1]
        /\ Tail(Then(s, t)) = Then(Tail(s), t)
    BY <2>1, ThenTail
  <2>3. FlattenSeq(Then(Tail(s), t)) = Then(FlattenSeq(Tail(s)), FlattenSeq(t))
    BY <1>2, <2>1
  <2>4. FlattenSeq(Tail(s)) \in Seq(T) /\ FlattenSeq(t) \in Seq(T)
    BY <2>1, FlattenTyped
  <2>5. FlattenSeq(Then(s, t)) = Then(s[1], FlattenSeq(Then(Tail(s), t)))
    BY <2>2, FlattenCons
  <2>6. FlattenSeq(s) = Then(s[1], FlattenSeq(Tail(s)))
    BY <2>1, FlattenCons
  <2> QED
    BY <2>1, <2>3, <2>4, <2>5, <2>6, ThenAssociative
<1> HIDE DEF S
<1>3. \A n \in Nat : n \in S
  BY <1>1, <1>2, SetInduction
<1> QED
  BY <1>3 DEF S

\* Empty sequences flatten to an empty one.
LEMMA FlattenEmpties ==
    ASSUME NEW T
    PROVE  \A n \in Nat : \A s \in Seq(Seq(T)) :
             Len(s) = n /\ (\A i \in 1 .. n : s[i] = <<>>) => FlattenSeq(s) = <<>>
<1> DEFINE S == {n \in Nat : \A s \in Seq(Seq(T)) :
             Len(s) = n /\ (\A i \in 1 .. n : s[i] = <<>>) => FlattenSeq(s) = <<>>}
<1>1. 0 \in S
  <2> SUFFICES ASSUME NEW s \in Seq(Seq(T)), Len(s) = 0 PROVE FlattenSeq(s) = <<>>
    OBVIOUS
  <2>1. s = <<>>
    OBVIOUS
  <2> QED
    BY <2>1, FlattenEmpty
<1>2. ASSUME NEW n \in Nat, n \in S PROVE n + 1 \in S
  <2> SUFFICES ASSUME NEW s \in Seq(Seq(T)), Len(s) = n + 1,
                      \A i \in 1 .. n + 1 : s[i] = <<>>
               PROVE  FlattenSeq(s) = <<>>
    OBVIOUS
  <2>1. /\ s # <<>> /\ s[1] = <<>> /\ Tail(s) \in Seq(Seq(T)) /\ Len(Tail(s)) = n
        /\ \A i \in 1 .. n : Tail(s)[i] = s[i + 1]
    OBVIOUS
  <2>2. \A i \in 1 .. n : Tail(s)[i] = <<>>
    BY <2>1
  <2>3. FlattenSeq(Tail(s)) = <<>>
    BY <1>2, <2>1, <2>2
  <2>4. FlattenSeq(s) = Then(<<>>, <<>>)
    BY <2>1, <2>3, FlattenCons
  <2>5. <<>> \in Seq(T)
    OBVIOUS
  <2> QED
    BY <2>4, <2>5, ThenEmpty
<1> HIDE DEF S
<1>3. \A n \in Nat : n \in S
  BY <1>1, <1>2, SetInduction
<1> QED
  BY <1>3 DEF S

\* The first l of a sequence, and those after them.
LEMMA PartOf ==
    ASSUME NEW T, NEW s \in Seq(T), NEW l \in 0 .. Len(s)
    PROVE  /\ SubSeq(s, 1, l) \in Seq(T) /\ Len(SubSeq(s, 1, l)) = l
           /\ \A i \in 1 .. l : SubSeq(s, 1, l)[i] = s[i]
OBVIOUS

\* The others.
LEMMA RestOf ==
    ASSUME NEW T, NEW s \in Seq(T), NEW l \in 0 .. Len(s)
    PROVE  LET r == SubSeq(s, l + 1, Len(s))
           IN  /\ r \in Seq(T) /\ Len(r) = Len(s) - l
               /\ \A i \in 1 .. Len(s) - l : r[i] = s[l + i]
<1> DEFINE n == Len(s)
           r == SubSeq(s, l + 1, n)
<1>1. n \in Nat /\ l \in Int /\ l + 1 \in Int /\ l <= n /\ n - (l + 1) + 1 = n - l
  OBVIOUS
<1>2. \A i \in l + 1 .. n : s[i] \in T
  OBVIOUS
<1> HIDE DEF n
<1>3. /\ r \in Seq(T) /\ Len(r) = IF l + 1 <= n THEN n - (l + 1) + 1 ELSE 0
      /\ \A i \in 1 .. n - (l + 1) + 1 : r[i] = s[l + 1 + i - 1]
  BY <1>1, <1>2, SubSeqProperties
<1> HIDE DEF r
<1>4. \A i \in 1 .. n - l : l + 1 + i - 1 = l + i
  BY <1>1
<1>5. Len(r) = n - l
  BY <1>1, <1>3
<1>6. \A i \in 1 .. n - l : r[i] = s[l + i]
  BY <1>1, <1>3, <1>4
<1> QED
  BY <1>3, <1>5, <1>6 DEF r, n

\* They make up the sequence.
LEMMA PartThenRest ==
    ASSUME NEW T, NEW s \in Seq(T), NEW l \in 0 .. Len(s)
    PROVE  s = Then(SubSeq(s, 1, l), SubSeq(s, l + 1, Len(s)))
<1> DEFINE n == Len(s)
           p == SubSeq(s, 1, l)
           z == SubSeq(s, l + 1, n)
<1>0. n \in Nat /\ l \in Nat /\ l <= n
  OBVIOUS
<1>1. p \in Seq(T) /\ Len(p) = l /\ \A i \in 1 .. l : p[i] = s[i]
  BY PartOf
<1>2. z \in Seq(T) /\ Len(z) = n - l /\ \A i \in 1 .. n - l : z[i] = s[l + i]
  BY RestOf
<1> HIDE DEF p, z
<1>3. Then(p, z) \in Seq(T) /\ Len(Then(p, z)) = n
  <2>1. Then(p, z) \in Seq(T) /\ Len(Then(p, z)) = Len(p) + Len(z)
    BY <1>1, <1>2, ConcatProperties DEF Then
  <2> QED
    BY <1>0, <1>1, <1>2, <2>1
<1>4. ASSUME NEW i \in 1 .. n PROVE Then(p, z)[i] = s[i]
  <2>1. i \in 1 .. Len(p) + Len(z)
    BY <1>0, <1>1, <1>2
  <2>2. Then(p, z)[i] = IF i <= Len(p) THEN p[i] ELSE z[i - Len(p)]
    BY <1>1, <1>2, <2>1, ThenAt
  <2>3. CASE i <= l
    BY <1>0, <1>1, <2>2, <2>3
  <2>4. CASE i > l
    <3>1. ~(i <= l) /\ i - l \in 1 .. n - l /\ l + (i - l) = i
      BY <1>0, <2>4
    <3> QED
      BY <1>1, <1>2, <2>2, <3>1
  <2>5. i <= l \/ i > l
    BY <1>0
  <2> QED
    BY <2>3, <2>4, <2>5
<1> HIDE DEF n
<1>5. Len(s) = n
  BY DEF n
<1>6. Then(p, z) = s
  BY <1>3, <1>4, <1>5, SeqEqual
<1> QED
  BY <1>6 DEF p, z, n

\* A set of numbers up to n has a last one.
LEMMA HasLast ==
    \A n \in Nat : \A R \in SUBSET (0 .. n) :
      0 \in R => \E x \in R : \A y \in R : x >= y
<1> DEFINE S == {n \in Nat : \A R \in SUBSET (0 .. n) :
                   0 \in R => \E x \in R : \A y \in R : x >= y}
<1>1. 0 \in S
  OBVIOUS
<1>2. ASSUME NEW n \in Nat, n \in S PROVE n + 1 \in S
  <2> SUFFICES ASSUME NEW R \in SUBSET (0 .. n + 1), 0 \in R
               PROVE  \E x \in R : \A y \in R : x >= y
    OBVIOUS
  <2>1. CASE n + 1 \in R
    BY <2>1
  <2>2. CASE n + 1 \notin R
    <3>1. R \in SUBSET (0 .. n)
      BY <2>2
    <3> QED
      BY <1>2, <3>1
  <2> QED
    BY <2>1, <2>2
<1> HIDE DEF S
<1>3. \A n \in Nat : n \in S
  BY <1>1, <1>2, SetInduction
<1> QED
  BY <1>3 DEF S

=============================================================================
