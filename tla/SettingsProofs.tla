---------------------------- MODULE SettingsProofs ----------------------------
(***************************************************************************)
(* Proofs about the settings: whatever the files hold and however they     *)
(* include each other, the tables made of them are those the hook and the  *)
(* scroll operators rely on; and the tray icon, with the menu to load them *)
(* again, is not lost.                                                     *)
(***************************************************************************)
EXTENDS Settings, Induction

-----------------------------------------------------------------------------
(* Looking up. *)

\* Numbers have a least one.
LEMMA MinIn ==
    ASSUME NEW S, S \subseteq Nat, S # {}
    PROVE  Min(S) \in S /\ \A y \in S : Min(S) <= y
<1> DEFINE R == {ss \in Nat \X Nat : ss[1] < ss[2]}
<1>1. IsWellFoundedOn(R, Nat)
  BY NatLessThanWellFounded DEF OpToRel
<1>2. PICK x \in S : \A y \in S : ~(<<y, x>> \in R)
  <2> HIDE DEF R
  <2> QED
    BY <1>1, WFMin
<1>3. ASSUME NEW y \in S PROVE x <= y
  <2>1. x \in Nat /\ y \in Nat /\ ~(<<y, x>> \in R)
    BY <1>2
  <2>2. <<y, x>> \in Nat \X Nat /\ <<y, x>>[1] = y /\ <<y, x>>[2] = x
    BY <2>1
  <2>3. ~(y < x)
    BY <2>1, <2>2
  <2> QED
    BY <2>1, <2>3
<1> QED
  BY <1>3 DEF Min

\* s_exp_assq_get: an entry with that key, 0 when there is none.
LEMMA EntryIs ==
    ASSUME NEW T, NEW entries \in Seq(T), NEW key
    PROVE  /\ EntryFor(entries, key) \in 0 .. Len(entries)
           /\ EntryFor(entries, key) # 0 => entries[EntryFor(entries, key)].key = key
           /\ EntryFor(entries, key) = 0 => \A i \in 1 .. Len(entries) : entries[i].key # key
<1> DEFINE n == Len(entries)
           S == {n + 1} \cup {i \in DOMAIN entries : entries[i].key = key}
           m == Min(S)
<1>1. n \in Nat /\ DOMAIN entries = 1 .. n
  OBVIOUS
<1>2. S \subseteq Nat /\ S # {}
  BY <1>1
<1>3. m \in S /\ \A y \in S : m <= y
  BY <1>2, MinIn
<1>4. m \in 1 .. n + 1 /\ (m # n + 1 => entries[m].key = key)
  BY <1>1, <1>3
<1>5. EntryFor(entries, key) = m % (n + 1)
  BY DEF EntryFor
<1>6. CASE m = n + 1
  <2>1. (n + 1) % (n + 1) = 0
    BY <1>1
  <2>2. \A i \in 1 .. n : entries[i].key # key
    <3> SUFFICES ASSUME NEW i \in 1 .. n, entries[i].key = key PROVE FALSE
      OBVIOUS
    <3>1. i \in S
      BY <1>1
    <3> QED
      BY <1>1, <1>3, <1>6, <3>1
  <2> HIDE DEF m, n
  <2> QED
    BY <1>1, <1>5, <1>6, <2>1, <2>2 DEF n
<1>7. CASE m # n + 1
  <2>0. m \in 1 .. n /\ entries[m].key = key
    BY <1>1, <1>4, <1>7
  <2> HIDE DEF m, n
  <2>1. m % (n + 1) = m
    BY <1>1, <2>0
  <2>2. m # 0
    BY <1>1, <2>0
  <2> QED
    BY <1>1, <1>5, <2>0, <2>1, <2>2 DEF n
<1> QED
  BY <1>6, <1>7

-----------------------------------------------------------------------------
(* Elements. *)

\* levels is the function Nested, as far as n.
NestedAt(levels, d) ==
  [key : Words \cup {Null}, val : Seq(Words),
   kids : IF d = 0 THEN {<<>>} ELSE Seq(levels[d - 1])]
IsNested(levels, n) == levels = [d \in 0 .. n |-> NestedAt(levels, d)]

\* There is such a function.
LEMMA NestedExists == \A n \in Nat : \E levels : IsNested(levels, n)
<1> DEFINE S == {n \in Nat : \E levels : IsNested(levels, n)}
<1>1. 0 \in S
  <2> DEFINE f == [d \in 0 .. 0 |-> NestedAt(<<>>, d)]
  <2>1. NestedAt(<<>>, 0) = NestedAt(f, 0)
    BY DEF NestedAt
  <2>2. IsNested(f, 0)
    BY <2>1 DEF IsNested
  <2> QED
    BY <2>2
<1>2. ASSUME NEW n \in Nat, n \in S PROVE n + 1 \in S
  <2>1. PICK f : IsNested(f, n)
    BY <1>2
  <2> DEFINE g == [d \in 0 .. n + 1 |-> NestedAt(f, d)]
  <2>2. \A d \in 0 .. n : g[d] = f[d]
    BY <2>1 DEF IsNested
  <2>3. g = [d \in 0 .. n + 1 |-> NestedAt(f, d)]
    OBVIOUS
  <2> HIDE DEF g
  <2>4. ASSUME NEW d \in 0 .. n + 1 PROVE NestedAt(f, d) = NestedAt(g, d)
    <3>1. d # 0 => g[d - 1] = f[d - 1]
      BY <2>2
    <3> QED
      BY <3>1 DEF NestedAt
  <2>5. IsNested(g, n + 1)
    BY <2>3, <2>4 DEF IsNested
  <2> QED
    BY <2>5
<1> HIDE DEF S
<1>3. \A n \in Nat : n \in S
  BY <1>1, <1>2, SetInduction
<1> QED
  BY <1>3 DEF S

\* What Nested is.
LEMMA NestedIs ==
    ASSUME NEW d \in 0 .. MaxDepth
    PROVE  Nested[d] = [key : Words \cup {Null}, val : Seq(Words),
                        kids : IF d = 0 THEN {<<>>} ELSE Seq(Nested[d - 1])]
<1>1. \E levels : IsNested(levels, MaxDepth)
  BY NestedExists, SettingsDataAssumption
<1>2. IsNested(Nested, MaxDepth)
  BY <1>1 DEF Nested, IsNested, NestedAt
<1>3. Nested[d] = NestedAt(Nested, d)
  BY <1>2 DEF IsNested
<1> QED
  BY <1>3 DEF NestedAt

\* An element of any depth.
Elements == UNION {Nested[d] : d \in 0 .. MaxDepth}

\* Its list is one of such elements.
LEMMA ElementsAre ==
    ASSUME NEW e \in Elements
    PROVE  /\ e.key \in Words \cup {Null} /\ e.val \in Seq(Words)
           /\ e.kids \in Seq(Elements)
<1>1. PICK d \in 0 .. MaxDepth : e \in Nested[d]
  BY DEF Elements
<1>2. /\ e.key \in Words \cup {Null} /\ e.val \in Seq(Words)
      /\ e.kids \in IF d = 0 THEN {<<>>} ELSE Seq(Nested[d - 1])
  <2> DEFINE K == IF d = 0 THEN {<<>>} ELSE Seq(Nested[d - 1])
  <2>1. e \in [key : Words \cup {Null}, val : Seq(Words), kids : K]
    BY <1>1, NestedIs
  <2> HIDE DEF K
  <2>2. e.key \in Words \cup {Null} /\ e.val \in Seq(Words) /\ e.kids \in K
    BY <2>1
  <2> QED
    BY <2>2 DEF K
<1>3. CASE d = 0
  <2>1. e.kids = <<>>
    BY <1>2, <1>3
  <2> QED
    BY <1>2, <2>1, EmptySeq
<1>4. CASE d # 0
  <2>1. d - 1 \in 0 .. MaxDepth
    BY <1>4, SettingsDataAssumption
  <2>2. Nested[d - 1] \subseteq Elements
    BY <2>1 DEF Elements
  <2>3. e.kids \in Seq(Nested[d - 1])
    BY <1>2, <1>4
  <2> QED
    BY <1>2, <2>2, <2>3, SeqMonotonic
<1> QED
  BY <1>3, <1>4

\* What s_exp_assq gives is an element, an empty one when there is none.
LEMMA AssqIs ==
    ASSUME NEW list \in Seq(Elements), NEW key
    PROVE  /\ Assq(list, key) \in Elements
           /\ \/ Assq(list, key) = Nothing
              \/ \E i \in 1 .. Len(list) : Assq(list, key) = list[i] /\ list[i].key = key
<1>1. Nothing \in Elements
  <2>1. 0 \in 0 .. MaxDepth
    BY SettingsDataAssumption
  <2>2. Nothing \in Nested[0]
    BY <2>1, NestedIs, EmptySeq DEF Nothing, Element
  <2> QED
    BY <2>1, <2>2 DEF Elements
<1>2. /\ EntryFor(list, key) \in 0 .. Len(list)
      /\ EntryFor(list, key) # 0 => list[EntryFor(list, key)].key = key
  BY EntryIs
<1>3. \A i \in 1 .. Len(list) : list[i] \in Elements
  BY ElementOfSeq
<1> QED
  BY <1>1, <1>2, <1>3 DEF Assq

-----------------------------------------------------------------------------
(* s_exp_massq. *)

\* reached is what the first n keys of a path lead to.
ReachedAt(reached, entries, path, k) ==
  IF k = 0 THEN Element(Null, <<>>, entries) ELSE Assq(reached[k - 1].kids, path[k])
IsReached(reached, entries, path, n) ==
  reached = [k \in 0 .. n |-> ReachedAt(reached, entries, path, k)]

\* There is such a function.
LEMMA ReachedExists ==
    ASSUME NEW entries, NEW path
    PROVE  \A n \in Nat : \E reached : IsReached(reached, entries, path, n)
<1> DEFINE S == {n \in Nat : \E reached : IsReached(reached, entries, path, n)}
<1>1. 0 \in S
  <2> DEFINE f == [k \in 0 .. 0 |-> ReachedAt(<<>>, entries, path, k)]
  <2>1. ReachedAt(<<>>, entries, path, 0) = ReachedAt(f, entries, path, 0)
    BY DEF ReachedAt
  <2>2. IsReached(f, entries, path, 0)
    BY <2>1 DEF IsReached
  <2> QED
    BY <2>2
<1>2. ASSUME NEW n \in Nat, n \in S PROVE n + 1 \in S
  <2>1. PICK f : IsReached(f, entries, path, n)
    BY <1>2
  <2> DEFINE g == [k \in 0 .. n + 1 |-> ReachedAt(f, entries, path, k)]
  <2>2. \A k \in 0 .. n : g[k] = f[k]
    BY <2>1 DEF IsReached
  <2>3. g = [k \in 0 .. n + 1 |-> ReachedAt(f, entries, path, k)]
    OBVIOUS
  <2> HIDE DEF g
  <2>4. ASSUME NEW k \in 0 .. n + 1
        PROVE  ReachedAt(f, entries, path, k) = ReachedAt(g, entries, path, k)
    <3>1. k # 0 => g[k - 1] = f[k - 1]
      BY <2>2
    <3> QED
      BY <3>1 DEF ReachedAt
  <2>5. IsReached(g, entries, path, n + 1)
    BY <2>3, <2>4 DEF IsReached
  <2> QED
    BY <2>5
<1> HIDE DEF S
<1>3. \A n \in Nat : n \in S
  BY <1>1, <1>2, SetInduction
<1> QED
  BY <1>3 DEF S

\* It is looked up one key after the other.
LEMMA MassqIs ==
    ASSUME NEW entries, NEW p, NEW q
    PROVE  /\ Massq(entries, <<p>>) = Assq(entries, p)
           /\ Massq(entries, <<p, q>>) = Assq(Assq(entries, p).kids, q)
<1>1. ASSUME NEW path, Len(path) \in Nat
      PROVE  \E reached : /\ IsReached(reached, entries, path, Len(path))
                          /\ Massq(entries, path) = reached[Len(path)]
  <2> DEFINE reached == CHOOSE reached : IsReached(reached, entries, path, Len(path))
  <2>1. IsReached(reached, entries, path, Len(path))
    BY <1>1, ReachedExists
  <2>2. Massq(entries, path) = reached[Len(path)]
    BY DEF Massq, IsReached, ReachedAt
  <2> QED
    BY <2>1, <2>2
<1>2. Element(Null, <<>>, entries).kids = entries
  BY DEF Element
<1>3. Massq(entries, <<p>>) = Assq(entries, p)
  <2>1. PICK r : IsReached(r, entries, <<p>>, 1) /\ Massq(entries, <<p>>) = r[1]
    <3>1. Len(<<p>>) = 1
      OBVIOUS
    <3> QED
      BY <1>1, <3>1
  <2>2. r[0] = ReachedAt(r, entries, <<p>>, 0) /\ r[1] = ReachedAt(r, entries, <<p>>, 1)
    BY <2>1 DEF IsReached
  <2> QED
    BY <1>2, <2>1, <2>2 DEF ReachedAt
<1>4. Massq(entries, <<p, q>>) = Assq(Assq(entries, p).kids, q)
  <2>1. PICK r : IsReached(r, entries, <<p, q>>, 2) /\ Massq(entries, <<p, q>>) = r[2]
    <3>1. Len(<<p, q>>) = 2
      OBVIOUS
    <3> QED
      BY <1>1, <3>1
  <2>2. /\ r[0] = ReachedAt(r, entries, <<p, q>>, 0)
        /\ r[1] = ReachedAt(r, entries, <<p, q>>, 1)
        /\ r[2] = ReachedAt(r, entries, <<p, q>>, 2)
    BY <2>1 DEF IsReached
  <2>3. r[1] = Assq(entries, p)
    BY <1>2, <2>2 DEF ReachedAt
  <2>4. r[2] = Assq(r[1].kids, q)
    BY <2>2 DEF ReachedAt
  <2> QED
    BY <2>1, <2>3, <2>4
<1> QED
  BY <1>3, <1>4

-----------------------------------------------------------------------------
(* merge_conf_data. *)

\* No key stands twice in a list, and in none of the lists that have a key.
OneName(list) ==
  \A i, j \in 1 .. Len(list) :
    list[i].key = list[j].key /\ list[i].key # Null => i = j

\* No key twice within a group.
GroupsClean(entries) ==
  \A i \in 1 .. Len(entries) : entries[i].key # Null => OneName(entries[i].kids)

\* An element in front, whose key is new.
LEMMA InFront ==
    ASSUME NEW T, NEW e \in T, NEW list \in Seq(T),
           e.key # Null => \A i \in 1 .. Len(list) : list[i].key # e.key
    PROVE  /\ Then(<<e>>, list) \in Seq(T)
           /\ Len(Then(<<e>>, list)) = Len(list) + 1 /\ Then(<<e>>, list)[1] = e
           /\ OneName(list) => OneName(Then(<<e>>, list))
           /\ GroupsClean(list) /\ (e.key # Null => OneName(e.kids))
                => GroupsClean(Then(<<e>>, list))
<1> DEFINE new == Then(<<e>>, list)
           n == Len(list)
<1>1. n \in Nat
  OBVIOUS
<1>2. <<e>> \in Seq(T) /\ Len(<<e>>) = 1 /\ <<e>>[1] = e
  OBVIOUS
<1>3. /\ new \in Seq(T) /\ Len(new) = n + 1 /\ new[1] = e
      /\ \A i \in 1 .. n + 1 : i # 1 => new[i] = list[i - 1]
  BY <1>1, <1>2, ConcatProperties DEF Then
<1> HIDE DEF new, n
<1>4. OneName(list) => OneName(new)
  <2> SUFFICES ASSUME OneName(list), NEW i \in 1 .. n + 1, NEW j \in 1 .. n + 1,
                      new[i].key = new[j].key, new[i].key # Null
               PROVE  i = j
    BY <1>3 DEF OneName
  <2>1. CASE i = 1 /\ j = 1
    BY <2>1
  <2>2. CASE i = 1 /\ j # 1
    <3>1. j - 1 \in 1 .. n /\ new[j] = list[j - 1] /\ new[i] = e
      BY <1>1, <1>3, <2>2
    <3> QED
      BY <3>1 DEF n
  <2>3. CASE i # 1 /\ j = 1
    <3>1. i - 1 \in 1 .. n /\ new[i] = list[i - 1] /\ new[j] = e
      BY <1>1, <1>3, <2>3
    <3> QED
      BY <3>1 DEF n
  <2>4. CASE i # 1 /\ j # 1
    <3>1. /\ i - 1 \in 1 .. n /\ new[i] = list[i - 1]
          /\ j - 1 \in 1 .. n /\ new[j] = list[j - 1]
      BY <1>1, <1>3, <2>4
    <3>2. i - 1 = j - 1
      BY <3>1 DEF OneName, n
    <3> QED
      BY <3>2, <1>1
  <2> QED
    BY <2>1, <2>2, <2>3, <2>4
<1>5. GroupsClean(list) /\ (e.key # Null => OneName(e.kids)) => GroupsClean(new)
  <2> SUFFICES ASSUME GroupsClean(list), e.key # Null => OneName(e.kids),
                      NEW i \in 1 .. n + 1, new[i].key # Null
               PROVE  OneName(new[i].kids)
    BY <1>3 DEF GroupsClean
  <2>1. CASE i = 1
    BY <1>3, <2>1
  <2>2. CASE i # 1
    <3>1. i - 1 \in 1 .. n /\ new[i] = list[i - 1]
      BY <1>1, <1>3, <2>2
    <3> QED
      BY <3>1 DEF GroupsClean, n
  <2> QED
    BY <2>1, <2>2
<1> QED
  BY <1>3, <1>4, <1>5 DEF new, n

\* An element that takes the place of one with its key.
LEMMA InPlace ==
    ASSUME NEW T, NEW list \in Seq(T), NEW at \in 1 .. Len(list), NEW e \in T,
           e.key = list[at].key
    PROVE  /\ [list EXCEPT ![at] = e] \in Seq(T)
           /\ OneName(list) => OneName([list EXCEPT ![at] = e])
           /\ GroupsClean(list) /\ (OneName(list[at].kids) => OneName(e.kids))
                => GroupsClean([list EXCEPT ![at] = e])
<1> DEFINE new == [list EXCEPT ![at] = e]
           n == Len(list)
<1>1. /\ new \in Seq(T) /\ Len(new) = n
      /\ \A i \in 1 .. n : new[i] = IF i = at THEN e ELSE list[i]
  OBVIOUS
<1> HIDE DEF new, n
<1>2. \A i \in 1 .. n : new[i].key = list[i].key
  BY <1>1
<1>3. OneName(list) => OneName(new)
  BY <1>1, <1>2 DEF OneName, n
<1>4. GroupsClean(list) /\ (OneName(list[at].kids) => OneName(e.kids))
        => GroupsClean(new)
  BY <1>1, <1>2 DEF GroupsClean, n
<1> QED
  BY <1>1, <1>3, <1>4 DEF new

\* kids is the list old once the first n of parts have been merged into it.
KidsAt(kids, inner, old, parts, k) ==
  IF k = 0 THEN old ELSE inner[<<kids[k - 1], parts[k]>>]
IsKids(kids, inner, old, parts, n) ==
  kids = [k \in 0 .. n |-> KidsAt(kids, inner, old, parts, k)]

\* There is such a function.
LEMMA KidsExist ==
    ASSUME NEW inner, NEW old, NEW parts
    PROVE  \A n \in Nat : \E kids : IsKids(kids, inner, old, parts, n)
<1> DEFINE S == {n \in Nat : \E kids : IsKids(kids, inner, old, parts, n)}
<1>1. 0 \in S
  <2> DEFINE f == [k \in 0 .. 0 |-> KidsAt(<<>>, inner, old, parts, k)]
  <2>1. KidsAt(<<>>, inner, old, parts, 0) = KidsAt(f, inner, old, parts, 0)
    BY DEF KidsAt
  <2>2. IsKids(f, inner, old, parts, 0)
    BY <2>1 DEF IsKids
  <2> QED
    BY <2>2
<1>2. ASSUME NEW n \in Nat, n \in S PROVE n + 1 \in S
  <2>1. PICK f : IsKids(f, inner, old, parts, n)
    BY <1>2
  <2> DEFINE g == [k \in 0 .. n + 1 |-> KidsAt(f, inner, old, parts, k)]
  <2>2. \A k \in 0 .. n : g[k] = f[k]
    BY <2>1 DEF IsKids
  <2>3. g = [k \in 0 .. n + 1 |-> KidsAt(f, inner, old, parts, k)]
    OBVIOUS
  <2> HIDE DEF g
  <2>4. ASSUME NEW k \in 0 .. n + 1
        PROVE  KidsAt(f, inner, old, parts, k) = KidsAt(g, inner, old, parts, k)
    <3>1. k # 0 => g[k - 1] = f[k - 1]
      BY <2>2
    <3> QED
      BY <3>1 DEF KidsAt
  <2>5. IsKids(g, inner, old, parts, n + 1)
    BY <2>3, <2>4 DEF IsKids
  <2> QED
    BY <2>5
<1> HIDE DEF S
<1>3. \A n \in Nat : n \in S
  BY <1>1, <1>2, SetInduction
<1> QED
  BY <1>3 DEF S

\* inner merges an element of S into a list of them, and adds no key twice.
Merges(inner, S) ==
  \A list \in Seq(S), e \in S :
    /\ inner[<<list, e>>] \in Seq(S)
    /\ OneName(list) => OneName(inner[<<list, e>>])

\* So do several, one after the other.
LEMMA KidsMerged ==
    ASSUME NEW S, NEW inner, Merges(inner, S), NEW old \in Seq(S),
           NEW parts \in Seq(S), NEW kids, IsKids(kids, inner, old, parts, Len(parts))
    PROVE  /\ kids[Len(parts)] \in Seq(S)
           /\ OneName(old) => OneName(kids[Len(parts)])
<1>1. \A k \in 0 .. Len(parts) : kids[k] = KidsAt(kids, inner, old, parts, k)
  BY DEF IsKids
<1>2. Len(parts) \in Nat /\ \A k \in 1 .. Len(parts) : parts[k] \in S
  OBVIOUS
<1> DEFINE Good(k) == kids[k] \in Seq(S) /\ (OneName(old) => OneName(kids[k]))
           N == {n \in Nat : n <= Len(parts) => Good(n)}
<1>3. 0 \in N
  <2>0. 0 \in 0 .. Len(parts)
    BY <1>2
  <2>1. kids[0] = old
    BY <1>1, <2>0 DEF KidsAt
  <2> QED
    BY <2>1
<1>4. ASSUME NEW n \in Nat, n \in N PROVE n + 1 \in N
  <2> SUFFICES ASSUME n + 1 <= Len(parts) PROVE Good(n + 1)
    OBVIOUS
  <2>1. Good(n) /\ parts[n + 1] \in S
    BY <1>2, <1>4
  <2>2. kids[n + 1] = KidsAt(kids, inner, old, parts, n + 1)
    BY <1>1, <1>2
  <2>3. kids[n + 1] = inner[<<kids[n], parts[n + 1]>>]
    <3>1. n + 1 # 0 /\ (n + 1) - 1 = n
      BY <1>4
    <3> QED
      BY <2>2, <3>1 DEF KidsAt
  <2> QED
    BY <2>1, <2>3 DEF Merges
<1> HIDE DEF N
<1>5. \A n \in Nat : n \in N
  BY <1>3, <1>4, SetInduction
<1> QED
  BY <1>2, <1>5 DEF N

\* One element into a list, inner merging the elements of its list if it has one.
LEMMA MergedWith ==
    ASSUME NEW d \in 0 .. MaxDepth, NEW inner, NEW entries \in Seq(Nested[d]),
           NEW part \in Nested[d], d # 0 => Merges(inner, Nested[d - 1])
    PROVE  /\ MergeWith(inner, entries, part) \in Seq(Nested[d])
           /\ OneName(entries) => OneName(MergeWith(inner, entries, part))
           /\ GroupsClean(entries) => GroupsClean(MergeWith(inner, entries, part))
<1> DEFINE T == Nested[d]
           KidLists == IF d = 0 THEN {<<>>} ELSE Seq(Nested[d - 1])
           known == EntryFor(entries, part.key)
           fresh == Element(part.key, <<>>, <<>>)
           all == IF known # 0 THEN entries ELSE Then(<<fresh>>, entries)
           at == Max({known, 1})
           kids == CHOOSE kids : IsKids(kids, inner, all[at].kids, part.kids, Len(part.kids))
           with == [all EXCEPT ![at].kids = kids[Len(part.kids)]]
<1>1. /\ T = [key : Words \cup {Null}, val : Seq(Words), kids : KidLists]
      /\ <<>> \in KidLists
  BY NestedIs, EmptySeq
<1>2. /\ known \in 0 .. Len(entries)
      /\ known # 0 => entries[known].key = part.key
      /\ known = 0 => \A i \in 1 .. Len(entries) : entries[i].key # part.key
  BY EntryIs
<1>3. MergeWith(inner, entries, part) =
        IF part.key = Null THEN Then(<<part>>, entries)
        ELSE IF part.kids = <<>> THEN [all EXCEPT ![at] = part] ELSE with
  BY DEF MergeWith, IsKids, KidsAt, Then
<1>4. OneName(<<>>)
  BY DEF OneName
<1> HIDE DEF KidLists, T
<1>5. /\ fresh \in T /\ fresh.key = part.key /\ fresh.kids = <<>>
      /\ part.key \in Words \cup {Null} /\ part.kids \in KidLists
  <2>1. part \in T
    BY DEF T
  <2>2. part.key \in Words \cup {Null} /\ part.kids \in KidLists
    BY <1>1, <2>1
  <2>3. <<>> \in Seq(Words)
    BY EmptySeq
  <2> QED
    BY <1>1, <2>2, <2>3 DEF Element
<1>6. CASE part.key = Null
  <2>1. part \in T /\ entries \in Seq(T)
    BY DEF T
  <2> HIDE DEF all, at, with
  <2> QED
    BY <1>3, <1>6, <2>1, InFront DEF T
<1>7. ASSUME part.key # Null
      PROVE  /\ all \in Seq(T) /\ at \in 1 .. Len(all) /\ all[at].key = part.key
             /\ OneName(entries) => OneName(all)
             /\ GroupsClean(entries) => GroupsClean(all) /\ OneName(all[at].kids)
  <2>0. entries \in Seq(T) /\ Len(entries) \in Nat
    BY DEF T
  <2>1. CASE known = 0
    <3>1. at = 1
      BY <2>1 DEF Max
    <3>2. /\ Then(<<fresh>>, entries) \in Seq(T)
          /\ Len(Then(<<fresh>>, entries)) = Len(entries) + 1
          /\ Then(<<fresh>>, entries)[1] = fresh
          /\ OneName(entries) => OneName(Then(<<fresh>>, entries))
          /\ GroupsClean(entries) => GroupsClean(Then(<<fresh>>, entries))
      <4> HIDE DEF fresh, known
      <4> QED
        BY <1>2, <1>4, <1>5, <2>0, <2>1, InFront
    <3>3. all = Then(<<fresh>>, entries)
      BY <2>1
    <3> HIDE DEF all, fresh, known, at
    <3> QED
      BY <1>4, <1>5, <2>0, <3>1, <3>2, <3>3
  <2>2. CASE known # 0
    <3>1. known \in 1 .. Len(entries)
      BY <1>2, <2>0, <2>2
    <3>2. at = known /\ all = entries
      <4> HIDE DEF known
      <4> QED
        BY <2>0, <2>2, <3>1 DEF Max
    <3>3. entries[known].key = part.key
      BY <1>2, <2>2
    <3> HIDE DEF all, fresh, known, at
    <3> QED
      BY <1>7, <2>0, <3>1, <3>2, <3>3 DEF GroupsClean
  <2> QED
    BY <2>1, <2>2
<1>8. CASE part.key # Null /\ part.kids = <<>>
  <2>1. part \in T
    BY DEF T
  <2>2. MergeWith(inner, entries, part) = [all EXCEPT ![at] = part]
    BY <1>3, <1>8
  <2> HIDE DEF all, at, with, fresh, known
  <2>3. /\ all \in Seq(T) /\ at \in 1 .. Len(all) /\ part.key = all[at].key
        /\ OneName(part.kids)
    BY <1>4, <1>7, <1>8
  <2>4. /\ [all EXCEPT ![at] = part] \in Seq(T)
        /\ OneName(all) => OneName([all EXCEPT ![at] = part])
        /\ GroupsClean(all) => GroupsClean([all EXCEPT ![at] = part])
    BY <2>1, <2>3, InPlace
  <2> QED
    BY <1>7, <1>8, <2>2, <2>4 DEF T
<1>9. CASE part.key # Null /\ part.kids # <<>>
  <2>1. d # 0 /\ KidLists = Seq(Nested[d - 1])
    BY <1>5, <1>9 DEF KidLists
  <2>2. MergeWith(inner, entries, part) = with
    BY <1>3, <1>9
  <2> DEFINE old == all[at]
             e == [old EXCEPT !.kids = kids[Len(part.kids)]]
  <2>3. old \in T /\ old.kids \in KidLists
    <3> HIDE DEF all, at, fresh, known, kids
    <3>1. old \in T
      BY <1>7, <1>9, ElementOfSeq
    <3> QED
      BY <1>1, <3>1
  <2>4. IsKids(kids, inner, all[at].kids, part.kids, Len(part.kids))
    <3> HIDE DEF all, at, fresh, known
    <3>1. Len(part.kids) \in Nat
      BY <1>5, <2>1
    <3> QED
      BY <3>1, KidsExist
  <2> HIDE DEF all, at, fresh, known, kids
  <2>5. /\ kids[Len(part.kids)] \in KidLists
        /\ OneName(old.kids) => OneName(kids[Len(part.kids)])
    BY <1>5, <2>1, <2>3, <2>4, KidsMerged
  <2>6. with = [all EXCEPT ![at] = e]
    BY <1>7, <1>9
  <2>7. e \in T /\ e.key = old.key /\ e.kids = kids[Len(part.kids)]
    <3> HIDE DEF old
    <3> QED
      BY <1>1, <2>3, <2>5
  <2>8. /\ all \in Seq(T) /\ at \in 1 .. Len(all) /\ e.key = all[at].key
        /\ OneName(all[at].kids) => OneName(e.kids)
    BY <1>7, <1>9, <2>5, <2>7
  <2> HIDE DEF e, with
  <2>9. /\ [all EXCEPT ![at] = e] \in Seq(T)
        /\ OneName(all) => OneName([all EXCEPT ![at] = e])
        /\ GroupsClean(all) => GroupsClean([all EXCEPT ![at] = e])
    BY <2>7, <2>8, InPlace
  <2> QED
    BY <1>7, <1>9, <2>2, <2>6, <2>9 DEF T
<1> QED
  BY <1>6, <1>8, <1>9

\* levels is the function Merging, as far as n.
MergeTable(inner, d) ==
  [merge \in Seq(Nested[d]) \X Nested[d] |-> MergeWith(inner, merge[1], merge[2])]
MergingAt(levels, d) == MergeTable(IF d = 0 THEN <<>> ELSE levels[d - 1], d)
IsMerging(levels, n) == levels = [d \in 0 .. n |-> MergingAt(levels, d)]

\* There is such a function.
LEMMA MergingExists == \A n \in Nat : \E levels : IsMerging(levels, n)
<1> DEFINE S == {n \in Nat : \E levels : IsMerging(levels, n)}
<1>1. 0 \in S
  <2> DEFINE f == [d \in 0 .. 0 |-> MergingAt(<<>>, d)]
  <2>1. MergingAt(<<>>, 0) = MergingAt(f, 0)
    BY DEF MergingAt
  <2>2. IsMerging(f, 0)
    BY <2>1 DEF IsMerging
  <2> QED
    BY <2>2
<1>2. ASSUME NEW n \in Nat, n \in S PROVE n + 1 \in S
  <2>1. PICK f : IsMerging(f, n)
    BY <1>2
  <2> DEFINE g == [d \in 0 .. n + 1 |-> MergingAt(f, d)]
  <2>2. \A d \in 0 .. n : g[d] = f[d]
    BY <2>1 DEF IsMerging
  <2>3. g = [d \in 0 .. n + 1 |-> MergingAt(f, d)]
    OBVIOUS
  <2> HIDE DEF g
  <2>4. ASSUME NEW d \in 0 .. n + 1 PROVE MergingAt(f, d) = MergingAt(g, d)
    <3>1. d # 0 => g[d - 1] = f[d - 1]
      BY <2>2
    <3> QED
      BY <3>1 DEF MergingAt
  <2>5. IsMerging(g, n + 1)
    BY <2>3, <2>4 DEF IsMerging
  <2> QED
    BY <2>5
<1> HIDE DEF S
<1>3. \A n \in Nat : n \in S
  BY <1>1, <1>2, SetInduction
<1> QED
  BY <1>3 DEF S

\* What Merging is.
LEMMA MergingIs ==
    ASSUME NEW d \in 0 .. MaxDepth, NEW entries \in Seq(Nested[d]), NEW part \in Nested[d]
    PROVE  Merging[d][<<entries, part>>]
             = MergeWith(IF d = 0 THEN <<>> ELSE Merging[d - 1], entries, part)
<1>1. \E levels : IsMerging(levels, MaxDepth)
  BY MergingExists, SettingsDataAssumption
<1>2. IsMerging(Merging, MaxDepth)
  BY <1>1 DEF Merging, IsMerging, MergingAt, MergeTable
<1> DEFINE inner == IF d = 0 THEN <<>> ELSE Merging[d - 1]
<1>3. Merging[d] = MergeTable(inner, d)
  BY <1>2 DEF IsMerging, MergingAt
<1> HIDE DEF inner
<1>4. MergeTable(inner, d)[<<entries, part>>] = MergeWith(inner, entries, part)
  BY DEF MergeTable
<1> QED
  BY <1>3, <1>4 DEF inner

\* At any depth it gives data of that depth, and adds no key twice.
LEMMA MergingMerges == \A d \in 0 .. MaxDepth : Merges(Merging[d], Nested[d])
<1> DEFINE S == {d \in Nat : d <= MaxDepth => Merges(Merging[d], Nested[d])}
<1>0. MaxDepth \in Nat
  BY SettingsDataAssumption
<1>1. 0 \in S
  <2>1. 0 \in 0 .. MaxDepth
    BY <1>0
  <2>2. ASSUME NEW entries \in Seq(Nested[0]), NEW part \in Nested[0]
        PROVE  /\ Merging[0][<<entries, part>>] \in Seq(Nested[0])
               /\ OneName(entries) => OneName(Merging[0][<<entries, part>>])
    BY <2>1, MergingIs, MergedWith
  <2> QED
    BY <2>2 DEF Merges
<1>2. ASSUME NEW n \in Nat, n \in S PROVE n + 1 \in S
  <2> SUFFICES ASSUME n + 1 <= MaxDepth PROVE Merges(Merging[n + 1], Nested[n + 1])
    OBVIOUS
  <2>1. n + 1 \in 0 .. MaxDepth /\ n + 1 # 0 /\ (n + 1) - 1 = n
    BY <1>0
  <2>2. Merges(Merging[n], Nested[n])
    BY <1>0, <1>2
  <2>3. ASSUME NEW entries \in Seq(Nested[n + 1]), NEW part \in Nested[n + 1]
        PROVE  /\ Merging[n + 1][<<entries, part>>] \in Seq(Nested[n + 1])
               /\ OneName(entries) => OneName(Merging[n + 1][<<entries, part>>])
    <3>1. Merging[n + 1][<<entries, part>>] = MergeWith(Merging[n], entries, part)
      BY <2>1, MergingIs
    <3> QED
      BY <2>1, <2>2, <3>1, MergedWith
  <2> QED
    BY <2>3 DEF Merges
<1> HIDE DEF S
<1>3. \A n \in Nat : n \in S
  BY <1>1, <1>2, SetInduction
<1> QED
  BY <1>0, <1>3 DEF S

\* Merging the elements of the files leaves no key twice within a group.
LEMMA MergeClean ==
    ASSUME NEW entries \in Seq(Nested[MaxDepth]), NEW part \in Nested[MaxDepth]
    PROVE  /\ Merge(entries, part) \in Seq(Nested[MaxDepth])
           /\ GroupsClean(entries) => GroupsClean(Merge(entries, part))
<1> DEFINE m == MaxDepth
<1>1. m \in 0 .. MaxDepth /\ (m # 0 => m - 1 \in 0 .. MaxDepth)
  BY SettingsDataAssumption
<1> DEFINE inner == IF m = 0 THEN <<>> ELSE Merging[m - 1]
<1>2. m # 0 => Merges(inner, Nested[m - 1])
  BY <1>1, MergingMerges
<1>3. Merge(entries, part) = MergeWith(inner, entries, part)
  BY <1>1, MergingIs DEF Merge
<1> HIDE DEF inner
<1> QED
  BY <1>1, <1>2, <1>3, MergedWith

-----------------------------------------------------------------------------
(* The tables. *)

\* An action leads to one of n normal modes or k scroll modes, if to a mode.
Leads(a, n, k) ==
  /\ a.code = "normal-mode" => a.to \in 1 .. n
  /\ a.code = "scroll-mode" => a.to \in 1 .. k

\* Combinations are entered for both buttons, which are enabled then.
ForBoth(comb, enabled) ==
  \A s \in {"d", "u"}, x, y \in Btn :
    /\ comb[s, x, y] = comb[s, y, x]
    /\ comb[s, x, y] # NOTHING => {x, y} \subseteq enabled
    /\ comb[s, x, x] = NOTHING

\* A mode's table of n normal modes and k scroll modes.
GoodTable(m, n, k) ==
  /\ \A a \in Range(m.act) \cup Range(m.comb) : Leads(a, n, k)
  /\ ForBoth(m.comb, m.enabled)

\* What the actions of a mode are looked up in.
Lists(t) ==
  /\ t.normal \in Seq(Elements) /\ t.scroll \in Seq(Elements)
  /\ t.initial \in 1 .. Len(t.normal)

\* An action that names a mode is invalid when there is none of that name.
LEMMA ActionLeads ==
    ASSUME NEW t, Lists(t), NEW words
    PROVE  Leads(ButtonAct(words, t), Len(t.normal), Len(t.scroll))
<1> DEFINE n == Len(words)
           name == IF n >= 2 THEN words[2] ELSE Null
           modes == IF words[1] = "normal-mode" THEN t.normal ELSE t.scroll
           i == ModePtr(modes, name)
           a == ButtonAct(words, t)
<1>1. /\ Invalid.code = "invalid" /\ NOTHING.code = "NOTHING"
      /\ \A c, x : Act(c, x).code = c /\ Act(c, x).to = x
  BY DEF Invalid, NOTHING, Act
<1>2. i \in 0 .. Len(modes)
  <2>1. modes \in Seq(Elements)
    BY DEF Lists
  <2> HIDE DEF modes, name
  <2> QED
    BY <2>1, EntryIs DEF ModePtr
<1>3. CASE n = 0
  BY <1>1, <1>3 DEF ButtonAct, Leads
<1>4. CASE n # 0 /\ words[1] \in {"normal-mode", "scroll-mode"} /\ n > 1
  <2>1. a = IF i = 0 THEN Invalid ELSE Act(words[1], i)
    BY <1>4 DEF ButtonAct
  <2>2. CASE i = 0
    BY <1>1, <2>1, <2>2 DEF Leads
  <2>3. CASE i # 0
    <3>1. a.code = words[1] /\ a.to = i
      BY <1>1, <2>1, <2>3
    <3>2. i \in 1 .. Len(modes)
      <4> HIDE DEF i, modes
      <4>1. i \in Int /\ i >= 0 /\ i <= Len(modes)
        BY <1>2
      <4> QED
        BY <2>3, <4>1
    <3>3. words[1] = "normal-mode" => i \in 1 .. Len(t.normal)
      BY <3>2
    <3>4. words[1] = "scroll-mode" => i \in 1 .. Len(t.scroll)
      BY <3>2
    <3> HIDE DEF i
    <3> QED
      BY <3>1, <3>3, <3>4 DEF Leads
  <2> QED
    BY <2>2, <2>3
<1>5. CASE n # 0 /\ words[1] = "normal-mode" /\ n = 1
  <2>1. a = Act("normal-mode", t.initial)
    BY <1>5 DEF ButtonAct
  <2> QED
    BY <1>1, <2>1 DEF Leads, Lists
<1>6. CASE n # 0 /\ ~(words[1] \in {"normal-mode", "scroll-mode"} /\ n > 1)
           /\ ~(words[1] = "normal-mode" /\ n = 1)
  <2>1. \/ a = Invalid
        \/ a = NOTHING
        \/ words[1] \in {"button-d", "button-u", "set-scroll-ratio", "mul-scroll-ratio"}
           /\ \E x : a = Act(words[1], x)
    BY <1>6 DEF ButtonAct
  <2> QED
    BY <1>1, <2>1 DEF Leads
<1> QED
  BY <1>3, <1>4, <1>5, <1>6

\* So the tables of a mode are good ones, whatever is configured for it.
LEMMA TableGood ==
    ASSUME NEW t, Lists(t), NEW mode, NEW default \in BOOLEAN
    PROVE  GoodTable(ModeTable(mode, t, default), Len(t.normal), Len(t.scroll))
<1> DEFINE Conf(s, n, m) == Configured(mode, s, n, m, t)
           Own(s, n) ==
             IF Conf(s, n, n) # Invalid THEN Conf(s, n, n)
             ELSE IF default THEN Act(IF s = "d" THEN "button-d" ELSE "button-u", n)
             ELSE NOTHING
           Comb(s, n, m) == IF n = m \/ Conf(s, n, m) = Invalid THEN NOTHING ELSE Conf(s, n, m)
           act == [e \in {"d", "u"} \X Btn |-> Own(e[1], e[2])]
           comb == [e \in {"d", "u"} \X Btn \X Btn |-> Comb(e[1], e[2], e[3])]
           enabled == {n \in Btn : \E s \in {"d", "u"}, m \in Btn : Comb(s, n, m) # NOTHING}
           table == ModeTable(mode, t, default)
           Good(a) == Leads(a, Len(t.normal), Len(t.scroll))
<1>1. table.act = act /\ table.comb = comb /\ table.enabled = enabled
  BY DEF ModeTable
<1>2. \A s, n, m : Good(Conf(s, n, m)) /\ Conf(s, n, m) = Conf(s, m, n)
  <2>1. \A words : Good(ButtonAct(words, t))
    BY ActionLeads
  <2>2. Good(Invalid)
    BY DEF Leads, Invalid, Act
  <2>3. \A n, m : {n, m} = {m, n}
    OBVIOUS
  <2>4. \A s, n, m : Good(Conf(s, n, m))
    <3> HIDE DEF Good
    <3> QED
      BY <2>1, <2>2 DEF Configured
  <2>5. \A s, n, m : Conf(s, n, m) = Conf(s, m, n)
    BY <2>3 DEF Configured
  <2> QED
    BY <2>4, <2>5
<1>3. Good(NOTHING) /\ \A c \in {"button-d", "button-u"} : \A n : Good(Act(c, n))
  BY DEF Leads, NOTHING, Act
<1> HIDE DEF Conf, Good, table
<1>4. (\A s, n : Good(Own(s, n))) /\ \A s, n, m : Good(Comb(s, n, m))
  BY <1>2, <1>3
<1>5. \A s, n, m : Comb(s, n, m) = Comb(s, m, n) /\ Comb(s, n, n) = NOTHING
  BY <1>2
<1> HIDE DEF Own, Comb
<1>6. \A a \in Range(act) \cup Range(comb) : Good(a)
  <2>1. \A e \in {"d", "u"} \X Btn : Good(act[e])
    BY <1>4
  <2>2. \A e \in {"d", "u"} \X Btn \X Btn : Good(comb[e])
    BY <1>4
  <2>3. DOMAIN act = {"d", "u"} \X Btn /\ DOMAIN comb = {"d", "u"} \X Btn \X Btn
    OBVIOUS
  <2> HIDE DEF act, comb
  <2> QED
    BY <2>1, <2>2, <2>3 DEF Range
<1>7. \A s \in {"d", "u"}, x, y \in Btn : comb[s, x, y] = Comb(s, x, y)
  OBVIOUS
<1> HIDE DEF comb
<1>8. \A s \in {"d", "u"}, x, y \in Btn :
        Comb(s, x, y) # NOTHING => {x, y} \subseteq enabled
  BY <1>5
<1>9. ForBoth(comb, enabled)
  <2> SUFFICES ASSUME NEW s \in {"d", "u"}, NEW x \in Btn, NEW y \in Btn
               PROVE  /\ comb[s, x, y] = comb[s, y, x]
                      /\ comb[s, x, y] # NOTHING => {x, y} \subseteq enabled
                      /\ comb[s, x, x] = NOTHING
    BY DEF ForBoth
  <2>1. /\ comb[s, x, y] = Comb(s, x, y) /\ comb[s, y, x] = Comb(s, y, x)
        /\ comb[s, x, x] = Comb(s, x, x)
    BY <1>7
  <2> HIDE DEF enabled
  <2> QED
    BY <1>5, <1>8, <2>1
<1>10. GoodTable(table, Len(t.normal), Len(t.scroll))
  BY <1>1, <1>6, <1>9 DEF GoodTable, Good
<1> QED
  BY <1>10 DEF table

\* get_conf_list gives elements.
LEMMA ItemsTyped ==
    ASSUME NEW e \in Elements
    PROVE  Items(e) \in Seq(Elements)
<1> DEFINE words == [i \in DOMAIN e.val |-> Element(Null, <<e.val[i]>>, <<>>)]
<1>1. e.val \in Seq(Words) /\ e.kids \in Seq(Elements)
  BY ElementsAre
<1>2. ASSUME NEW w \in Words PROVE Element(Null, <<w>>, <<>>) \in Elements
  <2>1. 0 \in 0 .. MaxDepth
    BY SettingsDataAssumption
  <2>2. Element(Null, <<w>>, <<>>) \in Nested[0]
    <3>1. <<w>> \in Seq(Words)
      OBVIOUS
    <3> QED
      BY <2>1, <3>1, NestedIs DEF Element
  <2> QED
    BY <2>1, <2>2 DEF Elements
<1>3. words \in Seq(Elements)
  <2>1. Len(e.val) \in Nat /\ DOMAIN e.val = 1 .. Len(e.val)
    BY <1>1
  <2>2. \A i \in 1 .. Len(e.val) : e.val[i] \in Words
    BY <1>1
  <2>3. words = [i \in 1 .. Len(e.val) |-> Element(Null, <<e.val[i]>>, <<>>)]
    BY <2>1
  <2>4. words \in [1 .. Len(e.val) -> Elements]
    BY <1>2, <2>2, <2>3
  <2> HIDE DEF words
  <2> QED
    BY <2>1, <2>4, SeqDef
<1>4. Items(e) = Then(e.kids, words)
  BY DEF Items, Then
<1> HIDE DEF words
<1> QED
  BY <1>1, <1>3, <1>4, ThenTyped

\* The tables of a list of modes.
TablesFor(t) == {ModeTable(e, t, d) : e \in Elements, d \in BOOLEAN}
\* The tables of a list of modes.
TablesOf(list, t, default) == [i \in DOMAIN list |-> ModeTable(list[i], t, default)]

\* They are a list as long.
LEMMA TablesTyped ==
    ASSUME NEW list \in Seq(Elements), NEW t, NEW default \in BOOLEAN
    PROVE  /\ TablesOf(list, t, default) \in Seq(TablesFor(t))
           /\ Len(TablesOf(list, t, default)) = Len(list)
<1> DEFINE T == TablesFor(t)
           tables == TablesOf(list, t, default)
<1>1. Len(list) \in Nat /\ DOMAIN list = 1 .. Len(list)
  OBVIOUS
<1>2. \A i \in 1 .. Len(list) : list[i] \in Elements
  OBVIOUS
<1>3. tables = [i \in 1 .. Len(list) |-> ModeTable(list[i], t, default)]
  BY <1>1 DEF TablesOf
<1>4. tables \in [1 .. Len(list) -> T]
  BY <1>2, <1>3 DEF TablesFor
<1> HIDE DEF tables, T
<1>5. tables \in Seq(T)
  BY <1>1, <1>4, SeqDef
<1>6. Len(tables) = Len(list)
  BY <1>1, <1>4, <1>5
<1> QED
  BY <1>5, <1>6 DEF tables, T

\* The tables of all modes.
Usable(t) ==
  /\ t.initial \in DOMAIN t.normal
  /\ DOMAIN t.normal = 1 .. Len(t.normal) /\ DOMAIN t.scroll = 1 .. Len(t.scroll)
  /\ \A m \in Range(t.normal \o t.scroll) : GoodTable(m, Len(t.normal), Len(t.scroll))

\* Two lists of such tables are usable.
LEMMA BothUsable ==
    ASSUME NEW T, NEW t, t.normal \in Seq(T), t.scroll \in Seq(T),
           t.initial \in 1 .. Len(t.normal),
           \A m \in T : GoodTable(m, Len(t.normal), Len(t.scroll))
    PROVE  Usable(t)
<1> DEFINE normal == t.normal
           scroll == t.scroll
           both == Then(normal, scroll)
<1>1. both \in Seq(T)
  BY ThenTyped
<1> HIDE DEF both
<1>2. Range(both) \subseteq T
  BY <1>1, ElementOfSeq DEF Range
<1>3. \A m \in Range(t.normal \o t.scroll) : GoodTable(m, Len(normal), Len(scroll))
  BY <1>2 DEF both, Then
<1>4. DOMAIN normal = 1 .. Len(normal) /\ DOMAIN scroll = 1 .. Len(scroll)
  OBVIOUS
<1> QED
  BY <1>3, <1>4 DEF Usable

\* The table there is without normal modes passes every event on.
LEMMA DefaultGood == GoodTable(DefaultTable, 1, 0)
<1> DEFINE act == [e \in {"d", "u"} \X Btn |->
                     Act(IF e[1] = "d" THEN "button-d" ELSE "button-u", e[2])]
           comb == [e \in {"d", "u"} \X Btn \X Btn |-> NOTHING]
<1>1. /\ DefaultTable.act = act /\ DefaultTable.comb = comb
      /\ DefaultTable.enabled = {}
  BY DEF DefaultTable
<1>2. Leads(NOTHING, 1, 0) /\ \A c \in {"button-d", "button-u"} : \A n : Leads(Act(c, n), 1, 0)
  BY DEF Leads, NOTHING, Act
<1>3. \A a \in Range(act) \cup Range(comb) : Leads(a, 1, 0)
  <2>1. \A e \in {"d", "u"} \X Btn : Leads(act[e], 1, 0)
    BY <1>2
  <2>2. \A e \in {"d", "u"} \X Btn \X Btn : Leads(comb[e], 1, 0)
    BY <1>2
  <2>3. DOMAIN act = {"d", "u"} \X Btn /\ DOMAIN comb = {"d", "u"} \X Btn \X Btn
    OBVIOUS
  <2> HIDE DEF act, comb
  <2> QED
    BY <2>1, <2>2, <2>3 DEF Range
<1>4. \A s \in {"d", "u"}, x, y \in Btn : comb[s, x, y] = NOTHING
  OBVIOUS
<1> HIDE DEF act, comb
<1>5. ForBoth(comb, {})
  <2> SUFFICES ASSUME NEW s \in {"d", "u"}, NEW x \in Btn, NEW y \in Btn
               PROVE  /\ comb[s, x, y] = comb[s, y, x]
                      /\ comb[s, x, y] # NOTHING => {x, y} \subseteq {}
                      /\ comb[s, x, x] = NOTHING
    BY DEF ForBoth
  <2> QED
    BY <1>4
<1> QED
  BY <1>1, <1>3, <1>5 DEF GoodTable

\* apply_mode_conf makes usable tables of whatever has been merged.
LEMMA ModeTablesUsable ==
    ASSUME NEW d \in Seq(Nested[MaxDepth]), ModeTables(d).ok
    PROVE  Usable(ModeTables(d))
<1> DEFINE normal == Items(Massq(d, <<"normal-mode">>))
           scroll == Items(Massq(d, <<"scroll-mode">>))
           named == Massq(d, <<"global", "initial-mode">>)
           found == IF Len(named.val) = 1 THEN ModePtr(normal, named.val[1]) ELSE 0
           initial == Max({found, 1})
           t == [normal |-> normal, scroll |-> scroll, initial |-> initial]
           T == TablesFor(t)
<1>1. normal \in Seq(Elements) /\ scroll \in Seq(Elements)
  <2>1. d \in Seq(Elements)
    <3>1. Nested[MaxDepth] \subseteq Elements
      <4>1. MaxDepth \in 0 .. MaxDepth
        BY SettingsDataAssumption
      <4> QED
        BY <4>1 DEF Elements
    <3> QED
      BY <3>1, SeqMonotonic
  <2>2. \A p : Assq(d, p) \in Elements
    BY <2>1, AssqIs
  <2> QED
    BY <2>2, MassqIs, ItemsTyped
<1>2. ModeTables(d) =
        IF normal = <<>>
        THEN [ok |-> TRUE, initial |-> 1, normal |-> <<DefaultTable>>, scroll |-> <<>>]
        ELSE IF \E e \in Range(normal \o scroll) : ~NamesAMode(e)
        THEN [ok |-> FALSE, initial |-> Null, normal |-> <<>>, scroll |-> <<>>]
        ELSE [ok |-> TRUE, initial |-> initial,
              normal |-> TablesOf(normal, t, TRUE), scroll |-> TablesOf(scroll, t, FALSE)]
  BY DEF ModeTables, TablesOf
<1> HIDE DEF normal, scroll
<1>3. CASE normal = <<>>
  <2> DEFINE m == ModeTables(d)
  <2>1. m.normal = <<DefaultTable>> /\ m.scroll = <<>> /\ m.initial = 1
    BY <1>2, <1>3
  <2>2. <<DefaultTable>> \in Seq({DefaultTable}) /\ Len(<<DefaultTable>>) = 1
    OBVIOUS
  <2>3. <<>> \in Seq({DefaultTable}) /\ Len(<<>>) = 0
    BY EmptySeq
  <2> HIDE DEF m
  <2> DEFINE Only == {DefaultTable}
  <2>4. /\ m.normal \in Seq(Only) /\ Len(m.normal) = 1
        /\ m.scroll \in Seq(Only) /\ Len(m.scroll) = 0
        /\ m.initial \in 1 .. Len(m.normal)
    BY <2>1, <2>2, <2>3
  <2>5. \A table \in Only : GoodTable(table, Len(m.normal), Len(m.scroll))
    BY <2>4, DefaultGood
  <2> HIDE DEF Only
  <2>6. Usable(m)
    BY <2>4, <2>5, BothUsable
  <2> QED
    BY <2>6 DEF m
<1>4. CASE normal # <<>>
  <2> DEFINE m == ModeTables(d)
  <2>1. /\ m.normal = TablesOf(normal, t, TRUE) /\ m.scroll = TablesOf(scroll, t, FALSE)
        /\ m.initial = initial
    <3> HIDE DEF t, initial
    <3>1. ~\E e \in Range(normal \o scroll) : ~NamesAMode(e)
      <4> SUFFICES ASSUME \E e \in Range(normal \o scroll) : ~NamesAMode(e) PROVE FALSE
        OBVIOUS
      <4>1. m.ok = FALSE
        BY <1>2, <1>4
      <4> QED
        BY <4>1
    <3>2. m = [ok |-> TRUE, initial |-> initial,
               normal |-> TablesOf(normal, t, TRUE), scroll |-> TablesOf(scroll, t, FALSE)]
      BY <1>2, <1>4, <3>1
    <3> HIDE DEF m
    <3> QED
      BY <3>2
  <2>2. initial \in 1 .. Len(normal)
    <3>1. Len(normal) \in Nat \ {0}
      BY <1>1, <1>4
    <3>2. found \in 0 .. Len(normal)
      <4>1. \A name : ModePtr(normal, name) \in 0 .. Len(normal)
        BY <1>1, EntryIs DEF ModePtr
      <4> HIDE DEF named
      <4> QED
        BY <3>1, <4>1
    <3> HIDE DEF found
    <3>3. initial = IF found = 0 THEN 1 ELSE found
      BY <3>1, <3>2 DEF Max
    <3> HIDE DEF initial
    <3> QED
      BY <3>1, <3>2, <3>3
  <2>3. Lists(t)
    <3> HIDE DEF initial
    <3> QED
      BY <1>1, <2>2 DEF Lists
  <2>4. \A e \in Elements, b \in BOOLEAN : GoodTable(ModeTable(e, t, b), Len(normal), Len(scroll))
    <3>1. t.normal = normal /\ t.scroll = scroll
      OBVIOUS
    <3> HIDE DEF t
    <3> QED
      BY <2>3, <3>1, TableGood
  <2> HIDE DEF t, m
  <2>5. /\ m.normal \in Seq(T) /\ Len(m.normal) = Len(normal)
        /\ m.scroll \in Seq(T) /\ Len(m.scroll) = Len(scroll)
    BY <1>1, <2>1, TablesTyped
  <2>6. \A table \in T : GoodTable(table, Len(m.normal), Len(m.scroll))
    BY <2>4, <2>5 DEF TablesFor
  <2> HIDE DEF T
  <2>7. Usable(m)
    BY <2>1, <2>2, <2>5, <2>6, BothUsable
  <2> QED
    BY <2>7 DEF m
<1> QED
  BY <1>3, <1>4

-----------------------------------------------------------------------------
(* What the files and the data merged from them are made of. *)

\* What a file holds, and the frames of the files being read.
Files == Nested[MaxDepth]
Frames == [rest : Seq(Files), args : Seq(Words)]

\* The inductive invariant: the data merged so far have no key twice within a
\* group, and the settings in use have been made of data that were merged.
DataInv ==
  /\ disk \in Disks
  /\ data \in Seq(Files) /\ GroupsClean(data)
  /\ stack \in Seq(Frames) /\ (pc = "load" => stack # <<>>)
  /\ app # Null => \E d \in Seq(Files) : app = Setting(d)

\* What a file in use holds is a list of elements.
LEMMA ElementsTyped ==
    ASSUME disk \in Disks, NEW name \in Names, IsFound(name)
    PROVE  ElementsOf(name) \in Seq(Files)
<1> DEFINE i == Min(Holding(name))
           p == <<Places(name)[i], name>>
<1>1. Places(name) \in Seq(Range(Dirs) \cup {Root})
  <2>1. Dirs \in Seq(Range(Dirs) \cup {Root})
    <3>1. Range(Dirs) \subseteq Range(Dirs) \cup {Root} /\ Dirs \in Seq(Range(Dirs))
      BY SettingsAssumption
    <3> QED
      BY <3>1, SeqMonotonic
  <2>2. <<Root>> \in Seq(Range(Dirs) \cup {Root})
    OBVIOUS
  <2> QED
    BY <2>1, <2>2 DEF Places
<1>2. DOMAIN Places(name) = 1 .. Len(Places(name)) /\ Len(Places(name)) \in Nat
  BY <1>1
<1>3. i \in DOMAIN Places(name)
  <2>1. Holding(name) \subseteq DOMAIN Places(name) /\ Holding(name) # {}
    BY DEF Holding, IsFound
  <2>2. Holding(name) \subseteq Nat
    BY <1>2, <2>1
  <2>3. i \in Holding(name)
    BY <2>1, <2>2, MinIn
  <2> QED
    BY <2>1, <2>3
<1>4. Places(name)[i] \in Range(Dirs) \cup {Root}
  <2> HIDE DEF i
  <2> QED
    BY <1>1, <1>2, <1>3, ElementOfSeq
<1>5. p \in (Range(Dirs) \cup {Root}) \X Names
  BY <1>4
<1>6. disk[p].elements \in Seq(Files)
  <2> HIDE DEF p
  <2> QED
    BY <1>5, SettingsAssumption DEF Files
<1>7. <<>> \in Seq(Files)
  BY EmptySeq
<1>8. ElementsOf(name) = IF disk[p].sound THEN disk[p].elements ELSE <<>>
  BY DEF ElementsOf
<1> HIDE DEF p
<1> QED
  BY <1>6, <1>7, <1>8

\* A file that is begun.
LEMMA FrameTyped ==
    ASSUME NEW elements \in Seq(Files)
    PROVE  Frame(elements) \in Frames
<1>1. <<>> \in Seq(Words)
  BY EmptySeq
<1> QED
  BY <1>1 DEF Frame, Frames

\* A load begins with no data and the first file there is.
LEMMA BeginClean ==
    ASSUME DataInv, UNCHANGED <<disk, app>>, NEW f, Begin(f)
    PROVE  DataInv'
<1>1. /\ data' = <<>> /\ <<>> \in Seq(Files) /\ GroupsClean(<<>>)
      /\ <<>> \in Seq(Frames)
  <2>1. \A S : <<>> \in Seq(S)
    BY EmptySeq
  <2>2. GroupsClean(<<>>)
    BY DEF GroupsClean
  <2> QED
    BY <2>1, <2>2 DEF Begin
<1>2. CASE FoundTops = {}
  <2>1. stack' = <<>> /\ pc' = "loaded"
    BY <1>2 DEF Begin
  <2> QED
    BY <1>1, <2>1 DEF DataInv
<1>3. CASE FoundTops # {}
  <2>1. TopNames \in Seq(Names)
    BY SettingsAssumption DEF TopNames
  <2>2. TopName \in Names /\ IsFound(TopName)
    <3>1. DOMAIN TopNames \subseteq Nat /\ \A i \in DOMAIN TopNames : TopNames[i] \in Names
      BY <2>1
    <3>2. FoundTops \subseteq Nat
      BY <3>1 DEF FoundTops
    <3>3. Min(FoundTops) \in FoundTops
      BY <1>3, <3>2, MinIn
    <3> QED
      BY <3>1, <3>3 DEF FoundTops, TopName
  <2>3. Frame(ElementsOf(TopName)) \in Frames
    BY <2>2, ElementsTyped, FrameTyped DEF DataInv
  <2>4. stack' = <<Frame(ElementsOf(TopName))>>
    BY <1>3 DEF Begin
  <2>5. stack' \in Seq(Frames) /\ stack' # <<>>
    BY <2>3, <2>4
  <2> QED
    BY <1>1, <2>5 DEF DataInv
<1> QED
  BY <1>2, <1>3

\* The innermost file goes on.
LEMMA TopTyped ==
    ASSUME DataInv, pc = "load"
    PROVE  /\ Top \in Frames
           /\ \A frame \in Frames : SetTop(frame) \in Seq(Frames) /\ SetTop(frame) # <<>>
<1>1. stack \in Seq(Frames) /\ stack # <<>>
  BY DEF DataInv
<1>2. Len(stack) \in 1 .. Len(stack)
  BY <1>1
<1>3. \A frame \in Frames :
        /\ [stack EXCEPT ![Len(stack)] = frame] \in Seq(Frames)
        /\ Len([stack EXCEPT ![Len(stack)] = frame]) = Len(stack)
  BY <1>1, <1>2, ExceptSeq
<1>4. \A frame \in Frames : [stack EXCEPT ![Len(stack)] = frame] # <<>>
  BY <1>2, <1>3
<1> QED
  BY <1>1, <1>2, <1>3, <1>4, ElementOfSeq DEF Top, SetTop

\* merge_conf_data_with_include, one element.
LEMMA ReadElementClean == ASSUME DataInv, ReadElement PROVE DataInv'
<1> DEFINE e == Head(Top.rest)
           frame == [rest |-> Tail(Top.rest),
                     args |-> IF e.key = "include" THEN e.val ELSE <<>>]
<1>1. /\ pc = "load" /\ Top.rest # <<>> /\ stack' = SetTop(frame)
      /\ data' = IF e.key = "include" THEN data ELSE Merge(data, e)
      /\ UNCHANGED <<disk, pc, app>>
  BY DEF ReadElement, TakeElement, iconVars
<1>2. Top.rest \in Seq(Files)
  BY <1>1, TopTyped DEF Frames
<1>3. e \in Files /\ Tail(Top.rest) \in Seq(Files)
  BY <1>1, <1>2, HeadTailProperties
<1>4. e.val \in Seq(Words) /\ <<>> \in Seq(Words)
  <2>1. MaxDepth \in 0 .. MaxDepth
    BY SettingsDataAssumption
  <2>2. e \in Elements
    <3> HIDE DEF e
    <3> QED
      BY <1>3, <2>1 DEF Elements, Files
  <2> QED
    BY <2>2, ElementsAre, EmptySeq
<1> HIDE DEF e
<1>5. frame \in Frames
  BY <1>3, <1>4 DEF Frames
<1>6. stack' \in Seq(Frames) /\ stack' # <<>>
  BY <1>1, <1>5, TopTyped
<1>7. data' \in Seq(Files) /\ GroupsClean(data')
  BY <1>1, <1>3, MergeClean DEF DataInv, Files
<1> QED
  BY <1>1, <1>6, <1>7 DEF DataInv

\* A frame whose arguments are replaced is the frame of its rest and the new
\* arguments.
LEMMA ArgsReplaced ==
  ASSUME NEW frame \in Frames, NEW args
  PROVE [frame EXCEPT !.args = args] = [rest |-> frame.rest, args |-> args]
BY DEF Frames

\* An include reads a file more.
LEMMA IncludeClean == ASSUME DataInv, Include PROVE DataInv'
<1> DEFINE name == Head(Top.args)
           frame == [Top EXCEPT !.args = Tail(@)]
           next == SetTop(frame)
<1>1. pc = "load" /\ Top.args # <<>> /\ UNCHANGED <<disk, pc, data, app>>
  BY DEF Include, iconVars
<1>2. Top \in Frames
  BY <1>1, TopTyped
<1>3. frame \in Frames
  <2>1. Tail(Top.args) \in Seq(Words)
    BY <1>1, <1>2, HeadTailProperties DEF Frames
  <2>2. frame = [rest |-> Top.rest, args |-> Tail(Top.args)]
    BY <1>2, ArgsReplaced
  <2> QED
    BY <1>2, <2>1, <2>2 DEF Frames
<1>4. next \in Seq(Frames) /\ next # <<>>
  BY <1>1, <1>3, TopTyped
<1>5. CASE stack' = next
  BY <1>1, <1>4, <1>5 DEF DataInv
<1>6. CASE name \in Names /\ IsFound(name) /\ stack' = Append(next, Frame(ElementsOf(name)))
  <2>1. Frame(ElementsOf(name)) \in Frames
    BY <1>6, ElementsTyped, FrameTyped DEF DataInv
  <2> HIDE DEF next
  <2>2. stack' \in Seq(Frames) /\ Len(stack') = Len(next) + 1
    BY <1>4, <1>6, <2>1, AppendProperties
  <2>3. stack' # <<>>
    BY <1>6, <2>2
  <2> QED
    BY <1>1, <2>2, <2>3 DEF DataInv
<1> QED
  BY <1>5, <1>6 DEF Include

\* The end of a file.
LEMMA EndOfFileClean == ASSUME DataInv, EndOfFile PROVE DataInv'
<1>1. /\ stack' = Front(stack) /\ UNCHANGED <<disk, data, app>>
      /\ pc' = IF Len(stack) > 1 THEN pc ELSE "loaded"
  BY DEF EndOfFile, iconVars
<1>2. stack \in Seq(Frames) /\ Len(stack) \in Nat \ {0}
  BY DEF DataInv, EndOfFile
<1>3. stack' \in Seq(Frames) /\ (Len(stack) > 1 => stack' # <<>>)
  <2>1. 1 \in Int /\ Len(stack) - 1 \in Int
    BY <1>2
  <2>2. Front(stack) \in Seq(Frames) /\ (Len(stack) > 1 => Len(Front(stack)) = Len(stack) - 1)
    BY <1>2, SubSeqProperties DEF Front
  <2> QED
    BY <1>1, <1>2, <2>2
<1> QED
  BY <1>1, <1>3 DEF DataInv

\* Every step keeps it.
LEMMA DataStep == DataInv /\ [Next]_vars => DataInv'
<1> SUFFICES ASSUME DataInv, [Next]_vars PROVE DataInv'
  OBVIOUS
<1>1. CASE UNCHANGED vars
  BY <1>1 DEF vars, loadVars, DataInv
<1>2. CASE Start
  <2>1. CASE Begin(TRUE)
    BY <1>2, <2>1, BeginClean DEF Start
  <2>2. CASE ~Begin(TRUE)
    BY <1>2, <2>2 DEF Start, DataInv, loadVars
  <2> QED
    BY <2>1, <2>2
<1>3. CASE ReadElement
  BY <1>3, ReadElementClean
<1>4. CASE Include
  BY <1>4, IncludeClean
<1>5. CASE EndOfFile
  BY <1>5, EndOfFileClean
<1>6. CASE Apply
  <2>1. /\ UNCHANGED <<disk, data, stack>> /\ pc' = "idle"
        /\ app' = app \/ app' = Setting(data)
    BY <1>6 DEF Apply, Return, loadVars
  <2> QED
    BY <2>1 DEF DataInv
<1>7. CASE Reload
  BY <1>7, BeginClean DEF Reload
<1>8. CASE EditFiles
  BY <1>8 DEF EditFiles, DataInv, loadVars
<1>9. CASE TaskbarCreated \/ ExplorerRestarts
  BY <1>9 DEF TaskbarCreated, ExplorerRestarts, DataInv, loadVars
<1>10. CASE Destroy
  BY <1>10 DEF Destroy, DataInv, loadVars
<1> QED
  BY <1>1, <1>2, <1>3, <1>4, <1>5, <1>6, <1>7, <1>8, <1>9, <1>10 DEF Next

\* It holds at the start.
LEMMA DataStart == Init => DataInv
<1>1. \A S : <<>> \in Seq(S)
  BY EmptySeq
<1>2. GroupsClean(<<>>)
  BY DEF GroupsClean
<1> QED
  BY <1>1, <1>2 DEF Init, DataInv

\* No two modes have one name.
LEMMA NamesDistinct ==
    ASSUME DataInv, NEW p, p # Null
    PROVE  OneName(Massq(data, <<p>>).kids)
<1>1. data \in Seq(Elements)
  <2>1. MaxDepth \in 0 .. MaxDepth
    BY SettingsDataAssumption
  <2>2. Files \subseteq Elements
    BY <2>1 DEF Elements, Files
  <2> QED
    BY <2>2, SeqMonotonic DEF DataInv
<1>2. \/ Assq(data, p) = Nothing
      \/ \E i \in 1 .. Len(data) : Assq(data, p) = data[i] /\ data[i].key = p
  BY <1>1, AssqIs
<1>3. CASE Assq(data, p) = Nothing
  <2>1. Assq(data, p).kids = <<>>
    BY <1>3 DEF Nothing, Element
  <2>2. Massq(data, <<p>>).kids = <<>>
    BY <2>1, MassqIs
  <2>3. OneName(<<>>)
    BY DEF OneName
  <2> QED
    BY <2>2, <2>3
<1>4. CASE \E i \in 1 .. Len(data) : Assq(data, p) = data[i] /\ data[i].key = p
  <2>1. PICK i \in 1 .. Len(data) : Assq(data, p) = data[i] /\ data[i].key = p
    BY <1>4
  <2>2. OneName(data[i].kids)
    BY <2>1 DEF DataInv, GroupsClean
  <2>3. Massq(data, <<p>>) = Assq(data, p)
    BY MassqIs
  <2> QED
    BY <2>1, <2>2, <2>3
<1> QED
  BY <1>2, <1>3, <1>4

\* The tables in use are made of such data.
LEMMA DataUsable == DataInv => TablesUsable
<1> SUFFICES ASSUME DataInv, app # Null, app.modes.ok PROVE TablesUsable
  BY DEF TablesUsable
<1> DEFINE t == app.modes
<1>1. PICK d \in Seq(Files) : app = Setting(d)
  BY DEF DataInv
<1>2. t = ModeTables(d)
  BY <1>1 DEF Setting
<1>3. Usable(t)
  BY <1>2, ModeTablesUsable DEF Files
<1> HIDE DEF t
<1>4. t.initial \in DOMAIN t.normal
  BY <1>3 DEF Usable
<1>5. \A m \in Range(t.normal \o t.scroll) : GoodTable(m, Len(t.normal), Len(t.scroll))
  BY <1>3 DEF Usable
<1>6. \A a \in UNION {Range(m.act) \cup Range(m.comb) : m \in Range(t.normal \o t.scroll)} :
        /\ a.code = "normal-mode" => a.to \in DOMAIN t.normal
        /\ a.code = "scroll-mode" => a.to \in DOMAIN t.scroll
  BY <1>3, <1>5 DEF Usable, GoodTable, Leads
<1>7. \A m \in Range(t.normal \o t.scroll), s \in {"d", "u"}, x, y \in Btn :
        /\ m.comb[s, x, y] = m.comb[s, y, x]
        /\ m.comb[s, x, y] # NOTHING => {x, y} \subseteq m.enabled
        /\ m.comb[s, x, x] = NOTHING
  BY <1>5 DEF GoodTable, ForBoth
<1>8. \A p \in {"normal-mode", "scroll-mode"} :
        \A i, j \in DOMAIN Massq(data, <<p>>).kids :
          Massq(data, <<p>>).kids[i].key = Massq(data, <<p>>).kids[j].key
            /\ NamesAMode(Massq(data, <<p>>).kids[i]) => i = j
  <2> SUFFICES ASSUME NEW p \in {"normal-mode", "scroll-mode"}
               PROVE  \A i, j \in DOMAIN Massq(data, <<p>>).kids :
                        Massq(data, <<p>>).kids[i].key = Massq(data, <<p>>).kids[j].key
                          /\ NamesAMode(Massq(data, <<p>>).kids[i]) => i = j
    OBVIOUS
  <2> DEFINE modes == Massq(data, <<p>>).kids
  <2>1. OneName(modes)
    BY NamesDistinct, SettingsDataAssumption
  <2>2. DOMAIN modes = 1 .. Len(modes)
    <3>1. data \in Seq(Elements)
      <4>1. MaxDepth \in 0 .. MaxDepth
        BY SettingsDataAssumption
      <4>2. Files \subseteq Elements
        BY <4>1 DEF Elements, Files
      <4> QED
        BY <4>2, SeqMonotonic DEF DataInv
    <3>2. modes \in Seq(Elements)
      <4>1. Assq(data, p) \in Elements
        BY <3>1, AssqIs
      <4>2. Massq(data, <<p>>) = Assq(data, p)
        BY MassqIs
      <4> QED
        BY <4>1, <4>2, ElementsAre
    <3> QED
      BY <3>2
  <2> HIDE DEF modes
  <2> QED
    BY <2>1, <2>2 DEF OneName, NamesAMode, modes
<1> QED
  BY <1>4, <1>6, <1>7, <1>8 DEF TablesUsable, t

\* Whatever the files hold, and however they include each other: the tables in
\* use have an initial mode, their actions lead to modes that exist, their
\* combinations are entered for both buttons, and no mode is named twice. It is
\* what MouseHook and ScrollMode assume.
THEOREM Tables == Spec => []TablesUsable
BY DataStart, DataStep, DataUsable, PTL DEF Spec

-----------------------------------------------------------------------------
(* The icon. *)

\* The inductive invariant: while settings are loaded the icon is there too,
\* whatever is to become of it, since they are loaded from its menu, unless
\* Explorer was restarted meanwhile and did not take it again.
IconInv ==
  /\ pc \in {"start", "load", "loaded", "idle", "ended"}
  /\ announced \in Nat /\ shown \in BOOLEAN /\ refused \in BOOLEAN
  /\ pc \in {"load", "loaded"} /\ announced = 0 => shown \/ refused
  /\ IconNotLost

\* Every step keeps it.
LEMMA IconStep == IconInv /\ [Next]_vars => IconInv'
<1> SUFFICES ASSUME IconInv, [Next]_vars PROVE IconInv'
  OBVIOUS
<1> USE DEF IconInv, IconNotLost, loadVars, iconVars
<1>1. CASE UNCHANGED vars
  BY <1>1 DEF vars
<1>2. CASE Start
  BY <1>2 DEF Start, Begin
<1>3. CASE ReadElement
  BY <1>3 DEF ReadElement, TakeElement
<1>4. CASE Include
  BY <1>4 DEF Include
<1>5. CASE EndOfFile
  BY <1>5 DEF EndOfFile
<1>6. CASE Apply
  <2>1. pc = "loaded" /\ pc' = "idle" /\ announced' = announced
    BY <1>6 DEF Apply, Return
  <2>2. \/ UNCHANGED <<app, shown>>
        \/ app'.hide /\ shown' \in {FALSE, shown}
        \/ UNCHANGED shown
    BY <1>6 DEF Apply, TrayIconChange, IconDeleted
  <2>3. refused' = refused
    BY <1>6 DEF Apply
  <2> QED
    BY <2>1, <2>2, <2>3
<1>7. CASE Reload
  BY <1>7 DEF Reload, Begin
<1>8. CASE EditFiles
  BY <1>8 DEF EditFiles
<1>9. CASE TaskbarCreated
  <2>1. /\ pc' = "idle" /\ app' = app /\ announced' \in Nat
        /\ pc = "idle"
    BY <1>9 DEF TaskbarCreated
  <2>2. \/ shown' = TRUE /\ refused' = FALSE
        \/ shown' = shown /\ refused' = ~shown
    BY <1>9 DEF TaskbarCreated
  <2>3. CASE shown
    BY <2>1, <2>2, <2>3
  <2>4. CASE ~shown
    BY <2>1, <2>2, <2>4
  <2> QED
    BY <2>3, <2>4
<1>10. CASE ExplorerRestarts
  <2>1. /\ announced' \in Nat /\ announced' # 0 /\ shown' = FALSE
        /\ UNCHANGED <<pc, app, refused>>
    BY <1>10 DEF ExplorerRestarts
  <2> QED
    BY <2>1
<1>11. CASE Destroy
  BY <1>11 DEF Destroy, IconDeleted
<1> QED
  BY <1>1, <1>2, <1>3, <1>4, <1>5, <1>6, <1>7, <1>8, <1>9, <1>10, <1>11 DEF Next

\* An icon that is to be shown is there once every announcement of a new
\* Explorer has been answered, whatever has been loaded in between, unless
\* Explorer did not take it when it was added last.
THEOREM Icon == Spec => []IconNotLost
<1>1. Init => IconInv
  <2> SUFFICES ASSUME Init PROVE IconInv
    OBVIOUS
  <2>1. pc = "start" /\ announced = 0 /\ shown = FALSE /\ refused = FALSE
    BY DEF Init
  <2> QED
    BY <2>1 DEF IconInv, IconNotLost
<1>2. IconInv => IconNotLost
  BY DEF IconInv
<1> QED
  BY <1>1, <1>2, IconStep, PTL DEF Spec
=============================================================================
