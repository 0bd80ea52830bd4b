--------------------------- MODULE ScrollOpsProofs ---------------------------
(***************************************************************************)
(* What the proofs about the scroll operators share: apply-parent's walk   *)
(* ends at a window; the context of the operator at work keeps its operator*)
(* and its bars; the nested operators, the bars and the running call are   *)
(* what the code takes them for.                                           *)
(*                                                                         *)
(* Then how a scroll operator is found, for any expressions, windows and   *)
(* pages: the references to the browser's objects that the search holds,   *)
(* and the order in which the operators are tried.                         *)
(***************************************************************************)
EXTENDS ScrollOps, Induction, FiniteSetTheorems

-----------------------------------------------------------------------------
(* apply-parent's walk is defined by recursion: that there is such a function,
   and that it ends at a window, by induction over the steps. *)

\* One step of the walk, given where it ends with a step less.
Climb1(f, k) ==
  [w \in Windows |-> IF k = 0 \/ Parent(w) = Null THEN w ELSE f[k - 1][Parent(w)]]

\* f is the walk for up to n steps.
IsClimb(f, n) ==
  /\ f \in [0 .. n -> [Windows -> Windows]]
  /\ \A k \in 0 .. n : f[k] = Climb1(f, k)

\* The parent of a window is a window, or there is none.
LEMMA ParentTyped ==
  ASSUME NEW w \in Windows, Parent(w) # Null
  PROVE  Parent(w) \in Windows
BY ScrollOpsAssumption DEF WindowsAssumption, Parent

\* A step from a window to its parent ends at a window.
LEMMA ClimbTyped ==
  ASSUME NEW f, NEW k \in Nat, k > 0 => f[k - 1] \in [Windows -> Windows]
  PROVE  Climb1(f, k) \in [Windows -> Windows]
BY ParentTyped DEF Climb1

\* The step depends on the walk with a step less only.
LEMMA SameClimb ==
  ASSUME NEW f, NEW g, NEW k \in Nat, k > 0 => f[k - 1] = g[k - 1]
  PROVE  Climb1(f, k) = Climb1(g, k)
BY DEF Climb1

\* There is a walk for every number of steps.
LEMMA ClimbExists == \A n \in Nat : \E f : IsClimb(f, n)
<1> DEFINE S == {n \in Nat : \E f : IsClimb(f, n)}
<1>1. 0 \in S
  <2> DEFINE f == [k \in 0 .. 0 |-> Climb1(<<>>, 0)]
  <2>1. IsClimb(f, 0)
    BY ClimbTyped, SameClimb DEF IsClimb
  <2> QED
    BY <2>1
<1>2. ASSUME NEW n \in Nat, n \in S PROVE n + 1 \in S
  <2>1. PICK f : IsClimb(f, n)
    BY <1>2
  <2> DEFINE g == [k \in 0 .. n + 1 |-> Climb1(f, k)]
  <2>2. \A k \in 0 .. n + 1 : g[k] = Climb1(f, k)
    OBVIOUS
  <2>3. \A k \in 0 .. n + 1 : Climb1(f, k) \in [Windows -> Windows]
    BY <2>1, ClimbTyped DEF IsClimb
  <2>4. g \in [0 .. n + 1 -> [Windows -> Windows]]
    BY <2>3
  <2> HIDE DEF g
  <2>5. \A k \in 0 .. n : g[k] = f[k]
    BY <2>1, <2>2 DEF IsClimb
  <2>6. \A k \in 0 .. n + 1 : Climb1(f, k) = Climb1(g, k)
    <3>1. ASSUME NEW k \in 0 .. n + 1 PROVE Climb1(f, k) = Climb1(g, k)
      <4>1. k > 0 => f[k - 1] = g[k - 1]
        BY <2>5
      <4> QED
        BY <4>1, SameClimb
    <3> QED
      BY <3>1
  <2>7. IsClimb(g, n + 1)
    BY <2>2, <2>4, <2>6 DEF IsClimb
  <2> QED
    BY <2>7
<1> HIDE DEF S
<1>3. \A n \in Nat : n \in S
  BY <1>1, <1>2, SetInduction
<1> QED
  BY <1>3 DEF S

\* Two walks end at the same window, however far each is defined.
LEMMA ClimbsAgree ==
  ASSUME NEW m \in Nat, NEW n \in Nat, NEW f, NEW g, IsClimb(f, m), IsClimb(g, n),
         NEW k \in Nat, k <= m, k <= n
  PROVE  f[k] = g[k]
<1> DEFINE S == {j \in Nat : j <= m /\ j <= n => f[j] = g[j]}
<1>1. 0 \in S
  BY SameClimb DEF IsClimb
<1>2. ASSUME NEW j \in Nat, j \in S PROVE j + 1 \in S
  <2> SUFFICES ASSUME j + 1 <= m, j + 1 <= n
               PROVE  f[j + 1] = g[j + 1]
    OBVIOUS
  <2>1. f[(j + 1) - 1] = g[(j + 1) - 1]
    BY <1>2
  <2>2. Climb1(f, j + 1) = Climb1(g, j + 1)
    BY <2>1, SameClimb
  <2> QED
    BY <2>2 DEF IsClimb
<1> HIDE DEF S
<1>3. \A j \in Nat : j \in S
  BY <1>1, <1>2, SetInduction
<1> QED
  BY <1>3 DEF S

\* The recursive definition of Ancestor holds of Ancestor.
LEMMA AncestorClimbs == \A n \in Nat : Ancestor[n] = Climb1(Ancestor, n)
<1> DEFINE at(n) == CHOOSE f : IsClimb(f, n)
           F == [n \in Nat |-> at(n)[n]]
<1>1. \A n \in Nat : IsClimb(at(n), n)
  BY ClimbExists
<1> HIDE DEF at
<1>2. \A n \in Nat : F[n] = at(n)[n]
  OBVIOUS
<1> HIDE DEF F
<1>3. ASSUME NEW n \in Nat
      PROVE  at(n)[n] = Climb1(F, n)
  <2>1. at(n)[n] = Climb1(at(n), n)
    BY <1>1 DEF IsClimb
  <2>2. n > 0 => F[n - 1] = at(n)[n - 1]
    <3> SUFFICES ASSUME n > 0 PROVE F[n - 1] = at(n)[n - 1]
      OBVIOUS
    <3>1. n - 1 \in Nat /\ n - 1 <= n
      OBVIOUS
    <3>2. IsClimb(at(n), n) /\ IsClimb(at(n - 1), n - 1)
      BY <1>1, <3>1
    <3>3. at(n)[n - 1] = at(n - 1)[n - 1]
      BY <3>1, <3>2, ClimbsAgree
    <3> QED
      BY <1>2, <3>1, <3>3
  <2> QED
    BY <2>1, <2>2, SameClimb
<1>4. F = [n \in Nat |-> Climb1(F, n)]
  BY <1>3 DEF F
<1>5. \E G : G = [n \in Nat |-> Climb1(G, n)]
  BY <1>4
<1>6. Ancestor = [n \in Nat |-> Climb1(Ancestor, n)]
  <2>1. Ancestor = CHOOSE G : G = [n \in Nat |-> Climb1(G, n)]
    BY DEF Ancestor, Climb1
  <2> QED
    BY <1>5, <2>1
<1> QED
  BY <1>6

\* apply_parent_init_ctx: GetParent is never asked of what is no window, and the
\* operator inside is given one.
LEMMA AncestorTyped ==
  ASSUME NEW w \in Windows, NEW num \in Nat
  PROVE  Ancestor[num][w] \in Windows
<1> DEFINE S == {n \in Nat : Ancestor[n] \in [Windows -> Windows]}
<1>1. 0 \in S
  BY AncestorClimbs, ClimbTyped
<1>2. ASSUME NEW n \in Nat, n \in S PROVE n + 1 \in S
  <2>1. Ancestor[(n + 1) - 1] \in [Windows -> Windows]
    BY <1>2
  <2> QED
    BY <2>1, AncestorClimbs, ClimbTyped
<1> HIDE DEF S
<1>3. \A n \in Nat : n \in S
  BY <1>1, <1>2, SetInduction
<1> QED
  BY <1>3 DEF S
-----------------------------------------------------------------------------
(* The order of the operators of an expression is defined by recursion too: that
   there is such a function, and that the operators of or's alternatives come one
   after the other, by induction from the last expression to the first. *)

\* An operator on a window.
Try == {Expr[n].op : n \in Nodes} \X Windows

\* What an alternative tries, given the order f.
OfKid(f, kid, v) == IF Valid(kid) THEN f[kid][v] ELSE <<>>
\* The order of an expression's operators, given that of the later expressions.
Order1(f, n) ==
  [w \in Windows |->
     CASE Expr[n].op = "or" ->
            FlattenSeq([i \in DOMAIN Expr[n].kids |-> OfKid(f, Expr[n].kids[i], w)])
       [] Expr[n].op = "apply-parent" ->
            OfKid(f, Expr[n].kids[1], Ancestor[Expr[n].num][w])
       [] OTHER -> <<<<Expr[n].op, w>>>>]

\* The arguments of an operator, and those that are tried come after it.
LEMMA Kids ==
  ASSUME NEW n \in Nodes
  PROVE  /\ n \in Nat /\ Expr[n].num \in Nat /\ Expr[n].kids \in Seq(Nodes)
         /\ \A i \in DOMAIN Expr[n].kids :
              Expr[n].kids[i] \in Nodes /\ (Valid(Expr[n].kids[i]) => Expr[n].kids[i] > n)
         /\ Expr[n].op = "apply-parent" => 1 \in DOMAIN Expr[n].kids
<1>1. Cardinality(Nodes) \in Nat /\ Nodes = 1 .. Cardinality(Nodes)
  BY ScrollOpsAssumption, FS_CardinalityType DEF ExpressionsAssumption
<1>2. /\ Expr[n].num \in Nat /\ Expr[n].kids \in Seq(Nodes)
      /\ \A i \in DOMAIN Expr[n].kids : Valid(Expr[n].kids[i]) => Expr[n].kids[i] > n
      /\ Expr[n].op = "apply-parent" => Expr[n].kids # <<>>
  BY ScrollOpsAssumption DEF ExpressionsAssumption
<1>3. Expr[n].op = "apply-parent" => 1 \in DOMAIN Expr[n].kids
  BY <1>2
<1> QED
  BY <1>1, <1>2, <1>3

\* The order of an expression depends on that of later ones only.
LEMMA SameOrder ==
  ASSUME NEW f, NEW g, NEW n \in Nodes, \A m \in Nodes : m > n => f[m] = g[m]
  PROVE  Order1(f, n) = Order1(g, n)
<1> DEFINE kids == Expr[n].kids
<1>1. \A i \in DOMAIN kids : \A v : OfKid(f, kids[i], v) = OfKid(g, kids[i], v)
  BY Kids DEF OfKid
<1>2. \A w : [i \in DOMAIN kids |-> OfKid(f, kids[i], w)]
               = [i \in DOMAIN kids |-> OfKid(g, kids[i], w)]
  BY <1>1
<1>3. Expr[n].op = "apply-parent" => 1 \in DOMAIN kids
  BY Kids
<1> HIDE DEF kids
<1> QED
  BY <1>1, <1>2, <1>3 DEF Order1, kids

\* What is tried for an expression is operators of the expressions, on windows.
LEMMA OfKidTyped ==
  ASSUME NEW f, NEW kid, Valid(kid) => f[kid] \in [Windows -> Seq(Try)], NEW v \in Windows
  PROVE  OfKid(f, kid, v) \in Seq(Try)
BY DEF OfKid

\* What or's alternatives try.
LEMMA OrTyped ==
  ASSUME NEW f, NEW n \in Nodes, NEW w \in Windows,
         \A m \in Nodes : m > n => f[m] \in [Windows -> Seq(Try)]
  PROVE  [i \in DOMAIN Expr[n].kids |-> OfKid(f, Expr[n].kids[i], w)] \in Seq(Seq(Try))
<1> DEFINE kids == Expr[n].kids
           e(i) == OfKid(f, kids[i], w)
<1>1. \A i \in DOMAIN kids : e(i) \in Seq(Try)
  BY Kids, OfKidTyped
<1>2. Len(kids) \in Nat /\ DOMAIN kids = 1 .. Len(kids)
  BY Kids
<1> HIDE DEF e
<1>3. [i \in 1 .. Len(kids) |-> e(i)] \in Seq(Seq(Try))
  BY <1>1, <1>2
<1> QED
  BY <1>2, <1>3 DEF e

\* What any operator tries.
LEMMA OrderTyped ==
  ASSUME NEW f, NEW n \in Nodes, \A m \in Nodes : m > n => f[m] \in [Windows -> Seq(Try)]
  PROVE  Order1(f, n) \in [Windows -> Seq(Try)]
<1> SUFFICES ASSUME NEW w \in Windows PROVE Order1(f, n)[w] \in Seq(Try)
  BY DEF Order1
<1>1. CASE Expr[n].op = "or"
  <2>1. FlattenSeq([i \in DOMAIN Expr[n].kids |-> OfKid(f, Expr[n].kids[i], w)]) \in Seq(Try)
    BY OrTyped, FlattenTyped
  <2> QED
    BY <1>1, <2>1 DEF Order1
<1>2. CASE Expr[n].op = "apply-parent"
  <2>1. Ancestor[Expr[n].num][w] \in Windows
    BY AncestorTyped, Kids
  <2>2. OfKid(f, Expr[n].kids[1], Ancestor[Expr[n].num][w]) \in Seq(Try)
    BY <1>2, <2>1, Kids, OfKidTyped
  <2> QED
    BY <1>2, <2>2 DEF Order1
<1>3. CASE Expr[n].op \notin {"or", "apply-parent"}
  <2>1. <<Expr[n].op, w>> \in Try
    BY DEF Try
  <2>2. <<<<Expr[n].op, w>>>> \in Seq(Try)
    BY <2>1
  <2> QED
    BY <1>3, <2>2 DEF Order1
<1> QED
  BY <1>1, <1>2, <1>3

\* Such an order exists for the last k expressions.
LEMMA OrderExists ==
  \A k \in Nat : k <= Cardinality(Nodes) =>
    \E f : f = [n \in Cardinality(Nodes) - k + 1 .. Cardinality(Nodes) |-> Order1(f, n)]
<1> DEFINE N == Cardinality(Nodes)
           Is(f, k) == f = [n \in N - k + 1 .. N |-> Order1(f, n)]
           S == {k \in Nat : k <= N => \E f : Is(f, k)}
<1>0. N \in Nat /\ Nodes = 1 .. N
  BY ScrollOpsAssumption, FS_CardinalityType DEF ExpressionsAssumption
<1> HIDE DEF N
<1>1. 0 \in S
  <2> DEFINE f == [n \in N - 0 + 1 .. N |-> <<>>]
  <2>1. N - 0 + 1 .. N = {}
    BY <1>0
  <2>2. Is(f, 0)
    BY <2>1
  <2> QED
    BY <2>2
<1>2. ASSUME NEW k \in Nat, k \in S PROVE k + 1 \in S
  <2> SUFFICES ASSUME k + 1 <= N PROVE \E g : Is(g, k + 1)
    OBVIOUS
  <2>1. PICK f : Is(f, k)
    BY <1>0, <1>2
  <2> DEFINE D == N - (k + 1) + 1 .. N
             g == [n \in D |-> Order1(f, n)]
  <2>2. D \subseteq Nodes /\ D \subseteq Int
    BY <1>0
  <2>3. \A m \in Nodes : \A n \in D : m > n => m \in N - k + 1 .. N /\ m \in D
    BY <1>0
  <2>4. \A m \in N - k + 1 .. N : f[m] = Order1(f, m)
    BY <2>1
  <2>5. \A m \in D : g[m] = Order1(f, m)
    OBVIOUS
  <2>6. DOMAIN g = D /\ g = [n \in D |-> g[n]]
    OBVIOUS
  <2> HIDE DEF D, g, Is
  <2>7. ASSUME NEW n \in D PROVE Order1(f, n) = Order1(g, n)
    <3>1. \A m \in Nodes : m > n => f[m] = g[m]
      BY <2>3, <2>4, <2>5
    <3> QED
      BY <2>2, <3>1, SameOrder
  <2>8. g = [n \in D |-> Order1(g, n)]
    BY <2>5, <2>6, <2>7
  <2> QED
    BY <2>8 DEF Is, D
<1> HIDE DEF S
<1>3. \A k \in Nat : k \in S
  BY <1>1, <1>2, SetInduction
<1> QED
  BY <1>3 DEF S, N

\* The recursive definition of Candidates holds of Candidates.
LEMMA CandidatesOrder == \A n \in Nodes : Candidates[n] = Order1(Candidates, n)
<1> DEFINE N == Cardinality(Nodes)
<1>0. N \in Nat /\ Nodes = 1 .. N
  BY ScrollOpsAssumption, FS_CardinalityType DEF ExpressionsAssumption
<1>1. \E f : f = [n \in Nodes |-> Order1(f, n)]
  <2>1. \E f : f = [n \in N - N + 1 .. N |-> Order1(f, n)]
    BY <1>0, OrderExists
  <2>2. N - N + 1 .. N = Nodes
    BY <1>0
  <2> QED
    BY <2>1, <2>2
<1>2. Candidates = CHOOSE f : f = [n \in Nodes |-> Order1(f, n)]
  BY DEF Candidates, Order1, OfKid
<1> QED
  BY <1>1, <1>2

\* So is all that Candidates gives.
LEMMA CandidatesTyped == \A n \in Nodes : Candidates[n] \in [Windows -> Seq(Try)]
<1> DEFINE N == Cardinality(Nodes)
           S == {k \in Nat : \A n \in Nodes : n > N - k => Candidates[n] \in [Windows -> Seq(Try)]}
<1>0. N \in Nat /\ Nodes = 1 .. N
  BY ScrollOpsAssumption, FS_CardinalityType DEF ExpressionsAssumption
<1> HIDE DEF N
<1>1. 0 \in S
  BY <1>0
<1>2. ASSUME NEW k \in Nat, k \in S PROVE k + 1 \in S
  <2> SUFFICES ASSUME NEW n \in Nodes, n > N - (k + 1)
               PROVE  Candidates[n] \in [Windows -> Seq(Try)]
    OBVIOUS
  <2>1. \A m \in Nodes : m > n => m > N - k
    BY <1>0
  <2>2. \A m \in Nodes : m > n => Candidates[m] \in [Windows -> Seq(Try)]
    BY <1>2, <2>1
  <2> QED
    BY <2>2, OrderTyped, CandidatesOrder
<1> HIDE DEF S
<1>3. \A k \in Nat : k \in S
  BY <1>1, <1>2, SetInduction
<1>4. \A n \in Nodes : n > N - N
  BY <1>0
<1> QED
  BY <1>0, <1>3, <1>4 DEF S

-----------------------------------------------------------------------------
(* The alternatives of an operator on a window, and what is tried from the i-th on. *)

\* One sequence per alternative; an operator that does the work itself has one.
Alternatives(n, w) ==
  CASE Expr[n].op = "or" ->
         [i \in DOMAIN Expr[n].kids |-> OfKid(Candidates, Expr[n].kids[i], w)]
    [] Expr[n].op = "apply-parent" ->
         <<OfKid(Candidates, Expr[n].kids[1], Ancestor[Expr[n].num][w])>>
    [] OTHER -> <<<<<<Expr[n].op, w>>>>>>

\* The i-th alternative and those after it.
From(n, w, i) == FlattenSeq(SubSeq(Alternatives(n, w), i, Len(Alternatives(n, w))))

\* They are sequences of operators on windows.
LEMMA AlternativesTyped ==
  ASSUME NEW n \in Nodes, NEW w \in Windows
  PROVE  Alternatives(n, w) \in Seq(Seq(Try))
<1>1. CASE Expr[n].op = "or"
  BY <1>1, OrTyped, CandidatesTyped DEF Alternatives
<1>2. CASE Expr[n].op = "apply-parent"
  <2>1. Ancestor[Expr[n].num][w] \in Windows
    BY AncestorTyped, Kids
  <2>2. OfKid(Candidates, Expr[n].kids[1], Ancestor[Expr[n].num][w]) \in Seq(Try)
    BY <1>2, <2>1, Kids, OfKidTyped, CandidatesTyped
  <2> QED
    BY <1>2, <2>2 DEF Alternatives
<1>3. CASE Expr[n].op \notin {"or", "apply-parent"}
  <2>1. <<Expr[n].op, w>> \in Try
    BY DEF Try
  <2>2. <<<<Expr[n].op, w>>>> \in Seq(Try)
    BY <2>1
  <2> QED
    BY <1>3, <2>2 DEF Alternatives
<1> QED
  BY <1>1, <1>2, <1>3

\* Nothing is left after the last one.
LEMMA FromEnd ==
  ASSUME NEW n \in Nodes, NEW w \in Windows, NEW i \in Nat, i > Len(Alternatives(n, w))
  PROVE  From(n, w, i) = <<>>
<1>1. SubSeq(Alternatives(n, w), i, Len(Alternatives(n, w))) = <<>>
  BY AlternativesTyped, SubSeqEmpty
<1> QED
  BY <1>1, FlattenEmpty DEF From

\* The i-th alternative comes first, then those after it.
LEMMA FromNext ==
  ASSUME NEW n \in Nodes, NEW w \in Windows, NEW i \in 1 .. Len(Alternatives(n, w))
  PROVE  From(n, w, i) = Then(Alternatives(n, w)[i], From(n, w, i + 1))
BY AlternativesTyped, FlattenFrom DEF From

\* What is left is a sequence of operators on windows.
LEMMA FromTyped ==
  ASSUME NEW n \in Nodes, NEW w \in Windows, NEW i \in Nat \ {0}
  PROVE  From(n, w, i) \in Seq(Try)
<1>1. CASE i > Len(Alternatives(n, w))
  <2>1. From(n, w, i) = <<>>
    BY <1>1, FromEnd
  <2> QED
    BY <2>1, EmptySeq, Zenon
<1>2. CASE ~(i > Len(Alternatives(n, w)))
  <2> DEFINE a == Alternatives(n, w)
  <2>1. a \in Seq(Seq(Try))
    BY AlternativesTyped
  <2> HIDE DEF a
  <2>2. Len(a) \in Nat
    BY <2>1
  <2>3. SubSeq(a, i, Len(a)) \in Seq(Seq(Try))
    BY <1>2, <2>1, <2>2 DEF a
  <2> QED
    BY <2>3, FlattenTyped DEF From, a
<1> QED
  BY <1>1, <1>2

\* All alternatives are what is tried.
LEMMA FromStart ==
  ASSUME NEW n \in Nodes, NEW w \in Windows
  PROVE  From(n, w, 1) = Candidates[n][w]
<1> DEFINE a == Alternatives(n, w)
<1>1. a \in Seq(Seq(Try)) /\ SubSeq(a, 1, Len(a)) = a
  BY AlternativesTyped, SubSeqFull
<1>2. Candidates[n][w] = Order1(Candidates, n)[w]
  BY CandidatesOrder
<1>3. CASE Expr[n].op = "or"
  BY <1>1, <1>2, <1>3 DEF From, Alternatives, Order1
<1>4. ASSUME Len(a) = 1, a[1] = Candidates[n][w]
      PROVE  From(n, w, 1) = Candidates[n][w]
  <2>0. Len(Alternatives(n, w)) = 1 /\ 1 \in 1 .. Len(Alternatives(n, w))
        /\ 2 \in Nat /\ 2 > Len(Alternatives(n, w)) /\ 1 + 1 = 2
    BY <1>4
  <2> HIDE DEF a
  <2>1. From(n, w, 1) = Then(a[1], From(n, w, 2))
    BY <2>0, FromNext DEF a
  <2>2. From(n, w, 2) = <<>>
    BY <2>0, FromEnd
  <2>3. a[1] \in Seq(Try)
    <3>1. \A k \in 1 .. Len(Alternatives(n, w)) : Alternatives(n, w)[k] \in Seq(Try)
      BY AlternativesTyped, ElementOfSeq
    <3> QED
      BY <2>0, <3>1 DEF a
  <2> QED
    BY <1>4, <2>1, <2>2, <2>3, ThenEmpty
<1>5. CASE Expr[n].op = "apply-parent"
  BY <1>2, <1>4, <1>5 DEF Alternatives, Order1
<1>6. CASE Expr[n].op \notin {"or", "apply-parent"}
  BY <1>2, <1>4, <1>6 DEF Alternatives, Order1
<1> QED
  BY <1>3, <1>5, <1>6
-----------------------------------------------------------------------------
(* The context of the operator at work: it names that operator from its start
   to its end. *)

\* c is a context of the operator n for these bars.
IsContextOf(n, bars, c) ==
  /\ c = [node |-> c.node, bars |-> c.bars, delta |-> c.delta, asked |-> c.asked,
          given |-> c.given, origin |-> c.origin, exact |-> c.exact]
  /\ c.node = n /\ c.bars = bars
IsContext == IsContextOf(cx.node, cx.bars, cx)

\* Nothing of the context is changed.
LEMMA ContextKept ==
  ASSUME IsContext, UNCHANGED cx
  PROVE  IsContext'
BY DEF IsContext

\* init_context of an operator that accepts: the context names it and its bars.
LEMMA StartedContext ==
  ASSUME NEW bars, InitSucceeds(bars)
  PROVE  IsContext' /\ cx'.node = Top.node /\ cx'.bars = bars
BY DEF InitSucceeds, IsContext, IsContextOf, NoContext

\* What the movement adds to is neither the operator nor the bars.
LEMMA OverwrittenContext ==
  ASSUME NEW n, NEW bars, NEW c, IsContextOf(n, bars, c), NEW e, NEW delta, NEW given, NEW exact,
         \/ e = [c EXCEPT !.delta = delta, !.given = given]
         \/ e = [c EXCEPT !.given = given]
         \/ e = [c EXCEPT !.delta = delta, !.exact = exact]
         \/ e = [c EXCEPT !.delta = delta, !.asked = given]
  PROVE  IsContextOf(n, bars, e)
BY DEF IsContextOf

\* The same for a change per axis.
LEMMA PointwiseContext ==
  ASSUME NEW n, NEW bars, NEW c, IsContextOf(n, bars, c), NEW e, NEW a, NEW delta, NEW exact,
         e = [c EXCEPT !.delta[a] = delta, !.exact[a] = exact]
  PROVE  IsContextOf(n, bars, e)
BY DEF IsContextOf

\* A movement is added.
LEMMA AddedContext ==
  ASSUME NEW n, NEW bars, IsContextOf(n, bars, cx), NEW d
  PROVE  IsContextOf(n, bars, Added(d))
<1> DEFINE delta == [a \in Axis |-> cx.delta[a] + Scaled(d)[a]]
           asked == [a \in Axis |-> cx.asked[a] + Scaled(d)[a]]
<1>1. Added(d) = [cx EXCEPT !.delta = delta, !.asked = asked]
  BY DEF Added
<1> HIDE DEF delta, asked
<1> QED
  BY <1>1, OverwrittenContext

\* Messages have been posted.
LEMMA GivenContext ==
  ASSUME NEW n, NEW bars, NEW c, IsContextOf(n, bars, c), NEW k
  PROVE  IsContextOf(n, bars, Given(c, k))
<1> DEFINE delta == [a \in Axis |-> c.delta[a] - k[a] * Unit]
           given == [a \in Axis |-> c.given[a] + k[a]]
<1>1. Given(c, k) = [c EXCEPT !.delta = delta, !.given = given]
  BY DEF Given
<1> HIDE DEF delta, given
<1> QED
  BY <1>1, OverwrittenContext

\* scroll of any operator keeps the operator and the bars.
LEMMA ScrollContext ==
  ASSUME IsContext, Scroll
  PROVE  IsContext' /\ cx'.node = cx.node /\ cx'.bars = cx.bars
<1> PICK d \in Deltas : \/ ScrollWheel(d) \/ ScrollPosted(d) \/ ScrollBars(d)
                        \/ ScrollTrackbar(d) \/ ScrollIe(d)
  BY DEF Scroll
<1> DEFINE c == Added(d)
           n == cx.node
           bars == cx.bars
<1>1. IsContextOf(n, bars, c)
  BY AddedContext DEF IsContext
<1>2. IsContextOf(n, bars, cx')
  <2> HIDE DEF n, bars
  <2>1. CASE ScrollWheel(d)
    <3> DEFINE t == Tick(cx.node)
               k == [a \in Axis |-> Trunc(c.delta[a], Unit * t) * t]
               given == [a \in Axis |-> cx.given[a] + Int16(k[a])]
    <3>1. cx' = [Given(c, k) EXCEPT !.given = given]
      BY <2>1 DEF ScrollWheel
    <3> HIDE DEF k, given
    <3>2. IsContextOf(n, bars, Given(c, k))
      BY <1>1, GivenContext
    <3> QED
      BY <3>1, <3>2, OverwrittenContext
  <2>2. CASE ScrollPosted(d)
    <3> DEFINE used == {a \in Axis : Op = "window-scrollbar" \/ cx.bars[a] # Null}
               k == [a \in Axis |-> IF a \in used THEN Trunc(c.delta[a], Unit) ELSE 0]
    <3>1. cx' = Given(c, k)
      BY <2>2 DEF ScrollPosted
    <3> HIDE DEF k
    <3> QED
      BY <1>1, <3>1, GivenContext
  <2>3. CASE ScrollBars(d)
    BY <1>1, <2>3 DEF ScrollBars
  <2>4. CASE ScrollTrackbar(d)
    <3> DEFINE b == FirstOf(cx.bars)
               a == BarInfo[b].dir
               s == TrackSpeed(b)
               dd == TrackDistance(b, c.delta[a])
               to == Clamp(pos[b] + dd, Low(b), High(b))
               delta == c.delta[a] - Trunc(dd * s.den * Unit, s.num)
               exact == c.exact[a] /\ to = pos[b] + dd
    <3>1. \/ cx' = c
          \/ cx' = [c EXCEPT !.delta[a] = delta, !.exact[a] = exact]
      BY <2>4 DEF ScrollTrackbar
    <3> HIDE DEF c, a, delta, exact
    <3> QED
      BY <1>1, <3>1, PointwiseContext
  <2>5. CASE ScrollIe(d)
    <3>1. \E delta, exact : cx' = [c EXCEPT !.delta = delta, !.exact = exact]
      <4> HIDE DEF c
      <4> QED
        BY <2>5 DEF ScrollIe, c
    <3> HIDE DEF c
    <3> QED
      BY <1>1, <3>1, OverwrittenContext
  <2> QED
    BY <2>1, <2>2, <2>3, <2>4, <2>5
<1> QED
  BY <1>2 DEF IsContext, IsContextOf

\* So does every step of a running call.
LEMMA CallContext ==
  ASSUME IsContext, CallStep
  PROVE  IsContext' /\ cx'.node = cx.node /\ cx'.bars = cx.bars
<1>1. CASE Settle
  <2>1. \E a, delta, exact :
          cx' = [cx EXCEPT !.delta[a] = delta, !.exact[a] = exact]
    <3> DEFINE a == BarInfo[call.bar].dir
               dd == Distance(call.speed, cx.delta[a])
               atEnd == call.new \in {Low(call.bar), High(call.bar)}
               moved(asked) == Moved(IF asked THEN pos[call.bar] ELSE 0)
               delta(asked) == IF moved(asked) THEN Rest(call.speed, cx.delta[a])
                                               ELSE cx.delta[a]
               exact(asked) == cx.exact[a] /\
                               IF moved(asked)
                               THEN /\ call.new = call.org + dd
                                    /\ atEnd \/ ~asked => pos[call.bar] = call.new
                               ELSE asked \/ pos[call.bar] = call.org
    <3>1. \E asked \in BOOLEAN :
            cx' = [cx EXCEPT !.delta[a] = delta(asked), !.exact[a] = exact(asked)]
      BY <1>1, Zenon DEF Settle
    <3> HIDE DEF a, delta, exact
    <3> QED
      BY <3>1
  <2> DEFINE n == cx.node
           bars == cx.bars
  <2>2. IsContextOf(n, bars, cx)
    BY DEF IsContext
  <2> HIDE DEF n, bars
  <2>3. IsContextOf(n, bars, cx')
    BY <2>1, <2>2, PointwiseContext
  <2> QED
    BY <2>3 DEF IsContext, IsContextOf, n, bars
<1>2. CASE ~Settle
  <2>1. UNCHANGED cx
    BY <1>2 DEF CallStep, ScrollBar, BarStep, Invalidate, TrackbarSet
  <2> QED
    BY <2>1, ContextKept
<1> QED
  BY <1>1, <1>2

\* The context stays one of an operator, by every step.
LEMMA ContextStep == IsContext /\ [Next]_vars => IsContext'
<1> SUFFICES ASSUME IsContext, [Next]_vars
             PROVE  IsContext'
  OBVIOUS
<1>1. CASE \E sw \in ScrollWindows : Start(sw[1], sw[2])
  BY <1>1, ContextKept DEF Start
<1>2. CASE TryStep
  <2>1. UNCHANGED cx \/ \E bars : InitSucceeds(bars)
    BY <1>2
    DEF TryStep, TryOr, TryApplyParent, InitWindowScrollbar, InitNeighborhood,
        InitScrollbarControl, InitTrackbar, InitWheel, InitIe, SearchIe, IeNotFound,
        IeFound, InitRefused, InitFails
  <2> QED
    BY <2>1, ContextKept, StartedContext
<1>3. CASE End
  BY <1>3 DEF End, NoContext, IsContext, IsContextOf
<1>4. CASE Target
  BY <1>4, ContextKept DEF Target
<1>5. CASE UNCHANGED vars
  BY <1>5, ContextKept DEF vars
<1> QED
  BY <1>1, <1>2, <1>3, <1>4, <1>5, ScrollContext, CallContext DEF Next

-----------------------------------------------------------------------------
(* What the operators are given: the nested operators are windows with an
   alternative to try, the bars are bars, and a call is one for a bar. *)

\* One of the nested operators: its expression, its window, the alternative it
\* tries.
Frame == [node : Nodes, win : Windows, alt : Nat \ {0}]
ChainKnown == stage = "try" => chain \in Seq(Frame) /\ chain # <<>>
\* A bar or none, per axis.
PairKnown(bars) == bars \in [Axis -> Bars \cup {Null}]
\* A track bar is there when its operator is at work.
BarsKnown ==
  /\ PairKnown(cx.bars)
  /\ stage = "running" /\ Op = "trackbar-control" => \E a \in Axis : cx.bars[a] # Null
\* The call is for a bar, and only made while an operator is at work; the axes
\* left to move have one.
CallKnown ==
  /\ call = [pc |-> call.pc, bar |-> call.bar, org |-> call.org, new |-> call.new,
             speed |-> call.speed, todo |-> call.todo]
  /\ call.pc \in {"none", "grab", "publish", "track", "drop", "restore", "settle",
                  "setpos"}
  /\ call.pc # "none" => call.bar \in Bars
  /\ call.pc # "none" \/ call.todo # <<>> => stage = "running"
  /\ call.todo \in Seq({a \in Axis : cx.bars[a] # Null})
\* The four together are inductive.
OpKnown == IsContext /\ ChainKnown /\ BarsKnown /\ CallKnown

\* The first bar there is.
LEMMA FirstGiven ==
  ASSUME NEW f, NEW a \in Axis, DOMAIN f = Axis, f[a] # Null
  PROVE  \E i \in Axis : FirstOf(f) = f[i] /\ f[i] # Null
<1> DEFINE P(i) == f[i] # Null /\ \A j \in DOMAIN f : j < i => f[j] = Null
<1>1. \E i \in DOMAIN f : P(i)
  <2>1. CASE f[1] # Null
    BY <2>1 DEF Axis
  <2>2. CASE f[1] = Null
    <3>1. P(2)
      BY <2>2 DEF Axis
    <3> QED
      BY <3>1 DEF Axis
  <2> QED
    BY <2>1, <2>2
<1>2. FirstOf(f) = f[CHOOSE i \in DOMAIN f : P(i)]
  BY DEF FirstOf
<1> DEFINE i == CHOOSE i \in DOMAIN f : P(i)
<1>3. i \in DOMAIN f /\ P(i)
  BY <1>1
<1> HIDE DEF i
<1> QED
  BY <1>2, <1>3 DEF i

\* There is an innermost operator.
LEMMA TopKnown ==
  ASSUME ChainKnown, stage = "try"
  PROVE  /\ Len(chain) \in Nat \ {0} /\ Top \in Frame
         /\ Top.node \in Nodes /\ Top.win \in Windows /\ Top.alt \in Nat \ {0}
<1>1. Len(chain) \in Nat \ {0}
  BY DEF ChainKnown
<1>2. chain[Len(chain)] \in Frame
  BY <1>1 DEF ChainKnown
<1> QED
  BY <1>1, <1>2 DEF Top, Last, Frame

\* An operator is nested in another.
LEMMA Nested ==
  ASSUME ChainKnown, stage = "try", UNCHANGED stage, NEW n \in Nodes, NEW w \in Windows, Nest(n, w)
  PROVE  ChainKnown'
<1> DEFINE f == [node |-> n, win |-> w, alt |-> 1]
<1>1. f \in Frame
  BY DEF Frame
<1>2. chain' = Append(chain, f)
  BY DEF Nest
<1> HIDE DEF f
<1> QED
  BY <1>1, <1>2 DEF ChainKnown

\* The next alternative is tried.
LEMMA Bumped ==
  ASSUME NEW c \in Seq(Frame), c # <<>>, NEW d, d = [c EXCEPT ![Len(c)].alt = @ + 1]
  PROVE  d \in Seq(Frame) /\ d # <<>>
<1> DEFINE n == Len(c)
           f == [c[n] EXCEPT !.alt = @ + 1]
<1>1. n \in Nat \ {0} /\ c[n] \in Frame
  OBVIOUS
<1>2. f \in Frame
  <2>1. c[n].alt + 1 \in Nat \ {0}
    BY <1>1 DEF Frame
  <2> QED
    BY <1>1, <2>1 DEF Frame
<1>3. d = [c EXCEPT ![n] = f]
  OBVIOUS
<1> HIDE DEF f
<1> QED
  BY <1>1, <1>2, <1>3

\* An init_context that returns 0 leaves the operator around it, which goes on.
LEMMA FailedKnown ==
  ASSUME ChainKnown, stage = "try", InitFails
  PROVE  ChainKnown'
<1>1. CASE Len(chain) = 1
  BY <1>1 DEF InitFails, ChainKnown
<1>2. CASE Len(chain) # 1
  <2> DEFINE c == Front(chain)
  <2>0. Len(chain) \in Nat \ {0}
    BY TopKnown
  <2>1. Len(chain) \in Nat /\ Len(chain) > 1
    <3> DEFINE k == Len(chain)
    <3>1. k \in Nat \ {0} /\ k # 1
      BY <1>2, <2>0
    <3> HIDE DEF k
    <3>2. k \in Nat /\ k > 1
      BY <3>1
    <3> QED
      BY <3>2 DEF k
  <2>2. c \in Seq(Frame) /\ Len(c) = Len(chain) - 1
    BY <2>1 DEF Front, ChainKnown
  <2>3. chain' = [c EXCEPT ![Len(c)].alt = @ + 1] /\ UNCHANGED stage
    BY <1>2, <2>2 DEF InitFails
  <2> HIDE DEF c
  <2>4. c # <<>>
    BY <2>1, <2>2
  <2> QED
    BY <2>2, <2>3, <2>4, Bumped DEF ChainKnown
<1> QED
  BY <1>1, <1>2

\* The start nests only expressions and windows.
LEMMA ChainTry ==
  ASSUME OpKnown, TryStep
  PROVE  ChainKnown'
<1> SUFFICES ASSUME stage' = "try" PROVE ChainKnown'
  BY DEF ChainKnown
<1>1. CASE stage # "try"
  <2>1. UNCHANGED <<stage, chain>>
    BY <1>1 DEF TryStep, TryOr, TryApplyParent, InitWindowScrollbar, InitNeighborhood,
        InitScrollbarControl, InitTrackbar, InitWheel, InitIe, SearchIe, IeNotFound,
        IeFound, Trying
  <2> QED
    BY <2>1 DEF ChainKnown, OpKnown
<1>2. CASE stage = "try"
  <2>1. /\ Top.node \in Nodes /\ Top.win \in Windows
        /\ Len(chain) \in Nat \ {0} /\ chain \in Seq(Frame) /\ Top.alt \in Nat \ {0}
    BY <1>2, TopKnown DEF OpKnown, ChainKnown
  <2>2. CASE UNCHANGED <<stage, chain>>
    BY <2>2 DEF ChainKnown, OpKnown
  <2>3. CASE InitFails
    BY <1>2, <2>3, FailedKnown DEF OpKnown
  <2>4. CASE TryOr /\ ~InitFails
    <3> DEFINE kids == Expr[Top.node].kids
    <3>1. Top.alt <= Len(kids) /\ UNCHANGED stage
          /\ (Nest(kids[Top.alt], Top.win) \/ Skip)
      BY <2>1, <2>4 DEF TryOr
    <3>2. CASE Skip
      <4>1. chain' = [chain EXCEPT ![Len(chain)].alt = @ + 1] /\ chain # <<>>
        BY <3>2, <2>1 DEF Skip
      <4> QED
        BY <2>1, <4>1, Bumped DEF ChainKnown
    <3>3. CASE Nest(kids[Top.alt], Top.win)
      <4>1. kids \in Seq(Nodes)
        BY <2>1, ScrollOpsAssumption DEF ExpressionsAssumption
      <4>2. kids[Top.alt] \in Nodes
        BY <2>1, <3>1, <4>1
      <4> QED
        BY <1>2, <2>1, <3>1, <3>3, <4>2, Nested DEF OpKnown
    <3> QED
      BY <3>1, <3>2, <3>3
  <2>5. CASE TryApplyParent /\ ~InitFails
    <3> DEFINE kid == Expr[Top.node].kids[1]
               up == Ancestor[Expr[Top.node].num][Top.win]
    <3>1. Expr[Top.node].op = "apply-parent" /\ Nest(kid, up) /\ UNCHANGED stage
      BY <2>5 DEF TryApplyParent
    <3>2. kid \in Nodes
      <4>1. Expr[Top.node].kids # <<>> /\ Expr[Top.node].kids \in Seq(Nodes)
        BY <2>1, <3>1, ScrollOpsAssumption DEF ExpressionsAssumption
      <4> QED
        BY <4>1
    <3>3. up \in Windows
      BY <2>1, AncestorTyped, ScrollOpsAssumption DEF ExpressionsAssumption
    <3> HIDE DEF kid, up
    <3> QED
      BY <1>2, <3>1, <3>2, <3>3, Nested DEF OpKnown
  <2> QED
    BY <2>2, <2>3, <2>4, <2>5
    DEF TryStep, InitWindowScrollbar, InitNeighborhood, InitScrollbarControl,
        InitTrackbar, InitWheel, InitIe, SearchIe, IeNotFound, IeFound, InitRefused,
        InitSucceeds
<1> QED
  BY <1>1, <1>2

\* Two bars, one per axis.
LEMMA PairIs ==
  ASSUME NEW x \in Bars \cup {Null}, NEW y \in Bars \cup {Null}
  PROVE  PairKnown(<<x, y>>)
<1>1. <<x, y>> = [a \in Axis |-> IF a = 1 THEN x ELSE y]
  BY DEF Axis
<1> QED
  BY <1>1 DEF PairKnown

\* enum_neighborhood_scrollbar finds a bar or none per axis.
LEMMA NeighboursKnown ==
  ASSUME NEW controls \in Seq(Bars)
  PROVE  PairKnown(Neighbours(controls))
<1> DEFINE along(a) == {b \in ToSet(controls) : BarInfo[b].dir = a}
           the(a) == IF along(a) = {} THEN Null ELSE CHOOSE b \in along(a) : TRUE
<1>1. ToSet(controls) \subseteq Bars
  BY DEF ToSet
<1>2. \A a : the(a) \in Bars \cup {Null}
  BY <1>1
<1>3. Neighbours(controls) \in {<<Null, Null>>, <<the(1), the(2)>>}
  BY DEF Neighbours
<1> HIDE DEF the
<1> QED
  BY <1>2, <1>3, PairIs

\* The step does not start an operator.
BarsKept == UNCHANGED cx /\ (stage' = "running" => stage = "running")
\* The step starts one, with these bars.
BarsGiven ==
  \E bars : /\ InitSucceeds(bars) /\ PairKnown(bars)
            /\ Expr[Top.node].op = "trackbar-control" => \E a \in Axis : bars[a] # Null

\* An operator that refuses is not started.
LEMMA BarsRefused ==
  ASSUME InitFails, stage = "try"
  PROVE  BarsKept
BY DEF InitFails, BarsKept

\* Every init_context that accepts has bars, or none, per axis.
LEMMA BarsTry ==
  ASSUME OpKnown, TryStep
  PROVE  BarsKnown'
<1>1. CASE BarsKept
  BY <1>1 DEF BarsKept, OpKnown, BarsKnown, Op
<1>2. CASE BarsGiven
  BY <1>2, StartedContext DEF BarsGiven, BarsKnown, Op
<1>0. stage = "try" => Top.win \in Windows
  BY TopKnown DEF OpKnown
<1>3. CASE InitWindowScrollbar
  <2>1. stage = "try" /\ Expr[Top.node].op = "window-scrollbar"
    BY <1>3 DEF InitWindowScrollbar, Trying
  <2>2. PairKnown(WinInfo[Top.win].own)
    BY <1>0, <2>1, ScrollOpsAssumption DEF WindowsAssumption, PairKnown
  <2> QED
    BY <1>1, <1>2, <1>3, <2>1, <2>2, BarsRefused
    DEF InitWindowScrollbar, BarsGiven, InitRefused
<1>4. CASE InitNeighborhood
  <2>1. /\ stage = "try" /\ Expr[Top.node].op = "neighborhood-scrollbar"
        /\ Top.win \in Windows
    BY <1>0, <1>4 DEF InitNeighborhood, Trying
  <2>2. PairKnown(Neighbours(WinInfo[Top.win].children))
    BY <2>1, NeighboursKnown, ScrollOpsAssumption DEF WindowsAssumption
  <2>3. Parent(Top.win) # Null =>
          PairKnown(Neighbours(WinInfo[Parent(Top.win)].children))
    BY <2>1, ParentTyped, NeighboursKnown, ScrollOpsAssumption DEF WindowsAssumption
  <2>4. PairKnown(NeighbourBars(Top.win))
    BY <2>2, <2>3 DEF NeighbourBars
  <2> QED
    BY <1>1, <1>2, <1>4, <2>1, <2>4, BarsRefused
    DEF InitNeighborhood, BarsGiven, InitRefused
<1>5. CASE InitScrollbarControl
  <2>1. stage = "try" /\ Expr[Top.node].op = "scrollbar-control"
    BY <1>5 DEF InitScrollbarControl, Trying
  <2>2. PairKnown(Beside(WinInfo[Top.win].control))
    BY <1>0, <2>1, ScrollOpsAssumption DEF WindowsAssumption, PairKnown, Beside
  <2> QED
    BY <1>1, <1>2, <1>5, <2>1, <2>2, BarsRefused
    DEF InitScrollbarControl, BarsGiven, InitRefused
<1>6. CASE InitTrackbar
  <2> DEFINE b == WinInfo[Top.win].track
  <2>1. stage = "try" /\ b \in Bars \cup {Null}
    BY <1>0, <1>6, ScrollOpsAssumption DEF InitTrackbar, Trying, WindowsAssumption
  <2>2. PairKnown(Beside(b))
    BY <2>1 DEF PairKnown, Beside
  <2>3. b # Null => \E a \in Axis : Beside(b)[a] # Null
    BY <2>1, ScrollOpsAssumption DEF WindowsAssumption, Beside
  <2> QED
    BY <1>1, <1>2, <1>6, <2>1, <2>2, <2>3, BarsRefused
    DEF InitTrackbar, BarsGiven, InitRefused
<1>7. CASE InitWheel
  <2>1. PairKnown(<<Null, Null>>)
    BY PairIs
  <2> QED
    BY <1>2, <1>7, <2>1 DEF InitWheel, BarsGiven, Trying
<1>8. CASE IeFound
  <2>1. PairKnown(IeBars) /\ \E a \in Axis : IeBars[a] # Null
    BY ScrollOpsAssumption DEF WindowsAssumption, PairKnown, Axis
  <2> QED
    BY <1>1, <1>2, <1>8, <2>1, BarsRefused DEF IeFound, BarsGiven, InitRefused
<1>9. CASE TryOr \/ TryApplyParent \/ InitIe \/ SearchIe \/ IeNotFound
  BY <1>1, <1>9, BarsRefused
  DEF TryOr, TryApplyParent, InitIe, SearchIe, IeNotFound, InitRefused, BarsKept
<1> QED
  BY <1>3, <1>4, <1>5, <1>6, <1>7, <1>8, <1>9 DEF TryStep

\* No call is made without an operator.
LEMMA CallIdle ==
  ASSUME OpKnown, stage # "running", UNCHANGED call
  PROVE  CallKnown'
<1>1. call.pc = "none" /\ call.todo = <<>>
  BY DEF OpKnown, CallKnown
<1> QED
  BY <1>1 DEF OpKnown, CallKnown

\* The call is not changed.
LEMMA CallUntouched ==
  ASSUME OpKnown, UNCHANGED <<stage, call>>, cx'.bars = cx.bars
  PROVE  CallKnown'
BY DEF OpKnown, CallKnown

\* scroll begins a call for bars there are.
LEMMA CallScroll ==
  ASSUME OpKnown, Scroll
  PROVE  CallKnown'
<1>0. IsContext' /\ cx'.bars = cx.bars /\ UNCHANGED stage
      /\ stage = "running" /\ call.todo = <<>> /\ call.pc = "none"
  BY ScrollContext DEF OpKnown, Scroll, ScrollWheel, ScrollPosted, ScrollBars, ScrollTrackbar,
     ScrollIe, Moving
<1>1. CASE UNCHANGED call
  BY <1>0, <1>1, CallUntouched
<1>2. ASSUME NEW d, ScrollBars(d)
      PROVE  CallKnown'
  <2> DEFINE A == {a \in Axis : cx'.bars[a] # Null}
  <2>1. call' = [call EXCEPT !.todo = Along(1) \o Along(2)]
    BY <1>2 DEF ScrollBars
  <2>2. Along(1) \in Seq(A) /\ Along(2) \in Seq(A)
    BY <1>0 DEF Along, Axis
  <2> HIDE DEF A
  <2>3. Along(1) \o Along(2) \in Seq(A)
    BY <2>2
  <2>4. call' = [pc |-> "none", bar |-> call.bar, org |-> call.org, new |-> call.new,
                speed |-> call.speed, todo |-> Along(1) \o Along(2)]
    BY <1>0, <2>1 DEF OpKnown, CallKnown
  <2> QED
    BY <1>0, <2>3, <2>4 DEF OpKnown, CallKnown, A
<1>3. ASSUME NEW d, ScrollTrackbar(d), ~UNCHANGED call
      PROVE  CallKnown'
  <2> DEFINE b == FirstOf(cx.bars)
  <2>1. call' = [NoCall EXCEPT !.pc = "setpos", !.bar = b]
    BY <1>3 DEF ScrollTrackbar
  <2>2. b \in Bars
    <3>1. Op = "trackbar-control"
      BY <1>3 DEF ScrollTrackbar, Moving
    <3>2. PICK a \in Axis : cx.bars[a] # Null
      BY <1>0, <3>1 DEF OpKnown, BarsKnown
    <3>3. DOMAIN cx.bars = Axis
      BY DEF OpKnown, BarsKnown, PairKnown
    <3>4. PICK i \in Axis : b = cx.bars[i] /\ cx.bars[i] # Null
      BY <3>2, <3>3, FirstGiven
    <3> QED
      BY <3>4 DEF OpKnown, BarsKnown, PairKnown
  <2> HIDE DEF b
  <2>3. call' = [pc |-> "setpos", bar |-> b, org |-> 0, new |-> 0,
                speed |-> [num |-> 0, den |-> 1], todo |-> <<>>]
    BY <2>1 DEF NoCall
  <2> QED
    BY <1>0, <2>2, <2>3 DEF OpKnown, CallKnown
<1> QED
  BY <1>1, <1>2, <1>3 DEF Scroll, ScrollWheel, ScrollPosted, ScrollIe

\* A call goes on with the bar it has, or the next one.
LEMMA CallCall ==
  ASSUME OpKnown, CallStep
  PROVE  CallKnown'
<1>0. IsContext' /\ cx'.bars = cx.bars
  BY CallContext DEF OpKnown
<1>1. UNCHANGED stage
  BY DEF CallStep, ScrollBar, BarStep, Invalidate, Settle, TrackbarSet
<1> DEFINE A == {a \in Axis : cx.bars[a] # Null}
<1> HIDE DEF A
<1>2. /\ call = [pc |-> call.pc, bar |-> call.bar, org |-> call.org, new |-> call.new,
             speed |-> call.speed, todo |-> call.todo]
      /\ call.todo \in Seq(A)
  BY DEF OpKnown, CallKnown, A
<1>3. CASE ScrollBar
  <2>1. call.todo # <<>> /\ stage = "running"
    BY <1>3 DEF ScrollBar, OpKnown, CallKnown
  <2>2. Tail(call.todo) \in Seq(A) /\ Head(call.todo) \in A
    BY <1>2, <2>1
  <2> DEFINE b == cx.bars[Head(call.todo)]
  <2>3. b \in Bars
    BY <2>2 DEF OpKnown, BarsKnown, PairKnown, A
  <2> HIDE DEF b
  <2>4. \/ call' = [call EXCEPT !.todo = Tail(@)] /\ call.pc = "none"
        \/ \E org, new, speed :
            call' = [pc |-> "grab", bar |-> b, org |-> org, new |-> new, speed |-> speed,
                     todo |-> Tail(call.todo)]
    BY <1>3 DEF ScrollBar, Grab, b
  <2>5. CASE call' = [call EXCEPT !.todo = Tail(@)] /\ call.pc = "none"
    <3>1. call' = [pc |-> "none", bar |-> call.bar, org |-> call.org, new |-> call.new,
                   speed |-> call.speed, todo |-> Tail(call.todo)]
      BY <1>2, <2>5
    <3> QED
      BY <1>0, <1>1, <2>1, <2>2, <3>1 DEF CallKnown, A
  <2>6. ASSUME NEW org, NEW new, NEW speed,
               call' = [pc |-> "grab", bar |-> b, org |-> org, new |-> new,
                        speed |-> speed, todo |-> Tail(call.todo)]
        PROVE  CallKnown'
    BY <1>0, <1>1, <2>1, <2>2, <2>3, <2>6 DEF CallKnown, A
  <2> QED
    BY <2>4, <2>5, <2>6
<1>4. ASSUME NEW pc \in {"grab", "publish", "track", "drop", "restore", "settle",
                  "setpos"}, call.pc # "none", call' = [call EXCEPT !.pc = pc]
      PROVE  CallKnown'
  <2>1. call' = [pc |-> pc, bar |-> call.bar, org |-> call.org, new |-> call.new,
                 speed |-> call.speed, todo |-> call.todo]
    BY <1>2, <1>4
  <2>2. call.bar \in Bars /\ stage = "running"
    BY <1>4 DEF OpKnown, CallKnown
  <2>3. call'.pc = pc /\ call'.bar = call.bar /\ call'.todo = call.todo
    BY <2>1
  <2>4. call' = [pc |-> call'.pc, bar |-> call'.bar, org |-> call'.org,
                 new |-> call'.new, speed |-> call'.speed, todo |-> call'.todo]
    BY <2>1
  <2>5. call'.todo \in Seq({a \in Axis : cx'.bars[a] # Null})
    BY <1>0, <1>2, <2>3 DEF A
  <2>6. call'.pc # "none" \/ call'.todo # <<>> => stage' = "running"
    BY <1>1, <2>2
  <2>7. call'.pc \in {"none", "grab", "publish", "track", "drop", "restore", "settle",
                     "setpos"}
    BY <1>4, <2>3
  <2>8. call'.bar \in Bars
    BY <2>2, <2>3
  <2> QED
    BY <2>4, <2>5, <2>6, <2>7, <2>8 DEF CallKnown
<1>5. CASE Settle
  <2>1. call' = [NoCall EXCEPT !.todo = call.todo] /\ stage = "running"
    BY <1>5 DEF Settle, OpKnown, CallKnown
  <2>2. call' = [pc |-> "none", bar |-> Null, org |-> 0, new |-> 0,
                speed |-> [num |-> 0, den |-> 1], todo |-> call.todo]
    BY <2>1 DEF NoCall
  <2>3. call'.pc = "none" /\ call'.todo = call.todo
    BY <2>2
  <2>4. call' = [pc |-> call'.pc, bar |-> call'.bar, org |-> call'.org,
                 new |-> call'.new, speed |-> call'.speed, todo |-> call'.todo]
    BY <2>2
  <2>5. call'.todo \in Seq({a \in Axis : cx'.bars[a] # Null})
    BY <1>0, <1>2, <2>3 DEF A
  <2> QED
    BY <1>1, <2>1, <2>3, <2>4, <2>5 DEF CallKnown
<1>6. CASE TrackbarSet
  <2>1. call' = [pc |-> "none", bar |-> Null, org |-> 0, new |-> 0,
                speed |-> [num |-> 0, den |-> 1], todo |-> <<>>]
    BY <1>6 DEF TrackbarSet, NoCall
  <2> QED
    BY <1>0, <1>1, <2>1 DEF CallKnown
<1>7. CASE BarStep
  BY <1>4, <1>7 DEF BarStep, Publish, Track, Drop, Restore
<1>8. CASE Invalidate
  BY <1>4, <1>8 DEF Invalidate, LastReturned
<1> QED
  BY <1>3, <1>5, <1>6, <1>7, <1>8 DEF CallStep

\* Every step keeps the operator, its bars and its call.
LEMMA OpStep == OpKnown /\ [Next]_vars => OpKnown'
<1> SUFFICES ASSUME OpKnown, [Next]_vars
             PROVE  OpKnown'
  OBVIOUS
<1>0. IsContext'
  BY ContextStep DEF OpKnown
<1>1. ASSUME NEW sw \in ScrollWindows, Start(sw[1], sw[2])
      PROVE  OpKnown'
  <2> DEFINE f == [node |-> sw[1], win |-> sw[2], alt |-> 1]
  <2>1. f \in Frame
    BY ScrollOpsAssumption DEF WindowsAssumption, Frame
  <2>2. /\ stage = "idle" /\ chain' = <<f>> /\ stage' = "try"
        /\ UNCHANGED <<cx, call>>
    BY <1>1 DEF Start
  <2> HIDE DEF f
  <2>3. ChainKnown'
    BY <2>1, <2>2 DEF ChainKnown
  <2>4. CallKnown'
    BY <2>2, CallIdle
  <2> QED
    BY <1>0, <2>2, <2>3, <2>4 DEF OpKnown, BarsKnown
<1>2. CASE TryStep
  <2>1. UNCHANGED call /\ (stage # "running" \/ UNCHANGED <<stage, cx>>)
    BY <1>2
    DEF TryStep, TryOr, TryApplyParent, InitWindowScrollbar, InitNeighborhood,
        InitScrollbarControl, InitTrackbar, InitWheel, InitIe, SearchIe, IeNotFound,
        IeFound, Trying
  <2> QED
    BY <1>0, <1>2, <2>1, ChainTry, BarsTry, CallIdle, CallUntouched DEF OpKnown
<1>3. CASE Scroll
  <2>1. UNCHANGED stage /\ stage = "running"
    BY <1>3 DEF Scroll, ScrollWheel, ScrollPosted, ScrollBars, ScrollTrackbar, ScrollIe,
                Moving
  <2>2. cx'.bars = cx.bars /\ cx'.node = cx.node
    BY <1>3, ScrollContext DEF OpKnown
  <2> QED
    BY <1>0, <1>3, <2>1, <2>2, CallScroll DEF OpKnown, ChainKnown, BarsKnown, Op
<1>4. CASE CallStep
  <2>1. UNCHANGED <<stage, chain>>
    BY <1>4 DEF CallStep, ScrollBar, BarStep, Invalidate, Settle, TrackbarSet
  <2>2. cx'.bars = cx.bars /\ cx'.node = cx.node
    BY <1>4, CallContext DEF OpKnown
  <2> QED
    BY <1>0, <1>4, <2>1, <2>2, CallCall DEF OpKnown, ChainKnown, BarsKnown, Op
<1>5. CASE End
  <2>1. stage' = "idle" /\ cx' = NoContext /\ UNCHANGED call
        /\ call.pc = "none" /\ call.todo = <<>>
    BY <1>5 DEF End
  <2>2. PairKnown(cx'.bars)
    BY <2>1, PairIs DEF NoContext
  <2>3. CallKnown'
    BY <2>1 DEF OpKnown, CallKnown
  <2> QED
    BY <1>0, <2>1, <2>2, <2>3 DEF OpKnown, ChainKnown, BarsKnown
<1>6. CASE Target
  <2>1. UNCHANGED <<stage, chain, cx, call>>
    BY <1>6 DEF Target, Handle
  <2> QED
    BY <1>0, <2>1 DEF OpKnown, ChainKnown, BarsKnown, CallKnown, Op
<1>7. CASE UNCHANGED vars
  BY <1>0, <1>7 DEF vars, OpKnown, ChainKnown, BarsKnown, CallKnown, Op
<1> QED
  BY <1>1, <1>2, <1>3, <1>4, <1>5, <1>6, <1>7 DEF Next

\* At first there is none of them.
LEMMA OpStart == Init => OpKnown
<1> SUFFICES ASSUME Init PROVE OpKnown
  OBVIOUS
<1>1. PairKnown(<<Null, Null>>)
  BY PairIs
<1>2. cx = NoContext /\ stage = "idle" /\ call = NoCall
  BY DEF Init, InjectInit
<1>3. PairKnown(cx.bars) /\ IsContext
  BY <1>1, <1>2 DEF NoContext, IsContext, IsContextOf
<1>4. CallKnown
  BY <1>2 DEF NoCall, CallKnown
<1> QED
  BY <1>2, <1>3, <1>4 DEF OpKnown, ChainKnown, BarsKnown

\* What a condition counts for.
One(b) == IF b THEN 1 ELSE 0

-----------------------------------------------------------------------------
(* The references to the browser's objects. *)

\* How many places of the walk name the object.
HeldBy(w, o) == One(w.top = o) + One(w.doc = o) + One(w.elem = o) + One(w.walk = o)

\* The fields of the walk.
IsWalk == ie = [pc |-> ie.pc, top |-> ie.top, doc |-> ie.doc, elem |-> ie.elem,
                walk |-> ie.walk]

\* Which of its places name an object, by where the walk is.
WalkPlaces ==
  /\ ie.pc \in {"none", "failed", "window", "point", "tag", "offset", "parents",
                "scrollable", "found"}
  /\ ie.pc \in {"none", "failed", "scrollable", "found"} => ie.top = Null
  /\ ie.pc \in {"none", "failed", "scrollable", "found", "tag"} => ie.doc = Null
  /\ ie.pc \in {"none", "failed", "found", "window", "point"} => ie.elem = Null
  /\ ie.pc \in {"failed", "window", "point", "tag", "offset", "parents"} => ie.walk = Null

\* Each reference is held by the walk, or was given up.
Counts == \A o \in Objects : refs[o] = lost[o] + HeldBy(ie, o)
WalkInv ==
  /\ IsWalk /\ WalkPlaces
  /\ refs \in [Objects -> Int] /\ lost \in [Objects -> Int]
  /\ Counts

\* The walk is made in a start; its end is what an operator at work keeps.
WalkInStart ==
  /\ ie.pc # "none" => stage = "try" /\ Expr[Top.node].op = "ie-scroll"
  /\ ie.pc = "none" /\ ie.walk # Null => stage = "running" /\ Op = "ie-scroll"

\* The inductive invariant of IeReferences.
IeInv == WalkInv /\ IsContext /\ WalkInStart

\* Nothing is not an object.
LEMMA NullIsNone == Null \notin Objects
BY IeTargetAssumption DEF Objects

\* A reference taken is counted once more.
LEMMA GotCounts ==
  ASSUME NEW r \in [Objects -> Int], NEW x
  PROVE  /\ Got(r, x) \in [Objects -> Int]
         /\ \A o \in Objects : Got(r, x)[o] = r[o] + One(x = o)
<1>1. CASE x \in Objects
  BY <1>1 DEF Got, One
<1>2. CASE x \notin Objects
  <2>1. Got(r, x) = r
    BY <1>2 DEF Got
  <2> QED
    BY <1>2, <2>1 DEF One
<1> QED
  BY <1>1, <1>2

\* A reference released is counted once less.
LEMMA ReleasedCounts ==
  ASSUME NEW r \in [Objects -> Int], NEW x
  PROVE  /\ Released(r, x) \in [Objects -> Int]
         /\ \A o \in Objects : Released(r, x)[o] = r[o] - One(x = o)
<1>1. CASE x \in Objects
  BY <1>1 DEF Released, One
<1>2. CASE x \notin Objects
  <2>1. Released(r, x) = r
    BY <1>2 DEF Released
  <2> QED
    BY <1>2, <2>1 DEF One
<1> QED
  BY <1>1, <1>2

\* A walk that fails holds nothing.
LEMMA NotFoundInv ==
  ASSUME WalkInv, UNCHANGED lost, NEW r \in [Objects -> Int], NotFound(r),
         \A o \in Objects : r[o] = lost[o] + One(ie.top = o)
  PROVE  WalkInv'
<1>1. ie' = [pc |-> "failed", top |-> Null, doc |-> Null, elem |-> Null, walk |-> Null]
  BY DEF NotFound, NoWalk
<1>2. IsWalk' /\ WalkPlaces'
  BY <1>1 DEF IsWalk, WalkPlaces
<1>3. refs' \in [Objects -> Int] /\ \A o \in Objects : refs'[o] = r[o] - One(ie.top = o)
  BY ReleasedCounts DEF NotFound
<1>4. Counts'
  BY <1>1, <1>3, NullIsNone DEF Counts, HeldBy, One, WalkInv
<1> QED
  BY <1>2, <1>3, <1>4 DEF WalkInv

\* A walk that has found the element holds that one.
LEMMA FoundInv ==
  ASSUME WalkInv, UNCHANGED lost, NEW r \in [Objects -> Int], NEW e, Found(r, e),
         \A o \in Objects : r[o] = lost[o] + One(ie.top = o) + One(e = o)
  PROVE  WalkInv'
<1>1. ie' = [pc |-> "scrollable", top |-> Null, doc |-> Null, elem |-> e, walk |-> e]
  BY DEF Found, NoWalk
<1>2. IsWalk' /\ WalkPlaces'
  BY <1>1 DEF IsWalk, WalkPlaces
<1>3. /\ Released(r, ie.top) \in [Objects -> Int] 
      /\ \A o \in Objects : Released(r, ie.top)[o] = r[o] - One(ie.top = o)
  BY ReleasedCounts
<1>4. /\ refs' \in [Objects -> Int]
      /\ \A o \in Objects : refs'[o] = Released(r, ie.top)[o] + One(e = o)
  <2> DEFINE q == Released(r, ie.top)
  <2>1. q \in [Objects -> Int] /\ refs' = Got(q, e)
    BY <1>3 DEF Found
  <2> HIDE DEF q
  <2>2. refs' \in [Objects -> Int] /\ \A o \in Objects : refs'[o] = q[o] + One(e = o)
    BY <2>1, GotCounts
  <2> QED
    BY <2>2 DEF q
<1>5. Counts'
  BY <1>1, <1>3, <1>4, NullIsNone DEF Counts, HeldBy, One, WalkInv
<1> QED
  BY <1>2, <1>4, <1>5 DEF WalkInv

\* r after Released(refs, x) and Got(_, y): both counted.
LEMMA ExchangedCounts ==
  ASSUME NEW r \in [Objects -> Int], NEW x, NEW y
  PROVE  /\ Got(Released(r, x), y) \in [Objects -> Int]
         /\ \A o \in Objects :
              Got(Released(r, x), y)[o] = r[o] - One(x = o) + One(y = o)
<1> DEFINE q == Released(r, x)
<1>1. q \in [Objects -> Int] /\ \A o \in Objects : q[o] = r[o] - One(x = o)
  BY ReleasedCounts
<1> HIDE DEF q
<1>2. Got(q, y) \in [Objects -> Int] /\ \A o \in Objects : Got(q, y)[o] = q[o] + One(y = o)
  BY <1>1, GotCounts
<1>3. \A o \in Objects : Got(q, y)[o] = r[o] - One(x = o) + One(y = o)
  BY <1>1, <1>2 DEF One
<1> QED
  BY <1>2, <1>3 DEF q

\* get_ie_target: every step of the walk keeps the count.
LEMMA WalkStepInv ==
  ASSUME WalkInv, UNCHANGED lost, WalkStep
  PROVE  WalkInv'
<1> USE DEF IsWalk, WalkPlaces
<1>1. CASE ParentWindow
  <2>1. CASE NotFound(Released(refs, ie.doc))
    <3>1. \A o \in Objects : Released(refs, ie.doc)[o] = lost[o] + One(ie.top = o)
      BY <1>1, ReleasedCounts, NullIsNone DEF WalkInv, Counts, HeldBy, One, ParentWindow
    <3> QED
      BY <2>1, <3>1, NotFoundInv, ReleasedCounts DEF WalkInv
  <2> QED
    BY <1>1, <2>1 DEF ParentWindow, WalkInv, Counts, HeldBy, One
<1>2. CASE ElementFromPoint
  <2> DEFINE r == Released(refs, ie.doc)
  <2>0. ie.pc = "point" /\ ie.elem = Null /\ ie.walk = Null
    BY <1>2 DEF ElementFromPoint, WalkInv
  <2>a. r \in [Objects -> Int] /\ \A o \in Objects : r[o] = refs[o] - One(ie.doc = o)
    BY ReleasedCounts DEF WalkInv
  <2> HIDE DEF r
  <2>1. \A o \in Objects : r[o] = lost[o] + One(ie.top = o)
    BY <2>0, <2>a, NullIsNone DEF WalkInv, Counts, HeldBy, One
  <2>2. CASE NotFound(r)
    BY <2>1, <2>2, <2>a, NotFoundInv
  <2>3. ASSUME NEW e \in Elems, refs' = Got(r, e),
               ie' = [ie EXCEPT !.pc = "tag", !.doc = Null, !.elem = e]
        PROVE  WalkInv'
    <3>2. ie' = [pc |-> "tag", top |-> ie.top, doc |-> Null, elem |-> e, walk |-> Null]
      BY <2>0, <2>3 DEF WalkInv
    <3>3. refs' \in [Objects -> Int] /\ \A o \in Objects : refs'[o] = r[o] + One(e = o)
      BY <2>a, <2>3, GotCounts
    <3>4. Counts'
      BY <2>1, <2>a, <3>2, <3>3, NullIsNone DEF WalkInv, Counts, HeldBy, One
    <3> QED
      BY <3>2, <3>3, <3>4 DEF WalkInv
  <2> QED
    BY <1>2, <2>2, <2>3 DEF ElementFromPoint, r
<1>3. CASE TagName
  <2>0. ie.pc = "tag" /\ ie.doc = Null /\ ie.walk = Null
    BY <1>3 DEF TagName, WalkInv
  <2>1. CASE NotFound(Released(refs, ie.elem))
    <3>1. \A o \in Objects : Released(refs, ie.elem)[o] = lost[o] + One(ie.top = o)
      BY <2>0, ReleasedCounts, NullIsNone DEF WalkInv, Counts, HeldBy, One
    <3> QED
      BY <2>1, <3>1, NotFoundInv, ReleasedCounts DEF WalkInv
  <2>2. CASE Found(refs, ie.elem)
    <3>1. \A o \in Objects : refs[o] = lost[o] + One(ie.top = o) + One(ie.elem = o)
      BY <2>0, NullIsNone DEF WalkInv, Counts, HeldBy, One
    <3> QED
      BY <2>2, <3>1, FoundInv DEF WalkInv
  <2>3. ASSUME NEW d, refs' = Got(refs, d), ie' = [ie EXCEPT !.pc = "offset", !.doc = d]
        PROVE  WalkInv'
    <3>2. ie' = [pc |-> "offset", top |-> ie.top, doc |-> d, elem |-> ie.elem,
                 walk |-> ie.walk]
      BY <2>3 DEF WalkInv
    <3>3. refs' \in [Objects -> Int] /\ \A o \in Objects : refs'[o] = refs[o] + One(d = o)
      BY <2>3, GotCounts DEF WalkInv
    <3>4. Counts'
      BY <2>0, <3>2, <3>3, NullIsNone DEF WalkInv, Counts, HeldBy, One
    <3> QED
      BY <2>0, <3>2, <3>3, <3>4 DEF WalkInv
  <2> QED
    BY <1>3, <2>1, <2>2, <2>3 DEF TagName
<1>4. ASSUME NEW p, ie.pc \in {"offset", "parents"}, Climb(p)
      PROVE  WalkInv'
  <2>1. ie' = [pc |-> ie.pc, top |-> ie.top, doc |-> ie.doc, elem |-> p, walk |-> ie.walk]
    BY <1>4 DEF WalkInv, Climb
  <2>2. /\ refs' \in [Objects -> Int]
        /\ \A o \in Objects : refs'[o] = refs[o] - One(ie.elem = o) + One(p = o)
    BY <1>4, ExchangedCounts DEF WalkInv, Climb
  <2>3. Counts'
    BY <2>1, <2>2 DEF WalkInv, Counts, HeldBy, One
  <2> QED
    BY <1>4, <2>1, <2>2, <2>3 DEF WalkInv
<1>5. CASE OffsetParent
  <2>1. CASE ie' = [ie EXCEPT !.pc = "parents"] /\ UNCHANGED refs
    BY <1>5, <2>1 DEF OffsetParent, WalkInv, Counts, HeldBy, One
  <2> QED
    BY <1>4, <1>5, <2>1 DEF OffsetParent
<1>6. CASE ParentElement
  <2>1. CASE /\ refs' = Released(refs, ie.elem)
             /\ ie' = [ie EXCEPT !.pc = "point", !.elem = Null]
    <3>1. ie' = [pc |-> "point", top |-> ie.top, doc |-> ie.doc, elem |-> Null,
                 walk |-> ie.walk]
      BY <2>1 DEF WalkInv
    <3>2. /\ refs' \in [Objects -> Int]
          /\ \A o \in Objects : refs'[o] = refs[o] - One(ie.elem = o)
      BY <2>1, ReleasedCounts DEF WalkInv
    <3>3. Counts'
      BY <3>1, <3>2, NullIsNone DEF WalkInv, Counts, HeldBy, One
    <3> QED
      BY <1>6, <3>1, <3>2, <3>3 DEF WalkInv, ParentElement
  <2> QED
    BY <1>4, <1>6, <2>1 DEF ParentElement
<1>7. CASE ScrollableParent
  <2>0. ie.pc = "scrollable" /\ ie.top = Null /\ ie.doc = Null
    BY <1>7 DEF ScrollableParent, WalkInv
  <2>1. CASE /\ refs' = Released(refs, ie.elem)
             /\ ie' = [ie EXCEPT !.pc = "found", !.elem = Null]
    <3>1. ie' = [pc |-> "found", top |-> Null, doc |-> Null, elem |-> Null,
                 walk |-> ie.walk]
      BY <2>0, <2>1 DEF WalkInv
    <3>2. /\ refs' \in [Objects -> Int]
          /\ \A o \in Objects : refs'[o] = refs[o] - One(ie.elem = o)
      BY <2>1, ReleasedCounts DEF WalkInv
    <3>3. Counts'
      BY <2>0, <3>1, <3>2, NullIsNone DEF WalkInv, Counts, HeldBy, One
    <3> QED
      BY <3>1, <3>2, <3>3 DEF WalkInv
  <2>2. ASSUME NEW p, refs' = Got(Released(refs, ie.walk), p), ie' = [ie EXCEPT !.walk = p]
        PROVE  WalkInv'
    <3>1. ie' = [pc |-> "scrollable", top |-> Null, doc |-> Null, elem |-> ie.elem,
                 walk |-> p]
      BY <2>0, <2>2 DEF WalkInv
    <3>2. /\ refs' \in [Objects -> Int]
          /\ \A o \in Objects : refs'[o] = refs[o] - One(ie.walk = o) + One(p = o)
      BY <2>2, ExchangedCounts DEF WalkInv
    <3>3. Counts'
      BY <2>0, <3>1, <3>2, NullIsNone DEF WalkInv, Counts, HeldBy, One
    <3> QED
      BY <3>1, <3>2, <3>3 DEF WalkInv
  <2>3. CASE /\ refs' = Released(Released(refs, ie.walk), ie.elem)
             /\ ie' = [NoWalk EXCEPT !.pc = "failed"]
    <3> DEFINE q == Released(refs, ie.walk)
    <3>0. q \in [Objects -> Int] /\ \A o \in Objects : q[o] = refs[o] - One(ie.walk = o)
      BY ReleasedCounts DEF WalkInv
    <3>1. ie' = [pc |-> "failed", top |-> Null, doc |-> Null, elem |-> Null,
                 walk |-> Null]
      BY <2>3 DEF NoWalk
    <3>. HIDE DEF q
    <3>2. /\ refs' \in [Objects -> Int]
          /\ \A o \in Objects : refs'[o] = q[o] - One(ie.elem = o)
      <4>1. refs' = Released(q, ie.elem)
        BY <2>3 DEF q
      <4> QED
        BY <3>0, <4>1, ReleasedCounts
    <3>3. Counts'
      BY <2>0, <3>0, <3>1, <3>2, NullIsNone DEF WalkInv, Counts, HeldBy, One
    <3> QED
      BY <3>1, <3>2, <3>3 DEF WalkInv
  <2> QED
    BY <1>7, <2>1, <2>2, <2>3 DEF ScrollableParent
<1> QED
  BY <1>1, <1>2, <1>3, <1>5, <1>6, <1>7 DEF WalkStep

\* Nor do the steps that are not the walk's change it.
LEMMA OutsideWalk ==
  ASSUME IeInv, IsContext', UNCHANGED <<ieVars, lost>>,
         \/ stage # "running" /\ (stage = "try" => Expr[Top.node].op # "ie-scroll")
         \/ stage' = stage /\ chain' = chain /\ cx'.node = cx.node
  PROVE  IeInv'
<1>1. WalkInv'
  BY DEF IeInv, WalkInv, IsWalk, WalkPlaces, Counts, HeldBy, ieVars
<1>2. WalkInStart'
  <2>1. CASE stage # "running" /\ (stage = "try" => Expr[Top.node].op # "ie-scroll")
    BY <2>1 DEF IeInv, WalkInStart, ieVars
  <2>2. CASE stage' = stage /\ chain' = chain /\ cx'.node = cx.node
    BY <2>2 DEF IeInv, WalkInStart, ieVars, Top, Op
  <2> QED
    BY <2>1, <2>2
<1> QED
  BY <1>1, <1>2 DEF IeInv

\* The start of the operators, with the failures after the search.
LEMMA IeTry ==
  ASSUME IeInv, TryStep
  PROVE  IeInv'
<1>1. CASE TryOr
  BY <1>1, ContextKept, OutsideWalk DEF TryOr, InitFails, IeInv
<1>2. CASE TryApplyParent
  BY <1>2, ContextKept, OutsideWalk DEF TryApplyParent, InitFails, IeInv
<1>3. CASE InitWindowScrollbar
  BY <1>3, ContextKept, StartedContext, OutsideWalk
  DEF InitWindowScrollbar, Trying, InitRefused, InitFails, IeInv
<1>4. CASE InitNeighborhood
  BY <1>4, ContextKept, StartedContext, OutsideWalk
  DEF InitNeighborhood, Trying, InitRefused, InitFails, IeInv
<1>5. CASE InitScrollbarControl
  BY <1>5, ContextKept, StartedContext, OutsideWalk
  DEF InitScrollbarControl, Trying, InitRefused, InitFails, IeInv
<1>6. CASE InitTrackbar
  BY <1>6, ContextKept, StartedContext, OutsideWalk
  DEF InitTrackbar, Trying, InitRefused, InitFails, IeInv
<1>7. CASE InitWheel
  BY <1>7, ContextKept, StartedContext, OutsideWalk
  DEF InitWheel, Trying, InitRefused, InitFails, IeInv
<1>8. CASE InitIe
  <2>1. /\ stage = "try" /\ Expr[Top.node].op = "ie-scroll" /\ ie.pc = "none"
        /\ UNCHANGED <<stage, chain, cx, lost>>
    BY <1>8 DEF InitIe, Trying
  <2>2. ie = NoWalk
    BY <2>1 DEF IeInv, WalkInv, IsWalk, WalkPlaces, WalkInStart, NoWalk
  <2>3. \A o \in Objects : refs[o] = lost[o]
    BY <2>2, NullIsNone DEF IeInv, WalkInv, Counts, HeldBy, One, NoWalk
  <2>4. WalkInv'
    <3>1. CASE NoTopDocument
      <4>1. ie' = [pc |-> "failed", top |-> Null, doc |-> Null, elem |-> Null,
                   walk |-> Null]
        BY <3>1 DEF NoTopDocument, NoWalk
      <4>2. Counts'
        BY <2>1, <2>3, <3>1, <4>1, NullIsNone
        DEF NoTopDocument, Counts, HeldBy, One, IeInv, WalkInv
      <4>3. IsWalk' /\ WalkPlaces'
        BY <4>1 DEF IsWalk, WalkPlaces
      <4> QED
        BY <2>1, <3>1, <4>2, <4>3 DEF NoTopDocument, IeInv, WalkInv
    <3>2. ASSUME NEW d, GetTopDocument(d)
          PROVE  WalkInv'
      <4>1. ie' = [pc |-> "window", top |-> d, doc |-> d, elem |-> Null,
                   walk |-> Null]
        BY <3>2 DEF GetTopDocument, NoWalk
      <4> DEFINE q == Got(refs, d)
      <4>2. q \in [Objects -> Int] /\ \A o \in Objects : q[o] = refs[o] + One(d = o)
        BY GotCounts DEF IeInv, WalkInv
      <4>3. refs' = Got(q, d)
        BY <3>2 DEF GetTopDocument
      <4> HIDE DEF q
      <4>4. /\ refs' \in [Objects -> Int]
            /\ \A o \in Objects : refs'[o] = q[o] + One(d = o)
        BY <4>2, <4>3, GotCounts
      <4>5. Counts'
        BY <2>1, <2>3, <4>1, <4>2, <4>4, NullIsNone
        DEF Counts, HeldBy, One, IeInv, WalkInv
      <4> QED
        BY <2>1, <4>1, <4>4, <4>5 DEF IeInv, WalkInv, IsWalk, WalkPlaces
    <3> QED
      BY <1>8, <3>1, <3>2 DEF InitIe
  <2>5. ie'.pc # "none"
    BY <1>8 DEF InitIe, NoTopDocument, GetTopDocument, NoWalk
  <2> QED
    BY <2>1, <2>4, <2>5 DEF IeInv, IsContext, WalkInStart, Top
<1>9. CASE SearchIe
  <2>1. WalkStep /\ UNCHANGED <<stage, chain, cx, lost>>
    BY <1>9 DEF SearchIe
  <2>2. WalkInv'
    BY <2>1, WalkStepInv DEF IeInv
  <2>3. ie.pc # "none"
    BY <2>1 DEF WalkStep, ParentWindow, ElementFromPoint, TagName, OffsetParent,
                ParentElement, ScrollableParent
  <2>4. ie'.pc # "none"
    BY <2>1 DEF WalkStep, ParentWindow, ElementFromPoint, TagName, OffsetParent,
                ParentElement, ScrollableParent, NotFound, Found, Climb, NoWalk,
                IeInv, WalkInv, IsWalk
  <2> QED
    BY <2>1, <2>2, <2>3, <2>4 DEF IeInv, IsContext, WalkInStart, Top
<1>10. CASE IeNotFound
  <2>1. ie.pc = "failed" /\ ie' = NoWalk /\ UNCHANGED <<cx, refs, lost>>
    BY <1>10 DEF IeNotFound, InitRefused, InitFails
  <2>2. ie'.pc = "none" /\ ie'.walk = Null
    BY <2>1 DEF NoWalk
  <2>3. \A o \in Objects : refs[o] = lost[o]
    BY <2>1, NullIsNone DEF IeInv, WalkInv, WalkPlaces, Counts, HeldBy, One
  <2>4. Counts'
    BY <2>1, <2>3, NullIsNone DEF Counts, HeldBy, One, NoWalk, IeInv, WalkInv
  <2> QED
    BY <2>1, <2>2, <2>4
    DEF IeInv, WalkInv, IsWalk, WalkPlaces, NoWalk, IsContext, WalkInStart
<1>11. CASE IeFound
  <2>1. ie.pc = "found" /\ stage = "try" /\ UNCHANGED refs
    BY <1>11 DEF IeFound
  <2>2. Expr[Top.node].op = "ie-scroll"
    BY <2>1 DEF IeInv, WalkInStart
  <2>3. \A o \in Objects : refs[o] = lost[o] + One(ie.walk = o)
    BY <2>1, NullIsNone DEF IeInv, WalkInv, WalkPlaces, Counts, HeldBy, One
  <2>4. CASE InitSucceeds(IeBars) /\ ie' = [ie EXCEPT !.pc = "none"] /\ UNCHANGED lost
    <3>1. ie' = [pc |-> "none", top |-> Null, doc |-> Null, elem |-> Null,
                 walk |-> ie.walk]
      BY <2>1, <2>4 DEF IeInv, WalkInv, IsWalk, WalkPlaces
    <3>2. Counts'
      BY <2>1, <2>3, <2>4, <3>1, NullIsNone DEF Counts, HeldBy, One, IeInv, WalkInv
    <3>3. IsContext' /\ cx'.node = Top.node /\ stage' = "running"
      BY <2>4, StartedContext DEF InitSucceeds
    <3> QED
      BY <2>1, <2>2, <2>4, <3>1, <3>2, <3>3
      DEF IeInv, WalkInv, IsWalk, WalkPlaces, WalkInStart, Op
  <2>5. CASE InitRefused /\ ie' = NoWalk /\ lost' = Got(lost, ie.walk)
    <3>1. ie'.pc = "none" /\ ie'.walk = Null
      BY <2>5 DEF NoWalk
    <3>2. /\ lost' \in [Objects -> Int]
          /\ \A o \in Objects : lost'[o] = lost[o] + One(ie.walk = o)
      BY <2>5, GotCounts DEF IeInv, WalkInv
    <3>3. Counts'
      BY <2>1, <2>3, <2>5, <3>2, NullIsNone
      DEF Counts, HeldBy, One, NoWalk, IeInv, WalkInv
    <3>4. UNCHANGED cx
      BY <2>5 DEF InitRefused, InitFails
    <3> QED
      BY <2>1, <2>5, <3>1, <3>2, <3>3, <3>4
      DEF IeInv, WalkInv, IsWalk, WalkPlaces, NoWalk, IsContext, WalkInStart
  <2> QED
    BY <1>11, <2>4, <2>5 DEF IeFound
<1> QED
  BY <1>1, <1>2, <1>3, <1>4, <1>5, <1>6, <1>7, <1>8, <1>9, <1>10, <1>11 DEF TryStep

\* scroll keeps the references.
LEMMA IeScroll ==
  ASSUME IeInv, Scroll
  PROVE  IeInv'
<1>1. UNCHANGED <<stage, chain, lost>>
  BY DEF Scroll, ScrollWheel, ScrollPosted, ScrollBars, ScrollTrackbar, ScrollIe, Moving
<1>2. UNCHANGED ieVars
  BY DEF Scroll, ScrollWheel, ScrollPosted, ScrollBars, ScrollTrackbar, ScrollIe, ieVars
<1> QED
  BY <1>1, <1>2, ScrollContext, OutsideWalk DEF IeInv

\* So does a running call.
LEMMA IeCall ==
  ASSUME IeInv, CallStep
  PROVE  IeInv'
<1>1. UNCHANGED <<stage, chain, lost>> /\ UNCHANGED ieVars
  BY DEF CallStep, ScrollBar, BarStep, Invalidate, Settle, TrackbarSet, ieVars
<1> QED
  BY <1>1, CallContext, OutsideWalk DEF IeInv

\* end_scroll releases the element being scrolled.
LEMMA IeEnd ==
  ASSUME IeInv, End
  PROVE  IeInv'
<1>1. ie.pc = "none"
  BY DEF IeInv, WalkInStart, End
<1>2. /\ cx' = NoContext /\ UNCHANGED lost
      /\ stage' = "idle"
  BY DEF End
<1>3. IsContext'
  BY <1>2 DEF IsContext, IsContextOf, NoContext
<1>4. CASE UNCHANGED ieVars /\ ~(stage = "running" /\ Op = "ie-scroll")
  <2>1. ie.walk = Null
    BY <1>1, <1>4 DEF IeInv, WalkInStart
  <2>2. WalkInv'
    BY <1>2, <1>4 DEF IeInv, WalkInv, IsWalk, WalkPlaces, Counts, HeldBy, ieVars
  <2>3. WalkInStart'
    BY <1>1, <1>4, <2>1 DEF WalkInStart, ieVars
  <2> QED
    BY <1>3, <2>2, <2>3 DEF IeInv
<1>5. CASE refs' = Released(refs, ie.walk) /\ ie' = NoWalk
  <2>1. /\ refs' \in [Objects -> Int]
        /\ \A o \in Objects : refs'[o] = refs[o] - One(ie.walk = o)
    BY <1>5, ReleasedCounts DEF IeInv, WalkInv
  <2>2. Counts'
    BY <1>1, <1>2, <1>5, <2>1, NullIsNone
    DEF IeInv, WalkInv, WalkPlaces, Counts, HeldBy, One, NoWalk
  <2> QED
    BY <1>2, <1>3, <1>5, <2>1, <2>2
    DEF IeInv, WalkInv, IsWalk, WalkPlaces, WalkInStart, NoWalk
<1> QED
  BY <1>4, <1>5 DEF End, EndScroll, ieVars

\* Every step keeps the count.
LEMMA IeStep ==
  ASSUME IeInv, [Next]_vars
  PROVE  IeInv'
<1>1. ASSUME NEW sw \in ScrollWindows, Start(sw[1], sw[2])
      PROVE  IeInv'
  BY <1>1, ContextKept, OutsideWalk DEF Start, IeInv
<1>2. CASE Target
  BY <1>2, ContextKept, OutsideWalk DEF Target, IeInv
<1>3. CASE UNCHANGED vars
  BY <1>3, ContextKept, OutsideWalk DEF vars, IeInv
<1> QED
  BY <1>1, <1>2, <1>3, IeTry, IeScroll, IeCall, IeEnd DEF Next

\* At first there are no references.
LEMMA IeStart == Init => IeInv
BY NullIsNone
DEF Init, IeInit, NoWalk, NoContext, IeInv, WalkInv, IsWalk, WalkPlaces, Counts,
    IsContext, IsContextOf, WalkInStart, HeldBy, One, Objects

\* get_ie_target and end_scroll: all references to the browser's objects are
\* released, but that of the element being scrolled and those given up by a start
\* that failed after its search.
THEOREM ReferencesReleased == Spec => []IeReferences
<1>1. Init => IeInv
  BY IeStart
<1>2. IeInv /\ [Next]_vars => IeInv'
  BY IeStep
<1>3. IeInv => IeReferences
  BY NullIsNone DEF IeInv, WalkInv, WalkPlaces, Counts, HeldBy, One, WalkInStart, IeReferences
<1> QED
  BY <1>1, <1>2, <1>3, PTL DEF Spec

-----------------------------------------------------------------------------
(* StartsFirstSupported: what was tried and what is left to be tried make up the
   whole order. *)

\* The operators that try others.
Meta == {"or", "apply-parent"}

\* What a nested operator tries from now on, and after the alternative it is at.
Now(f) == From(f.node, f.win, f.alt)
After(f) == From(f.node, f.win, f.alt + 1)

\* todo[k] is what the k outermost operators try once the one inside has refused.
IsLeft(todo, c) ==
  /\ todo \in [0 .. Len(c) - 1 -> Seq(Try)]
  /\ todo[0] = <<>>
  /\ \A k \in 1 .. Len(c) - 1 : todo[k] = Then(After(c[k]), todo[k - 1])

\* What is still to be tried.
ToTry(todo, c) == Then(Now(c[Len(c)]), todo[Len(c) - 1])

\* What there is to try.
All == Candidates[chain[1].node][chain[1].win]

\* A start is for one of the windows' expressions.
Begun ==
  /\ chain \in Seq(Frame) /\ chain # <<>>
  /\ <<chain[1].node, chain[1].win>> \in ScrollWindows
  /\ tried \in Seq(Try)

\* The operators but or and apply-parent nest none, and are tried once.
NestedInMeta(c) ==
  \A k \in 1 .. Len(c) :
    Expr[c[k].node].op \notin Meta => k = Len(c) /\ c[k].alt = 1

\* While the start goes on: what was tried and what is left make up all there is.
Trial ==
  /\ NestedInMeta(chain)
  /\ \E todo : IsLeft(todo, chain) /\ All = Then(tried, ToTry(todo, chain))

\* The operator at work is the one tried last.
Success ==
  /\ tried # <<>> /\ Last(tried) = <<Op, Top.win>>
  /\ \E rest \in Seq(Try) : All = Then(tried, rest)

\* The inductive invariant, with the references above for Internet Explorer's search.
TryInv ==
  /\ stage \in {"idle", "try", "running", "failed"}
  /\ stage # "idle" => Begun
  /\ stage = "try" => Trial
  /\ stage = "running" => Success
  /\ stage = "failed" => tried = All

\* Frames and what they try.
LEMMA FrameTyped ==
  ASSUME NEW f \in Frame
  PROVE  /\ f.node \in Nodes /\ f.win \in Windows /\ f.alt \in Nat \ {0}
         /\ Now(f) \in Seq(Try) /\ After(f) \in Seq(Try)
<1>1. f.node \in Nodes /\ f.win \in Windows /\ f.alt \in Nat \ {0} /\ f.alt + 1 \in Nat \ {0}
  BY DEF Frame
<1> QED
  BY <1>1, FromTyped DEF Now, After

\* What is left is a sequence of operators on windows.
LEMMA LeftTyped ==
  ASSUME NEW c \in Seq(Frame), c # <<>>, NEW todo, IsLeft(todo, c)
  PROVE  /\ Len(c) \in Nat \ {0} /\ c[Len(c)] \in Frame
         /\ todo[Len(c) - 1] \in Seq(Try)
         /\ ToTry(todo, c) \in Seq(Try)
<1>1. Len(c) \in Nat \ {0} /\ c[Len(c)] \in Frame /\ Len(c) - 1 \in 0 .. Len(c) - 1
  OBVIOUS
<1>2. todo[Len(c) - 1] \in Seq(Try)
  BY <1>1 DEF IsLeft
<1> QED
  BY <1>1, <1>2, FrameTyped, ThenTyped DEF ToTry

\* An operator is nested: the one around it goes on after it.
LEMMA NestLeft ==
  ASSUME NEW c \in Seq(Frame), c # <<>>, NEW todo, IsLeft(todo, c),
         NEW f \in Frame, NEW d, d = Append(c, f)
  PROVE  \E more : /\ IsLeft(more, d)
                   /\ ToTry(more, d)
                        = Then(Now(f), Then(After(c[Len(c)]), todo[Len(c) - 1]))
<1> DEFINE L == Len(c)
           new == Then(After(c[L]), todo[L - 1])
           more == [k \in 0 .. L |-> IF k < L THEN todo[k] ELSE new]
<1>1. L \in Nat \ {0} /\ c[L] \in Frame /\ todo[L - 1] \in Seq(Try)
  BY LeftTyped
<1>2. new \in Seq(Try)
  BY <1>1, FrameTyped, ThenTyped
<1>3. Len(d) = L + 1 /\ d[L + 1] = f /\ \A k \in 1 .. L : d[k] = c[k]
  BY <1>1
<1>4. /\ todo \in [0 .. L - 1 -> Seq(Try)] /\ todo[0] = <<>>
      /\ \A k \in 1 .. L - 1 : todo[k] = Then(After(c[k]), todo[k - 1])
  BY DEF IsLeft
<1>5. DOMAIN more = 0 .. L /\ (\A k \in 0 .. L - 1 : more[k] = todo[k]) /\ more[L] = new
  <2> HIDE DEF new, L
  <2> QED
    BY <1>1
<1>f. more = [k \in 0 .. L |-> more[k]]
  OBVIOUS
<1> HIDE DEF L, more
<1>p. 0 \in 0 .. L - 1 /\ L \in Int /\ \A k \in 1 .. L : k - 1 \in 0 .. L - 1
  BY <1>1
<1>6. more \in [0 .. L -> Seq(Try)]
  <2>1. \A k \in 0 .. L : k \in 0 .. L - 1 \/ k = L
    BY <1>1
  <2> HIDE DEF new
  <2>2. \A k \in 0 .. L : more[k] \in Seq(Try)
    BY <1>2, <1>4, <1>5, <2>1
  <2> QED
    BY <1>f, <2>2
<1>7. more[0] = <<>>
  BY <1>p, <1>4, <1>5
<1>8. ASSUME NEW k \in 1 .. L PROVE more[k] = Then(After(d[k]), more[k - 1])
  <2>1. more[k - 1] = todo[k - 1] /\ d[k] = c[k]
    BY <1>p, <1>3, <1>5
  <2>2. CASE k = L
    BY <1>5, <2>1, <2>2
  <2>3. CASE k # L
    <3>1. k \in 1 .. L - 1 /\ k \in 0 .. L - 1
      BY <1>1, <2>3
    <3> QED
      BY <1>4, <1>5, <2>1, <3>1
  <2> QED
    BY <2>2, <2>3
<1>9. IsLeft(more, d)
  <2>1. Len(d) - 1 = L
    BY <1>1, <1>3
  <2> QED
    BY <1>6, <1>7, <1>8, <2>1 DEF IsLeft
<1>10. ToTry(more, d) = Then(Now(f), new)
  <2>1. Len(d) - 1 = L /\ d[Len(d)] = f
    BY <1>1, <1>3
  <2> QED
    BY <1>5, <2>1 DEF ToTry
<1> QED
  BY <1>9, <1>10 DEF L

\* d nests the same operators as c, and all but the last are where they were.
SameNested(c, d) ==
  /\ \A k \in 1 .. Len(d) : d[k].node = c[k].node /\ d[k].win = c[k].win
  /\ \A k \in 1 .. Len(d) - 1 : d[k] = c[k]

\* The innermost of c goes on with its next alternative.
Advances(c, d) == d = [c EXCEPT ![Len(c)].alt = @ + 1]

\* The innermost operator goes on with its next alternative.
LEMMA NextLeft ==
  ASSUME NEW c \in Seq(Frame), c # <<>>, NEW todo, IsLeft(todo, c),
         NEW d, Advances(c, d)
  PROVE  /\ d \in Seq(Frame) /\ Len(d) = Len(c) /\ IsLeft(todo, d)
         /\ ToTry(todo, d) = Then(After(c[Len(c)]), todo[Len(c) - 1])
         /\ SameNested(c, d)
<1> DEFINE L == Len(c)
           f == [c[L] EXCEPT !.alt = @ + 1]
<1>1. L \in Nat \ {0} /\ c[L] \in Frame
  BY LeftTyped
<1>2. d \in Seq(Frame)
  BY Bumped DEF Advances
<1>3. d = [c EXCEPT ![L] = f]
  BY DEF Advances
<1>4. f.node = c[L].node /\ f.win = c[L].win /\ f.alt = c[L].alt + 1
  BY <1>1 DEF Frame
<1> HIDE DEF f
<1>5. Len(d) = L /\ d[L] = f /\ \A k \in 1 .. L - 1 : d[k] = c[k]
  BY <1>1, <1>3
<1> HIDE DEF L
<1>6. IsLeft(todo, d)
  BY <1>5 DEF IsLeft, L
<1>7. Now(f) = After(c[L])
  BY <1>4 DEF Now, After
<1>8. ToTry(todo, d) = Then(After(c[L]), todo[L - 1])
  BY <1>5, <1>7 DEF ToTry
<1>9. \A k \in 1 .. L : d[k].node = c[k].node /\ d[k].win = c[k].win
  <2>1. \A k \in 1 .. L : k = L \/ k \in 1 .. L - 1
    BY <1>1
  <2> QED
    BY <1>4, <1>5, <2>1
<1> QED
  BY <1>2, <1>5, <1>6, <1>8, <1>9 DEF L, SameNested

\* The innermost operator refuses: the one around it goes on.
LEMMA BackLeft ==
  ASSUME NEW c \in Seq(Frame), NEW todo, IsLeft(todo, c), Len(c) > 1,
         NEW d, d = [Front(c) EXCEPT ![Len(c) - 1].alt = @ + 1]
  PROVE  /\ d \in Seq(Frame) /\ Len(d) = Len(c) - 1
         /\ \E less : IsLeft(less, d) /\ ToTry(less, d) = todo[Len(c) - 1]
         /\ SameNested(c, d)
<1> DEFINE L == Len(c)
           b == Front(c)
           less == [k \in 0 .. L - 2 |-> todo[k]]
<1>1. L \in Nat /\ L > 1
  OBVIOUS
<1>2. b \in Seq(Frame) /\ Len(b) = L - 1 /\ \A k \in 1 .. L - 1 : b[k] = c[k]
  BY <1>1 DEF Front
<1> HIDE DEF b
<1>3. b # <<>>
  BY <1>1, <1>2
<1>4. Advances(b, d)
  BY <1>2 DEF b, Advances
<1>5. IsLeft(less, b)
  <2>1. /\ todo \in [0 .. L - 1 -> Seq(Try)] /\ todo[0] = <<>>
        /\ \A k \in 1 .. L - 1 : todo[k] = Then(After(c[k]), todo[k - 1])
    BY DEF IsLeft
  <2> HIDE DEF L
  <2>2. less \in [0 .. L - 2 -> Seq(Try)] /\ less[0] = <<>>
    BY <1>1, <2>1
  <2>3. \A k \in 1 .. L - 2 : less[k] = todo[k] /\ less[k - 1] = todo[k - 1] /\ b[k] = c[k]
    BY <1>1, <1>2
  <2> HIDE DEF less
  <2>4. \A k \in 1 .. L - 2 : less[k] = Then(After(b[k]), less[k - 1])
    BY <1>1, <2>1, <2>3
  <2>5. Len(b) - 1 = L - 2
    BY <1>1, <1>2
  <2> QED
    BY <2>2, <2>4, <2>5 DEF IsLeft
<1>6. less[L - 2] = todo[L - 2]
  BY <1>1
<1> HIDE DEF less
<1>7. /\ d \in Seq(Frame) /\ Len(d) = Len(b) /\ IsLeft(less, d)
      /\ ToTry(less, d) = Then(After(b[Len(b)]), less[Len(b) - 1])
      /\ SameNested(b, d)
  <2>1. b \in Seq(Frame) /\ b # <<>> /\ IsLeft(less, b) /\ Advances(b, d)
    BY <1>2, <1>3, <1>4, <1>5
  <2>2. d \in Seq(Frame) /\ Len(d) = Len(b)
    BY <2>1, NextLeft
  <2>3. IsLeft(less, d)
    BY <2>1, NextLeft
  <2>4. ToTry(less, d) = Then(After(b[Len(b)]), less[Len(b) - 1])
    BY <2>1, NextLeft
  <2>5. SameNested(b, d)
    BY <2>1, NextLeft
  <2> QED
    BY <2>2, <2>3, <2>4, <2>5
<1> HIDE DEF L
<1>8. Len(b) - 1 = L - 2 /\ L - 1 \in 1 .. L - 1 /\ (L - 1) - 1 = L - 2
  BY <1>1, <1>2
<1>9. todo[L - 1] = Then(After(c[L - 1]), todo[L - 2])
  BY <1>8 DEF IsLeft, L
<1>10. ToTry(less, d) = todo[L - 1]
  BY <1>2, <1>6, <1>7, <1>8, <1>9
<1>11. SameNested(c, d)
  <2>1. Len(d) = L - 1 /\ 1 .. Len(d) - 1 \subseteq 1 .. L - 1
    BY <1>1, <1>2, <1>7
  <2>2. /\ \A k \in 1 .. Len(d) : d[k].node = b[k].node /\ d[k].win = b[k].win
        /\ \A k \in 1 .. Len(d) - 1 : d[k] = b[k]
    BY <1>7 DEF SameNested
  <2>3. \A k \in 1 .. Len(d) : b[k] = c[k]
    BY <1>2, <2>1
  <2>4. \A k \in 1 .. Len(d) : d[k].node = c[k].node /\ d[k].win = c[k].win
    BY <2>2, <2>3
  <2>5. \A k \in 1 .. Len(d) - 1 : d[k] = c[k]
    BY <1>2, <2>1, <2>2
  <2> QED
    BY <2>4, <2>5 DEF SameNested
<1> QED
  BY <1>2, <1>7, <1>8, <1>10, <1>11 DEF L

\* The start goes on with another nesting.
LEMMA TrialGoesOn ==
  ASSUME TryInv, stage = "try", stage' = "try",
         chain' \in Seq(Frame), chain' # <<>>,
         chain'[1].node = chain[1].node, chain'[1].win = chain[1].win,
         tried' \in Seq(Try), NestedInMeta(chain'),
         NEW todo, IsLeft(todo, chain'), All = Then(tried', ToTry(todo, chain'))
  PROVE  TryInv'
<1>1. All' = All
  BY DEF All
<1>2. Begun'
  BY DEF TryInv, Begun
<1>3. Trial'
  BY <1>1 DEF Trial
<1> QED
  BY <1>2, <1>3 DEF TryInv

\* What a start that goes on knows of its innermost operator.
LEMMA TopTrial ==
  ASSUME TryInv, stage = "try"
  PROVE  /\ chain \in Seq(Frame) /\ chain # <<>> /\ tried \in Seq(Try)
         /\ Len(chain) \in Nat \ {0} /\ Top = chain[Len(chain)] /\ Top \in Frame
         /\ chain[1] \in Frame /\ NestedInMeta(chain)
<1>1. chain \in Seq(Frame) /\ chain # <<>> /\ tried \in Seq(Try) /\ NestedInMeta(chain)
  BY DEF TryInv, Begun, Trial
<1>2. Len(chain) \in Nat \ {0} /\ chain[Len(chain)] \in Frame /\ chain[1] \in Frame
  BY <1>1
<1> QED
  BY <1>1, <1>2 DEF Top, Last

\* An alternative is nested: it is tried first, then what comes after it.
LEMMA NestTry ==
  ASSUME TryInv, stage = "try", UNCHANGED <<stage, tried>>,
         Expr[Top.node].op \in Meta, Top.alt <= Len(Alternatives(Top.node, Top.win)),
         NEW n \in Nodes, NEW w \in Windows, Nest(n, w),
         Alternatives(Top.node, Top.win)[Top.alt] = Candidates[n][w]
  PROVE  TryInv'
<1> DEFINE f == [node |-> n, win |-> w, alt |-> 1]
           L == Len(chain)
<1>1. /\ chain \in Seq(Frame) /\ chain # <<>> /\ tried \in Seq(Try)
      /\ L \in Nat \ {0} /\ Top = chain[L] /\ Top \in Frame
      /\ chain[1] \in Frame /\ NestedInMeta(chain)
  BY TopTrial
<1>2. PICK todo : IsLeft(todo, chain) /\ All = Then(tried, ToTry(todo, chain))
  BY DEF TryInv, Trial
<1>3. f \in Frame /\ f.node = n /\ f.win = w /\ f.alt = 1 /\ chain' = Append(chain, f)
  BY DEF Frame, Nest
<1> HIDE DEF f
<1>4. PICK more : /\ IsLeft(more, chain')
                  /\ ToTry(more, chain') = Then(Now(f), Then(After(Top), todo[L - 1]))
  BY <1>1, <1>2, <1>3, NestLeft
<1>5. Now(f) = Alternatives(Top.node, Top.win)[Top.alt]
  BY <1>3, FromStart DEF Now
<1>6. Now(Top) = Then(Now(f), After(Top))
  <2>1. Top.alt \in 1 .. Len(Alternatives(Top.node, Top.win))
    BY <1>1, FrameTyped, AlternativesTyped
  <2> QED
    BY <1>1, <1>5, <2>1, FrameTyped, FromNext DEF Now, After
<1>7. ToTry(more, chain') = ToTry(todo, chain)
  <2>1. ToTry(todo, chain) = Then(Then(Now(f), After(Top)), todo[L - 1])
    BY <1>1, <1>6 DEF ToTry
  <2>2. Now(f) \in Seq(Try) /\ After(Top) \in Seq(Try) /\ todo[L - 1] \in Seq(Try)
    BY <1>1, <1>2, <1>3, FrameTyped, LeftTyped
  <2> QED
    BY <1>4, <2>1, <2>2, ThenAssociative
<1>8. /\ chain' \in Seq(Frame) /\ chain' # <<>> /\ Len(chain') = L + 1
      /\ chain'[L + 1] = f /\ \A k \in 1 .. L : chain'[k] = chain[k]
  BY <1>1, <1>3
<1>9. NestedInMeta(chain')
  <2> SUFFICES ASSUME NEW k \in 1 .. L + 1, Expr[chain'[k].node].op \notin Meta
               PROVE  k = L + 1 /\ chain'[k].alt = 1
    BY <1>8 DEF NestedInMeta
  <2>1. CASE k = L + 1
    BY <1>3, <1>8, <2>1
  <2>2. CASE k # L + 1
    <3>1. k \in 1 .. L
      BY <1>1, <2>2
    <3>2. Expr[chain[k].node].op \notin Meta
      BY <1>8, <3>1
    <3>3. k = L
      BY <1>1, <3>1, <3>2 DEF NestedInMeta
    <3> QED
      BY <1>1, <3>2, <3>3
  <2> QED
    BY <2>1, <2>2
<1>10. chain'[1] = chain[1]
  BY <1>1, <1>8
<1> QED
  BY <1>1, <1>2, <1>4, <1>7, <1>8, <1>9, <1>10, TrialGoesOn

\* An alternative that tries nothing is passed over.
LEMMA SkipTry ==
  ASSUME TryInv, stage = "try", UNCHANGED <<stage, tried>>,
         Expr[Top.node].op \in Meta, Top.alt <= Len(Alternatives(Top.node, Top.win)),
         Alternatives(Top.node, Top.win)[Top.alt] = <<>>, Skip
  PROVE  TryInv'
<1> DEFINE L == Len(chain)
<1>1. /\ chain \in Seq(Frame) /\ chain # <<>> /\ tried \in Seq(Try)
      /\ L \in Nat \ {0} /\ Top = chain[L] /\ Top \in Frame
      /\ chain[1] \in Frame /\ NestedInMeta(chain)
  BY TopTrial
<1>2. PICK todo : IsLeft(todo, chain) /\ All = Then(tried, ToTry(todo, chain))
  BY DEF TryInv, Trial
<1>3. Advances(chain, chain')
  BY DEF Advances, Skip
<1>4. /\ chain' \in Seq(Frame) /\ Len(chain') = L /\ IsLeft(todo, chain')
      /\ ToTry(todo, chain') = Then(After(Top), todo[L - 1])
      /\ SameNested(chain, chain')
  <2>1. chain' \in Seq(Frame) /\ Len(chain') = L
    BY <1>1, <1>2, <1>3, NextLeft
  <2>2. IsLeft(todo, chain')
    BY <1>1, <1>2, <1>3, NextLeft
  <2>3. ToTry(todo, chain') = Then(After(Top), todo[L - 1])
    BY <1>1, <1>2, <1>3, NextLeft
  <2>4. SameNested(chain, chain')
    BY <1>1, <1>2, <1>3, NextLeft
  <2> QED
    BY <2>1, <2>2, <2>3, <2>4
<1>5. Now(Top) = After(Top)
  <2>1. Top.alt \in 1 .. Len(Alternatives(Top.node, Top.win))
    BY <1>1, FrameTyped, AlternativesTyped
  <2>2. Now(Top) = Then(<<>>, After(Top))
    BY <1>1, <2>1, FrameTyped, FromNext DEF Now, After
  <2> QED
    BY <1>1, <2>2, FrameTyped, ThenEmpty
<1>6. ToTry(todo, chain') = ToTry(todo, chain)
  BY <1>1, <1>4, <1>5 DEF ToTry
<1>7. /\ \A k \in 1 .. L : chain'[k].node = chain[k].node /\ chain'[k].win = chain[k].win
      /\ \A k \in 1 .. L - 1 : chain'[k] = chain[k]
  BY <1>4 DEF SameNested
<1>8. NestedInMeta(chain')
  <2> SUFFICES ASSUME NEW k \in 1 .. L, Expr[chain'[k].node].op \notin Meta
               PROVE  FALSE
    BY <1>4 DEF NestedInMeta
  <2>1. Expr[chain[k].node].op \notin Meta
    BY <1>7
  <2>2. k = L
    BY <1>1, <2>1 DEF NestedInMeta
  <2> QED
    BY <1>1, <2>1, <2>2
<1>9. 1 \in 1 .. L /\ chain' # <<>>
  BY <1>1, <1>4
<1> QED
  BY <1>1, <1>2, <1>4, <1>6, <1>7, <1>8, <1>9, TrialGoesOn

\* The innermost operator has tried the last it had to try, x, and the one around it
\* goes on; or the start has failed, with all tried.
LEMMA FailTry ==
  ASSUME TryInv, stage = "try", InitFails, NEW x \in Seq(Try), Now(Top) = x,
         tried' = Then(tried, x)
  PROVE  TryInv'
<1> DEFINE L == Len(chain)
<1>1. /\ chain \in Seq(Frame) /\ chain # <<>> /\ tried \in Seq(Try)
      /\ L \in Nat \ {0} /\ Top = chain[L] /\ Top \in Frame
      /\ chain[1] \in Frame /\ NestedInMeta(chain)
  BY TopTrial
<1>2. PICK todo : IsLeft(todo, chain) /\ All = Then(tried, ToTry(todo, chain))
  BY DEF TryInv, Trial
<1>3. todo[L - 1] \in Seq(Try)
  BY <1>1, <1>2, LeftTyped
<1>4. tried' \in Seq(Try)
  BY <1>1, ThenTyped
<1>5. All = Then(tried', todo[L - 1])
  <2>1. All = Then(tried, Then(x, todo[L - 1]))
    BY <1>1, <1>2 DEF ToTry
  <2> QED
    BY <1>1, <1>3, <2>1, ThenAssociative
<1>6. CASE L = 1
  <2>1. todo[L - 1] = <<>>
    BY <1>2, <1>6 DEF IsLeft
  <2>2. All = tried'
    BY <1>4, <1>5, <2>1, ThenEmpty
  <2>3. stage' = "failed" /\ UNCHANGED chain
    BY <1>6 DEF InitFails
  <2>4. All' = All
    BY <2>3 DEF All
  <2>5. Begun'
    BY <1>4, <2>3 DEF TryInv, Begun
  <2> QED
    BY <2>2, <2>3, <2>4, <2>5 DEF TryInv
<1>7. CASE L # 1
  <2>1. L > 1 /\ L \in Nat
    <3> HIDE DEF L
    <3> QED
      BY <1>1, <1>7
  <2>2. stage' = "try" /\ chain' = [Front(chain) EXCEPT ![L - 1].alt = @ + 1]
    BY <1>7 DEF InitFails
  <2>3. /\ chain' \in Seq(Frame) /\ Len(chain') = L - 1
        /\ \E less : IsLeft(less, chain') /\ ToTry(less, chain') = todo[L - 1]
        /\ SameNested(chain, chain')
    <3>1. chain' \in Seq(Frame) /\ Len(chain') = L - 1
      BY <1>1, <1>2, <2>1, <2>2, BackLeft
    <3>2. \E less : IsLeft(less, chain') /\ ToTry(less, chain') = todo[L - 1]
      BY <1>1, <1>2, <2>1, <2>2, BackLeft
    <3>3. SameNested(chain, chain')
      BY <1>1, <1>2, <2>1, <2>2, BackLeft
    <3> QED
      BY <3>1, <3>2, <3>3
  <2>4. PICK less : IsLeft(less, chain') /\ ToTry(less, chain') = todo[L - 1]
    BY <2>3
  <2>5. /\ \A k \in 1 .. L - 1 : chain'[k].node = chain[k].node /\ chain'[k].win = chain[k].win
        /\ \A k \in 1 .. (L - 1) - 1 : chain'[k] = chain[k]
    BY <2>3 DEF SameNested
  <2>6. NestedInMeta(chain')
    <3> SUFFICES ASSUME NEW k \in 1 .. L - 1, Expr[chain'[k].node].op \notin Meta
                 PROVE  FALSE
      BY <2>3 DEF NestedInMeta
    <3>1. Expr[chain[k].node].op \notin Meta /\ k \in 1 .. L
      BY <2>1, <2>5
    <3>2. k = L
      BY <1>1, <3>1 DEF NestedInMeta
    <3> QED
      BY <2>1, <3>2
  <2>7. 1 \in 1 .. L - 1 /\ chain' # <<>>
    BY <2>1, <2>3
  <2> QED
    BY <1>4, <1>5, <2>2, <2>3, <2>4, <2>5, <2>6, <2>7, TrialGoesOn
<1> QED
  BY <1>6, <1>7

\* Nothing is left to be tried: the innermost operator fails.
LEMMA NothingNow ==
  ASSUME TryInv, stage = "try", InitFails, UNCHANGED tried, Now(Top) = <<>>
  PROVE  TryInv'
<1>1. tried \in Seq(Try) /\ <<>> \in Seq(Try)
  BY TopTrial, EmptySeq
<1>2. tried' = Then(tried, <<>>)
  BY <1>1, ThenEmpty
<1> QED
  BY <1>1, <1>2, FailTry

\* or_init_ctx: the next alternative, what is no operator passed over.
LEMMA OrTry ==
  ASSUME TryInv, TryOr
  PROVE  TryInv'
<1> DEFINE kids == Expr[Top.node].kids
           a == Alternatives(Top.node, Top.win)
<1>1. stage = "try" /\ Expr[Top.node].op = "or" /\ UNCHANGED tried
  BY DEF TryOr
<1>2. Top \in Frame /\ Top.node \in Nodes /\ Top.win \in Windows /\ Top.alt \in Nat \ {0}
  BY <1>1, TopTrial, FrameTyped
<1>3. /\ kids \in Seq(Nodes) /\ Len(kids) \in Nat /\ DOMAIN kids = 1 .. Len(kids)
      /\ \A i \in 1 .. Len(kids) : kids[i] \in Nodes
  BY <1>2, Kids
<1>4. a = [i \in DOMAIN kids |-> OfKid(Candidates, kids[i], Top.win)]
  BY <1>1 DEF Alternatives
<1>5. Len(a) = Len(kids)
  BY <1>3, <1>4
<1>6. Expr[Top.node].op \in Meta
  BY <1>1 DEF Meta
<1>7. CASE Top.alt > Len(kids)
  <2>1. InitFails
    BY <1>7 DEF TryOr
  <2>2. Now(Top) = <<>>
    BY <1>2, <1>5, <1>7, FromEnd DEF Now
  <2> QED
    BY <1>1, <2>1, <2>2, NothingNow
<1>8. CASE ~(Top.alt > Len(kids))
  <2> DEFINE kid == kids[Top.alt]
  <2>0. Top.alt <= Len(a) /\ Top.alt \in 1 .. Len(kids)
    <3> HIDE DEF kids, a
    <3> QED
      BY <1>2, <1>3, <1>5, <1>8
  <2>1. /\ IF Valid(kid) THEN Nest(kid, Top.win) ELSE Skip
        /\ UNCHANGED stage
    BY <1>8 DEF TryOr
  <2>2. a[Top.alt] = OfKid(Candidates, kid, Top.win)
    BY <1>3, <1>4, <2>0
  <2>3. kid \in Nodes
    BY <1>3, <2>0
  <2> HIDE DEF kids, kid
  <2>4. CASE Valid(kid)
    BY <1>1, <1>2, <1>6, <2>0, <2>1, <2>2, <2>3, <2>4, NestTry DEF OfKid
  <2>5. CASE ~Valid(kid)
    BY <1>1, <1>2, <1>6, <2>0, <2>1, <2>2, <2>5, SkipTry DEF OfKid
  <2> QED
    BY <2>4, <2>5
<1> QED
  BY <1>7, <1>8

\* apply_parent_init_ctx: its operator on the ancestor, once.
LEMMA ApplyParentTry ==
  ASSUME TryInv, TryApplyParent
  PROVE  TryInv'
<1> DEFINE kid == Expr[Top.node].kids[1]
           up == Ancestor[Expr[Top.node].num][Top.win]
           a == Alternatives(Top.node, Top.win)
<1>1. stage = "try" /\ Expr[Top.node].op = "apply-parent" /\ UNCHANGED tried
  BY DEF TryApplyParent
<1>2. Top \in Frame /\ Top.node \in Nodes /\ Top.win \in Windows /\ Top.alt \in Nat \ {0}
  BY <1>1, TopTrial, FrameTyped
<1>3. kid \in Nodes /\ up \in Windows
  BY <1>1, <1>2, Kids, AncestorTyped
<1>4. a = <<OfKid(Candidates, kid, up)>>
  BY <1>1 DEF Alternatives
<1>5. Len(a) = 1 /\ a[1] = OfKid(Candidates, kid, up)
  BY <1>4
<1>6. Expr[Top.node].op \in Meta
  BY <1>1 DEF Meta
<1>7. IF Top.alt = 1 /\ Valid(kid) THEN Nest(kid, up) /\ UNCHANGED stage
                                   ELSE InitFails
  BY DEF TryApplyParent
<1> HIDE DEF kid, up, a
<1>8. CASE Top.alt = 1 /\ Valid(kid)
  <2>1. Top.alt <= Len(Alternatives(Top.node, Top.win))
    BY <1>5, <1>8 DEF a
  <2>2. Alternatives(Top.node, Top.win)[Top.alt] = Candidates[kid][up]
    BY <1>5, <1>8 DEF a, OfKid
  <2> QED
    BY <1>1, <1>3, <1>6, <1>7, <1>8, <2>1, <2>2, NestTry
<1>9. CASE ~(Top.alt = 1 /\ Valid(kid))
  <2>1. From(Top.node, Top.win, 2) = <<>>
    <3>1. 2 \in Nat /\ 2 > Len(Alternatives(Top.node, Top.win))
      BY <1>5 DEF a
    <3> QED
      BY <1>2, <3>1, FromEnd
  <2>2. Now(Top) = <<>>
    <3>1. CASE Top.alt # 1
      <4>1. Top.alt \in Nat /\ Top.alt > Len(Alternatives(Top.node, Top.win))
        BY <1>2, <1>5, <3>1 DEF a
      <4> QED
        BY <1>2, <4>1, FromEnd DEF Now
    <3>2. CASE Top.alt = 1
      <4>1. 1 \in 1 .. Len(Alternatives(Top.node, Top.win)) /\ 1 + 1 = 2
        BY <1>5 DEF a
      <4>2. From(Top.node, Top.win, 1) = Then(<<>>, <<>>)
        BY <1>2, <1>5, <1>9, <2>1, <3>2, <4>1, FromNext DEF a, OfKid
      <4>3. <<>> \in Seq(Try)
        BY EmptySeq
      <4> QED
        BY <3>2, <4>2, <4>3, ThenEmpty DEF Now
    <3> QED
      BY <3>1, <3>2
  <2> QED
    BY <1>1, <1>7, <1>9, <2>2, NothingNow
<1> QED
  BY <1>8, <1>9

\* An operator that does the work itself is what is to be tried next.
LEMMA LeafNow ==
  ASSUME TryInv, stage = "try", Expr[Top.node].op \notin Meta, Tried
  PROVE  /\ Now(Top) \in Seq(Try) /\ tried' = Then(tried, Now(Top))
         /\ tried' \in Seq(Try) /\ tried' # <<>>
         /\ Last(tried') = <<Expr[Top.node].op, Top.win>>
<1> DEFINE x == <<Expr[Top.node].op, Top.win>>
           L == Len(chain)
<1>1. /\ tried \in Seq(Try) /\ L \in Nat \ {0} /\ Top = chain[L] /\ Top \in Frame
      /\ NestedInMeta(chain)
  BY TopTrial
<1>2. Top.node \in Nodes /\ Top.win \in Windows
  BY <1>1, FrameTyped
<1>3. Top.alt = 1
  <2>1. L \in 1 .. L
    BY <1>1
  <2> QED
    BY <1>1, <2>1 DEF NestedInMeta
<1>4. x \in Try
  BY <1>2 DEF Try
<1>5. Candidates[Top.node][Top.win] = <<x>>
  BY <1>2, CandidatesOrder DEF Order1, Meta
<1> HIDE DEF x
<1>6. Now(Top) = <<x>>
  BY <1>2, <1>3, <1>5, FromStart DEF Now
<1>7. <<x>> \in Seq(Try)
  BY <1>4
<1>8. tried' = Append(tried, x)
  BY DEF Tried, x
<1>9. tried' = Then(tried, <<x>>)
  BY <1>1, <1>4, <1>8, AppendIsConcat DEF Then
<1>10. tried' \in Seq(Try) /\ tried' # <<>> /\ tried'[Len(tried')] = x
  BY <1>1, <1>4, <1>8
<1> QED
  BY <1>6, <1>7, <1>9, <1>10 DEF x, Last

\* It refuses.
LEMMA RefusedTry ==
  ASSUME TryInv, stage = "try", Expr[Top.node].op \notin Meta, InitRefused
  PROVE  TryInv'
BY LeafNow, FailTry DEF InitRefused

\* It accepts.
LEMMA AcceptedTry ==
  ASSUME TryInv, stage = "try", Expr[Top.node].op \notin Meta, NEW bars, InitSucceeds(bars)
  PROVE  TryInv'
<1> DEFINE L == Len(chain)
<1>1. /\ chain \in Seq(Frame) /\ chain # <<>> /\ tried \in Seq(Try)
      /\ L \in Nat \ {0} /\ Top = chain[L] /\ Top \in Frame
  BY TopTrial
<1>2. PICK todo : IsLeft(todo, chain) /\ All = Then(tried, ToTry(todo, chain))
  BY DEF TryInv, Trial
<1>3. todo[L - 1] \in Seq(Try)
  BY <1>1, <1>2, LeftTyped
<1>4. stage' = "running" /\ UNCHANGED chain /\ Tried /\ cx'.node = Top.node
  BY StartedContext DEF InitSucceeds
<1>5. /\ Now(Top) \in Seq(Try) /\ tried' = Then(tried, Now(Top))
      /\ tried' \in Seq(Try) /\ tried' # <<>>
      /\ Last(tried') = <<Expr[Top.node].op, Top.win>>
  BY <1>4, LeafNow
<1>6. All = Then(tried', todo[L - 1])
  <2>1. All = Then(tried, Then(Now(Top), todo[L - 1]))
    BY <1>1, <1>2 DEF ToTry
  <2> QED
    BY <1>1, <1>3, <1>5, <2>1, ThenAssociative
<1>7. All' = All /\ Top' = Top /\ Op' = Expr[Top.node].op
  BY <1>4 DEF All, Top, Op
<1>8. Begun'
  BY <1>4, <1>5 DEF TryInv, Begun
<1>9. Success'
  BY <1>3, <1>5, <1>6, <1>7 DEF Success
<1> QED
  BY <1>4, <1>8, <1>9 DEF TryInv

\* Nothing of the start is changed.
LEMMA TryKept ==
  ASSUME TryInv, UNCHANGED <<stage, chain, tried>>, cx'.node = cx.node
  PROVE  TryInv'
<1>1. All' = All /\ Top' = Top /\ Op' = Op
  BY DEF All, Top, Op
<1>2. Begun => Begun'
  BY DEF Begun
<1>3. Trial => Trial'
  BY <1>1 DEF Trial
<1>4. Success => Success'
  BY <1>1 DEF Success
<1> QED
  BY <1>1, <1>2, <1>3, <1>4 DEF TryInv

\* Every step of the start.
LEMMA TryTry ==
  ASSUME TryInv, IeInv, TryStep
  PROVE  TryInv'
<1>1. CASE TryOr \/ TryApplyParent
  BY <1>1, OrTry, ApplyParentTry
<1>2. ASSUME Expr[Top.node].op \notin Meta, stage = "try",
             InitRefused \/ \E bars : InitSucceeds(bars)
      PROVE  TryInv'
  BY <1>2, RefusedTry, AcceptedTry
<1>3. CASE InitWindowScrollbar
  BY <1>2, <1>3 DEF InitWindowScrollbar, Trying, Meta
<1>4. CASE InitNeighborhood
  BY <1>2, <1>4 DEF InitNeighborhood, Trying, Meta
<1>5. CASE InitScrollbarControl
  BY <1>2, <1>5 DEF InitScrollbarControl, Trying, Meta
<1>6. CASE InitTrackbar
  BY <1>2, <1>6 DEF InitTrackbar, Trying, Meta
<1>7. CASE InitWheel
  BY <1>2, <1>7 DEF InitWheel, Trying, Meta
<1>8. CASE InitIe \/ SearchIe
  BY <1>8, TryKept DEF InitIe, SearchIe
<1>9. CASE IeNotFound \/ IeFound
  <2>1. stage = "try" /\ Expr[Top.node].op = "ie-scroll"
    BY <1>9 DEF IeNotFound, IeFound, IeInv, WalkInStart
  <2> QED
    BY <1>2, <1>9, <2>1 DEF IeNotFound, IeFound, Meta
<1> QED
  BY <1>1, <1>3, <1>4, <1>5, <1>6, <1>7, <1>8, <1>9 DEF TryStep

\* A start begins with everything to be tried.
LEMMA TryStart ==
  ASSUME NEW sw \in ScrollWindows, Start(sw[1], sw[2])
  PROVE  TryInv'
<1> DEFINE f == [node |-> sw[1], win |-> sw[2], alt |-> 1]
           todo == [k \in 0 .. 0 |-> <<>>]
<1>1. sw[1] \in Nodes /\ sw[2] \in Windows /\ sw = <<sw[1], sw[2]>>
  BY ScrollOpsAssumption DEF WindowsAssumption
<1>2. f \in Frame /\ f.node = sw[1] /\ f.win = sw[2] /\ f.alt = 1
  BY <1>1 DEF Frame
<1>3. stage' = "try" /\ chain' = <<f>> /\ tried' = <<>>
  BY DEF Start
<1> HIDE DEF f
<1>4. chain' \in Seq(Frame) /\ Len(chain') = 1 /\ chain'[1] = f /\ chain' # <<>>
  BY <1>2, <1>3
<1>5. Begun'
  BY <1>1, <1>2, <1>3, <1>4, EmptySeq DEF Begun
<1>6. todo \in [0 .. 1 - 1 -> Seq(Try)] /\ todo[0] = <<>>
  BY EmptySeq
<1> HIDE DEF todo
<1>7. IsLeft(todo, chain')
  BY <1>4, <1>6 DEF IsLeft
<1>8. All' = Now(f) /\ Now(f) \in Seq(Try)
  BY <1>1, <1>2, <1>4, FromStart, FrameTyped DEF All, Now
<1>9. ToTry(todo, chain') = Now(f)
  BY <1>4, <1>6, <1>8, ThenEmpty DEF ToTry
<1>10. All' = Then(tried', ToTry(todo, chain'))
  BY <1>3, <1>8, <1>9, ThenEmpty
<1>11. NestedInMeta(chain')
  BY <1>2, <1>4 DEF NestedInMeta
<1>12. Trial'
  BY <1>7, <1>10, <1>11 DEF Trial
<1> QED
  BY <1>3, <1>5, <1>12 DEF TryInv

\* Every step.
LEMMA TryStepInv ==
  ASSUME TryInv, IeInv, [Next]_vars
  PROVE  TryInv'
<1>1. CASE Scroll
  BY <1>1, ScrollContext, TryKept
  DEF Scroll, ScrollWheel, ScrollPosted, ScrollBars, ScrollTrackbar, ScrollIe, Moving, IeInv
<1>2. CASE CallStep
  BY <1>2, CallContext, TryKept
  DEF CallStep, ScrollBar, BarStep, Invalidate, Settle, TrackbarSet, IeInv
<1>3. CASE End
  BY <1>3 DEF End, TryInv
<1>4. CASE Target
  BY <1>4, TryKept DEF Target
<1>5. CASE UNCHANGED vars
  BY <1>5, TryKept DEF vars
<1> QED
  BY <1>1, <1>2, <1>3, <1>4, <1>5, TryTry, TryStart DEF Next

\* A sequence is a prefix of itself and what follows.
LEMMA PrefixThen ==
  ASSUME NEW T, NEW s \in Seq(T), NEW t \in Seq(T)
  PROVE  IsPrefix(s, Then(s, t))
<1>1. Len(s) <= Len(Then(s, t)) /\ Len(s) \in Nat
  BY ConcatProperties DEF Then
<1>2. SubSeq(Then(s, t), 1, Len(s)) = SubSeq(s, 1, Len(s))
  BY <1>1, SubSeqOfConcat1 DEF Then
<1> QED
  BY <1>1, <1>2 DEF IsPrefix

\* or_init_ctx and apply_parent_init_ctx, nested at will.
THEOREM FirstSupported == Spec => []StartsFirstSupported
<1>1. Init => TryInv /\ IeInv
  BY IeStart DEF Init, TryInv
<1>2. TryInv /\ IeInv /\ [Next]_vars => TryInv' /\ IeInv'
  BY TryStepInv, IeStep
<1>3. TryInv => StartsFirstSupported
  <2> SUFFICES ASSUME TryInv, stage # "idle"
               PROVE  StartsFirstSupported
    BY DEF StartsFirstSupported
  <2> DEFINE all == CandidatesOf[<<chain[1].node, chain[1].win>>]
  <2>1. Begun /\ chain[1] \in Frame
    BY DEF TryInv, Begun
  <2>2. all = All
    BY <2>1 DEF Begun, CandidatesOf, All
  <2>3. \E rest \in Seq(Try) : All = Then(tried, rest)
    <3>1. CASE stage = "try"
      BY <2>1, <3>1, LeftTyped DEF TryInv, Begun, Trial
    <3>2. CASE stage = "running"
      BY <3>2 DEF TryInv, Success
    <3>3. CASE stage = "failed"
      <4>1. <<>> \in Seq(Try) /\ All = Then(tried, <<>>)
        BY <2>1, <3>3, EmptySeq, ThenEmpty DEF TryInv, Begun
      <4> QED
        BY <4>1
    <3> QED
      BY <3>1, <3>2, <3>3 DEF TryInv
  <2> HIDE DEF all
  <2>4. IsPrefix(tried, all)
    BY <2>1, <2>2, <2>3, PrefixThen DEF Begun
  <2>5. stage = "running" => Last(tried) = <<Op, Top.win>>
    BY DEF TryInv, Success
  <2>6. stage = "failed" => tried = all
    BY <2>2 DEF TryInv
  <2> QED
    BY <2>4, <2>5, <2>6 DEF StartsFirstSupported, all
<1> QED
  BY <1>1, <1>2, <1>3, PTL DEF Spec

=============================================================================
