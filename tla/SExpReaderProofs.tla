--------------------------- MODULE SExpReaderProofs ---------------------------
(***************************************************************************)
(* Proofs about the reader of the settings files: whatever is wrong with   *)
(* the file and whichever allocation fails, everything allocated is in the *)
(* datum returned; and however the file is cut into blocks, the reader is  *)
(* given each of its characters once, with the right line number.          *)
(***************************************************************************)
EXTENDS SExpReader, Induction, FiniteSetTheorems

-----------------------------------------------------------------------------
(* The cells of a list. *)

\* last is what s_exp_append builds of the last i of N items, for i up to n.
IsLast(last, items, N, tail, n) ==
  last = [i \in 0 .. n |->
            IF i = 0 THEN tail ELSE Pair(items[N + 1 - i], last[i - 1])]

\* There is such a function.
LEMMA LastExists ==
    ASSUME NEW items, NEW N, NEW tail
    PROVE  \A n \in Nat : \E last : IsLast(last, items, N, tail, n)
<1> DEFINE S == {n \in Nat : \E last : IsLast(last, items, N, tail, n)}
<1>1. 0 \in S
  <2> DEFINE f == [i \in 0 .. 0 |-> tail]
  <2>1. IsLast(f, items, N, tail, 0)
    BY DEF IsLast
  <2> QED
    BY <2>1
<1>2. ASSUME NEW n \in Nat, n \in S PROVE n + 1 \in S
  <2>1. PICK f : IsLast(f, items, N, tail, n)
    BY <1>2
  <2> DEFINE new(i) == IF i = 0 THEN tail ELSE Pair(items[N + 1 - i], f[i - 1])
             g == [i \in 0 .. n + 1 |-> new(i)]
  <2>2. \A i \in 0 .. n : g[i] = f[i]
    BY <2>1 DEF IsLast
  <2>3. g = [i \in 0 .. n + 1 |-> new(i)]
    OBVIOUS
  <2> HIDE DEF g
  <2>4. \A i \in 0 .. n + 1 : i # 0 => g[i - 1] = f[i - 1]
    BY <2>2
  <2>5. \A i \in 0 .. n + 1 :
          new(i) = IF i = 0 THEN tail ELSE Pair(items[N + 1 - i], g[i - 1])
    BY <2>4
  <2> HIDE DEF new
  <2>6. IsLast(g, items, N, tail, n + 1)
    BY <2>3, <2>5 DEF IsLast
  <2> QED
    BY <2>6
<1> HIDE DEF S
<1>3. \A n \in Nat : n \in S
  BY <1>1, <1>2, SetInduction
<1> QED
  BY <1>3 DEF S

\* Its cells, step by step.
CellsUpTo(cells, items, n, tail) ==
  /\ cells \in [0 .. n -> Int]
  /\ cells[0] = tail.cells
  /\ \A i \in 1 .. n : cells[i] = cells[i - 1] + 1 + items[n + 1 - i].cells

\* The data in a list, and its tail, have numbers of cells.
Counted(items, tail) ==
  /\ tail.cells \in Int /\ Len(items) \in Nat
  /\ \A i \in 1 .. Len(items) : items[i].cells \in Int

\* A pair's cells.
LEMMA PairCells ==
    ASSUME NEW car, NEW cdr
    PROVE  Pair(car, cdr).cells = 1 + car.cells + cdr.cells
BY DEF Pair, Datum, Freed

\* The cells of a list are those of its items and its tail, and one per item.
LEMMA ListCells ==
    ASSUME NEW items, NEW tail, Counted(items, tail)
    PROVE  \E cells : /\ CellsUpTo(cells, items, Len(items), tail)
                      /\ ListOf(items, tail).cells = cells[Len(items)]
<1> DEFINE n == Len(items)
           last == CHOOSE f : IsLast(f, items, n, tail, n)
           cells == [i \in 0 .. n |-> last[i].cells]
<1>0. n \in Nat
  BY DEF Counted
<1>1. IsLast(last, items, n, tail, n)
  BY <1>0, LastExists
<1>2. ListOf(items, tail) = last[n]
  BY DEF ListOf, IsLast
<1> HIDE DEF last
<1>3. /\ last[0] = tail
      /\ \A i \in 1 .. n : last[i] = Pair(items[n + 1 - i], last[i - 1])
  BY <1>0, <1>1 DEF IsLast
<1>4. cells[0] = tail.cells
  BY <1>0, <1>3
<1>5. \A i \in 1 .. n : cells[i] = 1 + items[n + 1 - i].cells + cells[i - 1]
  <2> SUFFICES ASSUME NEW i \in 1 .. n
               PROVE  cells[i] = 1 + items[n + 1 - i].cells + cells[i - 1]
    OBVIOUS
  <2>1. cells[i] = last[i].cells /\ cells[i - 1] = last[i - 1].cells
    BY <1>0
  <2>2. last[i].cells = 1 + items[n + 1 - i].cells + last[i - 1].cells
    BY <1>3, PairCells
  <2> QED
    BY <2>1, <2>2
<1>6. cells = [i \in 0 .. n |-> cells[i]] /\ cells[n] = last[n].cells
  BY <1>0
<1> HIDE DEF cells
<1> DEFINE S == {i \in Nat : i <= n => cells[i] \in Int}
<1>7. 0 \in S
  BY <1>4 DEF Counted
<1>8. ASSUME NEW i \in Nat, i \in S PROVE i + 1 \in S
  <2> SUFFICES ASSUME i + 1 <= n PROVE cells[i + 1] \in Int
    OBVIOUS
  <2>1. i + 1 \in 1 .. n /\ n + 1 - (i + 1) \in 1 .. n
    BY <1>0
  <2>2. cells[i] \in Int /\ items[n + 1 - (i + 1)].cells \in Int
    BY <1>0, <1>8, <2>1 DEF Counted
  <2>3. cells[i + 1] = 1 + items[n + 1 - (i + 1)].cells + cells[(i + 1) - 1]
    BY <1>5, <2>1
  <2> QED
    BY <2>2, <2>3
<1> HIDE DEF S
<1>9. \A i \in Nat : i \in S
  BY <1>7, <1>8, SetInduction
<1>10. \A i \in 0 .. n : cells[i] \in Int
  BY <1>0, <1>9 DEF S
<1>11. cells \in [0 .. n -> Int]
  BY <1>6, <1>10
<1>12. \A i \in 1 .. n : cells[i] = cells[i - 1] + 1 + items[n + 1 - i].cells
  <2> SUFFICES ASSUME NEW i \in 1 .. n
               PROVE  cells[i] = cells[i - 1] + 1 + items[n + 1 - i].cells
    OBVIOUS
  <2>1. n + 1 - i \in 1 .. n /\ i - 1 \in 0 .. n
    BY <1>0
  <2>2. cells[i - 1] \in Int /\ items[n + 1 - i].cells \in Int
    BY <1>10, <2>1 DEF Counted
  <2>3. cells[i] = 1 + items[n + 1 - i].cells + cells[i - 1]
    BY <1>5
  <2> QED
    BY <2>2, <2>3
<1>13. CellsUpTo(cells, items, n, tail)
  BY <1>4, <1>11, <1>12 DEF CellsUpTo
<1> QED
  BY <1>2, <1>6, <1>13

\* No items: nothing but the tail.
LEMMA ListNone ==
    ASSUME NEW tail
    PROVE  ListOf(<<>>, tail) = tail
<1> DEFINE last == CHOOSE f : IsLast(f, <<>>, 0, tail, 0)
<1>1. IsLast(last, <<>>, 0, tail, 0)
  BY LastExists
<1>2. ListOf(<<>>, tail) = last[0]
  BY DEF ListOf, IsLast
<1> HIDE DEF last
<1> QED
  BY <1>1, <1>2 DEF IsLast

\* A list's cells are a number.
LEMMA ListCounted ==
    ASSUME NEW items, NEW tail, Counted(items, tail)
    PROVE  ListOf(items, tail).cells \in Int
<1>1. PICK cells : /\ CellsUpTo(cells, items, Len(items), tail)
                   /\ ListOf(items, tail).cells = cells[Len(items)]
  BY ListCells
<1> QED
  BY <1>1 DEF CellsUpTo, Counted

\* An item more: its cells and one to hold it.
LEMMA ListAppend ==
    ASSUME NEW D, NEW items \in Seq(D), NEW tail, NEW d \in D,
           Counted(items, tail), d.cells \in Int
    PROVE  /\ Counted(Append(items, d), tail)
           /\ ListOf(Append(items, d), tail).cells = ListOf(items, tail).cells + 1 + d.cells
<1> DEFINE n == Len(items)
           more == Append(items, d)
<1>0. /\ n \in Nat /\ Len(more) = n + 1
      /\ more[n + 1] = d /\ \A i \in 1 .. n : more[i] = items[i]
  BY AppendProperties
<1> HIDE DEF n, more
<1>1. Counted(more, tail)
  BY <1>0 DEF Counted, n
<1>2. PICK a : /\ CellsUpTo(a, items, n, tail)
               /\ ListOf(items, tail).cells = a[n]
  BY ListCells DEF n
<1>3. PICK b : /\ CellsUpTo(b, more, n + 1, tail)
               /\ ListOf(more, tail).cells = b[n + 1]
  BY <1>0, <1>1, ListCells
<1> DEFINE S == {i \in Nat : i <= n => b[i + 1] = a[i] + 1 + d.cells}
<1>4. 0 \in S
  <2>1. b[1] = b[1 - 1] + 1 + more[n + 1 + 1 - 1].cells
    <3>1. 1 \in 1 .. n + 1
      BY <1>0
    <3> QED
      BY <1>3, <3>1 DEF CellsUpTo
  <2>2. 1 - 1 = 0 /\ n + 1 + 1 - 1 = n + 1
    BY <1>0
  <2> QED
    BY <1>0, <1>2, <1>3, <2>1, <2>2 DEF CellsUpTo
<1>5. ASSUME NEW i \in Nat, i \in S PROVE i + 1 \in S
  <2> SUFFICES ASSUME i + 1 <= n PROVE b[(i + 1) + 1] = a[i + 1] + 1 + d.cells
    OBVIOUS
  <2>1. i + 1 \in 1 .. n /\ (i + 1) + 1 \in 1 .. n + 1 /\ i \in 0 .. n
    BY <1>0
  <2>2. a[i + 1] = a[i] + 1 + items[n + 1 - (i + 1)].cells
    BY <1>2, <2>1 DEF CellsUpTo
  <2>3. b[(i + 1) + 1] = b[i + 1] + 1 + more[n + 1 + 1 - (i + 1 + 1)].cells
    BY <1>3, <2>1 DEF CellsUpTo
  <2>4. n + 1 + 1 - (i + 1 + 1) = n + 1 - (i + 1) /\ n + 1 - (i + 1) \in 1 .. n
    BY <1>0, <2>1
  <2>5. more[n + 1 + 1 - (i + 1 + 1)] = items[n + 1 - (i + 1)]
    BY <1>0, <2>4
  <2>6. items[n + 1 - (i + 1)].cells \in Int /\ a[i] \in Int
    BY <1>2, <2>1, <2>4 DEF CellsUpTo, Counted, n
  <2>7. i <= n /\ b[i + 1] = a[i] + 1 + d.cells
    BY <1>5, <2>1
  <2>8. b[(i + 1) + 1] = (a[i] + 1 + d.cells) + 1 + items[n + 1 - (i + 1)].cells
    BY <2>3, <2>5, <2>7
  <2> HIDE DEF S, n, more
  <2> QED
    BY <2>2, <2>6, <2>8
<1> HIDE DEF S
<1>6. \A i \in Nat : i \in S
  BY <1>4, <1>5, SetInduction
<1>7. b[n + 1] = a[n] + 1 + d.cells
  BY <1>0, <1>6 DEF S
<1> QED
  BY <1>1, <1>2, <1>3, <1>7 DEF more

\* A tail instead of none: its cells.
LEMMA ListTail ==
    ASSUME NEW items, NEW tail, Counted(items, Nil), tail.cells \in Int
    PROVE  /\ Counted(items, tail)
           /\ ListOf(items, tail).cells = ListOf(items, Nil).cells + tail.cells
<1> DEFINE n == Len(items)
<1>0. n \in Nat /\ Nil.cells = 0
  BY DEF Counted, Nil, Datum, Freed
<1> HIDE DEF n
<1>1. Counted(items, tail)
  BY DEF Counted
<1>2. PICK a : /\ CellsUpTo(a, items, n, Nil)
               /\ ListOf(items, Nil).cells = a[n]
  BY ListCells DEF n
<1>3. PICK b : /\ CellsUpTo(b, items, n, tail)
               /\ ListOf(items, tail).cells = b[n]
  BY <1>1, ListCells DEF n
<1> DEFINE S == {i \in Nat : i <= n => b[i] = a[i] + tail.cells}
<1>4. 0 \in S
  BY <1>0, <1>2, <1>3 DEF CellsUpTo
<1>5. ASSUME NEW i \in Nat, i \in S PROVE i + 1 \in S
  <2> SUFFICES ASSUME i + 1 <= n PROVE b[i + 1] = a[i + 1] + tail.cells
    OBVIOUS
  <2>1. i + 1 \in 1 .. n /\ i \in 0 .. n /\ n + 1 - (i + 1) \in 1 .. n
    BY <1>0
  <2>2. a[i + 1] = a[i] + 1 + items[n + 1 - (i + 1)].cells
    BY <1>2, <2>1 DEF CellsUpTo
  <2>3. b[i + 1] = b[i] + 1 + items[n + 1 - (i + 1)].cells
    BY <1>3, <2>1 DEF CellsUpTo
  <2>4. items[n + 1 - (i + 1)].cells \in Int /\ a[i] \in Int
    BY <1>2, <2>1 DEF CellsUpTo, Counted, n
  <2> QED
    BY <1>5, <2>1, <2>2, <2>3, <2>4
<1> HIDE DEF S
<1>6. \A i \in Nat : i \in S
  BY <1>4, <1>5, SetInduction
<1>7. b[n] = a[n] + tail.cells
  BY <1>0, <1>6 DEF S
<1> QED
  BY <1>1, <1>2, <1>3, <1>7

-----------------------------------------------------------------------------
(* The lists begun, one within the other. *)

\* What every datum is, and one that is none.
Sane(d) == d.cells \in Int /\ (d.k \in {"NULL", "error"} => d.cells = 0)
\* The data of a set that has the empty list, and the lists of them being read;
\* what a list begun holds.
DataIn(D) == Nil \in D /\ \A d \in D : Sane(d)
FrameOf(D) == [items : Seq(D), tail : D, stage : {"items", "tail"}]
Held(frame) == ListOf(frame.items, frame.tail).cells

\* The cells of the first i lists.
Sums(sum, fs) ==
  /\ sum \in [0 .. Len(fs) -> Int]
  /\ sum[0] = 0
  /\ \A i \in 1 .. Len(fs) : sum[i] = sum[i - 1] + Held(fs[i])

\* The lists fs hold t cells.
Total(fs, t) ==
  \E D, sum : /\ DataIn(D) /\ fs \in Seq(FrameOf(D)) /\ fs # <<>>
              /\ Sums(sum, fs) /\ t = sum[Len(fs)]

\* The data of the program's own.
LEMMA OwnData == Sane(Nil) /\ Sane(NullDatum) /\ Sane(ErrorDatum) /\ Nil.cells = 0
BY DEF Sane, Nil, NullDatum, ErrorDatum, Datum, Freed

\* A list's data are counted.
LEMMA FrameCounted ==
    ASSUME NEW D, DataIn(D), NEW frame \in FrameOf(D)
    PROVE  Counted(frame.items, frame.tail) /\ Held(frame) \in Int
<1>1. Counted(frame.items, frame.tail)
  BY DEF Counted, DataIn, Sane, FrameOf
<1> QED
  BY <1>1, ListCounted DEF Held

\* A list is a datum, if its tail is one.
LEMMA ListSane ==
    ASSUME NEW D, DataIn(D), NEW items \in Seq(D), NEW tail \in D
    PROVE  Sane(ListOf(items, tail))
<1> DEFINE n == Len(items)
           last == CHOOSE f : IsLast(f, items, n, tail, n)
<1>0. n \in Nat
  OBVIOUS
<1>1. IsLast(last, items, n, tail, n)
  BY <1>0, LastExists
<1>2. ListOf(items, tail) = last[n]
  BY DEF ListOf, IsLast
<1>3. Counted(items, tail)
  BY DEF Counted, DataIn, Sane
<1>4. ListOf(items, tail).cells \in Int
  BY <1>3, ListCounted
<1> HIDE DEF last, n
<1>5. CASE n = 0
  BY <1>1, <1>2, <1>5 DEF IsLast, DataIn
<1>6. CASE n # 0
  <2>1. last[n] = Pair(items[n + 1 - n], last[n - 1])
    BY <1>0, <1>1, <1>6 DEF IsLast
  <2>2. ListOf(items, tail).k = "cons"
    BY <1>2, <2>1 DEF Pair, Datum
  <2> QED
    BY <1>4, <2>2 DEF Sane
<1> QED
  BY <1>5, <1>6

\* At the start there is the list of everything, which is empty.
LEMMA TotalFirst == Total(<<NewFrame>>, 0)
<1> DEFINE D == {Nil}
           fs == <<NewFrame>>
           sum == [i \in 0 .. 1 |-> 0]
<1>1. DataIn(D)
  BY OwnData DEF DataIn
<1>2. NewFrame \in FrameOf(D)
  BY DEF NewFrame, FrameOf
<1>3. Held(NewFrame) = 0
  BY ListNone, OwnData DEF Held, NewFrame
<1>4. fs \in Seq(FrameOf(D)) /\ fs # <<>> /\ Len(fs) = 1 /\ fs[1] = NewFrame
  BY <1>2
<1>5. Sums(sum, fs)
  BY <1>3, <1>4 DEF Sums
<1>6. sum[Len(fs)] = 0
  BY <1>4
<1> HIDE DEF D, fs, sum
<1>7. Total(fs, 0)
  BY <1>1, <1>4, <1>5, <1>6 DEF Total
<1> QED
  BY <1>7 DEF fs

\* A list begun holds nothing yet.
LEMMA TotalPush ==
    ASSUME NEW fs, NEW t, Total(fs, t)
    PROVE  Total(Append(fs, NewFrame), t)
<1>1. PICK D, sum : /\ DataIn(D) /\ fs \in Seq(FrameOf(D)) /\ fs # <<>>
                    /\ Sums(sum, fs) /\ t = sum[Len(fs)]
  BY DEF Total
<1> DEFINE n == Len(fs)
           more == Append(fs, NewFrame)
           sums == [i \in 0 .. n + 1 |-> IF i = n + 1 THEN sum[n] ELSE sum[i]]
<1>2. NewFrame \in FrameOf(D) /\ Held(NewFrame) = 0
  BY <1>1, ListNone, OwnData DEF NewFrame, FrameOf, DataIn, Held
<1>3. /\ n \in Nat /\ more \in Seq(FrameOf(D)) /\ more # <<>> /\ Len(more) = n + 1
      /\ more[n + 1] = NewFrame /\ \A i \in 1 .. n : more[i] = fs[i]
  BY <1>1, <1>2, AppendProperties
<1> HIDE DEF n, more
<1>4. sum \in [0 .. n -> Int] /\ sum[0] = 0
      /\ \A i \in 1 .. n : sum[i] = sum[i - 1] + Held(fs[i])
  BY <1>1 DEF Sums, n
<1>5. /\ sums \in [0 .. n + 1 -> Int] /\ sums[n + 1] = sum[n]
      /\ \A i \in 0 .. n : sums[i] = sum[i]
  BY <1>3, <1>4
<1> HIDE DEF sums
<1>6. \A i \in 1 .. n + 1 : sums[i] = sums[i - 1] + Held(more[i])
  <2> SUFFICES ASSUME NEW i \in 1 .. n + 1
               PROVE  sums[i] = sums[i - 1] + Held(more[i])
    OBVIOUS
  <2>1. CASE i = n + 1
    BY <1>2, <1>3, <1>4, <1>5, <2>1
  <2>2. CASE i # n + 1
    <3>1. i \in 1 .. n /\ i \in 0 .. n /\ i - 1 \in 0 .. n
      BY <1>3, <2>2
    <3> QED
      BY <1>3, <1>4, <1>5, <3>1
  <2> QED
    BY <2>1, <2>2
<1>7. Sums(sums, more)
  BY <1>3, <1>4, <1>5, <1>6 DEF Sums
<1>8. t = sums[Len(more)]
  BY <1>1, <1>3, <1>5 DEF n
<1> QED
  BY <1>1, <1>3, <1>7, <1>8 DEF Total, more

\* Without the innermost list what it held is missing.
LEMMA TotalPop ==
    ASSUME NEW fs, NEW t, Total(fs, t), Len(fs) # 1
    PROVE  /\ Total(Front(fs), t - Held(fs[Len(fs)]))
           /\ Len(Front(fs)) = Len(fs) - 1
           /\ \A i \in 1 .. Len(fs) - 1 : Front(fs)[i] = fs[i]
<1>1. PICK D, sum : /\ DataIn(D) /\ fs \in Seq(FrameOf(D)) /\ fs # <<>>
                    /\ Sums(sum, fs) /\ t = sum[Len(fs)]
  BY DEF Total
<1> DEFINE n == Len(fs)
           less == Front(fs)
           sums == [i \in 0 .. n - 1 |-> sum[i]]
<1>2. n \in Nat /\ n > 1
  <2>1. n \in Nat /\ n > 0
    BY <1>1
  <2>2. n # 1
    OBVIOUS
  <2> HIDE DEF n
  <2> QED
    BY <2>1, <2>2
<1>3. /\ less \in Seq(FrameOf(D)) /\ Len(less) = n - 1
      /\ \A i \in 1 .. n - 1 : less[i] = fs[i]
  BY <1>1, <1>2 DEF Front
<1>4. less # <<>>
  BY <1>2, <1>3
<1> HIDE DEF n, less
<1>5. sum \in [0 .. n -> Int] /\ sum[0] = 0
      /\ \A i \in 1 .. n : sum[i] = sum[i - 1] + Held(fs[i])
  BY <1>1 DEF Sums, n
<1>6. /\ sums \in [0 .. n - 1 -> Int] /\ \A i \in 0 .. n - 1 : sums[i] = sum[i]
  BY <1>2, <1>5
<1> HIDE DEF sums
<1>7. \A i \in 1 .. n - 1 : sums[i] = sums[i - 1] + Held(less[i])
  <2> SUFFICES ASSUME NEW i \in 1 .. n - 1
               PROVE  sums[i] = sums[i - 1] + Held(less[i])
    OBVIOUS
  <2>1. i \in 1 .. n /\ i \in 0 .. n - 1 /\ i - 1 \in 0 .. n - 1
    BY <1>2
  <2> QED
    BY <1>3, <1>5, <1>6, <2>1
<1>8. Sums(sums, less)
  BY <1>2, <1>3, <1>5, <1>6, <1>7 DEF Sums
<1>9. Held(fs[n]) \in Int
  BY <1>1, <1>2, FrameCounted DEF n
<1>10. t - Held(fs[n]) = sums[n - 1]
  BY <1>1, <1>2, <1>5, <1>6, <1>9 DEF n
<1>11. Total(less, t - Held(fs[n]))
  BY <1>1, <1>3, <1>4, <1>8, <1>10 DEF Total
<1> QED
  BY <1>3, <1>11 DEF n, less

\* The outermost list alone.
LEMMA TotalOne ==
    ASSUME NEW fs, NEW t, Total(fs, t), Len(fs) = 1
    PROVE  t = Held(fs[1]) /\ t \in Int
<1>1. PICK D, sum : /\ DataIn(D) /\ fs \in Seq(FrameOf(D)) /\ fs # <<>>
                    /\ Sums(sum, fs) /\ t = sum[Len(fs)]
  BY DEF Total
<1>2. Held(fs[1]) \in Int
  BY <1>1, FrameCounted
<1>3. sum[1] = sum[1 - 1] + Held(fs[1]) /\ sum[0] = 0 /\ 1 - 1 = 0
  BY <1>1 DEF Sums
<1> QED
  BY <1>1, <1>2, <1>3

\* What the lists hold is a number, and what they are made of.
LEMMA TotalTyped ==
    ASSUME NEW fs, NEW t, Total(fs, t)
    PROVE  /\ t \in Int /\ Len(fs) \in Nat \ {0}
           /\ \E D : DataIn(D) /\ fs \in Seq(FrameOf(D))
           /\ \A i \in 1 .. Len(fs) : /\ Held(fs[i]) \in Int
                                      /\ Sane(ListOf(fs[i].items, fs[i].tail))
<1>1. PICK D, sum : /\ DataIn(D) /\ fs \in Seq(FrameOf(D)) /\ fs # <<>>
                    /\ Sums(sum, fs) /\ t = sum[Len(fs)]
  BY DEF Total
<1>2. Len(fs) \in Nat \ {0}
  BY <1>1
<1>3. t \in Int
  BY <1>1, <1>2 DEF Sums
<1>4. ASSUME NEW i \in 1 .. Len(fs)
      PROVE  Held(fs[i]) \in Int /\ Sane(ListOf(fs[i].items, fs[i].tail))
  <2>0. fs[i] \in FrameOf(D)
    BY <1>1, <1>2
  <2>1. fs[i] \in FrameOf(D) /\ fs[i].items \in Seq(D) /\ fs[i].tail \in D
    BY <2>0 DEF FrameOf
  <2> QED
    BY <1>1, <2>1, FrameCounted, ListSane
<1> QED
  BY <1>1, <1>2, <1>3, <1>4

\* The innermost list becomes another one.
LEMMA TotalSet ==
    ASSUME NEW D, DataIn(D), NEW fs \in Seq(FrameOf(D)), NEW t, Total(fs, t),
           NEW frame \in FrameOf(D)
    PROVE  Total([fs EXCEPT ![Len(fs)] = frame],
                 t - Held(fs[Len(fs)]) + Held(frame))
<1>1. PICK sum : fs # <<>> /\ Sums(sum, fs) /\ t = sum[Len(fs)]
  BY DEF Total
<1> DEFINE n == Len(fs)
           new == [fs EXCEPT ![Len(fs)] = frame]
           all == t - Held(fs[n]) + Held(frame)
           sums == [i \in 0 .. n |-> IF i = n THEN all ELSE sum[i]]
<1>2. n \in Nat /\ n > 0
  BY <1>1
<1>3. /\ new \in Seq(FrameOf(D)) /\ new # <<>> /\ Len(new) = n /\ new[n] = frame
      /\ \A i \in 1 .. n - 1 : new[i] = fs[i]
  BY <1>1, <1>2
<1>4. Held(frame) \in Int /\ Held(fs[n]) \in Int
  BY <1>2, FrameCounted
<1> HIDE DEF n, new
<1>5. sum \in [0 .. n -> Int] /\ sum[0] = 0 /\ t \in Int
      /\ \A i \in 1 .. n : sum[i] = sum[i - 1] + Held(fs[i])
  BY <1>1, <1>2 DEF Sums, n
<1>6. all \in Int /\ all = sum[n - 1] + Held(frame)
  <2>1. sum[n] = sum[n - 1] + Held(fs[n]) /\ sum[n - 1] \in Int /\ t = sum[n]
    BY <1>1, <1>2, <1>5 DEF n
  <2> QED
    BY <1>4, <2>1
<1> HIDE DEF all
<1>7. /\ sums \in [0 .. n -> Int] /\ sums[n] = all
      /\ \A i \in 0 .. n - 1 : sums[i] = sum[i]
  BY <1>2, <1>5, <1>6
<1> HIDE DEF sums
<1>8. \A i \in 1 .. n : sums[i] = sums[i - 1] + Held(new[i])
  <2> SUFFICES ASSUME NEW i \in 1 .. n
               PROVE  sums[i] = sums[i - 1] + Held(new[i])
    OBVIOUS
  <2>1. CASE i = n
    BY <1>2, <1>3, <1>6, <1>7, <2>1
  <2>2. CASE i # n
    <3>1. i \in 1 .. n - 1 /\ i \in 0 .. n - 1 /\ i - 1 \in 0 .. n - 1
      BY <1>2, <2>2
    <3> QED
      BY <1>3, <1>5, <1>7, <3>1
  <2> QED
    BY <2>1, <2>2
<1>9. sums[0] = 0
  BY <1>2, <1>5, <1>7
<1>10. Sums(sums, new)
  BY <1>3, <1>7, <1>8, <1>9 DEF Sums
<1>11. Total(new, all)
  BY <1>3, <1>7, <1>10 DEF Total
<1> QED
  BY <1>11 DEF all, new, n

\* A set of data, and one more datum.
LEMMA DataMore ==
    ASSUME NEW D, DataIn(D), NEW fs \in Seq(FrameOf(D)), NEW d, Sane(d)
    PROVE  /\ DataIn(D \cup {d}) /\ fs \in Seq(FrameOf(D \cup {d}))
           /\ \A i \in 1 .. Len(fs) : fs[i] \in FrameOf(D) /\ fs[i] \in FrameOf(D \cup {d})
<1>1. DataIn(D \cup {d})
  BY DEF DataIn
<1>2. Seq(D) \subseteq Seq(D \cup {d})
  BY SeqMonotonic
<1>3. FrameOf(D) \subseteq FrameOf(D \cup {d})
  BY <1>2 DEF FrameOf
<1>4. Seq(FrameOf(D)) \subseteq Seq(FrameOf(D \cup {d}))
  BY <1>3, SeqMonotonic
<1>5. \A i \in 1 .. Len(fs) : fs[i] \in FrameOf(D)
  OBVIOUS
<1> QED
  BY <1>1, <1>3, <1>4, <1>5

\* A datum is appended to the innermost list.
LEMMA TotalItem ==
    ASSUME NEW fs, NEW t, Total(fs, t), NEW d, Sane(d)
    PROVE  Total([fs EXCEPT ![Len(fs)].items = Append(@, d)], t + 1 + d.cells)
<1>1. PICK D : DataIn(D) /\ fs \in Seq(FrameOf(D))
  BY TotalTyped
<1> DEFINE E == D \cup {d}
           n == Len(fs)
           frame == [fs[n] EXCEPT !.items = Append(@, d)]
<1>2. t \in Int /\ n \in 1 .. n
  BY TotalTyped
<1>3. DataIn(E) /\ fs \in Seq(FrameOf(E)) /\ fs[n] \in FrameOf(E) /\ d \in E
  BY <1>1, <1>2, DataMore
<1>4. fs[n].items \in Seq(E) /\ fs[n].tail \in E /\ fs[n].stage \in {"items", "tail"}
  BY <1>3 DEF FrameOf
<1>5. Append(fs[n].items, d) \in Seq(E)
  BY <1>3, <1>4
<1>6. /\ frame = [items |-> Append(fs[n].items, d), tail |-> fs[n].tail,
                  stage |-> fs[n].stage]
      /\ frame \in FrameOf(E)
  <2>1. PICK r \in FrameOf(E) : r = fs[n]
    BY <1>3
  <2> DEFINE more == Append(r.items, d)
  <2> HIDE DEF more
  <2>2. [r EXCEPT !.items = more]
          = [items |-> more, tail |-> r.tail, stage |-> r.stage]
    BY DEF FrameOf
  <2>3. frame = [r EXCEPT !.items = more] /\ more = Append(fs[n].items, d)
    BY <2>1 DEF more
  <2> HIDE DEF frame
  <2> QED
    BY <1>4, <1>5, <2>1, <2>2, <2>3 DEF FrameOf
<1>7. Counted(fs[n].items, fs[n].tail) /\ Held(fs[n]) \in Int
  BY <1>3, FrameCounted
<1>8. Held(frame) = Held(fs[n]) + 1 + d.cells
  <2>1. ListOf(Append(fs[n].items, d), fs[n].tail).cells
          = ListOf(fs[n].items, fs[n].tail).cells + 1 + d.cells
    BY <1>3, <1>4, <1>7, ListAppend DEF Sane
  <2>2. frame.items = Append(fs[n].items, d) /\ frame.tail = fs[n].tail
    BY <1>6
  <2> HIDE DEF frame
  <2> QED
    BY <2>1, <2>2 DEF Held
<1>9. [fs EXCEPT ![n].items = Append(@, d)] = [fs EXCEPT ![n] = frame]
  BY <1>2, <1>3
<1> HIDE DEF frame, E
<1>10. Total([fs EXCEPT ![n] = frame], t - Held(fs[n]) + Held(frame))
  BY <1>3, <1>6, TotalSet
<1>11. t - Held(fs[n]) + Held(frame) = t + 1 + d.cells
  BY <1>2, <1>7, <1>8 DEF Sane
<1> QED
  BY <1>9, <1>10, <1>11

\* A datum becomes the tail of the innermost list.
LEMMA TotalTail ==
    ASSUME NEW fs, NEW t, Total(fs, t), NEW d, Sane(d), fs[Len(fs)].tail = Nil
    PROVE  Total([fs EXCEPT ![Len(fs)].tail = d], t + d.cells)
<1>1. PICK D : DataIn(D) /\ fs \in Seq(FrameOf(D))
  BY TotalTyped
<1> DEFINE E == D \cup {d}
           n == Len(fs)
           frame == [fs[n] EXCEPT !.tail = d]
<1>2. t \in Int /\ n \in 1 .. n
  BY TotalTyped
<1>3. DataIn(E) /\ fs \in Seq(FrameOf(E)) /\ fs[n] \in FrameOf(E) /\ d \in E
  BY <1>1, <1>2, DataMore
<1>4. /\ frame = [items |-> fs[n].items, tail |-> d, stage |-> fs[n].stage]
      /\ frame \in FrameOf(E)
  BY <1>3 DEF FrameOf
<1>5. Counted(fs[n].items, Nil) /\ Held(fs[n]) \in Int
  BY <1>3, FrameCounted
<1>6. Held(frame) = Held(fs[n]) + d.cells
  BY <1>4, <1>5, ListTail DEF Held, Sane
<1>7. [fs EXCEPT ![n].tail = d] = [fs EXCEPT ![n] = frame]
  BY <1>2, <1>3
<1> HIDE DEF frame, E
<1>8. Total([fs EXCEPT ![n] = frame], t - Held(fs[n]) + Held(frame))
  BY <1>3, <1>4, TotalSet
<1>9. t - Held(fs[n]) + Held(frame) = t + d.cells
  BY <1>2, <1>5, <1>6 DEF Sane
<1> QED
  BY <1>7, <1>8, <1>9

\* The innermost list waits for its tail.
LEMMA TotalStage ==
    ASSUME NEW fs, NEW t, Total(fs, t)
    PROVE  Total([fs EXCEPT ![Len(fs)].stage = "tail"], t)
<1>1. PICK D : DataIn(D) /\ fs \in Seq(FrameOf(D))
  BY TotalTyped
<1> DEFINE n == Len(fs)
           frame == [fs[n] EXCEPT !.stage = "tail"]
<1>2. t \in Int /\ n \in 1 .. n
  BY TotalTyped
<1>3. fs[n] \in FrameOf(D)
  BY <1>1, <1>2
<1>4. /\ frame = [items |-> fs[n].items, tail |-> fs[n].tail, stage |-> "tail"]
      /\ frame \in FrameOf(D)
  BY <1>3 DEF FrameOf
<1>5. Held(fs[n]) \in Int
  BY <1>1, <1>3, FrameCounted
<1>6. Held(frame) = Held(fs[n])
  BY <1>4 DEF Held
<1>7. [fs EXCEPT ![n].stage = "tail"] = [fs EXCEPT ![n] = frame]
  BY <1>1, <1>2, <1>3
<1> HIDE DEF frame
<1>8. Total([fs EXCEPT ![n] = frame], t - Held(fs[n]) + Held(frame))
  BY <1>1, <1>4, TotalSet
<1>9. t - Held(fs[n]) + Held(frame) = t
  BY <1>2, <1>5, <1>6
<1> QED
  BY <1>7, <1>8, <1>9

-----------------------------------------------------------------------------
(* What is allocated. *)

\* Besides the lists begun: the datum just returned, or the string being read.
Hand(place, d) ==
  IF place = "give" THEN d.cells
  ELSE IF place \in {"string", "escape", "word"} THEN 1 ELSE 0

\* A list waits for its tail, if at all, as the innermost one; it has it only
\* until the parenthesis is read.
Tails(fs, place) ==
  /\ fs[1].stage = "items"
  /\ \A i \in 1 .. Len(fs) : (i # Len(fs) \/ place # "close") => fs[i].tail = Nil

\* What is being read, and the cells it has beside the lists begun.
Reading ==
  /\ live \in Int
  /\ Total(frames, live - Hand(at, val))
  /\ at \in {"list", "close"} => Len(frames) # 1
  /\ Tails(frames, at)

\* The inductive invariant.
LeakInv ==
  /\ Sane(val)
  /\ at = "done" => live = val.cells
  /\ at # "done" => Reading

\* At the start.
LEMMA LeakStart == Init => LeakInv
<1> SUFFICES ASSUME Init PROVE LeakInv
  OBVIOUS
<1>1. live - Hand(at, val) = 0 /\ at # "done" /\ at \notin {"list", "close"}
  <2>1. at = "datum" /\ live = 0
    BY DEF Init
  <2>2. Hand(at, val) = 0
    BY <2>1 DEF Hand
  <2> QED
    BY <2>1, <2>2
<1>2. Tails(frames, at)
  BY DEF Init, Tails, NewFrame
<1>3. Total(frames, 0) /\ live \in Int
  BY TotalFirst DEF Init
<1> QED
  BY <1>1, <1>2, <1>3, OwnData DEF LeakInv, Reading, Init

\* The lists stay as they are, and what is in hand accounts for the change.
LEMMA KeepsLists ==
    ASSUME LeakInv, at # "done", at' # "done", UNCHANGED frames, Sane(val'),
           live' \in Int, live' - Hand(at', val') = live - Hand(at, val),
           at = "close" => at' = "close",
           at' \in {"list", "close"} => Len(frames) # 1
    PROVE  LeakInv'
<1>1. Total(frames, live' - Hand(at', val')) /\ Tails(frames, at)
  BY DEF LeakInv, Reading
<1>2. Total(frames', live' - Hand(at', val'))
  BY <1>1
<1>3. Tails(frames', at')
  BY <1>1 DEF Tails
<1>4. Reading'
  BY <1>2, <1>3 DEF Reading
<1> QED
  BY <1>4 DEF LeakInv

\* read_list gives up: what it has built is freed, and what was to be added.
LEMMA FailsClean ==
    ASSUME LeakInv, at # "done", NEW lost \in Int, lost = Hand(at, val),
           NEW d, Sane(d), d.cells = 0, ListFails(lost, d)
    PROVE  LeakInv'
<1> DEFINE n == Len(frames)
<1>1. /\ Total(frames, live - lost) /\ Tails(frames, at) /\ live \in Int
      /\ at' = "give" /\ val' = d /\ live' = live - Held(frames[n]) - lost
  BY DEF LeakInv, Reading, ListFails, Give, Built, Held, Top
<1>2. /\ n \in Nat \ {0} /\ live - lost \in Int
      /\ Held(frames[n]) \in Int
  BY <1>1, TotalTyped
<1>3. live' \in Int /\ live' - Hand(at', val') = live - lost - Held(frames[n])
  BY <1>1, <1>2 DEF Hand
<1>4. CASE n = 1
  <2>1. frames' = <<NewFrame>>
    BY <1>4 DEF ListFails
  <2>2. live - lost = Held(frames[n])
    BY <1>1, <1>4, TotalOne
  <2>3. live' - Hand(at', val') = 0
    BY <1>2, <1>3, <2>2
  <2>4. Tails(frames', at')
    BY <2>1 DEF Tails, NewFrame
  <2>5. Reading'
    BY <1>1, <1>3, <2>1, <2>3, <2>4, TotalFirst DEF Reading
  <2> QED
    BY <1>1, <2>5 DEF LeakInv
<1>5. CASE n # 1
  <2>1. frames' = Front(frames)
    BY <1>5 DEF ListFails
  <2>2. /\ Total(frames', live - lost - Held(frames[n]))
        /\ Len(frames') = n - 1 /\ \A i \in 1 .. n - 1 : frames'[i] = frames[i]
    BY <1>1, <1>5, <2>1, TotalPop
  <2>3. Tails(frames', at')
    <3> HIDE DEF n
    <3>1. \A i \in 1 .. n - 1 : i \in 1 .. n /\ i # n
      BY <1>2
    <3>2. 1 \in 1 .. n - 1
      BY <1>2, <1>5
    <3> QED
      BY <1>1, <2>2, <3>1, <3>2 DEF Tails, n
  <2>4. Reading'
    BY <1>1, <1>3, <2>2, <2>3 DEF Reading
  <2> QED
    BY <1>1, <2>4 DEF LeakInv
<1> QED
  BY <1>4, <1>5

\* The list is complete, and is the datum returned.
LEMMA DoneClean ==
    ASSUME LeakInv, at \in {"list", "close"}, ListDone
    PROVE  LeakInv'
<1> DEFINE n == Len(frames)
<1>1. /\ Total(frames, live) /\ Tails(frames, at) /\ live \in Int /\ n # 1
      /\ at' = "give" /\ val' = ListOf(frames[n].items, frames[n].tail)
      /\ live' = live /\ frames' = Front(frames)
  <2>1. Hand(at, val) = 0 /\ live - 0 = live
    BY DEF Hand, LeakInv, Reading
  <2> QED
    BY <2>1 DEF LeakInv, Reading, ListDone, Give, Built, Top
<1>2. /\ n \in Nat \ {0} /\ Held(frames[n]) \in Int /\ Sane(val')
  BY <1>1, TotalTyped
<1>3. /\ Total(frames', live - Held(frames[n]))
      /\ Len(frames') = n - 1 /\ \A i \in 1 .. n - 1 : frames'[i] = frames[i]
  BY <1>1, TotalPop
<1>4. Tails(frames', at')
  <2> HIDE DEF n
  <2>1. \A i \in 1 .. n - 1 : i \in 1 .. n /\ i # n
    BY <1>2
  <2>2. 1 \in 1 .. n - 1
    BY <1>1, <1>2
  <2> QED
    BY <1>1, <1>3, <2>1, <2>2 DEF Tails, n
<1>5. live' - Hand(at', val') = live - Held(frames[n])
  BY <1>1 DEF Hand, Held
<1>6. Reading'
  BY <1>1, <1>3, <1>4, <1>5 DEF Reading
<1> QED
  BY <1>1, <1>2, <1>6 DEF LeakInv

\* What WordDone may give is a datum.
LEMMA OutcomesSane ==
    ASSUME NEW f, NEW x, NEW d \in Outcomes(f, x)
    PROVE  Sane(d)
<1>1. \A n : Sane(Integer(n)) /\ Sane(Flonum(n)) /\ Sane(Symbol(n))
  BY DEF Sane, Integer, Flonum, Symbol, Datum, Freed
<1>2. Sane(ErrorDatum) /\ Sane(Error(x))
  BY DEF Sane, Error, ErrorDatum, Datum, Freed
<1>3. \A w, b : Sane(IntegerOf(w, b))
  BY <1>1, <1>2 DEF IntegerOf
<1>4. \A w : Sane(FlonumOf(w))
  BY <1>1, <1>2 DEF FlonumOf
<1>5. \A w : Sane(NumberOf(w))
  BY <1>3, <1>4 DEF NumberOf
<1>6. \A g \in Garbage : Sane(g)
  BY <1>1 DEF Garbage
<1> DEFINE n == IF word.to = "integer" THEN IntegerOf(word.str, word.base)
                ELSE NumberOf(word.str)
<1>7. Sane(n)
  BY <1>3, <1>5
<1>8. d \in {Error(x), ErrorDatum, Symbol(word.str), n, FlonumOf(word.str)} \cup Garbage
  BY DEF Outcomes
<1> HIDE DEF n
<1> QED
  BY <1>1, <1>2, <1>4, <1>6, <1>7, <1>8

-----------------------------------------------------------------------------
(* Every step accounts for what it allocates. *)

\* No list is touched and nothing is in hand, or the same string.
LEMMA GoesOn ==
    ASSUME LeakInv, UNCHANGED <<frames, val, live>>, at # "done", at' # "done",
           \/ at' = at
           \/ /\ at \notin {"close", "give"} /\ at' \notin {"list", "close", "give"}
              /\ at \in {"string", "escape", "word"} <=> at' \in {"string", "escape", "word"}
    PROVE  LeakInv'
<1>1. live \in Int /\ Hand(at', val') = Hand(at, val) /\ Sane(val')
      /\ (at \in {"list", "close"} => Len(frames) # 1)
  BY DEF LeakInv, Reading, Hand
<1> QED
  BY <1>1, KeepsLists DEF LeakInv, Reading

\* A datum is given; what was in hand is freed, or is in it.
LEMMA Gives ==
    ASSUME LeakInv, at \notin {"done", "close", "give"}, NEW d, Sane(d), Give(d),
           UNCHANGED frames,
           live' = live - Hand(at, val) + d.cells
    PROVE  LeakInv'
<1>1. at' = "give" /\ val' = d /\ live \in Int
  BY DEF Give, LeakInv, Reading
<1>2. Hand(at, val) \in Int /\ Hand(at', val') = d.cells /\ d.cells \in Int
  BY <1>1 DEF Hand, Sane
<1>3. live' \in Int /\ live' - Hand(at', val') = live - Hand(at, val)
  BY <1>1, <1>2
<1> QED
  BY <1>1, <1>3, KeepsLists

\* A block is read.
LEMMA FillClean == ASSUME LeakInv, Fill PROVE LeakInv'
BY GoesOn DEF Fill

\* Spaces and comments.
LEMMA SkipClean == ASSUME LeakInv, NEW f, Skip(f) PROVE LeakInv'
BY GoesOn DEF Skip, KeepsData

\* A string begun is a cell, unless there is no memory for it.
LEMMA BeginStringClean ==
    ASSUME LeakInv, at \in {"datum", "first"}, NEW f, NEW w, BeginString(f, w)
    PROVE  LeakInv'
<1>0. Hand(at, val) = 0 /\ live \in Int /\ Sane(val)
  BY DEF LeakInv, Reading, Hand
<1>1. CASE f /\ Give(ErrorDatum) /\ UNCHANGED <<word, live>>
  <2>1. live' = live - Hand(at, val) + ErrorDatum.cells
    BY <1>0, <1>1 DEF ErrorDatum, Datum, Freed
  <2> QED
    BY <1>1, <2>1, OwnData, Gives DEF BeginString
<1>2. CASE live' = live + 1 /\ Goto(IF w.to = "string" THEN "string" ELSE "word")
  <2>1. at' \in {"string", "word"} /\ val' = val /\ Hand(at', val') = 1
    BY <1>2 DEF Goto, Hand
  <2>2. live' \in Int /\ live' - Hand(at', val') = live - Hand(at, val)
    BY <1>0, <1>2, <2>1
  <2> QED
    BY <1>0, <2>1, <2>2, KeepsLists DEF BeginString
<1> QED
  BY <1>1, <1>2 DEF BeginString

\* A word is begun, or another character decides.
LEMMA DatumClean ==
    ASSUME LeakInv, at \in {"datum", "hash"}, NEW d, Sane(d), d.cells = 0,
           Give(d), UNCHANGED <<frames, live>>
    PROVE  LeakInv'
<1>1. live' = live - Hand(at, val) + d.cells
  BY DEF Hand, LeakInv, Reading
<1> QED
  BY <1>1, Gives

\* read_s_exp, and what follows a number sign.
LEMMA ReadSExpClean == ASSUME LeakInv, NEW f, ReadSExp(f) PROVE LeakInv'
<1> DEFINE c == Char
<1>0. at = "datum" /\ live \in Int /\ Hand(at, val) = 0 /\ Sane(val)
  BY DEF ReadSExp, LeakInv, Reading, Hand
<1>00. Decimals \cap {"(", "\"", "#", EOF} = {}
  BY DEF Decimals, DigitOf, EOF
<1>1. CASE c = "("
  <2>1. frames' = Append(frames, NewFrame) /\ at' = "list" /\ UNCHANGED <<val, live>>
    BY <1>1, <1>00 DEF ReadSExp, Goto, EOF
  <2>2. Total(frames, live - Hand(at, val)) /\ Tails(frames, at)
    BY <1>0 DEF LeakInv, Reading
  <2>3. Total(frames', live - Hand(at, val))
    BY <2>1, <2>2, TotalPush
  <2>4. Hand(at', val') = Hand(at, val)
    BY <1>0, <2>1 DEF Hand
  <2>5. PICK D : frames \in Seq(FrameOf(D)) /\ Len(frames) \in Nat \ {0}
    BY <2>2, TotalTyped
  <2>6. NewFrame.tail = Nil /\ NewFrame.stage = "items"
    BY DEF NewFrame
  <2>7. /\ Len(frames') = Len(frames) + 1 /\ frames'[Len(frames) + 1] = NewFrame
        /\ \A i \in 1 .. Len(frames) : frames'[i] = frames[i]
    BY <2>1, <2>5
  <2>8. Tails(frames', at') /\ Len(frames') # 1
    BY <1>0, <2>2, <2>5, <2>6, <2>7 DEF Tails
  <2>9. Reading'
    BY <1>0, <2>1, <2>3, <2>4, <2>8 DEF Reading
  <2> QED
    BY <1>0, <2>1, <2>9 DEF LeakInv
<1>2. CASE c = "\""
  <2>1. BeginString(f, NoWord)
    BY <1>2, <1>00 DEF ReadSExp, EOF
  <2> QED
    BY <1>0, <2>1, BeginStringClean
<1>3. CASE c = "#"
  <2>1. Goto("hash") /\ KeepsData
    BY <1>3, <1>00 DEF ReadSExp, EOF
  <2> QED
    BY <1>0, <2>1, GoesOn DEF Goto, KeepsData
<1>4. CASE c = EOF
  <2>1. Give(NullDatum) /\ KeepsData
    BY <1>4, <1>00 DEF ReadSExp, EOF
  <2>2. NullDatum.cells = 0
    BY DEF NullDatum, Datum, Freed
  <2> QED
    BY <1>0, <2>1, <2>2, OwnData, DatumClean DEF KeepsData
<1>5. CASE c \notin {"(", "\"", "#", EOF}
  <2>1. \E to : BeginWord(to, 10)
    BY <1>5 DEF ReadSExp
  <2> QED
    BY <1>0, <2>1, GoesOn DEF BeginWord, Goto
<1> QED
  BY <1>1, <1>2, <1>3, <1>4, <1>5

\* After a hash: a truth value, the base of a number, or an error.
LEMMA ReadHashClean == ASSUME LeakInv, NEW f, ReadHash(f) PROVE LeakInv'
<1>0. at = "hash" /\ live \in Int /\ Hand(at, val) = 0
  BY DEF ReadHash, LeakInv, Reading, Hand
<1>1. \/ /\ KeepsData
         /\ \E d \in {True, False, Error(Taken)} : Give(d)
      \/ \E base : BeginWord("integer", base)
  BY DEF ReadHash
<1>2. \A d \in {True, False, Error(Taken)} : Sane(d) /\ d.cells = 0
  BY DEF True, False, Error, ErrorDatum, Datum, Freed, Sane
<1>3. CASE KeepsData /\ \E d \in {True, False, Error(Taken)} : Give(d)
  BY <1>0, <1>2, <1>3, DatumClean DEF KeepsData
<1>4. CASE \E base : BeginWord("integer", base)
  BY <1>0, <1>4, GoesOn DEF BeginWord, Goto
<1> QED
  BY <1>1, <1>3, <1>4

\* A word begins, with a string to hold it, or with an error.
LEMMA ReadFirstClean == ASSUME LeakInv, NEW f, ReadFirst(f) PROVE LeakInv'
<1>0. at = "first" /\ live \in Int /\ Hand(at, val) = 0
  BY DEF ReadFirst, LeakInv, Reading, Hand
<1>1. CASE Give(Error(Taken)) /\ KeepsData
  <2>1. Sane(Error(Taken)) /\ Error(Taken).cells = 0
    BY DEF Error, ErrorDatum, Datum, Freed, Sane
  <2>2. live' = live - Hand(at, val) + Error(Taken).cells
    BY <1>0, <1>1, <2>1 DEF KeepsData
  <2> QED
    BY <1>0, <1>1, <2>1, <2>2, Gives DEF KeepsData
<1>2. CASE BeginString(f, word)
  BY <1>0, <1>2, BeginStringClean
<1> QED
  BY <1>1, <1>2 DEF ReadFirst

\* A character more; without memory for it the string is freed.
LEMMA AppendCharClean ==
    ASSUME LeakInv, at \in {"string", "escape", "word"}, NEW f, NEW c,
           NEW state \in {"string", "word"}, AppendChar(f, c, state)
    PROVE  LeakInv'
<1>0. Hand(at, val) = 1 /\ live \in Int
  BY DEF Hand, LeakInv, Reading
<1>1. CASE f
  <2>1. live' = live - Hand(at, val) + ErrorDatum.cells
    BY <1>0, <1>1 DEF AppendChar, ErrorDatum, Datum, Freed
  <2> QED
    BY <1>1, <2>1, OwnData, Gives DEF AppendChar
<1>2. CASE ~f
  BY <1>2, GoesOn DEF AppendChar, Goto
<1> QED
  BY <1>1, <1>2

\* A word goes on, or becomes what it stands for, and its string is freed.
LEMMA ReadWordClean == ASSUME LeakInv, NEW f, ReadWord(f) PROVE LeakInv'
<1>0. at = "word" /\ Hand(at, val) = 1
  BY DEF ReadWord, Hand
<1>1. CASE InWord(Char)
  <2>1. AppendChar(f, Char, "word")
    BY <1>1 DEF ReadWord
  <2> QED
    BY <1>0, <2>1, AppendCharClean
<1>2. CASE ~InWord(Char)
  <2>1. PICK x : WordDone(f, x)
    BY <1>2 DEF ReadWord
  <2>2. PICK d \in Outcomes(f, x) : /\ Give(d) /\ live' = live - 1 + d.cells
                                    /\ UNCHANGED frames
    BY <2>1 DEF WordDone
  <2>3. Sane(d)
    BY OutcomesSane
  <2> QED
    BY <1>0, <2>2, <2>3, Gives
<1> QED
  BY <1>1, <1>2

\* A string goes on, ends, or is freed where it is wrong.
LEMMA ReadStringClean == ASSUME LeakInv, NEW f, ReadString(f) PROVE LeakInv'
<1> DEFINE c == Char
<1>0. at \in {"string", "escape"} /\ Hand(at, val) = 1 /\ live \in Int
  BY DEF ReadString, Hand, LeakInv, Reading
<1>1. CASE live' = live - 1 /\ Give(Error(Taken)) /\ UNCHANGED frames
  <2>1. Sane(Error(Taken)) /\ live' = live - Hand(at, val) + Error(Taken).cells
    BY <1>0, <1>1 DEF Error, ErrorDatum, Datum, Freed, Sane
  <2> QED
    BY <1>0, <1>1, <2>1, Gives
<1>2. CASE Give(Str(word.str)) /\ KeepsData
  <2>1. Sane(Str(word.str)) /\ Str(word.str).cells = 1
    BY DEF Str, Datum, Freed, Sane
  <2>2. live' = live - Hand(at, val) + Str(word.str).cells
    BY <1>0, <1>2, <2>1 DEF KeepsData
  <2> QED
    BY <1>0, <1>2, <2>1, <2>2, Gives DEF KeepsData
<1>3. CASE Goto("escape") /\ KeepsData
  BY <1>0, <1>3, GoesOn DEF Goto, KeepsData
<1>4. CASE \E char : AppendChar(f, char, "string")
  BY <1>0, <1>4, AppendCharClean
<1> QED
  BY <1>1, <1>2, <1>3, <1>4 DEF ReadString

\* A list ends, goes on with a datum or after a dot, or is freed.
LEMMA ReadListClean == ASSUME LeakInv, NEW f, ReadList(f) PROVE LeakInv'
<1> DEFINE c == Char
<1>0. at = "list" /\ Hand(at, val) = 0 /\ live \in Int /\ Sane(val)
      /\ Total(frames, live - Hand(at, val)) /\ Tails(frames, at)
  BY DEF ReadList, Hand, LeakInv, Reading
<1>1. CASE ListDone
  BY <1>0, <1>1, DoneClean
<1>2. CASE ListFails(0, Error(Taken))
  <2>1. Sane(Error(Taken)) /\ Error(Taken).cells = 0 /\ 0 \in Int
    BY DEF Error, ErrorDatum, Datum, Freed, Sane
  <2> QED
    BY <1>0, <1>2, <2>1, FailsClean
<1>3. CASE /\ frames' = [frames EXCEPT ![Len(frames)].stage = "tail"]
           /\ Goto("datum") /\ UNCHANGED live
  <2> DEFINE n == Len(frames)
  <2>1. at' = "datum" /\ val' = val /\ Hand(at', val') = 0
    BY <1>3 DEF Goto, Hand
  <2>2. Total(frames', live' - Hand(at', val'))
    BY <1>0, <1>3, <2>1, TotalStage
  <2>3. PICK D : frames \in Seq(FrameOf(D)) /\ n \in Nat \ {0} /\ n # 1
    BY <1>0, TotalTyped DEF LeakInv, Reading
  <2>4. \A i \in 1 .. n : frames[i] \in FrameOf(D)
    BY <2>3
  <2>5. /\ Len(frames') = n /\ \A i \in 1 .. n - 1 : frames'[i] = frames[i]
        /\ frames'[n].tail = frames[n].tail
    BY <1>3, <2>3, <2>4 DEF FrameOf
  <2> HIDE DEF n
  <2>6. Tails(frames', at')
    <3>1. /\ frames[1].stage = "items"
          /\ \A i \in 1 .. n : frames[i].tail = Nil
      BY <1>0 DEF Tails, n
    <3>2. 1 \in 1 .. n - 1 /\ \A i \in 1 .. n : i # n => i \in 1 .. n - 1
      BY <2>3
    <3>3. \A i \in 1 .. n : frames'[i].tail = Nil
      BY <2>5, <3>1, <3>2
    <3> QED
      BY <2>5, <3>1, <3>2, <3>3 DEF Tails
  <2>7. Reading'
    BY <1>0, <1>3, <2>1, <2>2, <2>6 DEF Reading
  <2> QED
    BY <1>0, <2>1, <2>7 DEF LeakInv
<1>4. CASE Goto("datum") /\ UNCHANGED <<frames, live>>
  BY <1>0, <1>4, GoesOn DEF Goto
<1> QED
  BY <1>1, <1>2, <1>3, <1>4 DEF ReadList

\* A list ends after the datum that follows a dot, or is freed.
LEMMA ReadCloseClean == ASSUME LeakInv, NEW f, ReadClose(f) PROVE LeakInv'
<1>0. at = "close" /\ Hand(at, val) = 0
  BY DEF ReadClose, Hand
<1>1. CASE ListDone
  BY <1>0, <1>1, DoneClean
<1>2. CASE ListFails(0, Error(Taken))
  <2>1. Sane(Error(Taken)) /\ Error(Taken).cells = 0 /\ 0 \in Int
    BY DEF Error, ErrorDatum, Datum, Freed, Sane
  <2> QED
    BY <1>0, <1>2, <2>1, FailsClean
<1> QED
  BY <1>1, <1>2 DEF ReadClose

\* A datum read goes into its list, with a cell to hold it, becomes its tail,
\* or is freed with it.
LEMMA ReceiveClean == ASSUME LeakInv, NEW f, Receive(f) PROVE LeakInv'
<1> DEFINE n == Len(frames)
<1>0. /\ at = "give" /\ Hand(at, val) = val.cells /\ val.cells \in Int /\ live \in Int
      /\ Sane(val) /\ Total(frames, live - val.cells) /\ Tails(frames, at)
  BY DEF Receive, Hand, LeakInv, Reading, Sane
<1>00. /\ n \in Nat \ {0} /\ Held(frames[n]) \in Int
       /\ Sane(ListOf(frames[n].items, frames[n].tail))
  BY <1>0, TotalTyped
<1>1. CASE n = 1 /\ val.k \in {"NULL", "error"}
  <2>1. live - val.cells = Held(frames[1]) /\ val.cells = 0
    BY <1>0, <1>1, TotalOne DEF Sane
  <2>2. Built = ListOf(frames[1].items, frames[1].tail)
    BY <1>1 DEF Built, Top
  <2>3. /\ at' = "done" /\ val' = IF val.k = "NULL" THEN Built ELSE val
        /\ live' = live - IF val.k = "NULL" THEN 0 ELSE Built.cells
    BY <1>1 DEF Receive
  <2>4. live' = val'.cells
    BY <1>0, <1>00, <2>1, <2>2, <2>3 DEF Held
  <2>5. Sane(val')
    BY <1>0, <1>00, <1>1, <2>2, <2>3
  <2> QED
    BY <2>3, <2>4, <2>5 DEF LeakInv
<1>2. CASE ~(n = 1 /\ val.k \in {"NULL", "error"})
  <2>1. CASE val.k \in {"NULL", "error"}
    <3>1. \E d \in {Error(ctx), val} : ListFails(0, d)
      BY <1>2, <2>1 DEF Receive
    <3>2. Sane(Error(ctx)) /\ Error(ctx).cells = 0
      BY DEF Error, ErrorDatum, Datum, Freed, Sane
    <3>3. Hand(at, val) = 0 /\ val.cells = 0 /\ 0 \in Int
      BY <1>0, <2>1 DEF Sane
    <3> QED
      BY <1>0, <3>1, <3>2, <3>3, FailsClean
  <2>2. CASE val.k \notin {"NULL", "error"} /\ Top.stage = "tail"
    <3>1. /\ at' = "close" /\ val' = val /\ live' = live
          /\ frames' = [frames EXCEPT ![n].tail = val]
      BY <1>2, <2>2 DEF Receive, Goto
    <3>2. frames[n].tail = Nil /\ frames[n].stage = "tail"
      BY <1>0, <1>00, <2>2 DEF Tails, Top
    <3>3. n # 1
      BY <1>0, <3>2 DEF Tails
    <3>4. Total(frames', live - val.cells + val.cells)
      BY <1>0, <3>1, <3>2, TotalTail
    <3>5. live - val.cells + val.cells = live' - Hand(at', val')
      BY <1>0, <3>1 DEF Hand
    <3>6. PICK D : frames \in Seq(FrameOf(D))
      BY <1>0, TotalTyped
    <3>7. Len(frames') = n /\ \A i \in 1 .. n - 1 : frames'[i] = frames[i]
      BY <1>00, <3>1, <3>6
    <3> HIDE DEF n
    <3>8. Tails(frames', at')
      <4>1. frames[1].stage = "items" /\ \A i \in 1 .. n : frames[i].tail = Nil
        BY <1>0 DEF Tails, n
      <4>2. 1 \in 1 .. n - 1 /\ \A i \in 1 .. n : i # n => i \in 1 .. n - 1
        BY <1>00, <3>3
      <4> QED
        BY <3>1, <3>7, <4>1, <4>2 DEF Tails
    <3>9. Reading'
      BY <1>0, <3>1, <3>3, <3>4, <3>5, <3>7, <3>8 DEF Reading
    <3> QED
      BY <1>0, <3>1, <3>9 DEF LeakInv
  <2>3. CASE val.k \notin {"NULL", "error"} /\ Top.stage # "tail" /\ f
    <3>1. ListFails(val.cells, ErrorDatum)
      BY <1>2, <2>3 DEF Receive
    <3>2. ErrorDatum.cells = 0
      BY DEF ErrorDatum, Datum, Freed
    <3> QED
      BY <1>0, <3>1, <3>2, OwnData, FailsClean
  <2>4. CASE val.k \notin {"NULL", "error"} /\ Top.stage # "tail" /\ ~f
    <3>1. /\ at' = IF n = 1 THEN "datum" ELSE "list"
          /\ val' = val /\ live' = live + 1
          /\ frames' = [frames EXCEPT ![n].items = Append(@, val)]
      BY <1>2, <2>4 DEF Receive, Goto
    <3>2. Total(frames', live - val.cells + 1 + val.cells)
      BY <1>0, <3>1, TotalItem
    <3>3. live - val.cells + 1 + val.cells = live' - Hand(at', val')
      BY <1>0, <3>1 DEF Hand
    <3>4. PICK D : frames \in Seq(FrameOf(D))
      BY <1>0, TotalTyped
    <3>5. \A i \in 1 .. n : frames[i] \in FrameOf(D)
      BY <3>4
    <3>6. /\ Len(frames') = n /\ \A i \in 1 .. n - 1 : frames'[i] = frames[i]
          /\ frames'[n].tail = frames[n].tail /\ frames'[n].stage = frames[n].stage
      BY <1>00, <3>1, <3>4, <3>5 DEF FrameOf
    <3> HIDE DEF n
    <3>7. Tails(frames', at')
      <4>1. frames[1].stage = "items" /\ \A i \in 1 .. n : frames[i].tail = Nil
        BY <1>0 DEF Tails, n
      <4>2. /\ 1 \in 1 .. n - 1 \/ 1 = n
            /\ \A i \in 1 .. n : i # n => i \in 1 .. n - 1
        BY <1>00
      <4>3. \A i \in 1 .. n : frames'[i].tail = Nil
        BY <3>6, <4>1, <4>2
      <4> QED
        BY <3>6, <4>1, <4>2, <4>3 DEF Tails
    <3>8. Reading'
      BY <1>0, <3>1, <3>2, <3>3, <3>6, <3>7 DEF Reading
    <3> QED
      BY <1>0, <3>1, <3>8 DEF LeakInv
  <2> QED
    BY <2>1, <2>2, <2>3, <2>4
<1> QED
  BY <1>1, <1>2

\* The invariant is inductive.
LEMMA LeakStep == LeakInv /\ [Next]_vars => LeakInv'
<1> SUFFICES ASSUME LeakInv, [Next]_vars PROVE LeakInv'
  OBVIOUS
<1>1. CASE UNCHANGED vars
  BY <1>1 DEF vars, LeakInv, Reading, Tails, Hand, Total, Sums, Held
<1>2. CASE Fill
  BY <1>2, FillClean
<1>3. ASSUME NEW f \in BOOLEAN, Step(f) PROVE LeakInv'
  BY <1>3, SkipClean, ReadSExpClean, ReadHashClean, ReadFirstClean, ReadWordClean,
     ReadStringClean, ReadListClean, ReadCloseClean, ReceiveClean DEF Step
<1> QED
  BY <1>1, <1>2, <1>3 DEF Next

-----------------------------------------------------------------------------
\* Whatever the files hold, however they are cut into blocks, and whichever
\* allocations fail: read_all_s_exp leaves nothing allocated but what it returns.
THEOREM Clean == Spec => []NothingLeaked
<1>1. LeakInv => NothingLeaked
  BY DEF LeakInv, NothingLeaked
<1> QED
  BY LeakStart, LeakStep, <1>1, PTL DEF Spec

-----------------------------------------------------------------------------
(* The decoder. *)

\* g says for the first n bytes after which of them a sequence is begun.
IsBegun(g, bytes, n) ==
  g = [i \in 0 .. n |-> i > 0 /\ bytes[i] = Lead /\ ~g[i - 1]]

\* The character that ends at a byte, if any, and those that end at each byte.
Ends(begun, byte) ==
  CASE begun /\ byte = Trail -> <<Wide>>
    [] ~begun /\ byte \notin {Lead, Trail} -> <<byte>>
    [] OTHER -> <<>>
Ended(g, bytes) == [i \in 1 .. Len(bytes) |-> Ends(g[i - 1], bytes[i])]

\* The last of n places where a character ends.
LastOf(e, n) == Max({0} \cup {i \in 1 .. n : e[i] # <<>>})

\* There is such a function.
LEMMA BegunExists ==
    ASSUME NEW bytes
    PROVE  \A n \in Nat : \E g : IsBegun(g, bytes, n)
<1> DEFINE S == {n \in Nat : \E g : IsBegun(g, bytes, n)}
<1>1. 0 \in S
  <2> DEFINE new(g, i) == i > 0 /\ bytes[i] = Lead /\ ~g[i - 1]
             g == [i \in 0 .. 0 |-> new(<<>>, i)]
  <2>0. \A i \in 0 .. 0 : new(<<>>, i) = new(g, i)
    OBVIOUS
  <2>2. g = [i \in 0 .. 0 |-> new(<<>>, i)]
    OBVIOUS
  <2> HIDE DEF g, new
  <2>3. g = [i \in 0 .. 0 |-> new(g, i)]
    BY <2>0, <2>2
  <2>1. IsBegun(g, bytes, 0)
    BY <2>3 DEF IsBegun, new
  <2> QED
    BY <2>1
<1>2. ASSUME NEW n \in Nat, n \in S PROVE n + 1 \in S
  <2>1. PICK f : IsBegun(f, bytes, n)
    BY <1>2
  <2> DEFINE new(i) == i > 0 /\ bytes[i] = Lead /\ ~f[i - 1]
             g == [i \in 0 .. n + 1 |-> new(i)]
  <2>2. \A i \in 0 .. n : g[i] = f[i]
    BY <2>1 DEF IsBegun
  <2>3. g = [i \in 0 .. n + 1 |-> new(i)]
    OBVIOUS
  <2> HIDE DEF g
  <2>4. \A i \in 0 .. n + 1 : i > 0 => g[i - 1] = f[i - 1]
    BY <2>2
  <2>5. \A i \in 0 .. n + 1 : new(i) = (i > 0 /\ bytes[i] = Lead /\ ~g[i - 1])
    BY <2>4
  <2> HIDE DEF new
  <2>6. IsBegun(g, bytes, n + 1)
    BY <2>3, <2>5 DEF IsBegun
  <2> QED
    BY <2>6
<1> HIDE DEF S
<1>3. \A n \in Nat : n \in S
  BY <1>1, <1>2, SetInduction
<1> QED
  BY <1>3 DEF S

\* What the decoder returns.
LEMMA DecodeIs ==
    ASSUME NEW B, NEW bytes \in Seq(B)
    PROVE  \E g : /\ IsBegun(g, bytes, Len(bytes))
                  /\ Decode(bytes).chars = FlattenSeq(Ended(g, bytes))
                  /\ Decode(bytes).rest
                       = SubSeq(bytes, LastOf(Ended(g, bytes), Len(bytes)) + 1, Len(bytes))
<1> DEFINE g == CHOOSE g : IsBegun(g, bytes, Len(bytes))
<1>1. Len(bytes) \in Nat
  OBVIOUS
<1>2. IsBegun(g, bytes, Len(bytes))
  BY <1>1, BegunExists
<1>3. /\ Decode(bytes).chars = FlattenSeq(Ended(g, bytes))
      /\ Decode(bytes).rest
           = SubSeq(bytes, LastOf(Ended(g, bytes), Len(bytes)) + 1, Len(bytes))
  BY DEF Decode, Ended, Ends, LastOf, IsBegun
<1> QED
  BY <1>2, <1>3

\* After the last place where a character ends none does.
LEMMA LastIs ==
    ASSUME NEW e, NEW n \in Nat
    PROVE  /\ LastOf(e, n) \in 0 .. n
           /\ LastOf(e, n) > 0 => e[LastOf(e, n)] # <<>>
           /\ \A i \in LastOf(e, n) + 1 .. n : e[i] = <<>>
<1> DEFINE R == {0} \cup {i \in 1 .. n : e[i] # <<>>}
<1>1. R \in SUBSET (0 .. n) /\ 0 \in R
  OBVIOUS
<1>2. \A i \in R : i > 0 => e[i] # <<>>
  OBVIOUS
<1>3. \A i \in 1 .. n : i \in R \/ e[i] = <<>>
  OBVIOUS
<1>4. LastOf(e, n) = Max(R)
  BY DEF LastOf
<1> HIDE DEF R
<1>5. \E x \in R : \A y \in R : x >= y
  BY <1>1, HasLast
<1>6. Max(R) \in R /\ \A y \in R : Max(R) >= y
  BY <1>5 DEF Max
<1> DEFINE l == Max(R)
<1>7. l \in R /\ \A y \in R : l >= y
  BY <1>6
<1> HIDE DEF l
<1>8. l \in 0 .. n /\ (l > 0 => e[l] # <<>>)
  BY <1>1, <1>2, <1>7
<1>9. ASSUME NEW i \in l + 1 .. n PROVE e[i] = <<>>
  BY <1>3, <1>7, <1>8
<1> QED
  BY <1>4, <1>8, <1>9 DEF l

\* What ends at a byte is at most one character.
LEMMA EndedTyped ==
    ASSUME NEW B, NEW bytes \in Seq(B), NEW g
    PROVE  /\ Ended(g, bytes) \in Seq(Seq(B \cup {Wide}))
           /\ Len(Ended(g, bytes)) = Len(bytes)
           /\ \A i \in 1 .. Len(bytes) : Ended(g, bytes)[i] = Ends(g[i - 1], bytes[i])
<1> DEFINE T == B \cup {Wide}
<1>1. ASSUME NEW x, NEW c \in B PROVE Ends(x, c) \in Seq(T)
  <2>1. Ends(x, c) \in {<<Wide>>, <<c>>, <<>>}
    BY DEF Ends
  <2>2. <<Wide>> \in Seq(T) /\ <<c>> \in Seq(T) /\ <<>> \in Seq(T)
    OBVIOUS
  <2> QED
    BY <2>1, <2>2
<1>2. Len(bytes) \in Nat /\ \A i \in 1 .. Len(bytes) : bytes[i] \in B
  OBVIOUS
<1> HIDE DEF T
<1>3. Ended(g, bytes) \in [1 .. Len(bytes) -> Seq(T)]
  BY <1>1, <1>2 DEF Ended
<1>4. \A i \in 1 .. Len(bytes) : Ended(g, bytes)[i] = Ends(g[i - 1], bytes[i])
  BY DEF Ended
<1> DEFINE e == Ended(g, bytes)
           U == Seq(T)
<1>5. e \in [1 .. Len(bytes) -> U]
  BY <1>3
<1> HIDE DEF e, U
<1>6. e \in Seq(U) /\ Len(e) = Len(bytes)
  BY <1>2, <1>5
<1> QED
  BY <1>4, <1>6 DEF e, U, T

\* A decoder's state after a part of the bytes does not depend on the others.
LEMMA BegunSplit ==
    ASSUME NEW B, NEW a \in Seq(B), NEW b \in Seq(B),
           NEW g, IsBegun(g, Then(a, b), Len(a) + Len(b)),
           NEW h, IsBegun(h, a, Len(a))
    PROVE  \A i \in Nat : i <= Len(a) => h[i] = g[i]
<1> DEFINE c == Then(a, b)
           S == {n \in Nat : n <= Len(a) => h[n] = g[n]}
<1>0. Len(a) \in Nat /\ Len(b) \in Nat
  OBVIOUS
<1>1. \A i \in 0 .. Len(a) + Len(b) : g[i] = (i > 0 /\ c[i] = Lead /\ ~g[i - 1])
  BY DEF IsBegun
<1>2. \A i \in 0 .. Len(a) : h[i] = (i > 0 /\ a[i] = Lead /\ ~h[i - 1])
  BY DEF IsBegun
<1>3. \A i \in 1 .. Len(a) : c[i] = a[i]
  BY <1>0, ThenAt
<1> HIDE DEF c
<1>4. 0 \in S
  BY <1>0, <1>1, <1>2
<1>5. ASSUME NEW n \in Nat, n \in S PROVE n + 1 \in S
  BY <1>0, <1>1, <1>2, <1>3, <1>5
<1> HIDE DEF S
<1>6. \A n \in Nat : n \in S
  BY <1>4, <1>5, SetInduction
<1> QED
  BY <1>6 DEF S

\* However a file is cut in two, what the second part is decoded to after what
\* is left of the first goes on with what the first was decoded to.
LEMMA DecodeSplit ==
    ASSUME NEW B, NEW a \in Seq(B), NEW b \in Seq(B)
    PROVE  /\ Decode(a).chars \in Seq(B \cup {Wide})
           /\ Decode(a).rest \in Seq(B) /\ Len(Decode(a).rest) <= Len(a)
           /\ Decode(Then(a, b)).chars
                = Then(Decode(a).chars, Decode(Then(Decode(a).rest, b)).chars)
<1> DEFINE n == Len(a)
           k == Len(b)
           c == Then(a, b)
           T == B \cup {Wide}
<1>0. n \in Nat /\ k \in Nat /\ (\A i \in 1 .. n : a[i] \in B)
  OBVIOUS
<1>1. c \in Seq(B) /\ Len(c) = n + k
  BY ThenTyped, ConcatProperties DEF Then
<1>2. \A i \in 1 .. n + k : c[i] = IF i <= n THEN a[i] ELSE b[i - n]
  BY ThenAt
<1>3. PICK g : IsBegun(g, c, n + k) /\ Decode(c).chars = FlattenSeq(Ended(g, c))
  BY <1>1, DecodeIs
<1>4. PICK h : /\ IsBegun(h, a, n) /\ Decode(a).chars = FlattenSeq(Ended(h, a))
               /\ Decode(a).rest = SubSeq(a, LastOf(Ended(h, a), n) + 1, n)
  BY DecodeIs
<1>5. \A i \in 0 .. n : h[i] = g[i]
  BY <1>0, <1>3, <1>4, BegunSplit
<1> HIDE DEF c, n, k
<1> DEFINE e == Ended(g, c)
           f == Ended(h, a)
           l == LastOf(f, n)
           r == SubSeq(a, l + 1, n)
<1>6. /\ e \in Seq(Seq(T)) /\ Len(e) = n + k
      /\ \A i \in 1 .. n + k : e[i] = Ends(g[i - 1], c[i])
  BY <1>1, EndedTyped
<1>7. /\ f \in Seq(Seq(T)) /\ Len(f) = n
      /\ \A i \in 1 .. n : f[i] = Ends(h[i - 1], a[i])
  BY EndedTyped DEF n
<1>8. /\ l \in 0 .. n /\ (l > 0 => f[l] # <<>>)
      /\ \A i \in l + 1 .. n : f[i] = <<>>
  BY <1>0, LastIs
<1> HIDE DEF e, f, l, T
<1>9. r \in Seq(B) /\ Len(r) = n - l /\ \A i \in 1 .. n - l : r[i] = a[l + i]
  BY <1>0, <1>8, RestOf DEF n
<1> HIDE DEF r
<1> DEFINE d == Then(r, b)
           m == n - l + k
<1>10. d \in Seq(B) /\ Len(d) = m
  BY <1>9, ThenTyped, ConcatProperties DEF Then, k
<1>11. ASSUME NEW i \in 1 .. m PROVE d[i] = c[l + i]
  <2>1. d[i] = IF i <= n - l THEN r[i] ELSE b[i - (n - l)]
    <3>1. i \in 1 .. Len(r) + Len(b) /\ Len(r) = n - l
      BY <1>0, <1>8, <1>9 DEF k
    <3>2. Then(r, b)[i] = IF i <= Len(r) THEN r[i] ELSE b[i - Len(r)]
      BY <1>9, <3>1, ThenAt
    <3> QED
      BY <3>1, <3>2
  <2>2. c[l + i] = IF l + i <= n THEN a[l + i] ELSE b[l + i - n]
    <3>1. l + i \in 1 .. n + k
      BY <1>0, <1>8
    <3> QED
      BY <1>0, <1>2, <1>8, <3>1
  <2> HIDE DEF d
  <2>3. CASE l + i <= n
    <3>1. i <= n - l /\ i \in 1 .. n - l
      BY <1>0, <1>8, <2>3
    <3> QED
      BY <1>9, <2>1, <2>2, <2>3, <3>1
  <2>4. CASE l + i > n
    <3>1. ~(i <= n - l) /\ ~(l + i <= n) /\ i - (n - l) = l + i - n
      BY <1>0, <1>8, <2>4
    <3> QED
      BY <2>1, <2>2, <3>1
  <2>5. l + i <= n \/ l + i > n
    BY <1>0, <1>8
  <2> QED
    BY <2>3, <2>4, <2>5
<1>12. PICK q : IsBegun(q, d, m) /\ Decode(d).chars = FlattenSeq(Ended(q, d))
  BY <1>10, DecodeIs
<1> HIDE DEF d
<1>13. \A i \in 0 .. m : q[i] <=> g[l + i]
  <2> DEFINE S == {i \in Nat : i <= m => (q[i] <=> g[l + i])}
  <2>0. m \in Nat /\ \A i \in 0 .. m : l + i \in 0 .. n + k
    BY <1>0, <1>8
  <2>1. \A i \in 0 .. n + k : g[i] <=> (i > 0 /\ c[i] = Lead /\ ~g[i - 1])
    BY <1>3 DEF IsBegun
  <2> HIDE DEF m
  <2>2. \A i \in 0 .. m : q[i] <=> (i > 0 /\ d[i] = Lead /\ ~q[i - 1])
    BY <1>12 DEF IsBegun
  <2>3. ~g[l]
    <3>1. CASE l = 0
      BY <1>0, <1>8, <2>1, <3>1
    <3>2. CASE l > 0
      <4>1. l \in 1 .. n /\ l \in 1 .. n + k
        BY <1>0, <1>8, <3>2
      <4>2. Ends(h[l - 1], a[l]) # <<>>
        BY <1>7, <1>8, <3>2, <4>1
      <4>3. a[l] # Lead
        BY <4>2 DEF Ends, Lead, Trail
      <4>4. c[l] = a[l]
        BY <1>2, <4>1
      <4> QED
        BY <1>0, <2>1, <4>1, <4>3, <4>4
    <3> QED
      BY <1>0, <1>8, <3>1, <3>2
  <2>4. 0 \in S
    BY <1>0, <1>8, <2>0, <2>2, <2>3
  <2>5. ASSUME NEW i \in Nat, i \in S PROVE i + 1 \in S
    <3> SUFFICES ASSUME i + 1 <= m PROVE q[i + 1] <=> g[l + (i + 1)]
      OBVIOUS
    <3>1. q[i] <=> g[l + i]
      BY <2>0, <2>5
    <3>2. i + 1 \in 1 .. m /\ l + (i + 1) \in 0 .. n + k /\ l + (i + 1) > 0
          /\ l + (i + 1) - 1 = l + i /\ i + 1 - 1 = i /\ i + 1 > 0
      BY <1>0, <1>8, <2>0
    <3>3. d[i + 1] = c[l + (i + 1)]
      BY <1>11, <3>2 DEF m
    <3>4. q[i + 1] <=> (d[i + 1] = Lead /\ ~q[i])
      BY <2>2, <3>2
    <3>5. g[l + (i + 1)] <=> (c[l + (i + 1)] = Lead /\ ~g[l + i])
      BY <1>0, <1>8, <2>1, <3>2
    <3> QED
      BY <3>1, <3>3, <3>4, <3>5
  <2> HIDE DEF S
  <2>6. \A i \in Nat : i \in S
    BY <2>4, <2>5, SetInduction
  <2> QED
    BY <2>0, <2>6 DEF S
<1> DEFINE u == Ended(q, d)
<1>14. u \in Seq(Seq(T)) /\ Len(u) = m /\ \A i \in 1 .. m : u[i] = Ends(q[i - 1], d[i])
  BY <1>10, EndedTyped DEF T
<1> HIDE DEF u
<1>15. ASSUME NEW i \in 1 .. m PROVE u[i] = e[l + i]
  <2>1. /\ l + i \in 1 .. n + k /\ i - 1 \in 0 .. m /\ l + i - 1 = l + (i - 1)
    BY <1>0, <1>8
  <2>2. (q[i - 1] <=> g[l + i - 1]) /\ d[i] = c[l + i]
    BY <1>11, <1>13, <2>1
  <2> HIDE DEF m
  <2>3. u[i] = Ends(q[i - 1], c[l + i])
    BY <1>14, <2>2
  <2>4. PICK j \in 1 .. n + k : j = l + i
    BY <2>1
  <2>5. e[j] = Ends(g[j - 1], c[j])
    BY <1>6
  <2>6. Ends(q[i - 1], c[l + i]) = Ends(g[j - 1], c[j])
    <3>1. q[i - 1] <=> g[j - 1]
      <4>1. l + i - 1 = j - 1 /\ l + i = j
        BY <1>0, <1>8, <2>4
      <4>2. q[i - 1] <=> g[l + i - 1]
        BY <2>2
      <4>3. g[l + i - 1] <=> g[j - 1]
        BY <4>1
      <4> QED
        BY <4>2, <4>3
    <3>2. c[l + i] = c[j]
      BY <2>4
    <3>3. CASE q[i - 1]
      <4>1. Ends(q[i - 1], c[l + i]) = Ends(TRUE, c[j])
        BY <3>2, <3>3 DEF Ends
      <4>2. Ends(g[j - 1], c[j]) = Ends(TRUE, c[j])
        BY <3>1, <3>3 DEF Ends
      <4> QED
        BY <4>1, <4>2
    <3>4. CASE ~q[i - 1]
      <4>1. Ends(q[i - 1], c[l + i]) = Ends(FALSE, c[j])
        BY <3>2, <3>4 DEF Ends
      <4>2. Ends(g[j - 1], c[j]) = Ends(FALSE, c[j])
        BY <3>1, <3>4 DEF Ends
      <4> QED
        BY <4>1, <4>2
    <3> QED
      BY <3>3, <3>4
  <2>7. u[i] = e[j]
    BY <2>3, <2>5, <2>6
  <2> QED
    BY <2>4, <2>7
<1>16. ASSUME NEW i \in 1 .. n PROVE f[i] = e[i]
  <2>1. i \in 1 .. n + k /\ i - 1 \in 0 .. n /\ i <= n
    BY <1>0
  <2>2. h[i - 1] = g[i - 1] /\ c[i] = a[i]
    BY <1>2, <1>5, <2>1
  <2> QED
    BY <1>6, <1>7, <2>1, <2>2
<1> DEFINE p == SubSeq(f, 1, l)
           z == SubSeq(f, l + 1, n)
           U == Seq(T)
<1>17. f \in Seq(U) /\ e \in Seq(U) /\ u \in Seq(U)
  BY <1>6, <1>7, <1>14
<1> HIDE DEF U
<1>18. /\ p \in Seq(U) /\ Len(p) = l /\ (\A i \in 1 .. l : p[i] = f[i])
  BY <1>0, <1>7, <1>8, <1>17, PartOf
<1>19. /\ z \in Seq(U) /\ Len(z) = n - l /\ \A i \in 1 .. n - l : z[i] = f[l + i]
  BY <1>0, <1>7, <1>8, <1>17, RestOf
<1>20. f = Then(p, z)
  BY <1>7, <1>8, <1>17, PartThenRest
<1> HIDE DEF p, z
<1>21. e = Then(p, u)
  <2>1. Then(p, u) \in Seq(U) /\ Len(Then(p, u)) = n + k
    <3>1. Then(p, u) \in Seq(U) /\ Len(Then(p, u)) = l + m
      BY <1>14, <1>17, <1>18, ConcatProperties DEF Then
    <3> QED
      BY <1>0, <1>8, <3>1
  <2>2. ASSUME NEW i \in 1 .. n + k PROVE Then(p, u)[i] = e[i]
    <3>1. i \in 1 .. Len(p) + Len(u)
      BY <1>0, <1>8, <1>14, <1>18
    <3>2. Then(p, u)[i] = IF i <= Len(p) THEN p[i] ELSE u[i - Len(p)]
      BY <1>17, <1>18, <3>1, ThenAt
    <3>3. CASE i <= l
      <4>1. i \in 1 .. l /\ i \in 1 .. n
        BY <1>0, <1>8, <3>3
      <4> QED
        BY <1>16, <1>18, <3>2, <3>3, <4>1
    <3>4. CASE i > l
      <4>1. ~(i <= l) /\ i - l \in 1 .. m /\ l + (i - l) = i
        BY <1>0, <1>8, <3>4
      <4>2. u[i - l] = e[l + (i - l)]
        BY <1>15, <4>1
      <4> QED
        BY <1>18, <3>2, <4>1, <4>2
    <3>5. i <= l \/ i > l
      BY <1>0, <1>8
    <3> QED
      BY <3>3, <3>4, <3>5
  <2> QED
    BY <1>6, <1>17, <2>1, <2>2, SeqEqual
<1>22. FlattenSeq(z) = <<>>
  <2>1. ASSUME NEW i \in 1 .. n - l PROVE z[i] = <<>>
    <3>1. l + i \in l + 1 .. n
      BY <1>0, <1>8
    <3>2. z[i] = f[l + i]
      BY <1>19
    <3> QED
      BY <1>8, <3>1, <3>2
  <2> QED
    BY <1>0, <1>8, <1>19, <2>1, FlattenEmpties DEF U
<1>23. /\ FlattenSeq(f) = Then(FlattenSeq(p), <<>>)
       /\ FlattenSeq(e) = Then(FlattenSeq(p), FlattenSeq(u))
  <2>1. Len(p) \in Nat /\ p \in Seq(Seq(T)) /\ z \in Seq(Seq(T)) /\ u \in Seq(Seq(T))
    BY <1>8, <1>17, <1>18, <1>19 DEF U
  <2>2. FlattenSeq(Then(p, z)) = Then(FlattenSeq(p), FlattenSeq(z))
    BY <2>1, FlattenThen
  <2>3. FlattenSeq(Then(p, u)) = Then(FlattenSeq(p), FlattenSeq(u))
    BY <2>1, FlattenThen
  <2> QED
    BY <1>20, <1>21, <1>22, <2>2, <2>3
<1>24. FlattenSeq(f) = FlattenSeq(p) /\ FlattenSeq(p) \in Seq(T)
  <2>1. FlattenSeq(p) \in Seq(T)
    BY <1>18, FlattenTyped DEF U
  <2> QED
    BY <1>23, <2>1, ThenEmpty
<1>25. Decode(a).chars = FlattenSeq(f) /\ Decode(c).chars = FlattenSeq(e)
  BY <1>3, <1>4 DEF e, f
<1>26. Decode(a).rest = r
  BY <1>4 DEF r, l, f
<1>27. Decode(Then(r, b)).chars = FlattenSeq(u)
  BY <1>12 DEF u, d
<1>28. Len(r) <= n
  BY <1>0, <1>8, <1>9
<1> QED
  BY <1>9, <1>23, <1>24, <1>25, <1>26, <1>27, <1>28 DEF T, c, n

-----------------------------------------------------------------------------
(* The place in the file. *)

\* What the file holds, and what it is decoded to.
FileBytes == Range(input.text)
FileChars == FileBytes \cup {Wide}

\* The fields of a context.
IsContext(x) ==
  /\ x = [file |-> x.file, pending |-> x.pending, buf |-> x.buf, push |-> x.push,
          line |-> x.line, filled |-> x.filled]
  /\ x.file \in Seq(FileBytes) /\ x.pending \in Seq(FileBytes) /\ x.buf \in Seq(FileChars)
  /\ Len(x.pending) <= INBUF_SIZE - 1
  /\ x.line \in Int

\* What is still to be given, and the lines begun by the first g characters.
AheadOf(x) == Then(x.buf, Decode(Then(x.pending, x.file)).chars)
LinesTo(g) == Cardinality({i \in 1 .. g : input.chars[i] = "\n"})

\* g characters have been given, with the line number that belongs there.
GivenTo(x, g) ==
  /\ AheadOf(x) = SubSeq(input.chars, g + 1, Len(input.chars))
  /\ x.line = 1 + LinesTo(g) - IF x.push = "\n" THEN 1 ELSE 0
\* A context is at a place of the file.
PlaceOf(x) == IsContext(x) /\ \E g \in 0 .. Len(input.chars) : GivenTo(x, g)

\* The inductive invariant: as long as no allocation has failed, the reader is at
\* a place of the file, and no more bytes are pending than fit in a block.
PlaceInv ==
  /\ failures \in Nat /\ input \in Inputs
  /\ failures = 0 => PlaceOf(ctx)

\* What the assumption says of the file.
LEMMA InputFacts ==
    ASSUME input \in Inputs
    PROVE  /\ input.text \in Seq(FileBytes) /\ input.chars = Decode(input.text).chars
           /\ input.chars \in Seq(FileChars)
<1>1. input.text \in Seq(FileBytes) /\ input.chars = Decode(input.text).chars
  BY SExpReaderAssumption DEF FileBytes
<1>2. <<>> \in Seq(FileBytes)
  OBVIOUS
<1>3. Decode(input.text).chars \in Seq(FileChars)
  BY <1>1, <1>2, DecodeSplit DEF FileChars
<1> QED
  BY <1>1, <1>3

\* The lines begun, by the characters given.
LEMMA LinesGoOn ==
    ASSUME NEW g \in Nat
    PROVE  /\ LinesTo(g) \in Nat /\ LinesTo(0) = 0
           /\ LinesTo(g + 1) = LinesTo(g) + IF input.chars[g + 1] = "\n" THEN 1 ELSE 0
<1> DEFINE N(h) == {i \in 1 .. h : input.chars[i] = "\n"}
<1>1. IsFiniteSet(N(g)) /\ Cardinality(N(g)) \in Nat
  <2>1. IsFiniteSet(1 .. g)
    BY FS_Interval
  <2>2. N(g) \subseteq 1 .. g
    OBVIOUS
  <2>3. IsFiniteSet(N(g))
    BY <2>1, <2>2, FS_Subset
  <2> QED
    BY <2>3, FS_CardinalityType
<1>2. N(0) = {} /\ Cardinality({}) = 0
  <2>1. N(0) = {}
    OBVIOUS
  <2> QED
    BY <2>1, FS_EmptySet
<1>3. CASE input.chars[g + 1] = "\n"
  <2>1. N(g + 1) = N(g) \cup {g + 1} /\ g + 1 \notin N(g)
    BY <1>3
  <2> HIDE DEF N
  <2>2. Cardinality(N(g + 1)) = Cardinality(N(g)) + 1
    BY <1>1, <2>1, FS_AddElement
  <2> QED
    BY <1>1, <1>2, <1>3, <2>2 DEF LinesTo, N
<1>4. CASE input.chars[g + 1] # "\n"
  <2>1. N(g + 1) = N(g)
    BY <1>4
  <2> HIDE DEF N
  <2> QED
    BY <1>1, <1>2, <1>4, <2>1 DEF LinesTo, N
<1> QED
  BY <1>3, <1>4

\* A record of such fields is a context.
LEMMA ContextOf ==
    ASSUME NEW f \in Seq(FileBytes), NEW p \in Seq(FileBytes), NEW b \in Seq(FileChars), NEW u,
           NEW l \in Int, NEW d, Len(p) <= INBUF_SIZE - 1
    PROVE  IsContext([file |-> f, pending |-> p, buf |-> b, push |-> u, line |-> l,
                      filled |-> d])
BY DEF IsContext

\* A context with some fields replaced.
LEMMA ContextWith ==
    ASSUME NEW x, IsContext(x), NEW u, NEW d, NEW b, NEW l
    PROVE  [x EXCEPT !.push = u, !.filled = d, !.buf = b, !.line = l]
             = [file |-> x.file, pending |-> x.pending, buf |-> b, push |-> u,
                line |-> l, filled |-> d]
<1> DEFINE y == [x EXCEPT !.push = u, !.filled = d, !.buf = b, !.line = l]
<1>1. y \in [file : {x.file}, pending : {x.pending}, buf : {b}, push : {u},
            line : {l}, filled : {d}]
  BY DEF IsContext
<1> HIDE DEF y
<1>2. y = [file |-> x.file, pending |-> x.pending, buf |-> b, push |-> u,
           line |-> l, filled |-> d]
  BY <1>1
<1> QED
  BY <1>2 DEF y

\* The fields of a context that a character has been taken from.
LEMMA TakenIs ==
    ASSUME IsContext(ctx)
    PROVE  Taken = [file |-> ctx.file, pending |-> ctx.pending,
                    buf |-> IF ctx.push = None /\ ctx.buf # <<>> THEN Tail(ctx.buf)
                            ELSE ctx.buf,
                    push |-> None,
                    line |-> ctx.line + IF Char = "\n" THEN 1 ELSE 0,
                    filled |-> FALSE]
<1> DEFINE b == IF ctx.push = None /\ ctx.buf # <<>> THEN Tail(ctx.buf) ELSE ctx.buf
           l == ctx.line + IF Char = "\n" THEN 1 ELSE 0
<1>1. Taken = [ctx EXCEPT !.push = None, !.filled = FALSE, !.buf = b, !.line = l]
  BY DEF Taken
<1> HIDE DEF b, l
<1>2. Taken = [file |-> ctx.file, pending |-> ctx.pending, buf |-> b, push |-> None,
               line |-> l, filled |-> FALSE]
  BY <1>1, ContextWith
<1> QED
  BY <1>2 DEF b, l

\* A character taken.
LEMMA TakenPlace ==
    ASSUME input \in Inputs, PlaceOf(ctx)
    PROVE  PlaceOf(Taken)
<1> DEFINE chars == input.chars
           n == Len(chars)
           R == Decode(Then(ctx.pending, ctx.file)).chars
<1>0. IsContext(ctx) /\ chars \in Seq(FileChars) /\ n \in Nat
  BY InputFacts DEF PlaceOf
<1>1. PICK g \in 0 .. n : GivenTo(ctx, g)
  BY DEF PlaceOf
<1>2. LinesTo(g) \in Nat /\ g \in Nat
  BY LinesGoOn
<1>3. R \in Seq(FileChars)
  <2>1. Then(ctx.pending, ctx.file) \in Seq(FileBytes) /\ <<>> \in Seq(FileBytes)
    BY <1>0, ThenTyped DEF IsContext
  <2> QED
    BY <2>1, DecodeSplit DEF FileChars
<1>4. None # "\n" /\ EOF # "\n"
  BY SExpReaderAssumption DEF EOF
<1> HIDE DEF R
<1>5. CASE ctx.push # None \/ ctx.buf = <<>>
  <2>1. /\ Taken.file = ctx.file /\ Taken.pending = ctx.pending /\ Taken.buf = ctx.buf
        /\ Taken.push = None /\ Taken.line = ctx.line + IF Char = "\n" THEN 1 ELSE 0
    BY <1>0, <1>5, TakenIs
  <2>2. (Char = "\n") = (ctx.push = "\n")
    BY <1>4, <1>5 DEF Char
  <2>3. AheadOf(Taken) = AheadOf(ctx)
    BY <2>1 DEF AheadOf
  <2>4. Taken.line = 1 + LinesTo(g)
    BY <1>0, <1>1, <1>2, <2>1, <2>2 DEF GivenTo, IsContext
  <2>5. GivenTo(Taken, g)
    BY <1>1, <1>2, <1>4, <2>1, <2>3, <2>4 DEF GivenTo
  <2>6. IsContext(Taken)
    BY <1>0, <1>5, <2>4, <1>2, TakenIs DEF IsContext
  <2> QED
    BY <2>5, <2>6 DEF PlaceOf
<1>6. CASE ctx.push = None /\ ctx.buf # <<>>
  <2>1. /\ Taken.file = ctx.file /\ Taken.pending = ctx.pending
        /\ Taken.buf = Tail(ctx.buf)
        /\ Taken.push = None /\ Taken.line = ctx.line + IF Char = "\n" THEN 1 ELSE 0
    BY <1>0, <1>6, TakenIs
  <2>2. ctx.buf \in Seq(FileChars) /\ Tail(ctx.buf) \in Seq(FileChars) /\ ctx.buf[1] = Head(ctx.buf)
    BY <1>0, <1>6, HeadTailProperties DEF IsContext
  <2>3. Char = ctx.buf[1]
    BY <1>6, <2>2 DEF Char
  <2> DEFINE ahead == AheadOf(ctx)
  <2>4. /\ ahead # <<>> /\ ahead[1] = ctx.buf[1] /\ AheadOf(Taken) = Tail(ahead)
    BY <1>3, <1>6, <2>1, <2>2, ThenTail DEF AheadOf, R
  <2>5. ahead = SubSeq(chars, g + 1, n)
    BY <1>1 DEF GivenTo
  <2> HIDE DEF ahead
  <2>6. g + 1 \in 1 .. n
    <3>1. CASE g + 1 > n
      BY <1>0, <1>2, <2>4, <2>5, <3>1, SubSeqEmpty
    <3> QED
      BY <1>0, <1>2, <3>1
  <2> HIDE DEF n, chars
  <2>7. ahead[1] = chars[g + 1] /\ Tail(ahead) = SubSeq(chars, (g + 1) + 1, n)
    <3>1. n \in g + 1 .. Len(chars) /\ g + 1 \in 1 .. Len(chars)
      BY <1>0, <2>6 DEF n
    <3>2. /\ Head(SubSeq(chars, g + 1, n)) = chars[g + 1]
          /\ Tail(SubSeq(chars, g + 1, n)) = SubSeq(chars, (g + 1) + 1, n)
      BY <1>0, <3>1, HeadTailOfSubSeq
    <3>3. Head(ahead) = ahead[1]
      BY DEF ahead
    <3> QED
      BY <2>5, <3>2, <3>3
  <2>8. LinesTo(g + 1) = LinesTo(g) + IF Char = "\n" THEN 1 ELSE 0
    BY <1>2, <2>3, <2>4, <2>7, LinesGoOn DEF chars
  <2>9. ctx.line = 1 + LinesTo(g) - 0
    BY <1>1, <1>4, <1>6 DEF GivenTo
  <2>10. Taken.line = 1 + LinesTo(g + 1) /\ Taken.line \in Int
    BY <1>2, <2>1, <2>8, <2>9
  <2>11. GivenTo(Taken, g + 1)
    <3>1. LinesTo(g + 1) \in Nat
      BY <1>2, LinesGoOn
    <3> QED
      BY <1>4, <2>1, <2>4, <2>7, <2>10, <3>1 DEF GivenTo, chars, n
  <2>12. IsContext(Taken)
    <3>1. Taken = [file |-> ctx.file, pending |-> ctx.pending, buf |-> Tail(ctx.buf),
                   push |-> None, line |-> Taken.line, filled |-> FALSE]
      BY <1>0, <1>6, <2>1, TakenIs
    <3>2. /\ ctx.file \in Seq(FileBytes) /\ ctx.pending \in Seq(FileBytes)
          /\ Len(ctx.pending) <= INBUF_SIZE - 1
      BY <1>0 DEF IsContext
    <3> DEFINE l == Taken.line
               b == Tail(ctx.buf)
    <3>3. l \in Int /\ b \in Seq(FileChars)
      BY <2>2, <2>10
    <3> HIDE DEF l, b
    <3>4. IsContext([file |-> ctx.file, pending |-> ctx.pending, buf |-> b,
                   push |-> None, line |-> l, filled |-> FALSE])
      BY <3>2, <3>3, ContextOf
    <3> QED
      BY <3>1, <3>4 DEF l, b
  <2> QED
    BY <2>6, <2>11, <2>12 DEF PlaceOf, n, chars
<1> QED
  BY <1>5, <1>6

\* A character put back.
LEMMA PushbackPlace ==
    ASSUME NEW x, PlaceOf(x), NEW c, input \in Inputs
    PROVE  PlaceOf(Pushback(x, c))
<1> DEFINE l == x.line - IF c = "\n" THEN 1 ELSE 0
           y == [x EXCEPT !.push = c, !.line = l]
<1>0. None # "\n"
  BY SExpReaderAssumption
<1>1. CASE x.push # None
  BY <1>1 DEF Pushback
<1>2. CASE x.push = None
  <2>1. Pushback(x, c) = y
    BY <1>2 DEF Pushback
  <2>2. PICK g \in 0 .. Len(input.chars) : GivenTo(x, g)
    BY DEF PlaceOf
  <2>3. IsContext(x) /\ x.line \in Int /\ LinesTo(g) \in Nat
    BY LinesGoOn DEF PlaceOf, IsContext
  <2>4. l \in Int /\ l = 1 + LinesTo(g) - IF c = "\n" THEN 1 ELSE 0
    BY <1>0, <1>2, <2>2, <2>3 DEF GivenTo
  <2> HIDE DEF l
  <2>5. y \in [file : {x.file}, pending : {x.pending}, buf : {x.buf}, push : {c},
              line : {l}, filled : {x.filled}]
    BY <2>3 DEF IsContext
  <2>6. y = [file |-> x.file, pending |-> x.pending, buf |-> x.buf, push |-> c,
             line |-> l, filled |-> x.filled]
    <3> HIDE DEF y
    <3> QED
      BY <2>5
  <2> HIDE DEF y
  <2>7. IsContext(y)
    BY <2>3, <2>4, <2>6, ContextOf DEF IsContext
  <2>8. GivenTo(y, g)
    <3>1. AheadOf(y) = AheadOf(x)
      BY <2>6 DEF AheadOf
    <3>2. y.line = l /\ y.push = c
      BY <2>6
    <3> QED
      BY <2>2, <2>4, <3>1, <3>2 DEF GivenTo
  <2> QED
    BY <2>1, <2>7, <2>8 DEF PlaceOf
<1> QED
  BY <1>1, <1>2

\* A block that is read and decoded.
LEMMA FillPlace ==
    ASSUME PlaceInv, Fill
    PROVE  PlaceInv'
<1> DEFINE n == Min({INBUF_SIZE - 1 - Len(ctx.pending), Len(ctx.file)})
           block == SubSeq(ctx.file, 1, n)
           rest == SubSeq(ctx.file, n + 1, Len(ctx.file))
           bytes == Then(ctx.pending, block)
           after == [ctx EXCEPT !.file = rest, !.filled = TRUE]
           read == [after EXCEPT !.buf = Decode(bytes).chars, !.pending = Decode(bytes).rest]
<1>1. /\ NeedsBlock /\ UNCHANGED input
      /\ \/ ctx' = read /\ UNCHANGED failures
         \/ failures' = failures + 1
  BY DEF Fill, Then
<1>2. failures \in Nat /\ input \in Inputs /\ input' = input
  BY <1>1 DEF PlaceInv
<1>3. CASE failures' = failures + 1
  BY <1>2, <1>3 DEF PlaceInv
<1>4. CASE ctx' = read /\ failures' = failures /\ failures = 0
  <2>1. PlaceOf(ctx)
    BY <1>4 DEF PlaceInv
  <2>2. PICK g \in 0 .. Len(input.chars) : GivenTo(ctx, g)
    BY <2>1 DEF PlaceOf
  <2>3. /\ IsContext(ctx) /\ ctx.buf = <<>> /\ ctx.push = None /\ ctx.line \in Int
        /\ ctx.file \in Seq(FileBytes) /\ ctx.pending \in Seq(FileBytes)
        /\ Len(ctx.pending) <= INBUF_SIZE - 1
    BY <1>1, <2>1 DEF PlaceOf, IsContext, NeedsBlock
  <2>4. n \in 0 .. Len(ctx.file) /\ n <= INBUF_SIZE - 1 - Len(ctx.pending)
    <3> DEFINE x == INBUF_SIZE - 1 - Len(ctx.pending)
               y == Len(ctx.file)
    <3>1. x \in Nat /\ y \in Nat
      BY <2>3, SExpReaderAssumption
    <3> HIDE DEF x, y
    <3>2. Min({x, y}) \in {x, y} /\ Min({x, y}) <= x /\ Min({x, y}) <= y
      <4>1. \E z \in {x, y} : \A w \in {x, y} : z <= w
        BY <3>1
      <4> QED
        BY <4>1 DEF Min
    <3> QED
      BY <3>1, <3>2 DEF x, y
  <2> HIDE DEF n
  <2>5. /\ block \in Seq(FileBytes) /\ Len(block) = n
        /\ rest \in Seq(FileBytes)
    BY <2>3, <2>4, PartOf, RestOf
  <2>6. ctx.file = Then(block, rest)
    BY <2>3, <2>4, PartThenRest
  <2> HIDE DEF block, rest
  <2>7. bytes \in Seq(FileBytes) /\ Len(bytes) = Len(ctx.pending) + n
    BY <2>3, <2>5, ThenTyped, ConcatProperties DEF Then
  <2>8. Then(ctx.pending, ctx.file) = Then(bytes, rest)
    BY <2>3, <2>5, <2>6, ThenAssociative
  <2> HIDE DEF bytes
  <2> DEFINE chars == Decode(bytes).chars
             left == Decode(bytes).rest
  <2>9. /\ chars \in Seq(FileChars) /\ left \in Seq(FileBytes) /\ Len(left) <= Len(bytes)
        /\ Decode(Then(bytes, rest)).chars = Then(chars, Decode(Then(left, rest)).chars)
    BY <2>5, <2>7, DecodeSplit DEF FileChars
  <2>10. Decode(Then(ctx.pending, ctx.file)).chars \in Seq(FileChars)
    <3>1. Then(bytes, rest) \in Seq(FileBytes) /\ <<>> \in Seq(FileBytes)
      BY <2>5, <2>7, ThenTyped
    <3> QED
      BY <2>8, <3>1, DecodeSplit DEF FileChars
  <2> HIDE DEF chars, left
  <2>11. AheadOf(ctx) = Then(chars, Decode(Then(left, rest)).chars)
    BY <2>3, <2>8, <2>9, <2>10, ThenEmpty DEF AheadOf
  <2>12. after \in [file : {rest}, pending : {ctx.pending}, buf : {ctx.buf},
                   push : {ctx.push}, line : {ctx.line}, filled : {TRUE}]
    BY <2>3 DEF IsContext
  <2> HIDE DEF after
  <2>13. read \in [file : {rest}, pending : {left}, buf : {chars}, push : {ctx.push},
                  line : {ctx.line}, filled : {TRUE}]
    BY <2>12 DEF chars, left
  <2> HIDE DEF read
  <2>14. read = [file |-> rest, pending |-> left, buf |-> chars, push |-> ctx.push,
                 line |-> ctx.line, filled |-> TRUE]
    BY <2>13
  <2>15. IsContext(read)
    <3>1. Len(left) <= INBUF_SIZE - 1
      BY <2>3, <2>4, <2>7, <2>9, SExpReaderAssumption
    <3> QED
      BY <2>3, <2>5, <2>9, <2>14, <3>1, ContextOf
  <2>16. AheadOf(read) = AheadOf(ctx)
    BY <2>11, <2>14 DEF AheadOf
  <2>17. GivenTo(read, g)
    BY <2>2, <2>14, <2>16 DEF GivenTo
  <2>18. PlaceOf(read)
    BY <2>2, <2>15, <2>17 DEF PlaceOf
  <2>19. PlaceOf(ctx)'
    BY <1>2, <1>4, <2>18 DEF PlaceOf, IsContext, GivenTo, AheadOf, LinesTo, FileBytes, FileChars
  <2> QED
    BY <1>2, <1>4, <2>19 DEF PlaceInv
<1>5. CASE failures' = failures /\ failures # 0
  BY <1>2, <1>5 DEF PlaceInv
<1> QED
  BY <1>1, <1>3, <1>4, <1>5

\* A step of the reader takes a character, puts it back, or reads none.
LEMMA StepTakes ==
    ASSUME NEW f, Step(f)
    PROVE  \/ ctx' = ctx \/ ctx' = Taken
           \/ \E c : ctx' = Pushback(Taken, c)
<1>1. CASE Skip(f)
  BY <1>1 DEF Skip
<1>2. CASE ReadSExp(f)
  BY <1>2 DEF ReadSExp
<1>3. CASE ReadHash(f)
  BY <1>3 DEF ReadHash
<1>4. CASE ReadFirst(f)
  BY <1>4 DEF ReadFirst
<1>5. CASE ReadWord(f)
  BY <1>5 DEF ReadWord
<1>6. CASE ReadString(f)
  BY <1>6 DEF ReadString
<1>7. CASE ReadList(f)
  BY <1>7 DEF ReadList
<1>8. CASE ReadClose(f)
  BY <1>8 DEF ReadClose
<1>9. CASE Receive(f)
  BY <1>9 DEF Receive
<1> QED
  BY <1>1, <1>2, <1>3, <1>4, <1>5, <1>6, <1>7, <1>8, <1>9 DEF Step

\* The reader starts at the first character.
LEMMA PlaceStart == Init => PlaceInv
<1> SUFFICES ASSUME Init PROVE PlaceInv
  OBVIOUS
<1>1. /\ input \in Inputs /\ failures = 0
      /\ ctx = [file |-> input.text, pending |-> <<>>, buf |-> <<>>,
                push |-> None, line |-> 1, filled |-> FALSE]
  BY DEF Init
<1>2. /\ input.text \in Seq(FileBytes) /\ input.chars = Decode(input.text).chars
      /\ input.chars \in Seq(FileChars)
  BY <1>1, InputFacts
<1>3. IsContext(ctx)
  <2>1. /\ <<>> \in Seq(FileBytes) /\ <<>> \in Seq(FileChars) /\ Len(<<>>) = 0
        /\ Len(<<>>) <= INBUF_SIZE - 1
    BY SExpReaderAssumption
  <2>2. IsContext([file |-> input.text, pending |-> <<>>, buf |-> <<>>,
                   push |-> None, line |-> 1, filled |-> FALSE])
    <3> DEFINE e == <<>>
    <3>1. e \in Seq(FileBytes) /\ e \in Seq(FileChars) /\ Len(e) <= INBUF_SIZE - 1
      BY <2>1
    <3> HIDE DEF e
    <3>2. IsContext([file |-> input.text, pending |-> e, buf |-> e, push |-> None,
                     line |-> 1, filled |-> FALSE])
      BY <1>2, <3>1 DEF IsContext
    <3> QED
      BY <3>2 DEF e
  <2> QED
    BY <1>1, <2>2
<1>4. AheadOf(ctx) = input.chars
  <2>1. Then(<<>>, input.text) = input.text /\ Then(<<>>, input.chars) = input.chars
    BY <1>2, ThenEmpty
  <2> QED
    BY <1>1, <1>2, <2>1 DEF AheadOf
<1>5. SubSeq(input.chars, 1, Len(input.chars)) = input.chars
  BY <1>2
<1>6. LinesTo(0) = 0 /\ 0 \in 0 .. Len(input.chars) /\ None # "\n"
  BY <1>2, LinesGoOn, SExpReaderAssumption
<1>7. GivenTo(ctx, 0)
  <2>1. ctx.push = None /\ ctx.line = 1
    BY <1>1
  <2>2. AheadOf(ctx) = SubSeq(input.chars, 0 + 1, Len(input.chars))
    BY <1>4, <1>5
  <2>3. ctx.line = 1 + LinesTo(0) - IF ctx.push = "\n" THEN 1 ELSE 0
    BY <1>6, <2>1
  <2> QED
    BY <2>2, <2>3 DEF GivenTo
<1> QED
  BY <1>1, <1>3, <1>6, <1>7 DEF PlaceInv, PlaceOf

\* Every step keeps the place.
LEMMA PlaceStep == PlaceInv /\ [Next]_vars => PlaceInv'
<1> SUFFICES ASSUME PlaceInv, [Next]_vars PROVE PlaceInv'
  OBVIOUS
<1>1. CASE Fill
  BY <1>1, FillPlace
<1>2. ASSUME NEW f \in BOOLEAN, failures' = failures + IF f THEN 1 ELSE 0,
             Step(f), UNCHANGED input
      PROVE  PlaceInv'
  <2>1. failures \in Nat /\ input \in Inputs /\ failures' \in Nat
    BY <1>2 DEF PlaceInv
  <2>2. CASE failures' # 0
    BY <1>2, <2>1, <2>2 DEF PlaceInv
  <2>3. CASE failures' = 0
    <3>1. PlaceOf(ctx)
      BY <1>2, <2>1, <2>3 DEF PlaceInv
    <3>2. PlaceOf(Taken) /\ \A c : PlaceOf(Pushback(Taken, c))
      BY <2>1, <3>1, TakenPlace, PushbackPlace
    <3>3. \E x : ctx' = x /\ PlaceOf(x)
      BY <1>2, <3>1, <3>2, StepTakes
    <3>4. PlaceOf(ctx)'
      BY <1>2, <3>3
         DEF PlaceOf, IsContext, GivenTo, AheadOf, LinesTo, FileBytes, FileChars
    <3> QED
      BY <1>2, <2>1, <3>4 DEF PlaceInv
  <2> QED
    BY <2>2, <2>3
<1>3. CASE UNCHANGED vars
  BY <1>3 DEF vars, PlaceInv, PlaceOf, IsContext, GivenTo, AheadOf, LinesTo,
              FileBytes, FileChars
<1> QED
  BY <1>1, <1>2, <1>3 DEF Next

\* The reader is at the place it counts.
LEMMA PlaceFollows == PlaceInv => PlaceInFile
<1> SUFFICES ASSUME PlaceInv, failures = 0
             PROVE  LET ahead == Ahead
                        given == Len(input.chars) - Len(ahead)
                    IN  /\ given >= 0
                        /\ ahead = SubSeq(input.chars, given + 1, Len(input.chars))
                        /\ ctx.line = 1 + NewLines(SubSeq(input.chars, 1, given))
                                        - IF ctx.push = "\n" THEN 1 ELSE 0
  BY DEF PlaceInFile
<1> DEFINE chars == input.chars
           n == Len(chars)
<1>1. PlaceOf(ctx) /\ chars \in Seq(FileChars) /\ n \in Nat
  BY InputFacts DEF PlaceInv
<1>2. PICK g \in 0 .. n : GivenTo(ctx, g)
  BY <1>1 DEF PlaceOf
<1>3. Ahead = SubSeq(chars, g + 1, n)
  BY <1>2 DEF GivenTo, AheadOf, Ahead, Then
<1>4. Len(Ahead) = n - g
  BY <1>1, <1>3, RestOf
<1>5. n - Len(Ahead) = g /\ g >= 0
  BY <1>1, <1>4
<1>6. NewLines(SubSeq(chars, 1, g)) = LinesTo(g)
  <2>1. /\ SubSeq(chars, 1, g) \in Seq(FileChars) /\ Len(SubSeq(chars, 1, g)) = g
        /\ \A i \in 1 .. g : SubSeq(chars, 1, g)[i] = chars[i]
    BY <1>1, PartOf
  <2> DEFINE s == SubSeq(chars, 1, g)
  <2> HIDE DEF s
  <2>2. DOMAIN s = 1 .. g
    BY <2>1 DEF s
  <2>3. {i \in DOMAIN s : s[i] = "\n"} = {i \in 1 .. g : chars[i] = "\n"}
    BY <2>1, <2>2 DEF s
  <2> QED
    BY <2>3 DEF NewLines, LinesTo, s
<1> QED
  BY <1>2, <1>3, <1>5, <1>6 DEF GivenTo

\* Wherever a block ends, the reader is given each character of the file once, and
\* counts the lines it has begun (fill_read_buf, read_char, pushback_char).
THEOREM Place == Spec => []PlaceInFile
BY PlaceStart, PlaceStep, PlaceFollows, PTL DEF Spec

=============================================================================
