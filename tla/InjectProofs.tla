----------------------------- MODULE InjectProofs -----------------------------
(***************************************************************************)
(* What the scroll operators do inside other programs, for any             *)
(* expressions, windows, bars, processes and interleaving of the programs. *)
(* A hook or a DLL is in a process as often as inject_sb_data names that   *)
(* process, and as often as a call that records or removes it has failed.  *)
(* As long as every message has been handled before its time-out, the      *)
(* control's window procedure is put back and the bar stands where the     *)
(* operator wanted it. However late they are handled, no bar leaves its    *)
(* range.                                                                  *)
(***************************************************************************)
EXTENDS ScrollOpsProofs

-----------------------------------------------------------------------------
(* The hooks and the DLLs. *)

\* One more, one less, at p.
Plus(f, p) == [f EXCEPT ![p] = @ + 1]
Minus(f, p) == [f EXCEPT ![p] = @ - 1]
\* Two slots.
PairOf(f) == f = <<f[1], f[2]>>
\* How often the slots name p.
InSlots(slots, p) == One(slots[1] = p) + One(slots[2] = p)
\* No process is recorded twice.
Distinct(slots) == \A p \in Procs : ~(slots[1] = p /\ slots[2] = p)

\* The hooks and DLLs in the processes are those recorded, and those that could
\* not be recorded or removed.
IsPlacement(s) ==
  /\ s = [inj |-> s.inj, hooked |-> s.hooked, loaded |-> s.loaded, stuck |-> s.stuck,
           left |-> s.left]
  /\ s.inj = [mapped |-> s.inj.mapped, hook |-> s.inj.hook, process |-> s.inj.process]
  /\ PairOf(s.inj.hook) /\ PairOf(s.inj.process)
  /\ s.hooked \in [Procs -> Int] /\ s.loaded \in [Procs -> Int]
  /\ s.stuck \in [Procs -> Nat] /\ s.left \in [Procs -> Nat]
  /\ \A p \in Procs :
       /\ s.hooked[p] = s.left[p] + InSlots(s.inj.hook, p)
       /\ s.loaded[p] = s.stuck[p] + InSlots(s.inj.process, p)

\* One more at p, and nowhere else.
LEMMA PlusOne ==
  ASSUME NEW f \in [Procs -> Int], NEW p
  PROVE  /\ Plus(f, p) \in [Procs -> Int]
         /\ \A q \in Procs : Plus(f, p)[q] = f[q] + One(p = q)
<1>1. CASE p \in Procs
  BY <1>1 DEF Plus, One
<1>2. CASE p \notin Procs
  <2>1. Plus(f, p) = f
    BY <1>2 DEF Plus
  <2> QED
    BY <1>2, <2>1 DEF One
<1> QED
  BY <1>1, <1>2

\* One more of what is counted.
LEMMA PlusNat ==
  ASSUME NEW f \in [Procs -> Nat], NEW p
  PROVE  /\ Plus(f, p) \in [Procs -> Nat] /\ f \in [Procs -> Int]
         /\ \A q \in Procs : Plus(f, p)[q] = f[q] + One(p = q)
<1>1. f \in [Procs -> Int]
  OBVIOUS
<1>2. \A q \in Procs : Plus(f, p)[q] = f[q] + One(p = q)
  BY <1>1, PlusOne
<1>3. Plus(f, p) = [q \in Procs |-> Plus(f, p)[q]]
  BY DEF Plus
<1>4. \A q \in Procs : f[q] + One(p = q) \in Nat
  BY DEF One
<1> HIDE DEF Plus
<1>5. \A q \in Procs : Plus(f, p)[q] \in Nat
  BY <1>2, <1>4
<1> QED
  BY <1>1, <1>2, <1>3, <1>5

\* One less at p, and nowhere else.
LEMMA MinusOne ==
  ASSUME NEW f \in [Procs -> Int], NEW p
  PROVE  /\ Minus(f, p) \in [Procs -> Int]
         /\ \A q \in Procs : Minus(f, p)[q] = f[q] - One(p = q)
<1>1. CASE p \in Procs
  BY <1>1 DEF Minus, One
<1>2. CASE p \notin Procs
  <2>1. Minus(f, p) = f
    BY <1>2 DEF Minus
  <2> QED
    BY <1>2, <2>1 DEF One
<1> QED
  BY <1>1, <1>2

\* The free slot is given to p.
SlotSet(slots, p) == [slots EXCEPT ![FreeSlot(slots)] = p]

\* A process that is not in the first slot is recorded once more.
LEMMA SlotFilled ==
  ASSUME NEW slots, PairOf(slots), slots[2] = Null, NEW p,
         ~(FreeSlot(slots) = 2 /\ slots[1] = p)
  PROVE  /\ PairOf(SlotSet(slots, p)) /\ Distinct(SlotSet(slots, p))
         /\ slots[1] = Null => SlotSet(slots, p)[2] = Null
         /\ \A q \in Procs : InSlots(SlotSet(slots, p), q) = InSlots(slots, q) + One(p = q)
<1>1. CASE slots[1] = Null
  <2>1. SlotSet(slots, p) = <<p, Null>>
    BY <1>1 DEF FreeSlot, PairOf, SlotSet
  <2> QED
    BY <1>1, <2>1, InjectAssumption DEF PairOf, Distinct, InSlots, One
<1>2. CASE slots[1] # Null
  <2>1. SlotSet(slots, p) = <<slots[1], p>> /\ slots[1] # p
    BY <1>2 DEF FreeSlot, PairOf, SlotSet
  <2> QED
    BY <1>2, <2>1, InjectAssumption DEF PairOf, Distinct, InSlots, One
<1> QED
  BY <1>1, <1>2

\* A hook goes to a process that has none, or nothing happens.
LEMMA HookInstalled ==
  ASSUME NEW s, IsPlacement(s), Distinct(s.inj.hook), s.inj.hook[2] = Null, NEW b, NEW ok,
         NEW t, t = InstallHook(s, b, ok)
  PROVE  /\ IsPlacement(t) /\ Distinct(t.inj.hook)
         /\ s.inj.hook[1] = Null => t.inj.hook[2] = Null
         /\ t.inj.process = s.inj.process /\ t.inj.mapped = s.inj.mapped
<1> DEFINE p == procOf[b]
           slots == SlotSet(s.inj.hook, p)
           h == Plus(s.hooked, p)
<1>1. CASE t = s
  BY <1>1
<1>2. CASE t # s
  <2>1. /\ t = [s EXCEPT !.inj = [s.inj EXCEPT !.hook = slots], !.hooked = h]
        /\ ~(FreeSlot(s.inj.hook) = 2 /\ s.inj.hook[1] = p)
    BY <1>2 DEF InstallHook, IsPlacement, SlotSet, Plus
  <2>2. /\ PairOf(slots) /\ Distinct(slots)
        /\ s.inj.hook[1] = Null => slots[2] = Null
        /\ \A q \in Procs : InSlots(slots, q) = InSlots(s.inj.hook, q) + One(p = q)
    BY <2>1, SlotFilled DEF IsPlacement
  <2>3. h \in [Procs -> Int] /\ \A q \in Procs : h[q] = s.hooked[q] + One(p = q)
    BY PlusOne DEF IsPlacement
  <2> HIDE DEF p, slots, h
  <2>4. t = [inj |-> [mapped |-> s.inj.mapped, hook |-> slots, process |-> s.inj.process],
             hooked |-> h, loaded |-> s.loaded, stuck |-> s.stuck, left |-> s.left]
    BY <2>1 DEF IsPlacement
  <2>5. \A q \in Procs : h[q] = s.left[q] + InSlots(slots, q)
    BY <2>2, <2>3 DEF IsPlacement, InSlots, One
  <2> QED
    BY <2>2, <2>3, <2>4, <2>5 DEF IsPlacement
<1> QED
  BY <1>1, <1>2

\* A DLL goes to a process that has none recorded, or is not recorded itself, or
\* nothing happens.
LEMMA DllLoaded ==
  ASSUME NEW s, IsPlacement(s), Distinct(s.inj.process), s.inj.process[2] = Null, NEW b, NEW how,
         NEW t, t = LoadDll(s, b, how)
  PROVE  /\ IsPlacement(t) /\ Distinct(t.inj.process)
         /\ s.inj.process[1] = Null => t.inj.process[2] = Null
         /\ t.inj.hook = s.inj.hook /\ t.inj.mapped = s.inj.mapped
<1> DEFINE p == procOf[b]
           slots == SlotSet(s.inj.process, p)
           h == Plus(s.loaded, p)
           up == Plus(s.stuck, p)
           none == \/ b = Null \/ how = "failed" \/ p = Self
                   \/ FreeSlot(s.inj.process) = 2 /\ s.inj.process[1] = p
<1>1. h \in [Procs -> Int] /\ \A q \in Procs : h[q] = s.loaded[q] + One(p = q)
  BY PlusOne DEF IsPlacement
<1>2. up \in [Procs -> Nat] /\ \A q \in Procs : up[q] = s.stuck[q] + One(p = q)
  BY PlusNat DEF IsPlacement
<1>3. CASE none
  <2>1. t = s
    BY <1>3 DEF LoadDll
  <2> QED
    BY <2>1
<1>4. CASE ~none /\ how = "recorded"
  <2>1. /\ t = [s EXCEPT !.inj = [s.inj EXCEPT !.process = slots], !.loaded = h]
        /\ ~(FreeSlot(s.inj.process) = 2 /\ s.inj.process[1] = p)
    BY <1>4 DEF LoadDll, IsPlacement, SlotSet, Plus
  <2>2. /\ PairOf(slots) /\ Distinct(slots)
        /\ s.inj.process[1] = Null => slots[2] = Null
        /\ \A q \in Procs : InSlots(slots, q) = InSlots(s.inj.process, q) + One(p = q)
    BY <2>1, SlotFilled DEF IsPlacement
  <2> HIDE DEF p, slots, h, up
  <2>4. t = [inj |-> [mapped |-> s.inj.mapped, hook |-> s.inj.hook, process |-> slots],
             hooked |-> s.hooked, loaded |-> h, stuck |-> s.stuck, left |-> s.left]
    BY <2>1 DEF IsPlacement
  <2>5. \A q \in Procs : h[q] = s.stuck[q] + InSlots(slots, q)
    BY <1>1, <2>2 DEF IsPlacement, InSlots, One
  <2> QED
    BY <1>1, <2>2, <2>4, <2>5 DEF IsPlacement
<1>5. CASE ~none /\ how # "recorded"
  <2>1. t = [s EXCEPT !.loaded[p] = @ + 1, !.stuck[p] = @ + 1]
    BY <1>5 DEF LoadDll
  <2>2. t = [s EXCEPT !.loaded = h, !.stuck = up]
    BY <2>1 DEF Plus
  <2> HIDE DEF p, slots, h, up
  <2>3. t = [inj |-> s.inj, hooked |-> s.hooked, loaded |-> h, stuck |-> up, left |-> s.left]
    BY <2>2 DEF IsPlacement
  <2>4. \A q \in Procs : h[q] = up[q] + InSlots(s.inj.process, q)
    BY <1>1, <1>2 DEF IsPlacement, InSlots, One
  <2> QED
    BY <1>1, <1>2, <2>3, <2>4 DEF IsPlacement
<1> QED
  BY <1>3, <1>4, <1>5

\* The slot is free again.
SlotClear(slots, n) == [slots EXCEPT ![n] = Null]

\* A process is recorded once less.
LEMMA SlotCleared ==
  ASSUME NEW slots, PairOf(slots), NEW n \in {1, 2}
  PROVE  /\ PairOf(SlotClear(slots, n))
         /\ SlotClear(slots, n)[n] = Null
         /\ \A m \in {1, 2} : m # n => SlotClear(slots, n)[m] = slots[m]
         /\ \A q \in Procs :
              InSlots(SlotClear(slots, n), q) = InSlots(slots, q) - One(slots[n] = q)
<1>1. CASE n = 1
  <2>1. SlotClear(slots, n) = <<Null, slots[2]>>
    BY <1>1 DEF PairOf, SlotClear
  <2> QED
    BY <1>1, <2>1, InjectAssumption DEF PairOf, InSlots, One
<1>2. CASE n = 2
  <2>1. SlotClear(slots, n) = <<slots[1], Null>>
    BY <1>2 DEF PairOf, SlotClear
  <2> QED
    BY <1>2, <2>1, InjectAssumption DEF PairOf, InSlots, One
<1> QED
  BY <1>1, <1>2

\* What a slot counts goes with it, or is counted as left behind.
LEMMA Taken ==
  ASSUME NEW n \in {1, 2}, NEW old, PairOf(old),
         NEW f \in [Procs -> Int], NEW g \in [Procs -> Nat],
         \A q \in Procs : f[q] = g[q] + InSlots(old, q)
  PROVE  /\ PairOf(SlotClear(old, n)) /\ SlotClear(old, n)[n] = Null
         /\ \A m \in {1, 2} : m # n => SlotClear(old, n)[m] = old[m]
         /\ Minus(f, old[n]) \in [Procs -> Int] /\ Plus(g, old[n]) \in [Procs -> Nat]
         /\ \A q \in Procs : Minus(f, old[n])[q] = g[q] + InSlots(SlotClear(old, n), q)
         /\ \A q \in Procs : f[q] = Plus(g, old[n])[q] + InSlots(SlotClear(old, n), q)
<1> DEFINE p == old[n]
           slots == SlotClear(old, n)
           down == Minus(f, p)
           up == Plus(g, p)
<1>1. /\ PairOf(slots) /\ slots[n] = Null
      /\ \A m \in {1, 2} : m # n => slots[m] = old[m]
      /\ \A q \in Procs : InSlots(slots, q) = InSlots(old, q) - One(p = q)
  BY SlotCleared
<1>2. down \in [Procs -> Int] /\ \A q \in Procs : down[q] = f[q] - One(p = q)
  BY MinusOne
<1>3. up \in [Procs -> Nat] /\ \A q \in Procs : up[q] = g[q] + One(p = q)
  BY PlusNat
<1> HIDE DEF p, down, up, slots
<1>4. \A q \in Procs : down[q] = g[q] + InSlots(slots, q)
  BY <1>1, <1>2 DEF InSlots, One
<1>5. \A q \in Procs : f[q] = up[q] + InSlots(slots, q)
  BY <1>1, <1>3 DEF InSlots, One
<1> QED
  BY <1>1, <1>2, <1>3, <1>4, <1>5 DEF p, down, up, slots

\* unhook of one slot, which may fail.
LEMMA HookRemoved ==
  ASSUME NEW s, IsPlacement(s), NEW n \in {1, 2}, NEW ok, NEW t, t = RemoveHook(s, n, ok)
  PROVE  /\ IsPlacement(t) /\ t.inj.hook[n] = Null
         /\ \A m \in {1, 2} : m # n => t.inj.hook[m] = s.inj.hook[m]
         /\ t.inj.process = s.inj.process /\ t.inj.mapped = s.inj.mapped
<1> DEFINE p == s.inj.hook[n]
           slots == SlotClear(s.inj.hook, n)
           down == Minus(s.hooked, p)
           up == Plus(s.left, p)
           inj0 == [mapped |-> s.inj.mapped, hook |-> slots, process |-> s.inj.process]
<1>1. CASE p = Null
  BY <1>1 DEF RemoveHook
<1>2. CASE p # Null
  <2>1. /\ PairOf(slots) /\ slots[n] = Null
        /\ \A m \in {1, 2} : m # n => slots[m] = s.inj.hook[m]
        /\ down \in [Procs -> Int] /\ up \in [Procs -> Nat]
        /\ \A q \in Procs : down[q] = s.left[q] + InSlots(slots, q)
        /\ \A q \in Procs : s.hooked[q] = up[q] + InSlots(slots, q)
    <3>1. /\ PairOf(s.inj.hook) /\ s.hooked \in [Procs -> Int] /\ s.left \in [Procs -> Nat]
          /\ \A q \in Procs : s.hooked[q] = s.left[q] + InSlots(s.inj.hook, q)
      BY DEF IsPlacement
    <3> QED
      BY <3>1, Taken
  <2>2. inj0 = [s.inj EXCEPT !.hook = slots]
    BY DEF IsPlacement
  <2>3. CASE ok
    <3>1. t = [s EXCEPT !.inj.hook[n] = Null, !.hooked[p] = @ - 1, !.left[p] = @]
      BY <1>2, <2>3 DEF RemoveHook
    <3>2. [s.left EXCEPT ![p] = @] = s.left
      BY DEF IsPlacement
    <3>3. t = [s EXCEPT !.inj = inj0, !.hooked = down]
      BY <2>2, <3>1, <3>2 DEF IsPlacement, SlotClear, Minus
    <3> HIDE DEF p, slots, down, up
    <3>4. t = [inj |-> inj0, hooked |-> down, loaded |-> s.loaded, stuck |-> s.stuck,
               left |-> s.left]
      BY <3>3 DEF IsPlacement
    <3> QED
      BY <2>1, <3>4 DEF IsPlacement
  <2>4. CASE ~ok
    <3>1. t = [s EXCEPT !.inj.hook[n] = Null, !.hooked[p] = @, !.left[p] = @ + 1]
      BY <1>2, <2>4 DEF RemoveHook
    <3>2. [s.hooked EXCEPT ![p] = @] = s.hooked
      BY DEF IsPlacement
    <3>3. t = [s EXCEPT !.inj = inj0, !.left = up]
      BY <2>2, <3>1, <3>2 DEF IsPlacement, SlotClear, Plus
    <3> HIDE DEF p, slots, down, up
    <3>4. t = [inj |-> inj0, hooked |-> s.hooked, loaded |-> s.loaded, stuck |-> s.stuck,
               left |-> up]
      BY <3>3 DEF IsPlacement
    <3> QED
      BY <2>1, <3>4 DEF IsPlacement
  <2> QED
    BY <2>3, <2>4
<1> QED
  BY <1>1, <1>2

\* unload of one slot, which may fail.
LEMMA DllUnloaded ==
  ASSUME NEW s, IsPlacement(s), NEW n \in {1, 2}, NEW ok, NEW t, t = UnloadDll(s, n, ok)
  PROVE  /\ IsPlacement(t) /\ t.inj.process[n] = Null
         /\ \A m \in {1, 2} : m # n => t.inj.process[m] = s.inj.process[m]
         /\ t.inj.hook = s.inj.hook /\ t.inj.mapped = s.inj.mapped
<1> DEFINE p == s.inj.process[n]
           slots == SlotClear(s.inj.process, n)
           down == Minus(s.loaded, p)
           up == Plus(s.stuck, p)
           inj0 == [mapped |-> s.inj.mapped, hook |-> s.inj.hook, process |-> slots]
<1>1. CASE p = Null
  BY <1>1 DEF UnloadDll
<1>2. CASE p # Null
  <2>1. /\ PairOf(slots) /\ slots[n] = Null
        /\ \A m \in {1, 2} : m # n => slots[m] = s.inj.process[m]
        /\ down \in [Procs -> Int] /\ up \in [Procs -> Nat]
        /\ \A q \in Procs : down[q] = s.stuck[q] + InSlots(slots, q)
        /\ \A q \in Procs : s.loaded[q] = up[q] + InSlots(slots, q)
    <3>1. /\ PairOf(s.inj.process) /\ s.loaded \in [Procs -> Int] /\ s.stuck \in [Procs -> Nat]
          /\ \A q \in Procs : s.loaded[q] = s.stuck[q] + InSlots(s.inj.process, q)
      BY DEF IsPlacement
    <3> QED
      BY <3>1, Taken
  <2>2. inj0 = [s.inj EXCEPT !.process = slots]
    BY DEF IsPlacement
  <2>3. CASE ok
    <3>1. t = [s EXCEPT !.inj.process[n] = Null, !.loaded[p] = @ - 1, !.stuck[p] = @]
      BY <1>2, <2>3 DEF UnloadDll
    <3>2. [s.stuck EXCEPT ![p] = @] = s.stuck
      BY DEF IsPlacement
    <3>3. t = [s EXCEPT !.inj = inj0, !.loaded = down]
      BY <2>2, <3>1, <3>2 DEF IsPlacement, SlotClear, Minus
    <3> HIDE DEF p, slots, down, up
    <3>4. t = [inj |-> inj0, hooked |-> s.hooked, loaded |-> down, stuck |-> s.stuck,
               left |-> s.left]
      BY <3>3 DEF IsPlacement
    <3> QED
      BY <2>1, <3>4 DEF IsPlacement
  <2>4. CASE ~ok
    <3>1. t = [s EXCEPT !.inj.process[n] = Null, !.loaded[p] = @, !.stuck[p] = @ + 1]
      BY <1>2, <2>4 DEF UnloadDll
    <3>2. [s.loaded EXCEPT ![p] = @] = s.loaded
      BY DEF IsPlacement
    <3>3. t = [s EXCEPT !.inj = inj0, !.stuck = up]
      BY <2>2, <3>1, <3>2 DEF IsPlacement, SlotClear, Plus
    <3> HIDE DEF p, slots, down, up
    <3>4. t = [inj |-> inj0, hooked |-> s.hooked, loaded |-> s.loaded, stuck |-> up,
               left |-> s.left]
      BY <3>3 DEF IsPlacement
    <3> QED
      BY <2>1, <3>4 DEF IsPlacement
  <2> QED
    BY <2>3, <2>4
<1> QED
  BY <1>1, <1>2

\* inject_sb_data tells what is in the processes; unmapped, it is empty.
Recorded(s) ==
  /\ IsPlacement(s) /\ Distinct(s.inj.hook) /\ Distinct(s.inj.process)
  /\ s.inj.mapped \in BOOLEAN
  /\ ~s.inj.mapped => s.inj = NoInj

\* inject_sb_data without hooks and DLLs.
EmptySlots(b) == [mapped |-> b, hook |-> <<Null, Null>>, process |-> <<Null, Null>>]

\* That is how it starts.
LEMMA NoInjEmpty ==
  /\ NoInj = EmptySlots(FALSE)
  /\ \A b : [NoInj EXCEPT !.mapped = b] = EmptySlots(b)
<1>1. NoInj = EmptySlots(FALSE)
  BY DEF NoInj, EmptySlots
<1>2. \A b : [NoInj EXCEPT !.mapped = b] = EmptySlots(b)
  BY DEF NoInj, EmptySlots
<1> QED
  BY <1>1, <1>2

\* Empty slots can be forgotten.
LEMMA EmptyPlacement ==
  ASSUME NEW s, IsPlacement(s),
         s.inj.hook = <<Null, Null>>, s.inj.process = <<Null, Null>>,
         NEW b \in BOOLEAN, NEW t, t = [s EXCEPT !.inj = EmptySlots(b)]
  PROVE  /\ Recorded(t) /\ t.inj = EmptySlots(b) /\ t.inj.mapped = b
         /\ t.inj.hook = <<Null, Null>> /\ t.inj.process = <<Null, Null>>
<1> DEFINE inj0 == EmptySlots(b)
<1>1. inj0 = [mapped |-> b, hook |-> <<Null, Null>>, process |-> <<Null, Null>>]
  BY DEF EmptySlots
<1>2. ~b => inj0 = NoInj
  <2>1. ASSUME ~b PROVE b = FALSE
    BY <2>1
  <2> QED
    BY <2>1, NoInjEmpty
<1> HIDE DEF inj0
<1>3. t = [inj |-> inj0, hooked |-> s.hooked, loaded |-> s.loaded, stuck |-> s.stuck,
           left |-> s.left]
  BY DEF IsPlacement, inj0
<1>4. IsPlacement(t)
  BY <1>1, <1>3 DEF IsPlacement, PairOf
<1>5. Recorded(t)
  BY <1>1, <1>2, <1>3, <1>4, InjectAssumption DEF Recorded, Distinct
<1> QED
  BY <1>1, <1>3, <1>5 DEF inj0

\* So uninject can end as it does.
LEMMA Emptied ==
  ASSUME NEW s, IsPlacement(s),
         s.inj.hook = <<Null, Null>>, s.inj.process = <<Null, Null>>,
         NEW t, t = [s EXCEPT !.inj = NoInj]
  PROVE  Recorded(t) /\ t.inj = NoInj
BY NoInjEmpty, EmptyPlacement

\* uninject_scrollbar_support_proc removes all that is recorded.
LEMMA AllRemoved ==
  ASSUME NEW s, IsPlacement(s), s.inj.mapped \in BOOLEAN, ~s.inj.mapped => s.inj = NoInj, NEW ok,
         NEW t, t = Uninjected(s, ok)
  PROVE  Recorded(t) /\ t.inj = NoInj
<1> DEFINE u1 == UnloadDll(s, 1, ok.unload[1])
           u2 == UnloadDll(u1, 2, ok.unload[2])
           r1 == RemoveHook(u2, 1, ok.unhook[1])
           r2 == RemoveHook(r1, 2, ok.unhook[2])
<1>1. CASE s.inj.mapped
  <2>1. t = [r2 EXCEPT !.inj = NoInj]
    BY <1>1 DEF Uninjected
  <2>2. IsPlacement(u1) /\ u1.inj.process[1] = Null
    BY DllUnloaded
  <2> HIDE DEF u1
  <2>3. IsPlacement(u2) /\ u2.inj.process[1] = Null /\ u2.inj.process[2] = Null
    BY <2>2, DllUnloaded
  <2> HIDE DEF u2
  <2>4. IsPlacement(r1) /\ r1.inj.process = u2.inj.process /\ r1.inj.hook[1] = Null
    BY <2>3, HookRemoved
  <2> HIDE DEF r1
  <2>5. IsPlacement(r2) /\ r2.inj.process = u2.inj.process
        /\ r2.inj.hook[1] = Null /\ r2.inj.hook[2] = Null
    BY <2>4, HookRemoved
  <2> HIDE DEF r2
  <2>6. r2.inj.hook = <<Null, Null>> /\ r2.inj.process = <<Null, Null>>
    BY <2>3, <2>5 DEF IsPlacement, PairOf
  <2> QED
    BY <2>1, <2>5, <2>6, Emptied
<1>2. CASE ~s.inj.mapped
  <2>1. t = [s EXCEPT !.inj = NoInj]
    BY <1>2 DEF Uninjected
  <2>2. s.inj.hook = <<Null, Null>> /\ s.inj.process = <<Null, Null>>
    BY <1>2 DEF NoInj
  <2> QED
    BY <2>1, <2>2, Emptied
<1> QED
  BY <1>1, <1>2

\* inject_scrollbar_support_proc records all it places, by every outcome of its
\* calls.
LEMMA AllPlaced ==
  ASSUME NEW s, Recorded(s), s.inj = NoInj, NEW b1, NEW b2, NEW isControl \in BOOLEAN, NEW ok,
         ok.shm \in BOOLEAN, ok.name \in BOOLEAN,
         NEW t, t = Injected(s, b1, b2, isControl, ok)
  PROVE  Recorded(t)
<1>0. s.inj.hook = <<Null, Null>> /\ s.inj.process = <<Null, Null>>
  BY DEF NoInj
<1> DEFINE m == [s EXCEPT !.inj = [NoInj EXCEPT !.mapped = TRUE]]
           i1 == InstallHook(m, b1, ok.hook[1])
           i2 == InstallHook(i1, b2, ok.hook[2])
           h == IF isControl THEN i2 ELSE m
           l1 == LoadDll(h, b1, ok.dll[1])
           l2 == LoadDll(l1, b2, ok.dll[2])
<1>1. /\ IsPlacement(m) /\ Distinct(m.inj.hook) /\ Distinct(m.inj.process)
      /\ m.inj.hook = <<Null, Null>> /\ m.inj.process = <<Null, Null>> /\ m.inj.mapped = TRUE
  <2>1. m = [s EXCEPT !.inj = EmptySlots(TRUE)] /\ IsPlacement(s)
    BY NoInjEmpty DEF Recorded
  <2> HIDE DEF m
  <2>2. Recorded(m) /\ m.inj.mapped = TRUE
        /\ m.inj.hook = <<Null, Null>> /\ m.inj.process = <<Null, Null>>
    BY <1>0, <2>1, EmptyPlacement
  <2> QED
    BY <2>2 DEF Recorded
<1> HIDE DEF m
<1>2. /\ IsPlacement(i1) /\ Distinct(i1.inj.hook) /\ i1.inj.hook[2] = Null
      /\ i1.inj.process = <<Null, Null>> /\ i1.inj.mapped = TRUE
  BY <1>1, HookInstalled
<1> HIDE DEF i1
<1>3. /\ IsPlacement(i2) /\ Distinct(i2.inj.hook)
      /\ i2.inj.process = <<Null, Null>> /\ i2.inj.mapped = TRUE
  BY <1>2, HookInstalled
<1> HIDE DEF i2
<1>4. /\ IsPlacement(h) /\ Distinct(h.inj.hook)
      /\ h.inj.process = <<Null, Null>> /\ h.inj.mapped = TRUE
  BY <1>1, <1>3
<1>5. t = CASE ~ok.shm -> [s EXCEPT !.inj = NoInj]
            [] ok.shm /\ ~ok.name ->
                 Uninjected(h, [unload |-> <<TRUE, TRUE>>, unhook |-> ok.unhook])
            [] OTHER -> l2
  BY DEF Injected, m, i1, i2
<1> HIDE DEF h
<1>6. Distinct(h.inj.process) /\ h.inj.process[1] = Null /\ h.inj.process[2] = Null
  BY <1>4, InjectAssumption DEF Distinct
<1>7. /\ IsPlacement(l1) /\ Distinct(l1.inj.process) /\ l1.inj.process[2] = Null
      /\ l1.inj.hook = h.inj.hook /\ l1.inj.mapped = TRUE
  BY <1>4, <1>6, DllLoaded
<1> HIDE DEF l1
<1>8. /\ IsPlacement(l2) /\ Distinct(l2.inj.process)
      /\ l2.inj.hook = h.inj.hook /\ l2.inj.mapped = TRUE
  BY <1>7, DllLoaded
<1> HIDE DEF l2
<1>9. CASE ~ok.shm
  <2>1. t = [s EXCEPT !.inj = NoInj]
    BY <1>5, <1>9
  <2> QED
    BY <1>0, <2>1, Emptied DEF Recorded
<1>10. CASE ok.shm /\ ~ok.name
  <2> DEFINE undo == [unload |-> <<TRUE, TRUE>>, unhook |-> ok.unhook]
  <2>1. t = Uninjected(h, undo)
    BY <1>5, <1>10
  <2> HIDE DEF undo
  <2> QED
    BY <1>4, <2>1, AllRemoved
<1>11. CASE ok.shm /\ ok.name
  <2>1. t = l2
    BY <1>5, <1>11
  <2> QED
    BY <1>4, <1>8, <2>1 DEF Recorded
<1> QED
  BY <1>9, <1>10, <1>11

\* Nothing is recorded.
NothingInjected == inj = NoInj

\* The inductive invariant of LeavesNothing: only an operator for scroll bars has
\* hooks or DLLs.
InjInv ==
  /\ Recorded(Placed)
  /\ stage # "running" \/ Op \notin BarOps => NothingInjected

\* The step sets what the operators above compute.
LEMMA SetDown ==
  ASSUME NEW s, IsPlacement(s), SetInjection(s)
  PROVE  Placed' = s
BY DEF SetInjection, Placed, IsPlacement

\* A start that injects.
LEMMA InjectInv ==
  ASSUME Recorded(Placed), inj = NoInj, NEW b1, NEW b2, NEW isControl \in BOOLEAN,
         Inject(b1, b2, isControl)
  PROVE  Recorded(Placed')
<1>1. PICK ok \in Injections : SetInjection(Injected(Placed, b1, b2, isControl, ok))
  BY DEF Inject
<1>2. ok.shm \in BOOLEAN /\ ok.name \in BOOLEAN
  BY DEF Injections
<1> DEFINE t == Injected(Placed, b1, b2, isControl, ok)
           s == Placed
<1>3. s.inj = NoInj
  BY DEF Placed
<1>4. t = Injected(s, b1, b2, isControl, ok) /\ Recorded(s)
  OBVIOUS
<1>5. SetInjection(t)
  BY <1>1
<1> HIDE DEF t, s
<1>6. Recorded(t)
  BY <1>2, <1>3, <1>4, AllPlaced
<1> QED
  BY <1>5, <1>6, SetDown DEF Recorded

\* An end that uninjects.
LEMMA UninjectInv ==
  ASSUME Recorded(Placed), Uninject
  PROVE  Recorded(Placed') /\ inj' = NoInj
<1>1. PICK ok \in Removals : SetInjection(Uninjected(Placed, ok))
  BY DEF Uninject
<1> DEFINE t == Uninjected(Placed, ok)
           s == Placed
<1>2. t = Uninjected(s, ok) /\ Recorded(s)
  OBVIOUS
<1>3. SetInjection(t)
  BY <1>1
<1> HIDE DEF t, s
<1>4. Recorded(t) /\ t.inj = NoInj
  BY <1>2, AllRemoved DEF Recorded
<1>5. Placed' = t /\ inj' = t.inj
  BY <1>3, <1>4, SetDown DEF Recorded, SetInjection
<1> QED
  BY <1>4, <1>5

\* A step that does neither.
LEMMA InjKept ==
  ASSUME InjInv, UNCHANGED <<inj, hooked, loaded, stuck, left>>,
         \/ stage # "running"
         \/ stage' = stage /\ cx'.node = cx.node
  PROVE  InjInv'
BY DEF InjInv, Placed, NothingInjected, Op

\* The starts of the operators.
LEMMA InjTry ==
  ASSUME InjInv, TryStep
  PROVE  InjInv'
<1>1. CASE SearchIe
  BY <1>1, InjKept DEF SearchIe, injectVars
<1>2. CASE ~SearchIe
  <2>1. stage = "try"
    BY <1>2
    DEF TryStep, TryOr, TryApplyParent, InitWindowScrollbar, InitNeighborhood,
        InitScrollbarControl, InitTrackbar, InitWheel, InitIe, IeNotFound, IeFound,
        Trying
  <2>2. inj = NoInj /\ Recorded(Placed)
    BY <2>1 DEF InjInv, NothingInjected
  <2>3. \/ UNCHANGED injectVars
        \/ /\ \E b1, b2 : \E isControl \in BOOLEAN : Inject(b1, b2, isControl)
           /\ stage' = "running" /\ cx'.node = Top.node
           /\ Expr[Top.node].op \in BarOps
    <3>1. CASE InitWindowScrollbar
      BY <3>1, StartedContext
      DEF InitWindowScrollbar, InitSucceeds, Trying, BarOps
    <3>2. CASE InitNeighborhood
      BY <3>2, StartedContext
      DEF InitNeighborhood, InitSucceeds, Trying, BarOps
    <3>3. CASE InitScrollbarControl
      BY <3>3, StartedContext
      DEF InitScrollbarControl, InitSucceeds, Trying, BarOps
    <3> QED
      BY <1>2, <3>1, <3>2, <3>3
      DEF TryStep, TryOr, TryApplyParent, InitTrackbar, InitWheel, InitIe,
          IeNotFound, IeFound
  <2>4. CASE UNCHANGED injectVars
    BY <2>1, <2>4, InjKept DEF injectVars
  <2>5. CASE /\ \E b1, b2 : \E isControl \in BOOLEAN : Inject(b1, b2, isControl)
             /\ stage' = "running" /\ cx'.node = Top.node
             /\ Expr[Top.node].op \in BarOps
    <3>1. Recorded(Placed')
      BY <2>2, <2>5, InjectInv
    <3>2. Expr[cx'.node].op \in BarOps
      BY <2>5
    <3> QED
      BY <2>5, <3>1, <3>2 DEF InjInv, NothingInjected, Op, Placed
  <2> QED
    BY <2>3, <2>4, <2>5
<1> QED
  BY <1>1, <1>2

\* The end of an operator for scroll bars.
LEMMA BarsUninjected ==
  ASSUME Op \in BarOps, stage # "failed", EndScroll
  PROVE  Uninject
<1> DEFINE op == Op
<1>1. op \in BarOps /\ op # "ie-scroll"
  BY DEF BarOps
<1>2. (CASE op \in BarOps -> Uninject /\ UNCHANGED ieVars
         [] op = "ie-scroll" -> /\ refs' = Released(refs, ie.walk)
                                /\ ie' = NoWalk
                                /\ UNCHANGED injectVars
         [] OTHER -> UNCHANGED <<injectVars, ieVars>>)
  BY DEF EndScroll
<1> HIDE DEF op
<1> QED
  BY <1>1, <1>2

\* The end of the scroll mode.
LEMMA InjEnd ==
  ASSUME InjInv, End
  PROVE  InjInv'
<1>1. stage' = "idle"
  BY DEF End
<1>2. Recorded(Placed') /\ inj' = NoInj
  <2>1. CASE Uninject
    BY <2>1, UninjectInv DEF InjInv
  <2>2. CASE ~Uninject
    <3>1. EndScroll
      BY DEF End
    <3>2. CASE stage = "failed"
      BY <3>1, <3>2 DEF EndScroll, InjInv, NothingInjected, injectVars, Placed
    <3>3. CASE stage # "failed"
      <4>1. Op \notin BarOps
        BY <2>2, <3>1, <3>3, BarsUninjected
      <4>2. UNCHANGED injectVars
        BY <3>1, <3>3, <4>1 DEF EndScroll
      <4> QED
        BY <4>1, <4>2 DEF InjInv, NothingInjected, injectVars, Placed
    <3> QED
      BY <3>2, <3>3
  <2> QED
    BY <2>1, <2>2
<1> QED
  BY <1>1, <1>2 DEF InjInv, NothingInjected, Placed

\* Every step keeps the record.
LEMMA InjStep ==
  ASSUME InjInv, IsContext, [Next]_vars
  PROVE  InjInv'
<1>1. ASSUME NEW sw \in ScrollWindows, Start(sw[1], sw[2])
      PROVE  InjInv'
  BY <1>1, InjKept DEF Start, injectVars
<1>2. CASE Scroll
  <2>1. UNCHANGED <<stage, inj, hooked, loaded, stuck, left>>
    BY <1>2 DEF Scroll, ScrollWheel, ScrollPosted, ScrollBars, ScrollTrackbar, ScrollIe,
                Moving, injectVars
  <2> QED
    BY <1>2, <2>1, ScrollContext, InjKept
<1>3. CASE CallStep
  <2>1. UNCHANGED <<stage, inj, hooked, loaded, stuck, left>>
    BY <1>3 DEF CallStep, ScrollBar, Grab, BarStep, Publish, Track, Drop, Restore,
                Invalidate, Settle, TrackbarSet, injectVars
  <2> QED
    BY <1>3, <2>1, CallContext, InjKept
<1>4. CASE Target
  BY <1>4, InjKept DEF Target, Handle
<1>5. CASE UNCHANGED vars
  BY <1>5, InjKept DEF vars, injectVars
<1> QED
  BY <1>1, <1>2, <1>3, <1>4, <1>5, InjTry, InjEnd DEF Next

\* At first nothing is injected.
LEMMA InjStart == Init => InjInv /\ IsContext
<1> SUFFICES ASSUME Init PROVE InjInv /\ IsContext
  OBVIOUS
<1>1. IsContext
  BY DEF Init, NoContext, IsContext, IsContextOf
<1>2. inj = [mapped |-> FALSE, hook |-> <<Null, Null>>, process |-> <<Null, Null>>]
  BY DEF Init, InjectInit, NoInj
<1>3. \A p \in Procs : InSlots(inj.hook, p) = 0 /\ InSlots(inj.process, p) = 0
  BY <1>2, InjectAssumption DEF InSlots, One
<1>4. IsPlacement(Placed)
  BY <1>2, <1>3 DEF Init, InjectInit, Placed, IsPlacement, PairOf
<1>5. Recorded(Placed)
  BY <1>2, <1>4, InjectAssumption DEF Recorded, Distinct, Placed, NoInj
<1> QED
  BY <1>1, <1>5 DEF Init, InjectInit, InjInv, NothingInjected

\* inject_ and uninject_scrollbar_support_proc, whichever of their calls fail:
\* without an operator at work no hook is left in any process but those whose
\* removal failed, and no DLL but those not recorded, or not unloaded.
THEOREM LeftClean == Spec => []LeavesNothing
<1>1. Init => InjInv /\ IsContext
  BY InjStart
<1>2. IsContext /\ [Next]_vars => IsContext'
  BY ContextStep
<1>3. InjInv /\ IsContext /\ [Next]_vars => InjInv'
  BY InjStep
<1>4. InjInv => LeavesNothing
  <2> SUFFICES ASSUME InjInv PROVE LeavesNothing
    OBVIOUS
  <2>1. ASSUME NEW p \in Procs
        PROVE  /\ loaded[p] \in Int /\ stuck[p] \in Nat
               /\ hooked[p] \in Int /\ left[p] \in Nat
               /\ hooked[p] = left[p] + InSlots(inj.hook, p)
               /\ loaded[p] = stuck[p] + InSlots(inj.process, p)
               /\ ~(inj.hook[1] = p /\ inj.hook[2] = p)
               /\ ~(inj.process[1] = p /\ inj.process[2] = p)
    BY DEF InjInv, Recorded, IsPlacement, Placed, Distinct
  <2>2. ASSUME NEW p \in Procs
        PROVE  /\ hooked[p] \in left[p] .. left[p] + 1
               /\ loaded[p] \in stuck[p] .. stuck[p] + 1
    BY <2>1 DEF InSlots, One
  <2>3. ASSUME stage \in {"idle", "failed"}
        PROVE  /\ inj = NoInj
               /\ \A p \in Procs : hooked[p] = left[p] /\ loaded[p] = stuck[p]
    <3>1. inj = NoInj
      BY <2>3 DEF InjInv, NothingInjected
    <3>2. inj.hook = <<Null, Null>> /\ inj.process = <<Null, Null>>
      BY <3>1 DEF NoInj
    <3> QED
      BY <2>1, <3>1, <3>2, InjectAssumption DEF InSlots, One
  <2> QED
    BY <2>2, <2>3 DEF LeavesNothing
<1> QED
  BY <1>1, <1>2, <1>3, <1>4, PTL DEF Spec


-----------------------------------------------------------------------------
(* How a bar is moved. *)

\* The variables of the other programs, and the shared memory.
TargetKnown ==
  /\ procOf \in [Bars -> Procs] /\ tardy \in Nat
  /\ queue = [p \in Procs |-> queue[p]]
  /\ pos = [b \in Bars |-> pos[b]]
  /\ wndProc = [b \in Controls |-> wndProc[b]]
  /\ orgProc = [p \in Procs |-> orgProc[p]]
  /\ shm = [valid |-> shm.valid, bar |-> shm.bar, track |-> shm.track]
  /\ shm.valid \in BOOLEAN

\* The message that the running call waits for.
Sent(m) ==
  /\ m.bar = call.bar
  /\ \/ call.pc \in {"grab", "track"} /\ m.msg = "SB_THUMBTRACK"
     \/ call.pc = "drop" /\ m.msg = "SB_THUMBPOSITION"
     \/ call.pc \in {"publish", "restore"} /\ m.msg = "hook_subclass_msg"
        /\ call.bar \in Controls
     \/ call.pc = "setpos" /\ m.msg = "TBM_SETPOS"

\* The process of the bar being moved.
Host == procOf[call.bar]
\* No message is left but that one, in the queue of that process.
QueuesTimely ==
  \A p \in Procs : queue[p] # <<>> =>
    p = Host /\ Sent(Head(queue[p])) /\ queue[p] = <<Head(queue[p])>>

\* The position is published: from Publish to the last message.
Shared == call.pc \in {"publish", "track", "drop", "restore"} /\ inj.mapped
\* The shared memory names the bar and its position just then.
SharedTimely ==
  /\ shm.valid <=> Shared
  /\ Shared => shm.bar = call.bar /\ shm.track = call.new
  /\ call.pc \in {"publish", "restore"} => inj.mapped
  /\ call.pc = "restore" => call.bar \in Controls

\* The control's window procedure is replaced: from when the first toggle is
\* handled to when the second one is, by an odd number of hooks.
Subclassed ==
  /\ call.bar \in Controls /\ Shared /\ OddHooks(Host)
  /\ call.pc = "publish" => queue[Host] = <<>>
  /\ call.pc = "restore" => queue[Host] # <<>>
\* It is, and sbh keeps the old one, just then; no other control is touched.
WndProcTimely ==
  /\ \A b \in Controls :
       wndProc[b] = IF Subclassed /\ b = call.bar THEN "fake" ELSE "own"
  /\ \A p \in Procs :
       orgProc[p] = IF Subclassed /\ p = Host THEN "own" ELSE Null

\* The DLL or the hook can answer for the bar.
Answering ==
  /\ inj.mapped
  /\ \/ loaded[Host] > 0
     \/ OddHooks(Host) /\ call.bar \in Controls
\* Once the drop is handled the bar stands where it was to go.
PosTimely ==
  (/\ \/ call.pc = "drop" /\ queue[Host] = <<>>
      \/ call.pc \in {"restore", "settle"}
   /\ Answering) => pos[call.bar] = call.new

\* What holds as long as every call returned in time.
Timely == QueuesTimely /\ SharedTimely /\ WndProcTimely /\ PosTimely
\* tardy never decreases, so a state without a late answer had none before.
TimelyInv == TargetKnown /\ (tardy = 0 => Timely)

\* No message is waiting.
Quiet == \A p \in Procs : queue[p] = <<>>

\* When the call's own message is handled, nothing waits.
LEMMA NothingElse ==
  ASSUME QueuesTimely, call.pc # "none" => queue[Host] = <<>>
  PROVE  Quiet
BY DEF QueuesTimely, Quiet, Sent

\* Into empty queues, one message is put.
LEMMA Mailed ==
  ASSUME TargetKnown, Quiet, NEW b \in Bars, NEW msg, NEW val, Send(b, msg, val)
  PROVE  /\ queue' = [p \in Procs |-> queue'[p]]
         /\ \A p \in Procs :
              queue'[p] = IF p = procOf[b] THEN <<[msg |-> msg, bar |-> b, val |-> val]>>
                                           ELSE <<>>
<1> DEFINE m == [msg |-> msg, bar |-> b, val |-> val]
<1>1. queue' = [queue EXCEPT ![procOf[b]] = Append(queue[procOf[b]], m)]
  BY DEF Send
<1>2. procOf[b] \in Procs /\ queue[procOf[b]] = <<>>
  BY DEF TargetKnown, Quiet
<1>3. queue' = [queue EXCEPT ![procOf[b]] = <<m>>]
  BY <1>1, <1>2
<1> HIDE DEF m
<1>4. queue' = [p \in Procs |-> IF p = procOf[b] THEN <<m>> ELSE <<>>]
  <2>1. queue = [p \in Procs |-> <<>>]
    BY DEF TargetKnown, Quiet
  <2> QED
    BY <1>2, <1>3, <2>1
<1> QED
  BY <1>4 DEF m

\* A call that sends its message waits for that only.
LEMMA OneSent ==
  ASSUME TargetKnown, Quiet, call'.bar \in Bars, UNCHANGED procOf, NEW msg, NEW val,
         Send(call'.bar, msg, val),
         \A m : m.bar = call'.bar /\ m.msg = msg => Sent(m)'
  PROVE  QueuesTimely' /\ queue'[Host'] # <<>>
<1>1. PICK m : m = [msg |-> msg, bar |-> call'.bar, val |-> val]
  OBVIOUS
<1>2. \A p \in Procs : queue'[p] = IF p = Host' THEN <<m>> ELSE <<>>
  BY <1>1, Mailed DEF Host
<1>3. m.bar = call'.bar /\ m.msg = msg
  BY <1>1
<1>4. Sent(m)'
  BY <1>3
<1>5. Host' \in Procs
  BY DEF TargetKnown, Host
<1>6. Head(<<m>>) = m /\ <<m>> # <<>>
  OBVIOUS
<1>7. \A p \in Procs : queue'[p] # <<>> => p = Host' /\ queue'[p] = <<m>>
  BY <1>2
<1>8. \A p \in Procs : queue'[p] # <<>> => p = Host' /\ Head(queue'[p]) = m
         /\ queue'[p] = <<m>>
  BY <1>6, <1>7
<1> QED
  BY <1>2, <1>4, <1>5, <1>6, <1>8 DEF QueuesTimely

\* No call is under way, and the step sends and changes nothing in the programs, but
\* the positions of elements in a browser.
IdleStep ==
  /\ call.pc = "none" /\ call'.pc = "none"
  /\ UNCHANGED <<procOf, queue, tardy, wndProc, orgProc>>
  /\ pos' = [b \in Bars |-> pos'[b]]
  /\ shm' \in {shm, NoShm}
\* TBM_SETPOS is sent.
TrackbarSent ==
  /\ call.pc = "none" /\ call'.pc = "setpos"
  /\ UNCHANGED <<procOf, pos, tardy, injectVars>>
  /\ queue[procOf[call'.bar]] = <<>>
  /\ \E val : Send(call'.bar, "TBM_SETPOS", val)
\* A bar is grabbed.
Grabbed ==
  /\ call.pc = "none" /\ call'.pc = "grab"
  /\ UNCHANGED <<procOf, pos, tardy, injectVars>>
  /\ \E val : Send(call'.bar, "SB_THUMBTRACK", val)
\* The call for a bar ends.
Settled ==
  /\ call.pc = "settle" /\ call'.pc = "none"
  /\ UNCHANGED <<targetVars, injectVars>>
\* Nothing of all this is changed.
Unseen == UNCHANGED <<targetVars, wndProc, orgProc, shm, inj, loaded, hooked, call>>

\* The start of operators changes at most what is injected.
LEMMA IdleTry ==
  ASSUME OpKnown, TargetKnown, TryStep
  PROVE  IdleStep \/ Unseen
<1>1. UNCHANGED <<targetVars, wndProc, orgProc, call>>
  BY DEF TryStep, TryOr, TryApplyParent, InitWindowScrollbar, InitNeighborhood,
     InitScrollbarControl, InitTrackbar, InitWheel, InitIe, SearchIe, IeNotFound,
     IeFound, Inject, injectVars
<1>2. \/ UNCHANGED injectVars
      \/ stage = "try" /\ shm' \in {shm, NoShm}
  BY DEF TryStep, TryOr, TryApplyParent, InitWindowScrollbar, InitNeighborhood,
     InitScrollbarControl, InitTrackbar, InitWheel, InitIe, SearchIe, IeNotFound,
     IeFound, Inject, Trying
<1> QED
  BY <1>1, <1>2 DEF IdleStep, Unseen, TargetKnown, targetVars, injectVars, OpKnown, CallKnown

\* scroll sends TBM_SETPOS, or moves elements of a browser, or nothing.
LEMMA IdleScroll ==
  ASSUME OpKnown, TargetKnown, Scroll
  PROVE  IdleStep \/ TrackbarSent
<1>0. call.pc = "none"
  BY DEF Scroll, ScrollWheel, ScrollPosted, ScrollBars, ScrollTrackbar, ScrollIe, Moving
<1>1. ASSUME NEW d, ScrollWheel(d) \/ ScrollPosted(d) PROVE IdleStep
  BY <1>0, <1>1 DEF ScrollWheel, ScrollPosted, IdleStep, targetVars, injectVars, TargetKnown
<1>2. ASSUME NEW d, ScrollBars(d) PROVE IdleStep
  <2>1. call'.pc = "none"
    BY <1>0, <1>2 DEF ScrollBars, OpKnown, CallKnown
  <2> QED
    BY <1>0, <1>2, <2>1 DEF ScrollBars, IdleStep, targetVars, injectVars, TargetKnown
<1>3. ASSUME NEW d, ScrollIe(d) PROVE IdleStep
  <2>1. pos' = [b \in Bars |-> pos'[b]]
    BY <1>3 DEF ScrollIe
  <2> QED
    BY <1>0, <1>3, <2>1 DEF ScrollIe, IdleStep, injectVars
<1>4. ASSUME NEW d, ScrollTrackbar(d) PROVE IdleStep \/ TrackbarSent
  <2>1. CASE UNCHANGED <<targetVars, call>>
    BY <1>0, <1>4, <2>1 DEF ScrollTrackbar, IdleStep, targetVars, injectVars, TargetKnown
  <2>2. CASE ~UNCHANGED <<targetVars, call>>
    <3> DEFINE b == FirstOf(cx.bars)
    <3>1. /\ queue[procOf[b]] = <<>> /\ \E val : Send(b, "TBM_SETPOS", val)
          /\ call' = [NoCall EXCEPT !.pc = "setpos", !.bar = b]
          /\ UNCHANGED <<procOf, pos, tardy, injectVars>>
      BY <1>4, <2>2 DEF ScrollTrackbar
    <3> HIDE DEF b
    <3>2. call'.pc = "setpos" /\ call'.bar = b
      BY <3>1 DEF NoCall
    <3> QED
      BY <1>0, <3>1, <3>2 DEF TrackbarSent
  <2> QED
    BY <2>1, <2>2
<1> QED
  BY <1>1, <1>2, <1>3, <1>4 DEF Scroll

\* Every step is one of these.
LEMMA StepKinds ==
  ASSUME OpKnown, TargetKnown, [Next]_vars
  PROVE  \/ IdleStep \/ TrackbarSent \/ Grabbed \/ Settled \/ Unseen
         \/ Publish \/ Track \/ Drop \/ Restore \/ Invalidate \/ TrackbarSet
         \/ \E p \in Procs : Handle(p)
<1>1. ASSUME NEW sw \in ScrollWindows, Start(sw[1], sw[2]) PROVE Unseen
  BY <1>1 DEF Start, Unseen, targetVars, injectVars
<1>2. CASE End
  BY <1>2 DEF End, EndScroll, Uninject, IdleStep, targetVars, injectVars, TargetKnown
<1>3. CASE ScrollBar
  <2>1. CASE UNCHANGED <<targetVars, injectVars>> /\ call' = [call EXCEPT !.todo = Tail(@)]
    <3>1. call'.pc = call.pc
      BY <2>1 DEF OpKnown, CallKnown
    <3> QED
      BY <1>3, <2>1, <3>1 DEF ScrollBar, IdleStep, targetVars, injectVars, TargetKnown
  <2>2. ASSUME NEW b, NEW delta, NEW mode, NEW length, NEW todo,
               Grab(b, delta, mode, length, todo)
        PROVE  Grabbed
    <3>1. call'.pc = "grab" /\ call'.bar = b
      BY <2>2 DEF Grab
    <3> QED
      BY <1>3, <2>2, <3>1 DEF ScrollBar, Grab, Grabbed
  <2> QED
    BY <1>3, <2>1, <2>2 DEF ScrollBar
<1>4. CASE Settle
  <2>1. call'.pc = "none"
    BY <1>4 DEF Settle, NoCall
  <2> QED
    BY <1>4, <2>1 DEF Settle, Settled
<1>5. CASE UNCHANGED vars
  BY <1>5 DEF vars, Unseen, targetVars, injectVars
<1> QED
  BY <1>1, <1>2, <1>3, <1>4, <1>5, IdleTry, IdleScroll DEF Next, CallStep, BarStep, Target

\* The call goes on to pc.
LEMMA CallMoved ==
  ASSUME OpKnown, NEW pc, call' = [call EXCEPT !.pc = pc]
  PROVE  call'.pc = pc /\ call'.bar = call.bar /\ call'.new = call.new
<1>1. call' = [pc |-> pc, bar |-> call.bar, org |-> call.org, new |-> call.new,
               speed |-> call.speed, todo |-> call.todo]
  BY DEF OpKnown, CallKnown
<1> QED
  BY <1>1

\* A queue per process, after a message is sent.
LEMMA QueueShape ==
  ASSUME TargetKnown, NEW b, NEW msg, NEW val, Send(b, msg, val)
  PROVE  queue' = [p \in Procs |-> queue'[p]]
BY DEF TargetKnown, Send

\* Every step keeps the variables what they are.
LEMMA TargetStep ==
  ASSUME OpKnown, TargetKnown, [Next]_vars
  PROVE  TargetKnown'
<1>1. CASE IdleStep
  <2>1. NoShm = [valid |-> FALSE, bar |-> Null, track |-> 0]
    BY DEF NoShm
  <2>2. /\ shm' = [valid |-> shm'.valid, bar |-> shm'.bar, track |-> shm'.track]
        /\ shm'.valid \in BOOLEAN
    <3>1. CASE shm' = shm
      BY <3>1 DEF TargetKnown
    <3>2. CASE shm' = NoShm
      BY <2>1, <3>2
    <3> QED
      BY <1>1, <3>1, <3>2 DEF IdleStep
  <2> QED
    BY <1>1, <2>2 DEF IdleStep, TargetKnown
<1>2. CASE TrackbarSent \/ Grabbed
  <2>1. /\ UNCHANGED <<procOf, pos, tardy, wndProc, orgProc, shm>>
        /\ \E msg, val : Send(call'.bar, msg, val)
    BY <1>2 DEF TrackbarSent, Grabbed, injectVars
  <2>2. queue' = [p \in Procs |-> queue'[p]]
    <3>1. PICK msg, val : Send(call'.bar, msg, val)
      BY <2>1
    <3>2. queue' = [queue EXCEPT ![procOf[call'.bar]] = Append(queue[procOf[call'.bar]],
                     [msg |-> msg, bar |-> call'.bar, val |-> val])]
      BY <3>1 DEF Send
    <3> QED
      BY <3>2 DEF TargetKnown
  <2> QED
    BY <2>1, <2>2 DEF TargetKnown
<1>3. CASE Settled \/ Unseen
  BY <1>3 DEF Settled, Unseen, targetVars, injectVars, TargetKnown
<1>4. ASSUME NEW b, Returned(b)
      PROVE  tardy' \in Nat
  BY <1>4 DEF Returned, TargetKnown
<1>5. CASE Publish
  <2>1. queue' = [p \in Procs |-> queue'[p]]
    BY <1>5, QueueShape DEF Publish, TargetKnown
  <2> QED
    BY <1>4, <1>5, <2>1 DEF Publish, TargetKnown
<1>6. CASE Track \/ Drop \/ Restore
  BY <1>4, <1>6, QueueShape DEF Track, Drop, Restore, injectVars, TargetKnown
<1>7. CASE Invalidate
  <2>1. shm' = [valid |-> IF inj.mapped THEN FALSE ELSE shm.valid, bar |-> shm.bar,
                track |-> shm.track]
    BY <1>7 DEF Invalidate, LastReturned, TargetKnown
  <2> QED
    BY <1>4, <1>7, <2>1 DEF Invalidate, LastReturned, TargetKnown
<1>8. CASE TrackbarSet
  BY <1>4, <1>8 DEF TrackbarSet, injectVars, TargetKnown
<1>9. ASSUME NEW p \in Procs, Handle(p) PROVE TargetKnown'
  <2>1. queue' = [q \in Procs |-> queue'[q]]
    BY <1>9 DEF Handle, TargetKnown
  <2>2. /\ pos' = [b \in Bars |-> pos'[b]]
        /\ wndProc' = [b \in Controls |-> wndProc'[b]]
        /\ orgProc' = [q \in Procs |-> orgProc'[q]]
    BY <1>9 DEF Handle, ThumbMoved, Toggled, TargetKnown
  <2> QED
    BY <1>9, <2>1, <2>2 DEF Handle, TargetKnown
<1> QED
  BY <1>1, <1>2, <1>3, <1>5, <1>6, <1>7, <1>8, <1>9, StepKinds

-----------------------------------------------------------------------------
\* No control is replaced, and sbh keeps no procedure.
NotSubclassed ==
  /\ \A b \in Controls : wndProc[b] = "own"
  /\ \A p \in Procs : orgProc[p] = Null

\* Without a call nothing is shared and nothing replaced.
LEMMA TimelyIdle ==
  ASSUME Timely, IdleStep
  PROVE  Timely'
<1>1. Quiet
  BY NothingElse DEF Timely, IdleStep
<1>2. ~shm.valid /\ NotSubclassed
  BY DEF Timely, IdleStep, SharedTimely, Shared, WndProcTimely, Subclassed, NotSubclassed
<1>3. ~shm'.valid
  BY <1>2 DEF IdleStep, NoShm
<1> QED
  BY <1>1, <1>2, <1>3 DEF IdleStep, Timely, SharedTimely, Shared, WndProcTimely, Subclassed,
     NotSubclassed, QueuesTimely, Quiet, PosTimely

\* A call begins with its first message.
LEMMA TimelySent ==
  ASSUME OpKnown', TargetKnown, Timely, TrackbarSent \/ Grabbed
  PROVE  Timely'
<1>1. Quiet
  BY NothingElse DEF Timely, TrackbarSent, Grabbed
<1>2. ~shm.valid /\ NotSubclassed
  BY DEF Timely, TrackbarSent, Grabbed, SharedTimely, Shared, WndProcTimely, Subclassed,
     NotSubclassed
<1>3. call'.bar \in Bars
  BY DEF OpKnown, CallKnown, TrackbarSent, Grabbed
<1>4. QueuesTimely'
  BY <1>1, <1>3, OneSent DEF TrackbarSent, Grabbed, Sent
<1> QED
  BY <1>2, <1>4 DEF TrackbarSent, Grabbed, Timely, SharedTimely, Shared, WndProcTimely,
     Subclassed, NotSubclassed, PosTimely, injectVars

\* A call has ended with nothing shared.
LEMMA TimelySettled ==
  ASSUME Timely, Settled
  PROVE  Timely'
<1>1. Quiet
  BY DEF Timely, Settled, QueuesTimely, Sent, Quiet
<1>2. ~shm.valid /\ NotSubclassed
  BY DEF Timely, Settled, SharedTimely, Shared, WndProcTimely, Subclassed, NotSubclassed
<1> QED
  BY <1>1, <1>2 DEF Settled, Timely, SharedTimely, Shared, WndProcTimely, Subclassed,
     NotSubclassed, QueuesTimely, Quiet, PosTimely, targetVars, injectVars

\* A step that changes none of the variables.
LEMMA TimelyUnseen ==
  ASSUME Timely, Unseen
  PROVE  Timely'
BY DEF Unseen, targetVars, Timely, QueuesTimely, Sent, Host, SharedTimely, Shared,
   WndProcTimely, Subclassed, PosTimely, Answering, OddHooks

\* A call that returns in time has its message handled.
LEMMA InTime ==
  ASSUME QueuesTimely, call.pc # "none", Returned(call.bar), tardy' = 0, tardy \in Nat
  PROVE  tardy = 0 /\ Quiet
BY NothingElse DEF Returned, Host

\* The position is published; a control's toggle is sent.
LEMMA TimelyPublish ==
  ASSUME OpKnown, TargetKnown, Timely, Quiet, Publish
  PROVE  Timely'
<1>1. /\ call'.pc = "publish" /\ call'.bar = call.bar /\ call'.new = call.new
      /\ call.bar \in Bars
  BY CallMoved DEF Publish, OpKnown, CallKnown
<1>2. QueuesTimely' /\ (call.bar \in Controls => queue'[Host'] # <<>>)
  <2>1. CASE call.bar \in Controls
    BY <1>1, <2>1, OneSent DEF Publish, Sent
  <2>2. CASE call.bar \notin Controls
    BY <2>2 DEF Publish, QueuesTimely, Quiet
  <2> QED
    BY <2>1, <2>2
<1>3. NotSubclassed /\ inj.mapped
  BY DEF Publish, Timely, WndProcTimely, Subclassed, Shared, NotSubclassed
<1>4. SharedTimely'
  BY <1>1, <1>3 DEF Publish, SharedTimely, Shared
<1>5. WndProcTimely'
  BY <1>1, <1>2, <1>3 DEF Publish, WndProcTimely, Subclassed, NotSubclassed
<1> QED
  BY <1>1, <1>2, <1>4, <1>5 DEF Timely, PosTimely

\* The first toggle was handled, if there is a hook.
LEMMA TimelyTrack ==
  ASSUME OpKnown, TargetKnown, Timely, Quiet, Track
  PROVE  Timely'
<1>1. /\ call'.pc = "track" /\ call'.bar = call.bar /\ call'.new = call.new
      /\ call.bar \in Bars
  BY CallMoved DEF Track, OpKnown, CallKnown
<1>2. QueuesTimely'
  BY <1>1, OneSent DEF Track, Sent
<1>3. Host' = Host /\ Host \in Procs
  BY <1>1 DEF Track, Host, TargetKnown
<1>4. SharedTimely'
  BY <1>1 DEF Track, Timely, SharedTimely, Shared, injectVars
<1>5. Subclassed' <=> Subclassed
  BY <1>1, <1>3 DEF Track, Subclassed, Shared, Quiet, OddHooks, injectVars
<1>6. WndProcTimely'
  BY <1>1, <1>3, <1>5 DEF Track, Timely, WndProcTimely, injectVars
<1> QED
  BY <1>1, <1>2, <1>4, <1>6 DEF Timely, PosTimely

\* The bar is dropped.
LEMMA TimelyDrop ==
  ASSUME OpKnown, TargetKnown, Timely, Quiet, Drop
  PROVE  Timely'
<1>1. /\ call'.pc = "drop" /\ call'.bar = call.bar /\ call'.new = call.new
      /\ call.bar \in Bars
  BY CallMoved DEF Drop, OpKnown, CallKnown
<1>2. QueuesTimely' /\ queue'[Host'] # <<>>
  BY <1>1, OneSent DEF Drop, Sent
<1>3. Host' = Host /\ Host \in Procs
  BY <1>1 DEF Drop, Host, TargetKnown
<1>4. SharedTimely'
  BY <1>1 DEF Drop, Timely, SharedTimely, Shared, injectVars
<1>5. Subclassed' <=> Subclassed
  BY <1>1, <1>3 DEF Drop, Subclassed, Shared, OddHooks, injectVars
<1>6. WndProcTimely'
  BY <1>1, <1>3, <1>5 DEF Drop, Timely, WndProcTimely, injectVars
<1> QED
  BY <1>1, <1>2, <1>4, <1>6 DEF Timely, PosTimely

\* The bar has its position when the second toggle is sent.
LEMMA TimelyRestore ==
  ASSUME OpKnown, TargetKnown, Timely, Quiet, Restore
  PROVE  Timely'
<1>1. /\ call'.pc = "restore" /\ call'.bar = call.bar /\ call'.new = call.new
      /\ call.bar \in Bars /\ call.bar \in Controls /\ inj.mapped
  BY CallMoved DEF Restore, OpKnown, CallKnown
<1>2. QueuesTimely' /\ queue'[Host'] # <<>>
  BY <1>1, OneSent DEF Restore, Sent
<1>3. Host' = Host /\ Host \in Procs
  BY <1>1 DEF Restore, Host, TargetKnown
<1>4. SharedTimely'
  BY <1>1 DEF Restore, Timely, SharedTimely, Shared, injectVars
<1>5. Subclassed' <=> Subclassed
  BY <1>1, <1>2, <1>3 DEF Restore, Subclassed, Shared, OddHooks, injectVars
<1>6. WndProcTimely'
  BY <1>1, <1>3, <1>5 DEF Restore, Timely, WndProcTimely, injectVars
<1>7. PosTimely'
  BY <1>1, <1>3 DEF Restore, Timely, PosTimely, Answering, OddHooks, Quiet, injectVars
<1> QED
  BY <1>2, <1>4, <1>6, <1>7 DEF Timely

\* The second toggle was handled, the position is taken back.
LEMMA TimelyInvalidate ==
  ASSUME OpKnown, TargetKnown, Timely, Quiet, Invalidate
  PROVE  Timely'
<1>1. /\ call'.pc = "settle" /\ call'.bar = call.bar /\ call'.new = call.new
      /\ call.bar \in Bars
  BY CallMoved DEF Invalidate, LastReturned, OpKnown, CallKnown
<1>2. QueuesTimely'
  BY DEF Invalidate, QueuesTimely, Quiet
<1>3. Host' = Host /\ Host \in Procs
  BY <1>1 DEF Invalidate, Host, TargetKnown
<1>4. shm'.valid = IF inj.mapped THEN FALSE ELSE shm.valid
  BY DEF Invalidate, LastReturned, TargetKnown
<1>5. SharedTimely'
  BY <1>1, <1>4 DEF Invalidate, Timely, SharedTimely, Shared
<1>6. NotSubclassed
  BY <1>3 DEF Invalidate, LastReturned, Timely, WndProcTimely, Subclassed, Shared, Quiet,
     NotSubclassed
<1>7. WndProcTimely'
  BY <1>1, <1>6 DEF Invalidate, WndProcTimely, Subclassed, Shared, NotSubclassed
<1>8. PosTimely'
  BY <1>1, <1>3 DEF Invalidate, LastReturned, Timely, PosTimely, Answering, OddHooks, Quiet
<1> QED
  BY <1>2, <1>5, <1>7, <1>8 DEF Timely

\* A track bar's call ends.
LEMMA TimelySet ==
  ASSUME Timely, Quiet, TrackbarSet
  PROVE  Timely'
<1>1. call.pc = "setpos" /\ call'.pc = "none"
  BY DEF TrackbarSet, NoCall
<1>2. ~shm.valid /\ NotSubclassed
  BY <1>1 DEF Timely, SharedTimely, Shared, WndProcTimely, Subclassed, NotSubclassed
<1> QED
  BY <1>1, <1>2 DEF TrackbarSet, Timely, SharedTimely, Shared, WndProcTimely, Subclassed,
     NotSubclassed, QueuesTimely, Quiet, PosTimely, injectVars

\* Each toggle of an own procedure replaces it, the next one puts it back.
LEMMA ToggledTwice ==
  /\ ToggledOnce([org |-> Null, proc |-> "own"], TRUE) = [org |-> "own", proc |-> "fake"]
  /\ ToggledOnce([org |-> "own", proc |-> "fake"], TRUE) = [org |-> Null, proc |-> "own"]
<1>1. Null # "own"
  BY InjectAssumption
<1>2. ToggledOnce([org |-> Null, proc |-> "own"], TRUE) = [org |-> "own", proc |-> "fake"]
  BY DEF ToggledOnce
<1>3. ToggledOnce([org |-> "own", proc |-> "fake"], TRUE) = [org |-> Null, proc |-> "own"]
  BY <1>1 DEF ToggledOnce
<1> QED
  BY <1>2, <1>3

\* The hooks of a thread replace the procedure of a control that has its own, if
\* their number is odd; and they put it back.
LEMMA TogglesOdd ==
  ASSUME TargetKnown, NEW p \in Procs, Toggled(p), NEW b \in Controls, procOf[b] = p,
         shm.bar = b, shm.valid, hooked[p] \in Nat
  PROVE  /\ orgProc[p] = Null /\ wndProc[b] = "own" =>
              /\ orgProc' = [orgProc EXCEPT ![p] = IF OddHooks(p) THEN "own" ELSE Null]
              /\ wndProc' = [wndProc EXCEPT ![b] = IF OddHooks(p) THEN "fake" ELSE "own"]
         /\ OddHooks(p) /\ orgProc[p] = "own" /\ wndProc[b] = "fake" =>
              /\ orgProc' = [orgProc EXCEPT ![p] = Null]
              /\ wndProc' = [wndProc EXCEPT ![b] = "own"]
<1> DEFINE now == [org |-> orgProc[p], proc |-> wndProc[b]]
           once == ToggledOnce(now, TRUE)
           then == IF OddHooks(p) THEN once ELSE ToggledOnce(once, TRUE)
<1>1. hooked[p] > 0 =>
        /\ orgProc' = [orgProc EXCEPT ![p] = then.org]
        /\ wndProc' = [wndProc EXCEPT ![b] = then.proc]
  BY DEF Toggled
<1>2. ~(hooked[p] > 0) => UNCHANGED <<orgProc, wndProc>> /\ ~OddHooks(p)
  BY DEF Toggled, OddHooks
<1>3. ASSUME orgProc[p] = Null, wndProc[b] = "own"
      PROVE  /\ orgProc' = [orgProc EXCEPT ![p] = IF OddHooks(p) THEN "own" ELSE Null]
             /\ wndProc' = [wndProc EXCEPT ![b] = IF OddHooks(p) THEN "fake" ELSE "own"]
  <2>1. then = IF OddHooks(p) THEN [org |-> "own", proc |-> "fake"]
                              ELSE [org |-> Null, proc |-> "own"]
    BY <1>3, ToggledTwice
  <2> HIDE DEF then
  <2>2. CASE hooked[p] > 0
    BY <1>1, <2>1, <2>2
  <2>3. CASE ~(hooked[p] > 0)
    BY <1>2, <1>3, <2>3 DEF TargetKnown
  <2> QED
    BY <2>2, <2>3
<1>4. ASSUME OddHooks(p), orgProc[p] = "own", wndProc[b] = "fake"
      PROVE  /\ orgProc' = [orgProc EXCEPT ![p] = Null]
             /\ wndProc' = [wndProc EXCEPT ![b] = "own"]
  <2>1. then = [org |-> Null, proc |-> "own"]
    BY <1>4, ToggledTwice
  <2> HIDE DEF then
  <2> QED
    BY <1>1, <1>2, <1>4, <2>1
<1> QED
  BY <1>3, <1>4

\* The other program handles the one message: the thumb takes the shared position,
\* a toggle replaces the procedure or puts it back.
LEMMA TimelyHandle ==
  ASSUME OpKnown, TargetKnown, Timely, NEW p \in Procs, hooked[p] \in Nat, Handle(p)
  PROVE  Timely'
<1> DEFINE m == Head(queue[p])
<1>1. /\ p = Host /\ Host \in Procs /\ queue[p] = <<m>> /\ Sent(m)
      /\ queue[Host] # <<>>
  BY DEF Handle, Timely, QueuesTimely
<1>2. Host' = Host /\ UNCHANGED <<procOf, tardy, hooked, loaded, shm, inj, call>>
  BY DEF Handle, Host
<1>3. Quiet'
  <2>1. \A q \in Procs : q # p => queue[q] = <<>>
    BY <1>1 DEF Timely, QueuesTimely
  <2>2. queue' = [queue EXCEPT ![p] = Tail(queue[p])]
    BY DEF Handle
  <2>3. Tail(queue[p]) = <<>>
    <3> HIDE DEF m
    <3>1. Tail(<<m>>) = <<>>
      OBVIOUS
    <3> QED
      BY <1>1, <3>1
  <2> QED
    BY <2>1, <2>2, <2>3 DEF Quiet, TargetKnown
<1>4. call.bar \in Bars /\ m.bar = call.bar /\ call.pc # "none"
  BY <1>1 DEF Sent, OpKnown, CallKnown
<1>5. QueuesTimely'
  BY <1>3 DEF QueuesTimely, Quiet
<1>6. SharedTimely'
  BY <1>2 DEF Timely, SharedTimely, Shared
<1>7. (call.pc # "publish" /\ call.pc # "restore") => (Subclassed' <=> Subclassed)
  BY <1>2 DEF Subclassed, Shared, OddHooks
<1>8. CASE m.msg \in {"SB_THUMBTRACK", "SB_THUMBPOSITION"}
  <2>1. ThumbMoved(m) /\ call.pc \in {"grab", "track", "drop"}
    BY <1>1, <1>8 DEF Handle, Sent
  <2>2. WndProcTimely'
    BY <1>2, <1>7, <2>1 DEF ThumbMoved, Timely, WndProcTimely
  <2>3. PosTimely'
    <3> SUFFICES ASSUME call.pc = "drop", Answering PROVE pos'[call.bar] = call.new
      BY <1>2, <2>1 DEF PosTimely, Answering, OddHooks
    <3>1. Shared /\ shm.valid /\ shm.bar = call.bar /\ shm.track = call.new
      BY DEF Answering, Shared, Timely, SharedTimely
    <3>2. (OddHooks(Host) /\ call.bar \in Controls) => wndProc[call.bar] = "fake"
      BY <3>1 DEF Timely, WndProcTimely, Subclassed
    <3>3. Answered(m.bar)
      BY <1>4, <3>1, <3>2 DEF Answered, Answering, Host
    <3> HIDE DEF m
    <3>4. pos' = [pos EXCEPT ![call.bar] = shm.track]
      BY <1>4, <2>1, <3>3 DEF ThumbMoved
    <3> QED
      BY <1>4, <3>1, <3>4 DEF TargetKnown
  <2> QED
    BY <1>5, <1>6, <2>2, <2>3 DEF Timely
<1>9. CASE m.msg = "hook_subclass_msg"
  <2>1. Toggled(p) /\ UNCHANGED pos
    BY <1>9 DEF Handle
  <2>2. call.pc \in {"publish", "restore"} /\ call.bar \in Controls
    BY <1>1, <1>9 DEF Sent
  <2>3. Shared /\ shm.valid /\ shm.bar = call.bar
    BY <2>2 DEF Timely, SharedTimely, Shared
  <2>4. PosTimely'
    BY <1>2, <2>1, <2>2 DEF Timely, PosTimely, Answering, OddHooks
  <2>5. Subclassed <=> OddHooks(Host) /\ call.pc = "restore"
    BY <1>1, <2>2, <2>3 DEF Subclassed
  <2>6. Subclassed' <=> OddHooks(Host) /\ call.pc = "publish"
    BY <1>1, <1>2, <1>3, <2>2, <2>3 DEF Subclassed, Shared, Quiet, OddHooks
  <2>7. CASE ~Subclassed
    <3>1. orgProc[p] = Null /\ wndProc[call.bar] = "own"
      BY <1>1, <2>2, <2>7 DEF Timely, WndProcTimely
    <3>2. /\ orgProc' = [orgProc EXCEPT ![p] = IF OddHooks(p) THEN "own" ELSE Null]
          /\ wndProc' = [wndProc EXCEPT ![call.bar] = IF OddHooks(p) THEN "fake" ELSE "own"]
      BY <1>1, <2>1, <2>2, <2>3, <3>1, TogglesOdd DEF Host
    <3>3. Subclassed' <=> OddHooks(p)
      BY <1>1, <2>2, <2>5, <2>6, <2>7
    <3>4. WndProcTimely'
      BY <1>1, <1>2, <2>2, <2>7, <3>2, <3>3 DEF TargetKnown, Timely, WndProcTimely
    <3> QED
      BY <1>5, <1>6, <2>4, <3>4 DEF Timely
  <2>8. CASE Subclassed
    <3>1. orgProc[p] = "own" /\ wndProc[call.bar] = "fake" /\ OddHooks(p)
      BY <1>1, <2>2, <2>5, <2>8 DEF Timely, WndProcTimely
    <3>2. /\ orgProc' = [orgProc EXCEPT ![p] = Null]
          /\ wndProc' = [wndProc EXCEPT ![call.bar] = "own"]
      BY <1>1, <2>1, <2>2, <2>3, <3>1, TogglesOdd DEF Host
    <3>3. ~Subclassed'
      BY <2>5, <2>6, <2>8
    <3>4. WndProcTimely'
      BY <1>1, <1>2, <2>2, <2>8, <3>2, <3>3 DEF TargetKnown, Timely, WndProcTimely
    <3> QED
      BY <1>5, <1>6, <2>4, <3>4 DEF Timely
  <2> QED
    BY <2>7, <2>8
<1>10. CASE m.msg = "TBM_SETPOS"
  <2>1. call.pc = "setpos" /\ UNCHANGED <<wndProc, orgProc>>
    BY <1>1, <1>10 DEF Handle, Sent
  <2> QED
    BY <1>2, <1>5, <1>6, <1>7, <2>1 DEF Timely, WndProcTimely, PosTimely
<1> QED
  BY <1>1, <1>8, <1>9, <1>10 DEF Sent

\* A process has a whole number of hooks.
LEMMA HooksCounted ==
  ASSUME InjInv
  PROVE  \A p \in Procs : hooked[p] \in Nat
<1> SUFFICES ASSUME NEW p \in Procs PROVE hooked[p] \in Nat
  OBVIOUS
<1>1. left[p] \in Nat /\ hooked[p] = left[p] + InSlots(inj.hook, p)
  BY DEF InjInv, Recorded, IsPlacement, Placed
<1> QED
  BY <1>1 DEF InSlots, One

\* Every step keeps it.
LEMMA TimelyStep ==
  ASSUME OpKnown, OpKnown', InjInv, TimelyInv, [Next]_vars
  PROVE  TimelyInv'
<1>1. TargetKnown'
  BY TargetStep DEF TimelyInv
<1> SUFFICES ASSUME tardy' = 0 PROVE Timely'
  BY <1>1 DEF TimelyInv
<1>2. \A b : Returned(b) => tardy = 0
  BY DEF Returned, TimelyInv, TargetKnown
<1>3. tardy = 0
  BY <1>2, StepKinds
  DEF TimelyInv, IdleStep, TrackbarSent, Grabbed, Settled, Unseen, targetVars, Publish, Track,
      Drop, Restore, Invalidate, LastReturned, TrackbarSet, Handle
<1>4. Timely
  BY <1>3 DEF TimelyInv
<1>5. CASE IdleStep \/ TrackbarSent \/ Grabbed \/ Settled \/ Unseen
  BY <1>4, <1>5, TimelyIdle, TimelySent, TimelySettled, TimelyUnseen DEF TimelyInv
<1>6. CASE Publish \/ Track \/ Drop \/ Restore \/ Invalidate \/ TrackbarSet
  <2>1. call.pc # "none" /\ Returned(call.bar)
    BY <1>6 DEF Publish, Track, Drop, Restore, Invalidate, LastReturned, TrackbarSet
  <2>2. Quiet
    BY <1>4, <2>1, InTime DEF TimelyInv, TargetKnown, Timely
  <2> QED
    BY <1>4, <1>6, <2>2, TimelyPublish, TimelyTrack, TimelyDrop, TimelyRestore,
       TimelyInvalidate, TimelySet DEF TimelyInv
<1>7. CASE \E p \in Procs : Handle(p)
  <2>1. \A p \in Procs : hooked[p] \in Nat
    BY HooksCounted
  <2> QED
    BY <1>4, <1>7, <2>1, TimelyHandle DEF TimelyInv
<1> QED
  BY <1>5, <1>6, <1>7, StepKinds DEF TimelyInv

\* At first no message has been sent.
LEMMA TimelyStart == Init => TimelyInv
<1> SUFFICES ASSUME Init PROVE TimelyInv
  OBVIOUS
<1>1. /\ call.pc = "none" /\ ~shm.valid /\ shm = NoShm
      /\ queue = [p \in Procs |-> <<>>] /\ pos = [b \in Bars |-> BarInfo[b].start]
      /\ wndProc = [b \in Controls |-> "own"] /\ orgProc = [p \in Procs |-> Null]
  BY DEF Init, InjectInit, NoCall, NoShm
<1>2. TargetKnown
  <2>1. procOf \in [Bars -> Procs] /\ tardy \in Nat
    BY InjectAssumption DEF Init, InjectInit
  <2>2. shm = [valid |-> shm.valid, bar |-> shm.bar, track |-> shm.track]
        /\ shm.valid \in BOOLEAN
    BY <1>1 DEF NoShm
  <2> QED
    BY <1>1, <2>1, <2>2 DEF TargetKnown
<1>3. Timely
  BY <1>1 DEF Timely, QueuesTimely, SharedTimely, Shared, WndProcTimely, Subclassed, PosTimely
<1> QED
  BY <1>2, <1>3 DEF TimelyInv

\* The three invariants hold together.
LEMMA TimelyAlways == Spec => [](OpKnown /\ InjInv /\ TimelyInv)
<1> DEFINE Inv == OpKnown /\ InjInv /\ TimelyInv
<1>1. Init => Inv
  BY InjStart, OpStart, TimelyStart
<1>2. Inv /\ [Next]_vars => Inv'
  BY InjStep, OpStep, TimelyStep DEF OpKnown
<1> QED
  BY <1>1, <1>2, PTL DEF Spec

\* gsi_call_proc: as long as every call returned in time, a control has its own
\* window procedure back whenever it is not being moved, for all interleavings of
\* the two programs.
THEOREM ProceduresRestored == Spec => []WndProcRestored
<1>1. TimelyInv => WndProcRestored
  BY DEF TimelyInv, Timely, WndProcRestored, WndProcTimely, Subclassed, SharedTimely, Shared
<1> QED
  BY <1>1, TimelyAlways, PTL

\* scrollbar_r_scroll: a bar moved in time, in a program with the DLL or an odd
\* number of hooks, stands where the operator wanted it.
THEOREM PositionsSeen == Spec => []TrackedPositionSeen
<1>1. TimelyInv => TrackedPositionSeen
  <2> SUFFICES ASSUME TimelyInv, call.pc = "settle", tardy = 0, inj.mapped,
                      \/ loaded[Host] > 0
                      \/ OddHooks(Host) /\ call.bar \in Controls
               PROVE  pos[call.bar] = call.new
    BY DEF TrackedPositionSeen, Host
  <2> QED
    BY DEF TimelyInv, Timely, PosTimely, Answering
<1> QED
  BY <1>1, TimelyAlways, PTL

-----------------------------------------------------------------------------
(* Where the bars are put. *)

\* trunc of a fraction is a whole number, and of nothing it is nothing.
LEMMA TruncTyped ==
  ASSUME NEW num \in Int, NEW den \in Int, den # 0
  PROVE  Trunc(num, den) \in Int /\ (num = 0 => Trunc(num, den) = 0)
<1> DEFINE q == Abs(num) \div Abs(den)
<1>1. Abs(num) \in Nat /\ Abs(den) \in Nat \ {0}
  BY DEF Abs
<1>2. q \in Int
  BY <1>1
<1>3. num = 0 => q = 0
  <2> SUFFICES ASSUME num = 0 PROVE q = 0
    OBVIOUS
  <2>1. Abs(num) = 0
    BY DEF Abs
  <2>2. \A m \in Nat \ {0} : 0 \div m = 0
    OBVIOUS
  <2> QED
    BY <1>1, <2>1, <2>2
<1> HIDE DEF q
<1>4. Trunc(num, den) \in {q, -q}
  BY DEF Trunc, q
<1> QED
  BY <1>2, <1>3, <1>4

\* A product of positive numbers is one.
LEMMA Positive ==
  ASSUME NEW m \in Nat \ {0}, NEW n \in Nat \ {0}
  PROVE  m * n \in Nat \ {0}
OBVIOUS

\* A product of numbers that are not zero is none.
LEMMA NotZero ==
  ASSUME NEW m \in Int, NEW n \in Int, m # 0, n # 0
  PROVE  m * n \in Int /\ m * n # 0
OBVIOUS

\* What is kept within two ends.
LEMMA ClampWithin ==
  ASSUME NEW p \in Int, NEW lo \in Int, NEW hi \in Int, lo <= hi
  PROVE  Clamp(p, lo, hi) \in lo .. hi
BY DEF Clamp

\* The ends of a bar.
LEMMA EndsKnown ==
  ASSUME NEW b \in Bars
  PROVE  /\ Low(b) \in Int /\ High(b) \in Int /\ Low(b) <= High(b)
         /\ Whole(b) \in Int /\ PageOf(b) \in Int /\ BarInfo[b].page \in Int
         /\ BarInfo[b].start \in Low(b) .. High(b) /\ BarInfo[b].dir \in Axis
<1>1. /\ BarInfo[b].min \in Int /\ BarInfo[b].nmax \in Int /\ BarInfo[b].page \in Int
      /\ BarInfo[b].start \in Low(b) .. High(b) /\ BarInfo[b].dir \in Axis
  BY ScrollOpsAssumption DEF MovementAssumption, WindowsAssumption
<1>2. Low(b) \in Int
  BY <1>1 DEF Low
<1>3. High(b) \in Int
  BY <1>1 DEF High
<1>4. Whole(b) \in Int
  BY <1>1 DEF Whole
<1>5. PageOf(b) \in Int
  BY <1>1 DEF PageOf
<1> QED
  BY <1>1, <1>2, <1>3, <1>4, <1>5

\* A fraction.
IsSpeed(s) == s.num \in Int /\ s.den \in Int \ {0}

\* The speeds are fractions.
LEMMA SpeedKnown ==
  ASSUME NEW mode, NEW b \in Bars, NEW length \in Nat \ {0}
  PROVE  IsSpeed(Speed(mode, b, length))
<1>1. IsSpeed(DragSpeed(b, length))
  <2>1. CASE PageOf(b) >= Whole(b)
    BY <2>1 DEF DragSpeed, IsSpeed
  <2>2. CASE ~(PageOf(b) >= Whole(b))
    <3> DEFINE num == (High(b) - Low(b) + 1) * Whole(b)
               den == length * (Whole(b) - PageOf(b))
    <3>1. Whole(b) - PageOf(b) \in Nat \ {0}
      BY <2>2, EndsKnown
    <3>2. den \in Nat \ {0}
      BY <3>1, Positive
    <3>3. num \in Int
      BY EndsKnown
    <3> HIDE DEF num, den
    <3>4. DragSpeed(b, length) = [num |-> num, den |-> den]
      BY <2>2 DEF DragSpeed, num, den
    <3> QED
      BY <3>2, <3>3, <3>4 DEF IsSpeed
  <2> QED
    BY <2>1, <2>2
<1>2. IsSpeed([num |-> High(b) - Low(b), den |-> 100])
  BY EndsKnown DEF IsSpeed
<1>3. IsSpeed([num |-> 1, den |-> 1])
  BY DEF IsSpeed
<1>4. Speed(mode, b, length) \in {DragSpeed(b, length), [num |-> 1, den |-> 1],
                                  [num |-> High(b) - Low(b), den |-> 100]}
  BY DEF Speed
<1> QED
  BY <1>1, <1>2, <1>3, <1>4

\* What a movement is worth, and what is left of it.
LEMMA DistanceKnown ==
  ASSUME NEW s, IsSpeed(s), NEW delta \in Int
  PROVE  /\ Distance(s, delta) \in Int /\ Rest(s, delta) \in Int
         /\ Distance(s, delta) # 0 => s.num # 0
<1>1. s.num \in Int /\ s.den \in Int /\ s.den # 0 /\ Unit \in Int /\ Unit # 0
  BY ScrollOpsAssumption DEF IsSpeed
<1>2. Unit * s.den \in Int /\ Unit * s.den # 0
  BY <1>1, NotZero
<1>3. delta * s.num \in Int /\ (s.num = 0 => delta * s.num = 0)
  BY <1>1
<1>4. Distance(s, delta) \in Int /\ (s.num = 0 => Distance(s, delta) = 0)
  BY <1>2, <1>3, TruncTyped DEF Distance
<1>5. ASSUME s.num # 0 PROVE Rest(s, delta) \in Int
  <2>1. Distance(s, delta) * s.den * Unit \in Int
    BY <1>1, <1>4
  <2>2. Trunc(Distance(s, delta) * s.den * Unit, s.num) \in Int
    BY <1>1, <1>5, <2>1, TruncTyped
  <2> QED
    BY <1>5, <2>2 DEF Rest
<1> QED
  BY <1>4, <1>5 DEF Rest

\* The first of three that is given, the last of which is.
LEMMA FirstOfThree ==
  ASSUME NEW x \in Int \cup {Null}, NEW y \in Int \cup {Null}, NEW z \in Int
  PROVE  FirstOf(<<x, y, z>>) \in Int
<1> DEFINE f == <<x, y, z>>
           P(i) == f[i] # Null /\ \A j \in DOMAIN f : j < i => f[j] = Null
           i == CHOOSE i \in DOMAIN f : P(i)
<1>1. DOMAIN f = 1 .. 3 /\ f[1] = x /\ f[2] = y /\ f[3] = z
  OBVIOUS
<1>2. z # Null
  BY ScrollOpsAssumption DEF MovementAssumption
<1> HIDE DEF f
<1>3. \E k \in DOMAIN f : P(k)
  <2>1. CASE x # Null
    <3>1. P(1)
      BY <1>1, <2>1
    <3> QED
      BY <1>1, <3>1
  <2>2. CASE x = Null /\ y # Null
    <3>1. P(2)
      BY <1>1, <2>2
    <3> QED
      BY <1>1, <3>1
  <2>3. CASE x = Null /\ y = Null
    <3>1. P(3)
      BY <1>1, <1>2, <2>3
    <3> QED
      BY <1>1, <3>1
  <2> QED
    BY <2>1, <2>2, <2>3
<1>4. i \in DOMAIN f /\ f[i] # Null
  BY <1>3
<1>5. FirstOf(f) = f[i]
  BY DEF FirstOf
<1> HIDE DEF i
<1> QED
  BY <1>1, <1>4, <1>5 DEF f

\* The ratios of an operator.
LEMMA RatioKnown ==
  ASSUME NEW n \in Nodes, Expr[n].op \in Leaves, NEW default \in [Axis -> Int]
  PROVE  Ratio(n, default) \in [Axis -> Int]
<1> SUFFICES ASSUME NEW a \in Axis
             PROVE  FirstOf(<<Expr[n].ratio[a], OpConf[Expr[n].op].ratio[a], default[a]>>)
                      \in Int
  BY DEF Ratio
<1>1. /\ Expr[n].ratio[a] \in Int \cup {Null} /\ OpConf[Expr[n].op].ratio[a] \in Int \cup {Null}
      /\ default[a] \in Int
  BY ScrollOpsAssumption DEF MovementAssumption
<1> QED
  BY <1>1, FirstOfThree

\* A notch.
LEMMA TickKnown ==
  ASSUME NEW n \in Nodes, Expr[n].op = "wheel-message"
  PROVE  Tick(n) \in Int /\ Tick(n) # 0
<1> DEFINE x == Expr[n].tick
           y == OpConf[Expr[n].op].tick
<1>1. x \in Int \cup {Null}
  BY ScrollOpsAssumption DEF MovementAssumption
<1>2. y \in Int \cup {Null}
  <2>1. Expr[n].op \in Leaves
    BY DEF Leaves
  <2> QED
    BY <2>1, ScrollOpsAssumption DEF MovementAssumption
<1>3. Tick(n) # 0
  BY ScrollOpsAssumption DEF ExpressionsAssumption
<1>4. Tick(n) = FirstOf(<<x, y, 120>>)
  BY DEF Tick
<1> HIDE DEF x, y
<1>5. 120 \in Int
  OBVIOUS
<1>6. FirstOf(<<x, y, 120>>) \in Int
  BY <1>1, <1>2, <1>5, FirstOfThree
<1> QED
  BY <1>3, <1>4, <1>6

\* A whole number per axis.
LEMMA PairOfInts ==
  ASSUME NEW x \in Int, NEW y \in Int
  PROVE  <<x, y>> \in [Axis -> Int]
<1>1. <<x, y>> = [a \in Axis |-> IF a = 1 THEN x ELSE y]
  BY DEF Axis
<1> QED
  BY <1>1

\* What a movement adds.
LEMMA ScaledKnown ==
  ASSUME cx.node \in Nodes, Op \in Leaves, NEW d \in [Axis -> Int]
  PROVE  Scaled(d) \in [Axis -> Int]
<1> DEFINE r == Ratio(cx.node, Defaults(cx.node))
           by == [a \in Axis |-> d[a] * r[a]]
<1>1. Defaults(cx.node) \in [Axis -> Int]
  <2>1. Unit \in Int
    BY ScrollOpsAssumption
  <2>2. <<5 * Unit, -5 * Unit>> \in [Axis -> Int] /\ <<Unit, Unit>> \in [Axis -> Int]
    BY <2>1, PairOfInts
  <2>3. [a \in Axis |-> IF a \in {x \in Axis : cx.bars[x] # Null} THEN Unit ELSE 0]
          \in [Axis -> Int]
    BY <2>1
  <2> QED
    BY <2>2, <2>3, Zenon DEF Defaults
<1>2. r \in [Axis -> Int]
  BY <1>1, RatioKnown DEF Op
<1> HIDE DEF r
<1>3. \A a \in Axis : d[a] * r[a] \in Int
  BY <1>2
<1>4. by \in [Axis -> Int]
  BY <1>3
<1>5. by[1] + by[2] \in Int
  BY <1>4 DEF Axis
<1> HIDE DEF by
<1>6. Scaled(d) \in {by, [a \in Axis |-> IF cx.bars[a] # Null THEN by[1] + by[2] ELSE 0]}
  BY DEF Scaled, by, r
<1> QED
  BY <1>4, <1>5, <1>6

\* The movement kept is a whole number per axis, and the operator at work is an
\* expression, for a window.
DeltaKnown ==
  /\ cx.delta \in [Axis -> Int]
  /\ stage = "running" => cx.node \in Nodes /\ Top.win \in Windows

\* A movement is added.
LEMMA AddedDelta ==
  ASSUME OpKnown, DeltaKnown, stage = "running", Op \in Leaves, NEW d \in [Axis -> Int]
  PROVE  Added(d).delta \in [Axis -> Int] /\ IsContextOf(cx.node, cx.bars, Added(d))
<1> DEFINE delta == [a \in Axis |-> cx.delta[a] + Scaled(d)[a]]
           asked == [a \in Axis |-> cx.asked[a] + Scaled(d)[a]]
<1>1. Added(d) = [cx EXCEPT !.delta = delta, !.asked = asked]
  BY DEF Added
<1>2. Scaled(d) \in [Axis -> Int]
  BY ScaledKnown DEF DeltaKnown
<1>3. delta \in [Axis -> Int]
  BY <1>2 DEF DeltaKnown
<1> HIDE DEF delta, asked
<1>4. Added(d).delta = delta
  BY <1>1 DEF OpKnown, IsContext, IsContextOf
<1>5. IsContextOf(cx.node, cx.bars, Added(d))
  BY AddedContext DEF OpKnown, IsContext
<1> QED
  BY <1>3, <1>4, <1>5

\* Messages are posted.
LEMMA GivenDelta ==
  ASSUME NEW n, NEW bars, NEW c, IsContextOf(n, bars, c), c.delta \in [Axis -> Int],
         NEW k \in [Axis -> Int]
  PROVE  Given(c, k).delta \in [Axis -> Int]
<1> DEFINE delta == [a \in Axis |-> c.delta[a] - k[a] * Unit]
           given == [a \in Axis |-> c.given[a] + k[a]]
<1>1. Given(c, k) = [c EXCEPT !.delta = delta, !.given = given]
  BY DEF Given
<1>2. Unit \in Int
  BY ScrollOpsAssumption
<1>3. \A a \in Axis : k[a] * Unit \in Int
  BY <1>2
<1>4. delta \in [Axis -> Int]
  BY <1>3
<1> HIDE DEF delta, given
<1>5. Given(c, k).delta = delta
  BY <1>1 DEF IsContextOf
<1> QED
  BY <1>4, <1>5

\* The bar of a track bar's operator.
LEMMA TrackbarBar ==
  ASSUME OpKnown, stage = "running", NEW d, ScrollTrackbar(d)
  PROVE  FirstOf(cx.bars) \in Bars
<1>1. Op = "trackbar-control"
  BY DEF ScrollTrackbar, Moving
<1>2. PICK a \in Axis : cx.bars[a] # Null
  BY <1>1 DEF OpKnown, BarsKnown
<1>3. DOMAIN cx.bars = Axis
  BY DEF OpKnown, BarsKnown, PairKnown
<1>4. PICK i \in Axis : FirstOf(cx.bars) = cx.bars[i] /\ cx.bars[i] # Null
  BY <1>2, <1>3, FirstGiven
<1> QED
  BY <1>4 DEF OpKnown, BarsKnown, PairKnown

\* The length of a bar that is no window's.
LEMMA LengthKnown ==
  ASSUME NEW b \in Bars
  PROVE  BarInfo[b].length \in Nat \ {0}
BY ScrollOpsAssumption DEF MovementAssumption

\* The step of a track bar.
LEMMA TrackStepKnown ==
  ASSUME NEW b \in Bars, NEW delta \in Int
  PROVE  /\ IsSpeed(TrackSpeed(b)) /\ TrackDistance(b, delta) \in Int
         /\ TrackDistance(b, delta) # 0 => TrackSpeed(b).num # 0
<1> DEFINE s == TrackSpeed(b)
<1>1. IsSpeed(s)
  <2>1. IsSpeed([num |-> 1, den |-> 1])
    BY DEF IsSpeed
  <2>2. IsSpeed([num |-> BarInfo[b].page, den |-> 1])
    BY EndsKnown DEF IsSpeed
  <2>3. IsSpeed(Speed(ModeName(cx.node), b, BarInfo[b].length))
    BY LengthKnown, SpeedKnown
  <2>4. s \in {[num |-> 1, den |-> 1], [num |-> BarInfo[b].page, den |-> 1],
               Speed(ModeName(cx.node), b, BarInfo[b].length)}
    BY DEF TrackSpeed
  <2> HIDE DEF s
  <2> QED
    BY <2>1, <2>2, <2>3, <2>4
<1>2. Trunc(delta, Unit) \in Int
  BY ScrollOpsAssumption, TruncTyped
<1> HIDE DEF s
<1>3. /\ Trunc(delta, Unit) * s.num \in Int
      /\ Trunc(delta, Unit) * s.num # 0 => s.num # 0
  BY <1>1, <1>2 DEF IsSpeed
<1>4. TrackDistance(b, delta) \in {Trunc(delta, Unit) * s.num, Distance(s, delta)}
  BY DEF TrackDistance, s
<1> QED
  BY <1>1, <1>3, <1>4, DistanceKnown DEF s

\* The speed of an element's bar.
LEMMA IeSpeedKnown ==
  ASSUME NEW a \in Axis, NEW mode
  PROVE  IsSpeed(Speed(mode, IeBars[a], BarInfo[IeBars[a]].length))
<1>1. IeBars[a] \in Bars
  BY ScrollOpsAssumption DEF WindowsAssumption
<1> QED
  BY <1>1, LengthKnown, SpeedKnown

\* scroll of any operator keeps a whole number.
LEMMA DeltaScroll ==
  ASSUME OpKnown, DeltaKnown, Scroll
  PROVE  DeltaKnown'
<1> PICK d \in Deltas : \/ ScrollWheel(d) \/ ScrollPosted(d) \/ ScrollBars(d)
                        \/ ScrollTrackbar(d) \/ ScrollIe(d)
  BY DEF Scroll
<1>1. /\ stage = "running" /\ UNCHANGED <<stage, chain>>
      /\ Op \in {"wheel-message", "trackbar-control", "ie-scroll"} \cup BarOps
  BY DEF ScrollWheel, ScrollPosted, ScrollBars, ScrollTrackbar, ScrollIe, Moving
<1>2. /\ cx'.node = cx.node /\ cx.node \in Nodes
      /\ stage' = "running" => cx'.node \in Nodes /\ Top'.win \in Windows
  BY <1>1, ScrollContext DEF OpKnown, DeltaKnown, Top
<1> DEFINE c == Added(d)
<1>3. c.delta \in [Axis -> Int] /\ IsContextOf(cx.node, cx.bars, c)
  <2>1. Op \in Leaves
    BY <1>1 DEF Leaves, BarOps
  <2>2. d \in [Axis -> Int]
    BY ScrollOpsAssumption DEF MovementAssumption
  <2> QED
    BY <1>1, <2>1, <2>2, AddedDelta
<1>4. Unit \in Int /\ Unit # 0
  BY ScrollOpsAssumption
<1> HIDE DEF c
<1>5. CASE ScrollWheel(d)
  <2> DEFINE t == Tick(cx.node)
             k == [a \in Axis |-> Trunc(c.delta[a], Unit * t) * t]
             given == [a \in Axis |-> cx.given[a] + Int16(k[a])]
  <2>1. cx' = [Given(c, k) EXCEPT !.given = given]
    BY <1>5 DEF ScrollWheel, c
  <2>2. t \in Int /\ t # 0
    BY <1>2, <1>5, TickKnown DEF ScrollWheel, Moving, Op
  <2>3. k \in [Axis -> Int]
    <3> HIDE DEF t
    <3>1. Unit * t \in Int /\ Unit * t # 0
      BY <1>4, <2>2, NotZero
    <3>2. \A a \in Axis : Trunc(c.delta[a], Unit * t) \in Int
      BY <1>3, <3>1, TruncTyped
    <3> QED
      BY <2>2, <3>2
  <2> HIDE DEF k, given
  <2>4. Given(c, k).delta \in [Axis -> Int] /\ IsContextOf(cx.node, cx.bars, Given(c, k))
    BY <1>3, <2>3, GivenDelta, GivenContext
  <2>5. cx'.delta = Given(c, k).delta
    BY <2>1, <2>4 DEF IsContextOf
  <2> QED
    BY <1>2, <2>4, <2>5 DEF DeltaKnown
<1>6. CASE ScrollPosted(d)
  <2> DEFINE used == {a \in Axis : Op = "window-scrollbar" \/ cx.bars[a] # Null}
             k == [a \in Axis |-> IF a \in used THEN Trunc(c.delta[a], Unit) ELSE 0]
  <2>1. cx' = Given(c, k)
    BY <1>6 DEF ScrollPosted, c
  <2>2. \A a \in Axis : Trunc(c.delta[a], Unit) \in Int
    BY <1>3, <1>4, TruncTyped
  <2>3. k \in [Axis -> Int]
    <3> HIDE DEF used
    <3> QED
      BY <2>2
  <2> HIDE DEF k
  <2> QED
    BY <1>2, <1>3, <2>1, <2>3, GivenDelta DEF DeltaKnown
<1>7. CASE ScrollBars(d)
  BY <1>2, <1>3, <1>7 DEF ScrollBars, DeltaKnown, c
<1>8. CASE ScrollTrackbar(d)
  <2> DEFINE b == FirstOf(cx.bars)
             a == BarInfo[b].dir
             s == TrackSpeed(b)
             dd == TrackDistance(b, c.delta[a])
             to == Clamp(pos[b] + dd, Low(b), High(b))
             delta == c.delta[a] - Trunc(dd * s.den * Unit, s.num)
             exact == c.exact[a] /\ to = pos[b] + dd
  <2>1. \/ cx' = c
        \/ dd # 0 /\ cx' = [c EXCEPT !.delta[a] = delta, !.exact[a] = exact]
    BY <1>8 DEF ScrollTrackbar, c
  <2>2. b \in Bars
    BY <1>1, <1>8, TrackbarBar
  <2>3. a \in Axis
    BY <2>2, EndsKnown
  <2>4. dd # 0 => delta \in Int
    <3> SUFFICES ASSUME dd # 0 PROVE delta \in Int
      OBVIOUS
    <3>1. c.delta[a] \in Int
      BY <1>3, <2>3
    <3>2. IsSpeed(s) /\ dd \in Int /\ s.num # 0
      BY <2>2, <3>1, TrackStepKnown
    <3> DEFINE kept == c.delta[a]
               n == dd * s.den * Unit
               made == Trunc(n, s.num)
    <3>3. s.num \in Int /\ s.den \in Int
      BY <3>2 DEF IsSpeed
    <3> HIDE DEF s, dd
    <3>4. n \in Int
      BY <1>4, <3>2, <3>3
    <3> HIDE DEF n
    <3>5. made \in Int
      BY <3>2, <3>3, <3>4, TruncTyped
    <3> HIDE DEF made, kept
    <3>6. kept - made \in Int
      BY <3>1, <3>5 DEF kept
    <3> QED
      BY <3>6 DEF kept, made, n
  <2> HIDE DEF a, dd, delta, exact
  <2>5. CASE cx' = c
    BY <1>2, <1>3, <2>5 DEF DeltaKnown
  <2>6. CASE dd # 0 /\ cx' = [c EXCEPT !.delta[a] = delta, !.exact[a] = exact]
    <3>1. cx'.delta = [c.delta EXCEPT ![a] = delta]
      BY <1>3, <2>6 DEF IsContextOf
    <3> QED
      BY <1>2, <1>3, <2>3, <2>4, <2>6, <3>1 DEF DeltaKnown
  <2> QED
    BY <2>1, <2>5, <2>6
<1>9. CASE ScrollIe(d)
  <2> DEFINE s(a) == Speed(IeMode(cx.node), IeBars[a], BarInfo[IeBars[a]].length)
  <2> DEFINE dd(a) == Distance(s(a), c.delta[a])
             to(a) == Clamp(pos[IeBars[a]] + dd(a), Low(IeBars[a]), High(IeBars[a]))
             due(asks) == {a \in asks : PageOf(IeBars[a]) < Whole(IeBars[a]) /\ dd(a) # 0}
  <2>1. PICK asks \in SUBSET Axis, puts \in SUBSET Axis :
          cx' = [c EXCEPT
                   !.delta = [a \in Axis |-> IF a \in due(asks) THEN Rest(s(a), c.delta[a])
                                             ELSE c.delta[a]],
                   !.exact = [a \in Axis |-> c.exact[a] /\ (a \in due(asks) =>
                                 a \in puts /\ to(a) = pos[IeBars[a]] + dd(a))]]
    BY <1>9, Zenon DEF ScrollIe, c
  <2> DEFINE acts == due(asks)
             exact == [a \in Axis |-> c.exact[a] /\ (a \in due(asks) =>
                                 a \in puts /\ to(a) = pos[IeBars[a]] + dd(a))]
  <2>2. \A a \in Axis : IsSpeed(s(a))
    BY IeSpeedKnown
  <2>3. \A a \in Axis : Rest(s(a), c.delta[a]) \in Int
    <3> HIDE DEF s
    <3> QED
      BY <1>3, <2>2, DistanceKnown
  <2> DEFINE delta == [a \in Axis |-> IF a \in acts THEN Rest(s(a), c.delta[a])
                                      ELSE c.delta[a]]
  <2>4. delta \in [Axis -> Int]
    <3> HIDE DEF s
    <3> QED
      BY <1>3, <2>3
  <2>5. cx' = [c EXCEPT !.delta = delta, !.exact = exact]
    BY <2>1
  <2> HIDE DEF delta, exact
  <2>6. cx'.delta = delta
    BY <1>3, <2>5 DEF IsContextOf
  <2> QED
    BY <1>2, <2>4, <2>6 DEF DeltaKnown
<1> QED
  BY <1>5, <1>6, <1>7, <1>8, <1>9

\* What may be sent to a bar; a track bar's position is one of its own.
Messages == {"SB_THUMBTRACK", "SB_THUMBPOSITION", "hook_subclass_msg", "TBM_SETPOS"}
Mail == {m \in [msg : Messages, bar : Bars, val : Int] :
           m.msg = "TBM_SETPOS" => m.val \in Low(m.bar) .. High(m.bar)}
QueuesInRange == \A p \in Procs : queue[p] \in Seq(Mail)
\* A bar is being moved to a position of its own, by a speed.
CallInRange ==
  call.pc \notin {"none", "setpos"} =>
    call.new \in Low(call.bar) .. High(call.bar) /\ IsSpeed(call.speed)
\* So is the position in the shared memory, whichever call has left it there.
SharedInRange == shm.bar \in Bars => shm.track \in Low(shm.bar) .. High(shm.bar)
\* The positions, and all that one may be taken from.
RangeInv ==
  BarsInRange /\ DeltaKnown /\ QueuesInRange /\ CallInRange /\ SharedInRange

\* A position of a bar is a whole number.
LEMMA PosKnown ==
  ASSUME BarsInRange, NEW b \in Bars
  PROVE  pos[b] \in Int
BY EndsKnown DEF BarsInRange

\* A message is put into a queue.
LEMMA PostedInRange ==
  ASSUME TargetKnown, QueuesInRange, NEW b \in Bars, NEW msg \in Messages, NEW val \in Int,
         msg = "TBM_SETPOS" => val \in Low(b) .. High(b), Send(b, msg, val)
  PROVE  QueuesInRange'
<1> DEFINE m == [msg |-> msg, bar |-> b, val |-> val]
           p == procOf[b]
<1>1. m \in Mail
  BY DEF Mail
<1>2. p \in Procs
  BY DEF TargetKnown
<1>3. queue' = [queue EXCEPT ![p] = Append(queue[p], m)]
  BY DEF Send
<1> HIDE DEF m, p
<1>4. Append(queue[p], m) \in Seq(Mail)
  BY <1>1, <1>2 DEF QueuesInRange
<1> HIDE DEF Mail
<1>5. \A q \in Procs : queue'[q] = IF q = p THEN Append(queue[p], m) ELSE queue[q]
  BY <1>3 DEF TargetKnown
<1> QED
  BY <1>4, <1>5 DEF QueuesInRange

\* The next message of a queue.
LEMMA TakenInRange ==
  ASSUME TargetKnown, QueuesInRange, NEW p \in Procs, Handle(p)
  PROVE  QueuesInRange' /\ Head(queue[p]) \in Mail
<1>1. queue' = [queue EXCEPT ![p] = Tail(queue[p])] /\ queue[p] # <<>>
  BY DEF Handle
<1>2. queue[p] \in Seq(Mail)
  BY DEF QueuesInRange
<1>3. Tail(queue[p]) \in Seq(Mail) /\ Head(queue[p]) \in Mail
  BY <1>1, <1>2
<1>4. \A q \in Procs : queue'[q] = IF q = p THEN Tail(queue[p]) ELSE queue[q]
  BY <1>1 DEF TargetKnown
<1> QED
  BY <1>3, <1>4 DEF QueuesInRange

\* Nothing of what positions are taken from is changed.
RangeKept == UNCHANGED <<pos, queue, call>> /\ shm' \in {shm, NoShm}

\* Then they stay in range.
LEMMA KeptInRange ==
  ASSUME BarsInRange, QueuesInRange, CallInRange, SharedInRange, RangeKept
  PROVE  BarsInRange' /\ QueuesInRange' /\ CallInRange' /\ SharedInRange'
<1>1. NoShm.bar \notin Bars
  BY ScrollOpsAssumption DEF NoShm, WindowsAssumption
<1>2. SharedInRange'
  BY <1>1 DEF RangeKept, SharedInRange
<1> QED
  BY <1>2 DEF RangeKept, BarsInRange, QueuesInRange, CallInRange

\* Neither a start nor an end moves a bar.
LEMMA KeptByTry ==
  ASSUME TryStep \/ End \/ (\E sw \in ScrollWindows : Start(sw[1], sw[2])) \/ UNCHANGED vars
  PROVE  RangeKept
BY DEF TryStep, TryOr, TryApplyParent, InitWindowScrollbar, InitNeighborhood,
       InitScrollbarControl, InitTrackbar, InitWheel, InitIe, SearchIe, IeNotFound,
       IeFound, Inject, End, EndScroll, Uninject, Start, vars, targetVars, injectVars,
       RangeKept

\* scroll of the wheel and of the bars that lines are posted to sends nothing; that
\* of the others only says what is to be moved.
LEMMA ScrollElsewhere ==
  ASSUME OpKnown, RangeInv, NEW d, ScrollWheel(d) \/ ScrollPosted(d) \/ ScrollBars(d)
  PROVE  BarsInRange' /\ QueuesInRange' /\ CallInRange' /\ SharedInRange'
<1>1. CASE ScrollWheel(d) \/ ScrollPosted(d)
  <2>1. RangeKept
    BY <1>1 DEF ScrollWheel, ScrollPosted, RangeKept, targetVars, injectVars
  <2> QED
    BY <2>1, KeptInRange DEF RangeInv
<1>2. CASE ScrollBars(d)
  <2>1. UNCHANGED <<pos, queue, shm>> /\ call.pc = "none"
    BY <1>2 DEF ScrollBars, Moving, targetVars, injectVars
  <2>2. call'.pc = "none"
    BY <1>2, <2>1 DEF ScrollBars, OpKnown, CallKnown
  <2> QED
    BY <2>1, <2>2 DEF RangeInv, BarsInRange, QueuesInRange, CallInRange, SharedInRange
<1> QED
  BY <1>1, <1>2

\* A track bar is sent a position of its own.
LEMMA ScrollTrackbarInRange ==
  ASSUME OpKnown, TargetKnown, RangeInv, NEW d \in Deltas, ScrollTrackbar(d)
  PROVE  BarsInRange' /\ QueuesInRange' /\ CallInRange' /\ SharedInRange'
<1>1. CASE UNCHANGED <<targetVars, call>>
  <2>1. RangeKept
    BY <1>1 DEF ScrollTrackbar, RangeKept, targetVars, injectVars
  <2> QED
    BY <2>1, KeptInRange DEF RangeInv
<1>2. CASE ~UNCHANGED <<targetVars, call>>
  <2> DEFINE c == Added(d)
             b == FirstOf(cx.bars)
             a == BarInfo[b].dir
             dd == TrackDistance(b, c.delta[a])
             to == Clamp(pos[b] + dd, Low(b), High(b))
  <2>1. /\ Send(b, "TBM_SETPOS", to) /\ UNCHANGED <<pos, shm>>
        /\ call' = [NoCall EXCEPT !.pc = "setpos", !.bar = b]
    BY <1>2 DEF ScrollTrackbar, injectVars
  <2>2. stage = "running" /\ Op \in Leaves
    BY DEF ScrollTrackbar, Moving, Leaves
  <2>3. b \in Bars
    BY <2>2, TrackbarBar
  <2>4. c.delta[a] \in Int
    <3>1. d \in [Axis -> Int]
      BY ScrollOpsAssumption DEF MovementAssumption
    <3>2. c.delta \in [Axis -> Int]
      BY <2>2, <3>1, AddedDelta DEF RangeInv
    <3>3. a \in Axis
      BY <2>3, EndsKnown
    <3> HIDE DEF c, a
    <3> QED
      BY <3>2, <3>3
  <2>5. dd \in Int
    <3> HIDE DEF b, c, a
    <3> QED
      BY <2>3, <2>4, TrackStepKnown
  <2>6. to \in Int /\ to \in Low(b) .. High(b)
    <3> HIDE DEF b, dd
    <3>1. pos[b] \in Int
      BY <2>3, PosKnown DEF RangeInv
    <3>2. pos[b] + dd \in Int
      BY <2>5, <3>1
    <3>3. Low(b) \in Int /\ High(b) \in Int /\ Low(b) <= High(b)
      BY <2>3, EndsKnown
    <3>4. to \in Low(b) .. High(b)
      BY <3>2, <3>3, ClampWithin
    <3> QED
      BY <3>3, <3>4
  <2> HIDE DEF b, c, a, dd, to
  <2>7. QueuesInRange'
    BY <2>1, <2>3, <2>6, PostedInRange DEF RangeInv, Messages
  <2>8. call'.pc = "setpos"
    BY <2>1 DEF NoCall
  <2> QED
    BY <2>1, <2>7, <2>8 DEF RangeInv, BarsInRange, CallInRange, SharedInRange
<1> QED
  BY <1>1, <1>2

\* An element is put where it can be.
LEMMA ScrollIeInRange ==
  ASSUME OpKnown, TargetKnown, RangeInv, NEW d \in Deltas, ScrollIe(d)
  PROVE  BarsInRange' /\ QueuesInRange' /\ CallInRange' /\ SharedInRange'
<1> DEFINE c == Added(d)
           s(a) == Speed(IeMode(cx.node), IeBars[a], BarInfo[IeBars[a]].length)
           dd(a) == Distance(s(a), c.delta[a])
           to(a) == Clamp(pos[IeBars[a]] + dd(a), Low(IeBars[a]), High(IeBars[a]))
<1>1. PICK puts \in SUBSET Axis :
        pos' = [b \in Bars |-> IF \E a \in puts : IeBars[a] = b
                               THEN to(BarInfo[b].dir) ELSE pos[b]]
  BY Zenon DEF ScrollIe
<1>2. UNCHANGED <<queue, call, shm>>
  BY DEF ScrollIe, injectVars
<1>3. \A a \in Axis : to(a) \in Low(IeBars[a]) .. High(IeBars[a])
  <2> SUFFICES ASSUME NEW a \in Axis PROVE to(a) \in Low(IeBars[a]) .. High(IeBars[a])
    OBVIOUS
  <2> DEFINE b == IeBars[a]
             x == dd(a)
  <2>1. b \in Bars
    BY ScrollOpsAssumption DEF WindowsAssumption
  <2>2. c.delta[a] \in Int
    <3>1. stage = "running" /\ Op \in Leaves
      BY DEF ScrollIe, Moving, Leaves
    <3>2. d \in [Axis -> Int]
      BY ScrollOpsAssumption DEF MovementAssumption
    <3>3. c.delta \in [Axis -> Int]
      BY <3>1, <3>2, AddedDelta DEF RangeInv
    <3> HIDE DEF c
    <3> QED
      BY <3>3
  <2>3. IsSpeed(s(a))
    BY IeSpeedKnown
  <2>4. x \in Int
    <3> HIDE DEF s, c
    <3> QED
      BY <2>2, <2>3, DistanceKnown
  <2> HIDE DEF x, b
  <2>5. pos[b] + x \in Int
    BY <2>1, <2>4, PosKnown DEF RangeInv
  <2>6. Low(b) \in Int /\ High(b) \in Int /\ Low(b) <= High(b)
    BY <2>1, EndsKnown
  <2>7. Clamp(pos[b] + x, Low(b), High(b)) \in Low(b) .. High(b)
    BY <2>5, <2>6, ClampWithin
  <2> QED
    BY <2>7 DEF x, b
<1> HIDE DEF to
<1>4. BarsInRange'
  <2> SUFFICES ASSUME NEW b \in Bars PROVE pos'[b] \in Low(b) .. High(b)
    BY DEF BarsInRange
  <2>1. CASE \E a \in puts : IeBars[a] = b
    <3> PICK a \in puts : IeBars[a] = b
      BY <2>1
    <3>1. a \in Axis /\ BarInfo[b].dir = a
      BY ScrollOpsAssumption DEF WindowsAssumption
    <3>2. pos'[b] = to(a)
      BY <1>1, <2>1, <3>1
    <3> QED
      BY <1>3, <3>1, <3>2
  <2>2. CASE ~ \E a \in puts : IeBars[a] = b
    BY <1>1, <2>2 DEF RangeInv, BarsInRange
  <2> QED
    BY <2>1, <2>2
<1> QED
  BY <1>2, <1>4 DEF RangeInv, QueuesInRange, CallInRange, SharedInRange

\* A bar is grabbed to be moved within its range.
LEMMA GrabInRange ==
  ASSUME OpKnown, TargetKnown, RangeInv, NEW b \in Bars, NEW delta \in Int, NEW mode,
         NEW length \in Nat \ {0}, NEW todo, Grab(b, delta, mode, length, todo)
  PROVE  BarsInRange' /\ QueuesInRange' /\ CallInRange' /\ SharedInRange'
<1> DEFINE s == Speed(mode, b, length)
           dd == Distance(s, delta)
           to == Clamp(pos[b] + dd, Low(b), High(b))
<1>1. /\ call' = [pc |-> "grab", bar |-> b, org |-> pos[b], new |-> to, speed |-> s,
                  todo |-> todo]
      /\ Send(b, "SB_THUMBTRACK", pos[b]) /\ UNCHANGED <<pos, shm>>
  BY DEF Grab, injectVars
<1>2. IsSpeed(s)
  BY SpeedKnown
<1>3. to \in Low(b) .. High(b)
  <2> HIDE DEF s
  <2>1. dd \in Int
    BY <1>2, DistanceKnown
  <2> HIDE DEF dd
  <2>2. pos[b] + dd \in Int
    BY <2>1, PosKnown DEF RangeInv
  <2>3. Low(b) \in Int /\ High(b) \in Int /\ Low(b) <= High(b)
    BY EndsKnown
  <2> QED
    BY <2>2, <2>3, ClampWithin
<1> HIDE DEF s, to
<1>4. call'.bar = b /\ call'.new = to /\ call'.speed = s
  BY <1>1
<1>5. CallInRange'
  BY <1>2, <1>3, <1>4 DEF CallInRange
<1>6. QueuesInRange'
  BY <1>1, PosKnown, PostedInRange DEF RangeInv, Messages
<1> QED
  BY <1>1, <1>5, <1>6 DEF RangeInv, BarsInRange, SharedInRange

\* The bar and the position of the call, at work on one.
LEMMA CallPosition ==
  ASSUME OpKnown, CallInRange, call.pc \notin {"none", "setpos"}
  PROVE  call.bar \in Bars /\ call.new \in Int
BY EndsKnown DEF OpKnown, CallKnown, CallInRange

\* What a call sends on its way, and where it stores the position.
LEMMA CallInRangeStep ==
  ASSUME OpKnown, TargetKnown, RangeInv, CallStep
  PROVE  BarsInRange' /\ QueuesInRange' /\ CallInRange' /\ SharedInRange'
<1>1. CASE ScrollBar
  <2> DEFINE a == Head(call.todo)
             b == cx.bars[a]
             delta == cx.delta[a]
             mode == ModeName(cx.node)
             length == LengthOf(b)
             todo == Tail(call.todo)
  <2>1. \/ Grab(b, delta, mode, length, todo)
        \/ call' = [call EXCEPT !.todo = Tail(@)] /\ UNCHANGED <<targetVars, injectVars>>
    BY <1>1 DEF ScrollBar
  <2>2. call.pc = "none" /\ call.todo # <<>>
    BY <1>1 DEF ScrollBar
  <2>3. a \in Axis /\ b \in Bars
    <3> DEFINE A == {x \in Axis : cx.bars[x] # Null}
    <3>1. call.todo \in Seq(A)
      BY DEF OpKnown, CallKnown
    <3> HIDE DEF A
    <3>2. Head(call.todo) \in A
      BY <2>2, <3>1
    <3>3. a \in Axis /\ cx.bars[a] # Null
      BY <3>2 DEF A
    <3> QED
      BY <3>3 DEF OpKnown, BarsKnown, PairKnown
  <2>4. delta \in Int
    <3> HIDE DEF a
    <3> QED
      BY <2>3 DEF RangeInv, DeltaKnown
  <2>5. length \in Nat \ {0}
    <3> HIDE DEF b
    <3>1. stage = "running"
      BY <2>2 DEF OpKnown, CallKnown
    <3>2. WinInfo[Top.win].cx \in Nat \ {0}
      BY <3>1, ScrollOpsAssumption DEF RangeInv, DeltaKnown, MovementAssumption
    <3> QED
      BY <2>3, <3>2, LengthKnown DEF LengthOf
  <2> HIDE DEF a, b, delta, mode, length, todo
  <2>6. CASE Grab(b, delta, mode, length, todo)
    BY <2>3, <2>4, <2>5, <2>6, GrabInRange
  <2>7. CASE call' = [call EXCEPT !.todo = Tail(@)] /\ UNCHANGED <<targetVars, injectVars>>
    <3>1. call'.pc = "none" /\ UNCHANGED <<pos, queue, shm>>
      BY <2>2, <2>7 DEF OpKnown, CallKnown, targetVars, injectVars
    <3> QED
      BY <3>1 DEF RangeInv, BarsInRange, QueuesInRange, CallInRange, SharedInRange
  <2> QED
    BY <2>1, <2>6, <2>7
<1>2. ASSUME NEW pc, call.pc \notin {"none", "setpos"}, call' = [call EXCEPT !.pc = pc]
      PROVE  CallInRange'
  <2>1. call' = [pc |-> pc, bar |-> call.bar, org |-> call.org, new |-> call.new,
                 speed |-> call.speed, todo |-> call.todo]
    BY <1>2 DEF OpKnown, CallKnown
  <2>2. call'.bar = call.bar /\ call'.new = call.new /\ call'.speed = call.speed
    BY <2>1
  <2> QED
    BY <1>2, <2>2 DEF RangeInv, CallInRange
<1>3. CASE Publish
  <2>1. /\ call.pc = "grab" /\ call' = [call EXCEPT !.pc = "publish"] /\ UNCHANGED pos
        /\ shm' = [valid |-> TRUE, bar |-> call.bar, track |-> call.new]
        /\ UNCHANGED queue \/ Send(call.bar, "hook_subclass_msg", 0)
    BY <1>3 DEF Publish
  <2>2. call.bar \in Bars /\ call.new \in Low(call.bar) .. High(call.bar)
    BY <2>1, CallPosition DEF RangeInv, CallInRange
  <2>3. SharedInRange'
    BY <2>1, <2>2 DEF SharedInRange
  <2>4. QueuesInRange'
    <3>1. CASE UNCHANGED queue
      BY <3>1 DEF RangeInv, QueuesInRange
    <3>2. CASE Send(call.bar, "hook_subclass_msg", 0)
      BY <2>2, <3>2, PostedInRange DEF RangeInv, Messages
    <3> QED
      BY <2>1, <3>1, <3>2
  <2> QED
    BY <1>2, <2>1, <2>3, <2>4 DEF RangeInv, BarsInRange
<1>4. CASE Track \/ Drop \/ Restore
  <2>1. /\ call.pc \notin {"none", "setpos"} /\ UNCHANGED <<pos, shm>>
        /\ \E pc : call' = [call EXCEPT !.pc = pc]
        /\ \/ Send(call.bar, "SB_THUMBTRACK", call.new)
           \/ Send(call.bar, "SB_THUMBPOSITION", call.new)
           \/ Send(call.bar, "hook_subclass_msg", 0)
    BY <1>4 DEF Track, Drop, Restore, injectVars
  <2>2. QueuesInRange'
    BY <2>1, CallPosition, PostedInRange DEF RangeInv, Messages
  <2> QED
    BY <1>2, <2>1, <2>2 DEF RangeInv, BarsInRange, SharedInRange
<1>5. CASE Invalidate
  <2>1. /\ call.pc \notin {"none", "setpos"} /\ UNCHANGED <<pos, queue>>
        /\ call' = [call EXCEPT !.pc = "settle"]
        /\ shm' = [shm EXCEPT !.valid = IF inj.mapped THEN FALSE ELSE @]
    BY <1>5 DEF Invalidate, LastReturned
  <2>2. shm'.bar = shm.bar /\ shm'.track = shm.track
    BY <2>1 DEF TargetKnown
  <2> QED
    BY <1>2, <2>1, <2>2 DEF RangeInv, BarsInRange, QueuesInRange, SharedInRange
<1>6. CASE Settle \/ TrackbarSet
  <2>1. UNCHANGED <<pos, queue, shm>>
    BY <1>6 DEF Settle, TrackbarSet, targetVars, injectVars
  <2>2. call' = NoCall \/ \E todo : call' = [NoCall EXCEPT !.todo = todo]
    BY <1>6 DEF Settle, TrackbarSet
  <2>3. call'.pc = "none"
    BY <2>2 DEF NoCall
  <2> QED
    BY <2>1, <2>3 DEF RangeInv, BarsInRange, QueuesInRange, CallInRange, SharedInRange
<1> QED
  BY <1>1, <1>3, <1>4, <1>5, <1>6 DEF CallStep, BarStep

\* A message that is handled puts the bar where the shared memory says, if that
\* names the bar, or a track bar where the message says.
LEMMA HandleInRange ==
  ASSUME OpKnown, TargetKnown, RangeInv, NEW p \in Procs, Handle(p)
  PROVE  BarsInRange' /\ QueuesInRange' /\ CallInRange' /\ SharedInRange'
<1> DEFINE m == Head(queue[p])
<1>1. m \in Mail /\ QueuesInRange' /\ UNCHANGED <<shm, call>>
  BY TakenInRange DEF RangeInv, Handle
<1>2. \/ ThumbMoved(m) \/ UNCHANGED pos
      \/ m.msg = "TBM_SETPOS" /\ pos' = [pos EXCEPT ![m.bar] = m.val]
  BY DEF Handle
<1> HIDE DEF m
<1>3. m.bar \in Bars /\ (m.msg = "TBM_SETPOS" => m.val \in Low(m.bar) .. High(m.bar))
  BY <1>1 DEF Mail
<1>4. UNCHANGED pos \/ \E x \in Low(m.bar) .. High(m.bar) : pos' = [pos EXCEPT ![m.bar] = x]
  <2>1. CASE ThumbMoved(m) /\ Answered(m.bar)
    <3>1. pos' = [pos EXCEPT ![m.bar] = shm.track] /\ shm.bar = m.bar
      BY <2>1 DEF ThumbMoved, Answered
    <3>2. shm.track \in Low(m.bar) .. High(m.bar)
      BY <1>3, <3>1 DEF RangeInv, SharedInRange
    <3> QED
      BY <3>1, <3>2
  <2>2. CASE ThumbMoved(m) /\ ~Answered(m.bar)
    BY <1>3, <2>2 DEF ThumbMoved, TargetKnown
  <2> QED
    BY <1>2, <1>3, <2>1, <2>2
<1>5. BarsInRange'
  BY <1>3, <1>4 DEF RangeInv, BarsInRange, TargetKnown
<1> QED
  BY <1>1, <1>5 DEF RangeInv, CallInRange, SharedInRange

\* A step of the start: an operator accepts, or refuses, or the search goes on.
LEMMA TryOutcome ==
  ASSUME TryStep
  PROVE  \/ stage = "try" /\ \E bars : InitSucceeds(bars)
         \/ stage = "try" /\ (InitFails \/ UNCHANGED <<stage, cx>>)
         \/ UNCHANGED <<stage, chain, cx>>
<1>1. CASE InitWindowScrollbar
  BY <1>1 DEF InitWindowScrollbar, InitRefused, Trying
<1>2. CASE InitNeighborhood
  BY <1>2 DEF InitNeighborhood, InitRefused, Trying
<1>3. CASE InitScrollbarControl \/ InitTrackbar \/ InitWheel
  BY <1>3 DEF InitScrollbarControl, InitTrackbar, InitWheel, InitRefused, Trying
<1>4. CASE InitIe \/ SearchIe \/ IeNotFound \/ IeFound
  BY <1>4 DEF InitIe, SearchIe, IeNotFound, IeFound, InitRefused
<1>5. CASE TryOr \/ TryApplyParent
  BY <1>5 DEF TryOr, TryApplyParent
<1> QED
  BY <1>1, <1>2, <1>3, <1>4, <1>5 DEF TryStep

\* Every step keeps the movement a whole number.
LEMMA DeltaStep ==
  ASSUME OpKnown, RangeInv, [Next]_vars
  PROVE  DeltaKnown'
<1>0. Zero \in [Axis -> Int]
  BY DEF Zero
<1>1. CASE UNCHANGED <<stage, chain, cx>> \/ (UNCHANGED cx /\ stage' # "running")
  BY <1>1 DEF RangeInv, DeltaKnown, Top
<1>2. CASE \E sw \in ScrollWindows : Start(sw[1], sw[2])
  BY <1>1, <1>2 DEF Start
<1>3. CASE TryStep
  <2>1. CASE stage = "try" /\ \E bars : InitSucceeds(bars)
    <3>1. stage = "try"
      BY <2>1
    <3>2. Top.node \in Nodes /\ Top.win \in Windows
      BY <3>1, TopKnown DEF OpKnown
    <3> PICK bars : InitSucceeds(bars)
      BY <2>1
    <3>3. cx'.delta = Zero /\ cx'.node = Top.node /\ Top' = Top
      BY DEF InitSucceeds, NoContext, Top
    <3> QED
      BY <1>0, <3>2, <3>3 DEF DeltaKnown
  <2>2. CASE stage = "try" /\ (InitFails \/ UNCHANGED <<stage, cx>>)
    <3>1. UNCHANGED cx /\ stage' \in {stage, "failed"}
      BY <2>2 DEF InitFails
    <3> QED
      BY <1>1, <2>2, <3>1
  <2> QED
    BY <1>1, <1>3, <2>1, <2>2, TryOutcome
<1>4. CASE CallStep
  <2>1. CASE Settle
    <3> DEFINE a == BarInfo[call.bar].dir
               rest == Rest(call.speed, cx.delta[a])
               dd == Distance(call.speed, cx.delta[a])
               atEnd == call.new \in {Low(call.bar), High(call.bar)}
               moved(asked) == Moved(IF asked THEN pos[call.bar] ELSE 0)
               delta(asked) == IF moved(asked) THEN rest ELSE cx.delta[a]
               exact(asked) == cx.exact[a] /\
                               IF moved(asked)
                               THEN /\ call.new = call.org + dd
                                    /\ atEnd \/ ~asked => pos[call.bar] = call.new
                               ELSE asked \/ pos[call.bar] = call.org
    <3>0. UNCHANGED <<stage, chain>> /\ call.pc = "settle"
      BY <2>1 DEF Settle
    <3>1. PICK asked \in BOOLEAN :
            cx' = [cx EXCEPT !.delta[a] = delta(asked), !.exact[a] = exact(asked)]
      BY <2>1, Zenon DEF Settle
    <3>2. call.bar \in Bars /\ IsSpeed(call.speed)
      BY <3>0, CallPosition DEF RangeInv, CallInRange
    <3>3. a \in Axis
      BY <3>2, EndsKnown
    <3> HIDE DEF a, exact
    <3>4. cx.delta[a] \in Int
      BY <3>3 DEF RangeInv, DeltaKnown
    <3>5. rest \in Int
      BY <3>2, <3>4, DistanceKnown
    <3> HIDE DEF rest, moved
    <3>6. delta(asked) \in Int
      BY <3>4, <3>5
    <3> HIDE DEF delta
    <3>7. cx'.delta = [cx.delta EXCEPT ![a] = delta(asked)] /\ cx'.node = cx.node
      BY <3>1 DEF OpKnown, IsContext, IsContextOf
    <3> QED
      BY <3>0, <3>3, <3>6, <3>7 DEF RangeInv, DeltaKnown, Top
  <2>2. CASE ~Settle
    <3>1. UNCHANGED <<stage, chain, cx>>
      BY <1>4, <2>2 DEF CallStep, ScrollBar, BarStep, Invalidate, TrackbarSet
    <3> QED
      BY <1>1, <3>1
  <2> QED
    BY <2>1, <2>2
<1>5. CASE End
  BY <1>0, <1>5 DEF End, NoContext, DeltaKnown
<1>6. CASE Target \/ UNCHANGED vars
  BY <1>1, <1>6 DEF Target, vars
<1> QED
  BY <1>2, <1>3, <1>4, <1>5, <1>6, DeltaScroll DEF Next, RangeInv

\* Every step keeps the positions in range.
LEMMA RangeStep ==
  ASSUME OpKnown, TargetKnown, RangeInv, [Next]_vars
  PROVE  RangeInv'
<1>1. DeltaKnown'
  BY DeltaStep
<1>2. CASE TryStep \/ End \/ (\E sw \in ScrollWindows : Start(sw[1], sw[2])) \/ UNCHANGED vars
  BY <1>1, <1>2, KeptByTry, KeptInRange DEF RangeInv
<1>3. CASE Scroll
  BY <1>1, <1>3, ScrollElsewhere, ScrollTrackbarInRange, ScrollIeInRange DEF Scroll, RangeInv
<1>4. CASE CallStep
  BY <1>1, <1>4, CallInRangeStep DEF RangeInv
<1>5. CASE Target
  BY <1>1, <1>5, HandleInRange DEF Target, RangeInv
<1> QED
  BY <1>2, <1>3, <1>4, <1>5 DEF Next

\* At first the bars are where their programs have put them.
LEMMA RangeStart == Init => RangeInv
<1> SUFFICES ASSUME Init PROVE RangeInv
  OBVIOUS
<1>1. /\ pos = [b \in Bars |-> BarInfo[b].start] /\ queue = [p \in Procs |-> <<>>]
      /\ shm = NoShm /\ call = NoCall /\ cx = NoContext /\ stage = "idle"
  BY DEF Init, InjectInit
<1>2. BarsInRange
  BY <1>1, EndsKnown DEF BarsInRange
<1>3. DeltaKnown
  BY <1>1 DEF DeltaKnown, NoContext, Zero
<1>4. QueuesInRange
  BY <1>1 DEF QueuesInRange
<1>5. CallInRange
  BY <1>1 DEF CallInRange, NoCall
<1>6. SharedInRange
  BY <1>1, ScrollOpsAssumption DEF SharedInRange, NoShm, WindowsAssumption
<1> QED
  BY <1>2, <1>3, <1>4, <1>5, <1>6 DEF RangeInv

\* scrollbar_r_scroll and its like: no bar is ever put out of its range, for any
\* bars, ratios and movements, and however late the messages are handled.
THEOREM PositionsInRange == Spec => []BarsInRange
<1> DEFINE Inv == OpKnown /\ TargetKnown /\ RangeInv
<1>1. Init => Inv
  BY OpStart, TimelyStart, RangeStart DEF TimelyInv
<1>2. Inv /\ [Next]_vars => Inv'
  BY OpStep, TargetStep, RangeStep
<1>3. Inv => BarsInRange
  BY DEF RangeInv
<1> QED
  BY <1>1, <1>2, <1>3, PTL DEF Spec

=============================================================================
