--------------------------- MODULE OperatorContext ---------------------------
(***************************************************************************)
(* What the scroll operators share (scroll_op.c): the mode and the ratios  *)
(* an operator takes from its arguments, its configuration or its          *)
(* defaults, and how a movement becomes a number of positions of a bar.    *)
(* The C code computes with doubles; here a movement is an integer number  *)
(* of 1/Unit, and the speeds of the instances divide it exactly.           *)
(***************************************************************************)
EXTENDS Integers, Sequences

CONSTANTS
  Null,
  Unit,      \* the parts a movement of one is counted in
  Nodes,     \* the operator expressions of the settings
  Expr,      \* [Nodes -> [op, kids, num, mode, ratio, tick]]
  OpConf,    \* [operator name -> [mode, ratio, tick]]: its configuration
  Bars,      \* what can be scrolled: bars, track bars, axes of an element
  BarInfo    \* [Bars -> [kind, dir, min, nmax, page, length, start]]

Axis == {1, 2}              \* horizontal, vertical

Leaves == {"window-scrollbar", "neighborhood-scrollbar", "scrollbar-control",
           "trackbar-control", "ie-scroll", "wheel-message"}
Operators == Leaves \cup {"or", "apply-parent"}

BarModes == {"line-scroll", "page-scroll", "drag", "percentage", "bar-unit"}
ModeMap == [op \in Leaves |->
              CASE op = "ie-scroll" -> {"drag", "percentage", "pixel"}
                [] op = "wheel-message" -> {}
                [] OTHER -> BarModes]

-----------------------------------------------------------------------------
FirstOf(values) ==
  values[CHOOSE i \in DOMAIN values :
           values[i] # Null /\ \A j \in DOMAIN values : j < i => values[j] = Null]

\* A symbol as first argument, default-mode of the configuration, "drag".
ModeName(n) == FirstOf(<<Expr[n].mode, OpConf[Expr[n].op].mode, "drag">>)
KnownMode(n) == ModeName(n) \in ModeMap[Expr[n].op]

Ratio(n, default) ==
  [a \in Axis |-> FirstOf(<<Expr[n].ratio[a], OpConf[Expr[n].op].ratio[a],
                            default[a]>>)]
Tick(n) == FirstOf(<<Expr[n].tick, OpConf[Expr[n].op].tick, 120>>)

-----------------------------------------------------------------------------
Abs(i) == IF i < 0 THEN -i ELSE i

\* trunc(num / den): towards zero.
Trunc(num, den) == IF (num < 0) = (den < 0) THEN Abs(num) \div Abs(den)
                                            ELSE -(Abs(num) \div Abs(den))

\* Mutant of Clamp: the upper end is not checked.
ClampBelow(p, lo, hi) == IF p < lo THEN lo ELSE p
Clamp(p, lo, hi) == IF p < lo THEN lo ELSE IF p > hi THEN hi ELSE p

Low(b) == BarInfo[b].min
High(b) == LET i == BarInfo[b] IN
  CASE i.kind = "element" -> i.nmax - i.page
    [] i.kind = "track" -> i.nmax
    [] OTHER -> i.nmax - (IF i.page = 0 THEN 0 ELSE i.page - 1)
Whole(b) == LET i == BarInfo[b] IN
  CASE i.kind = "element" -> i.nmax
    [] i.kind = "track" -> 1
    [] OTHER -> i.nmax - i.min + 1
PageOf(b) == IF BarInfo[b].kind = "track" THEN 0 ELSE BarInfo[b].page

\* Positions per movement, as a fraction. A page as long as the whole gives 0.
DragSpeed(b, length) ==
  IF PageOf(b) >= Whole(b) THEN [num |-> 0, den |-> 1]
  ELSE [num |-> (High(b) - Low(b) + 1) * Whole(b),
        den |-> length * (Whole(b) - PageOf(b))]
Speed(mode, b, length) ==
  CASE mode = "drag" -> DragSpeed(b, length)
    [] mode = "percentage" -> [num |-> High(b) - Low(b), den |-> 100]
    [] OTHER -> [num |-> 1, den |-> 1]

\* The positions a movement is worth, and the movement that is left then.
Distance(s, delta) == Trunc(delta * s.num, Unit * s.den)
Rest(s, delta) == IF s.num = 0 THEN delta
                  ELSE delta - Trunc(Distance(s, delta) * s.den * Unit, s.num)
=============================================================================
