------------------------------ MODULE MCScrollOps ------------------------------
(***************************************************************************)
(* A window with a page and scroll bars around it, inside a window with    *)
(* scroll bars of its own; a track bar and a scroll bar control as windows *)
(* of their own. The operator expressions are like those of                *)
(* conf/default.mprc: or, with apply-parent inside it, and the wheel last. *)
(***************************************************************************)
EXTENDS ScrollOps

CONSTANTS p1, p2, me, inner, outer, slider, stick, full,
          wH, wV, cH, cV, sV, tH, eH, eV, fH, d1, d2, body, fr, box

MCUnit == 2
Node(op, kids, mode, ratio) ==
  [op |-> op, kids |-> kids, num |-> 1, mode |-> mode, ratio |-> ratio,
   tick |-> Null]
None2 == <<Null, Null>>
MCExpr == <<
  Node("or", <<2, 3, 4, 5, 6>>, Null, None2),
  Node("ie-scroll", <<>>, "pixel", None2),
  Node("no-such-operator", <<>>, Null, None2),
  Node("neighborhood-scrollbar", <<>>, "drag", None2),
  Node("apply-parent", <<7>>, Null, None2),
  Node("wheel-message", <<>>, Null, None2),
  Node("or", <<8, 9>>, Null, None2),
  Node("window-scrollbar", <<>>, Null, <<2, 4>>),
  Node("trackbar-control", <<>>, "line-scroll", None2),
  Node("or", <<3, 11, 12, 13>>, Null, None2),
  Node("apply-parent", <<3>>, Null, None2),
  Node("scrollbar-control", <<>>, "percentage", <<100, 50>>),
  Node("trackbar-control", <<>>, "drag", None2),
  Node("or", <<15, 16>>, Null, None2),
  Node("ie-scroll", <<>>, "line-scroll", None2),
  Node("window-scrollbar", <<>>, "line-scroll", <<1, 3>>),
  Node("or", <<18, 19, 20>>, Null, None2),
  Node("scrollbar-control", <<>>, "drag", None2),
  Node("neighborhood-scrollbar", <<>>, "bar-unit", <<1, 3>>),
  Node("trackbar-control", <<>>, "page-scroll", None2) >>
MCNodes == DOMAIN MCExpr
MCOpConf == [op \in Leaves |->
  [mode |-> Null, ratio |-> None2,
   tick |-> IF op = "wheel-message" THEN 3 ELSE Null]]

Bar(kind, dir, nmax, page, length) ==
  [kind |-> kind, dir |-> dir, min |-> 0, nmax |-> nmax, page |-> page,
   length |-> length, start |-> IF page > nmax THEN 0 ELSE 2]
MCBarInfo ==
  wH :> Bar("window", 1, 5, 2, 15) @@ wV :> Bar("window", 2, 5, 2, 30) @@
  cH :> Bar("control", 1, 5, 2, 15) @@ cV :> Bar("control", 2, 5, 2, 30) @@
  sV :> Bar("control", 2, 4, 0, 10) @@ tH :> Bar("track", 1, 4, 2, 10) @@
  eH :> Bar("element", 1, 6, 2, 10) @@ eV :> Bar("element", 2, 6, 2, 10) @@
  fH :> Bar("control", 1, 4, 5, 10)
MCBars == {wH, wV, cH, cV, sV, tH, eH, eV, fH}

Window(parent, own, children, control, track, doc) ==
  [parent |-> parent, own |-> own, children |-> children, control |-> control,
   track |-> track, doc |-> doc, cx |-> 15]
MCWinInfo ==
  outer :> Window(Null, <<wH, wV>>, <<cH, cV>>, Null, Null, Null) @@
  inner :> Window(outer, None2, <<>>, Null, Null, d1) @@
  slider :> Window(outer, None2, <<cV, sV>>, Null, tH, Null) @@
  stick :> Window(outer, None2, <<>>, sV, Null, Null) @@
  full :> Window(outer, None2, <<>>, fH, tH, Null)
MCWindows == {outer, inner, slider, stick, full}
MCIeBars == <<eH, eV>>

\* A body with a frame, and a box inside the frame's document.
MCPage ==
  LET none == [e \in {body, fr, box} |-> Null]
  IN  [doc |-> [none EXCEPT ![body] = d1, ![fr] = d1, ![box] = d2],
       frame |-> [none EXCEPT ![fr] = d2],
       offsetParent |-> [none EXCEPT ![fr] = body],
       parentElement |-> [none EXCEPT ![fr] = body],
       frameset |-> [e \in {body, fr, box} |-> FALSE],
       scrollable |-> [e \in {body, fr, box} |-> e # fr]]

\* All in one program; or some in another, and one in this program itself.
Together == [b \in MCBars |-> p1]
Apart    == [Together EXCEPT ![cV] = p2, ![sV] = me]
MCProcChoices == {Together, Apart}

\* Some are parts of others, so that each operator and mode comes to move; the
\* page of full's bar is as long as the whole.
MCScrollWindows == {<<1, inner>>, <<4, outer>>, <<6, stick>>, <<10, stick>>,
                    <<10, slider>>, <<13, slider>>, <<14, inner>>,
                    <<14, outer>>, <<17, full>>}

\* A second start meets what the first left; what is left of a movement meets
\* the next one, onwards or back.
MCLimits == Together :> {<<0, 1>>} @@ Apart :> {<<2>>}
MCDeltas == {<<-3, 2>>, <<1, -1>>}
=============================================================================
