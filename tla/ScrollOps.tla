------------------------------- MODULE ScrollOps -------------------------------
(***************************************************************************)
(* The scroll operators, from the start of the scroll mode to its end:     *)
(* how or and apply-parent look for an operator that can scroll the window *)
(* (scroll_op_meta.c), how the operators for windows, scroll bars, track   *)
(* bars, Internet Explorer and the wheel turn movements into positions,    *)
(* and what they leave behind in other programs. scroll.c calls them in    *)
(* the program's main thread; the other programs run beside it.            *)
(***************************************************************************)
EXTENDS ScrollbarInject, IeTarget, FiniteSets, SequencesExt

CONSTANTS
  Windows, WinInfo,  \* [parent, own, children, control, track, doc, cx]
  IeBars,            \* the scroll positions of an element, by axis
  ScrollWindows,     \* the expressions that scroll-window gives to windows
  Deltas,            \* the movements of the pointer: pairs
  Limits             \* how many movements from each start, see Within

VARIABLES
  stage,    \* "idle", "try" (init_context runs), "running", "failed"
  chain,    \* the nested operators: [node, win, alt] from the outermost
  cx,       \* the context of the operator that does the work
  tried,    \* history: the <<operator, window>> pairs tried since the start
  lost,     \* history: per object, references given up by a failed start
  moves     \* the movements since each start

vars == <<stage, chain, cx, tried, lost, moves,
          targetVars, injectVars, call, ieVars>>

\* The bound on what a user does, with bars in these processes.
Within(m) ==
  \E l \in Limits[procOf] : Len(m) <= Len(l) /\ \A i \in DOMAIN m : m[i] <= l[i]

Valid(n) == Expr[n].op \in Operators      \* well formed, and registered

\* The expressions are numbered, an operator before those it tries, so that they
\* are finite; dividing by a tick of zero is undefined.
ExpressionsAssumption ==
  /\ IsFiniteSet(Nodes) /\ Nodes = 1 .. Cardinality(Nodes)
  /\ \A n \in Nodes :
       /\ Expr[n].kids \in Seq(Nodes) /\ Expr[n].num \in Nat
       /\ \A i \in DOMAIN Expr[n].kids :
            Valid(Expr[n].kids[i]) => Expr[n].kids[i] > n
       /\ Expr[n].op = "apply-parent" => Expr[n].kids # <<>>
       /\ Expr[n].op = "wheel-message" => Tick(n) # 0

\* A window's parent, and the bars found for it.
WindowsAssumption ==
  /\ Null \notin Windows \cup Bars
  /\ ScrollWindows \subseteq Nodes \X Windows
  /\ \A w \in Windows :
       /\ WinInfo[w].parent \in Windows \cup {Null}
       /\ WinInfo[w].own \in [Axis -> Bars \cup {Null}]
       /\ WinInfo[w].children \in Seq(Bars)
       /\ {WinInfo[w].control, WinInfo[w].track} \subseteq Bars \cup {Null}
  /\ IeBars \in [Axis -> Bars] /\ \A a \in Axis : BarInfo[IeBars[a]].dir = a
  /\ \A b \in Bars : BarInfo[b].dir \in Axis

\* Movements and ratios are whole numbers, lengths are not zero, and a bar is
\* within its range before it is scrolled.
MovementAssumption ==
  /\ Null \notin Int /\ Deltas \subseteq [Axis -> Int]
  /\ \A n \in Nodes : /\ Expr[n].ratio \in [Axis -> Int \cup {Null}]
                       /\ Expr[n].tick \in Int \cup {Null}
  /\ \A op \in Leaves : /\ OpConf[op].ratio \in [Axis -> Int \cup {Null}]
                         /\ OpConf[op].tick \in Int \cup {Null}
  /\ \A b \in Bars : /\ {BarInfo[b].min, BarInfo[b].nmax, BarInfo[b].page} \subseteq Int
                      /\ BarInfo[b].length \in Nat \ {0}
                      /\ BarInfo[b].start \in Low(b) .. High(b)
  /\ \A w \in Windows : WinInfo[w].cx \in Nat \ {0}

ASSUME ScrollOpsAssumption ==
  /\ Unit \in Nat \ {0}
  /\ ExpressionsAssumption /\ WindowsAssumption /\ MovementAssumption

Zero == [a \in Axis |-> 0]
NoContext == [node |-> Null, bars |-> <<Null, Null>>, delta |-> Zero,
              asked |-> Zero, given |-> Zero, origin |-> Zero,
              exact |-> [a \in Axis |-> TRUE]]

Init ==
  /\ stage = "idle" /\ chain = <<>> /\ cx = NoContext /\ tried = <<>>
  /\ moves = <<>>
  /\ lost = [o \in Objects |-> 0]
  /\ InjectInit /\ IeInit

Top == Last(chain)
Op == Expr[cx.node].op
Parent(w) == WinInfo[w].parent

\* apply-parent's walk: at most num times to the parent, as long as there is one.
Ancestor[num \in Nat] ==
  [w \in Windows |->
     IF num = 0 \/ Parent(w) = Null THEN w ELSE Ancestor[num - 1][Parent(w)]]

-----------------------------------------------------------------------------
(* start_scroll_mode and the meta operators *)

Start(n, w) ==
  /\ stage = "idle" /\ Within(Append(moves, 0))
  /\ stage' = "try" /\ moves' = Append(moves, 0)
  /\ chain' = <<[node |-> n, win |-> w, alt |-> 1]>>
  /\ tried' = <<>>
  /\ UNCHANGED <<cx, lost, targetVars, injectVars, call, ieVars>>

\* init_context of the innermost operator returns 0: its context is freed and
\* the one around it is tried further. The outermost stays allocated.
InitFails ==
  /\ IF Len(chain) = 1 THEN stage' = "failed" /\ UNCHANGED chain
     ELSE /\ chain' = [Front(chain) EXCEPT ![Len(chain) - 1].alt = @ + 1]
          /\ UNCHANGED stage
  /\ UNCHANGED cx

Nest(n, w) == chain' = Append(chain, [node |-> n, win |-> w, alt |-> 1])
Skip == chain' = [chain EXCEPT ![Len(chain)].alt = @ + 1]

\* Mutant of TryOr: an operator that is not registered ends the search.
TryOrGivesUp ==
  /\ stage = "try" /\ Expr[Top.node].op = "or"
  /\ LET kids == Expr[Top.node].kids IN
     IF Top.alt > Len(kids) \/ ~Valid(kids[Top.alt]) THEN InitFails
     ELSE Nest(kids[Top.alt], Top.win) /\ UNCHANGED <<stage, cx>>
  /\ UNCHANGED <<tried, lost, moves, targetVars, injectVars, call, ieVars>>

TryOr ==
  /\ stage = "try" /\ Expr[Top.node].op = "or"
  /\ LET kids == Expr[Top.node].kids IN
     IF Top.alt > Len(kids) THEN InitFails
     ELSE /\ IF Valid(kids[Top.alt]) THEN Nest(kids[Top.alt], Top.win) ELSE Skip
          /\ UNCHANGED <<stage, cx>>
  /\ UNCHANGED <<tried, lost, moves, targetVars, injectVars, call, ieVars>>

TryApplyParent ==
  /\ stage = "try" /\ Expr[Top.node].op = "apply-parent"
  /\ LET kid == Expr[Top.node].kids[1] IN
     IF Top.alt = 1 /\ Valid(kid)
     THEN /\ Nest(kid, Ancestor[Expr[Top.node].num][Top.win])
          /\ UNCHANGED <<stage, cx>>
     ELSE InitFails
  /\ UNCHANGED <<tried, lost, moves, targetVars, injectVars, call, ieVars>>

Tried == tried' = Append(tried, <<Expr[Top.node].op, Top.win>>)

\* The operator itself is started: every operator around it is, too.
InitSucceeds(bars) ==
  /\ stage' = "running" /\ UNCHANGED chain
  /\ Tried
  /\ cx' = [NoContext EXCEPT
              !.node = Top.node, !.bars = bars,
              !.origin = [a \in Axis |->
                            IF bars[a] = Null THEN 0 ELSE pos[bars[a]]]]

InitRefused == Tried /\ InitFails

-----------------------------------------------------------------------------
(* init_context of the operators; each of its system calls may fail *)

Trying(op) == stage = "try" /\ Expr[Top.node].op = op
Posts(n) == ModeName(n) \in {"line-scroll", "page-scroll"}
Beside(b) == [a \in Axis |-> IF b # Null /\ BarInfo[b].dir = a THEN b ELSE Null]

InitWindowScrollbar ==
  /\ Trying("window-scrollbar")
  /\ LET bars == WinInfo[Top.win].own
         n == Top.node IN
     \/ InitRefused /\ UNCHANGED injectVars
     \/ /\ KnownMode(n)
        /\ Posts(n) \/ bars # <<Null, Null>>
        /\ InitSucceeds(bars)
        /\ IF Posts(n) THEN UNCHANGED injectVars
           ELSE Inject(FirstOf(bars), Null, FALSE)
  /\ UNCHANGED <<lost, moves, targetVars, call, ieVars>>

\* enum_neighborhood_scrollbar: two bars of one direction are as good as none.
Neighbours(controls) ==
  LET along(a) == {b \in ToSet(controls) : BarInfo[b].dir = a}
      the(a) == IF along(a) = {} THEN Null ELSE CHOOSE b \in along(a) : TRUE
  IN  IF \E a \in Axis : Cardinality(along(a)) > 1 THEN <<Null, Null>>
      ELSE <<the(1), the(2)>>

\* The bars inside the window, then those inside its parent.
NeighbourBars(w) ==
  LET inside == Neighbours(WinInfo[w].children)
  IN  IF inside # <<Null, Null>> \/ Parent(w) = Null THEN inside
      ELSE Neighbours(WinInfo[Parent(w)].children)

InitNeighborhood ==
  /\ Trying("neighborhood-scrollbar")
  /\ LET bars == NeighbourBars(Top.win) IN
     \/ InitRefused /\ UNCHANGED injectVars
     \/ /\ KnownMode(Top.node) /\ bars # <<Null, Null>>
        /\ InitSucceeds(bars)
        /\ Inject(bars[1], bars[2], TRUE)
  /\ UNCHANGED <<lost, moves, targetVars, call, ieVars>>

InitScrollbarControl ==
  /\ Trying("scrollbar-control")
  /\ LET b == WinInfo[Top.win].control IN
     \/ InitRefused /\ UNCHANGED injectVars
     \/ /\ KnownMode(Top.node) /\ b # Null /\ Parent(Top.win) # Null
        /\ InitSucceeds(Beside(b))
        /\ Inject(b, Null, TRUE)
  /\ UNCHANGED <<lost, moves, targetVars, call, ieVars>>

InitTrackbar ==
  /\ Trying("trackbar-control")
  /\ LET b == WinInfo[Top.win].track IN
     \/ InitRefused
     \/ /\ KnownMode(Top.node) /\ b # Null /\ Parent(Top.win) # Null
        /\ queue[procOf[b]] = <<>>          \* TBM_GETTHUMBLENGTH is answered
        /\ InitSucceeds(Beside(b))
  /\ UNCHANGED <<lost, moves, targetVars, injectVars, call, ieVars>>

InitWheel ==
  /\ Trying("wheel-message")
  /\ InitSucceeds(<<Null, Null>>)
  /\ UNCHANGED <<lost, moves, targetVars, injectVars, call, ieVars>>

InitIe ==
  /\ Trying("ie-scroll") /\ ie.pc = "none"
  /\ \/ NoTopDocument
     \/ WinInfo[Top.win].doc # Null /\ GetTopDocument(WinInfo[Top.win].doc)
  /\ UNCHANGED <<stage, chain, cx, tried, lost, moves, targetVars,
                 injectVars, call>>

SearchIe ==
  /\ WalkStep
  /\ UNCHANGED <<stage, chain, cx, tried, lost, moves, targetVars,
                 injectVars, call>>

IeNotFound ==
  /\ stage = "try" /\ ie.pc = "failed"
  /\ InitRefused
  /\ ie' = NoWalk
  /\ UNCHANGED <<refs, lost, moves, targetVars, injectVars, call>>

\* With the target found, an unknown mode, its size or its property ids may
\* still refuse it; its reference is then not released.
IeFound ==
  /\ stage = "try" /\ ie.pc = "found"
  /\ \/ /\ KnownMode(Top.node)
        /\ InitSucceeds(IeBars)
        /\ ie' = [ie EXCEPT !.pc = "none"]
        /\ UNCHANGED lost
     \/ /\ InitRefused
        /\ ie' = NoWalk
        /\ lost' = Got(lost, ie.walk)
  /\ UNCHANGED <<refs, moves, targetVars, injectVars, call>>

-----------------------------------------------------------------------------
(* scroll *)

Defaults(n) ==
  LET dir == {a \in Axis : cx.bars[a] # Null}
  IN  CASE Op = "wheel-message" -> <<5 * Unit, -5 * Unit>>
        [] Op \in {"scrollbar-control", "trackbar-control"} ->
             [a \in Axis |-> IF a \in dir THEN Unit ELSE 0]
        [] OTHER -> <<Unit, Unit>>

\* The movement per axis; a control adds both up for its own direction.
Scaled(d) ==
  LET r == Ratio(cx.node, Defaults(cx.node))
      by == [a \in Axis |-> d[a] * r[a]]
  IN  IF Op \in {"scrollbar-control", "trackbar-control"}
      THEN [a \in Axis |-> IF cx.bars[a] # Null THEN by[1] + by[2] ELSE 0]
      ELSE by

Moving(d, ops) ==
  /\ stage = "running" /\ call.pc = "none" /\ call.todo = <<>>
  /\ moves' = [moves EXCEPT ![Len(moves)] = @ + 1] /\ Within(moves')
  /\ Op \in ops
  /\ UNCHANGED <<stage, chain, tried, lost>>

\* Mutant of Added: what was kept of the movements before is forgotten.
AddedAnew(d) ==
  [cx EXCEPT !.delta = [a \in Axis |-> Scaled(d)[a]],
             !.asked = [a \in Axis |-> @[a] + Scaled(d)[a]]]

Added(d) ==
  [cx EXCEPT !.delta = [a \in Axis |-> @[a] + Scaled(d)[a]],
             !.asked = [a \in Axis |-> @[a] + Scaled(d)[a]]]

\* n[a] of each axis has been posted.
Given(c, n) ==
  [c EXCEPT !.delta = [a \in Axis |-> @[a] - n[a] * Unit],
            !.given = [a \in Axis |-> @[a] + n[a]]]

\* A message takes the number as 16 bits.
Int16(n) == ((n + 32768) % 65536) - 32768

ScrollWheel(d) ==
  /\ Moving(d, {"wheel-message"})
  /\ LET c == Added(d)
         t == Tick(cx.node)
         n == [a \in Axis |-> Trunc(c.delta[a], Unit * t) * t] IN
     cx' = [Given(c, n) EXCEPT
              !.given = [a \in Axis |-> cx.given[a] + Int16(n[a])]]
  /\ UNCHANGED <<targetVars, injectVars, call, ieVars>>

BarOps == {"window-scrollbar", "neighborhood-scrollbar", "scrollbar-control"}

\* scrollbar_line_scroll, scrollbar_page_scroll: one message for every line.
ScrollPosted(d) ==
  /\ Moving(d, BarOps) /\ Posts(cx.node)
  /\ LET c == Added(d)
         used == {a \in Axis : Op = "window-scrollbar" \/ cx.bars[a] # Null} IN
     cx' = Given(c, [a \in Axis |->
                       IF a \in used THEN Trunc(c.delta[a], Unit) ELSE 0])
  /\ UNCHANGED <<targetVars, injectVars, call, ieVars>>

\* The other modes move one bar after the other.
Along(a) == IF cx.bars[a] = Null THEN <<>> ELSE <<a>>
ScrollBars(d) ==
  /\ Moving(d, BarOps) /\ ~Posts(cx.node)
  /\ cx' = Added(d)
  /\ call' = [call EXCEPT !.todo = Along(1) \o Along(2)]
  /\ UNCHANGED <<targetVars, injectVars, ieVars>>

\* window-scrollbar gives both its bars the window's width.
LengthOf(b) == IF BarInfo[b].kind = "window" THEN WinInfo[Top.win].cx
                                             ELSE BarInfo[b].length

\* GetScrollInfo asks a control by a message, without a time-out.
InfoAnswered(b) == b \in Controls => queue[procOf[b]] = <<>>

ScrollBar ==
  /\ call.pc = "none" /\ call.todo # <<>>
  /\ LET a == Head(call.todo)
         b == cx.bars[a] IN
     /\ InfoAnswered(b)
     /\ \/ Grab(b, cx.delta[a], ModeName(cx.node), LengthOf(b), Tail(call.todo))
        \/ /\ call' = [call EXCEPT !.todo = Tail(@)]  \* no answer, or no step
           /\ UNCHANGED <<targetVars, injectVars>>
  /\ UNCHANGED <<stage, chain, cx, tried, lost, moves, ieVars>>

BarStep ==
  /\ Publish \/ Track \/ Drop \/ Restore
  /\ UNCHANGED <<stage, chain, cx, tried, lost, moves, ieVars>>

Invalidate ==
  /\ LastReturned
  /\ call' = [call EXCEPT !.pc = "settle"]
  /\ UNCHANGED <<procOf, pos, queue, hooked, loaded, wndProc, orgProc, inj, stuck, left>>
  /\ UNCHANGED <<stage, chain, cx, tried, lost, moves, ieVars>>

\* The bar is asked where it is; if that fails it is taken to be at 0. The
\* movement counts as made if the bar moved or could not move further; it is
\* exact if no end of the bar cut it off, or was taken to have done so, and no
\* failure made it count wrongly.
Settle ==
  /\ call.pc = "settle"
  /\ \E asked \in BOOLEAN :
       LET a == BarInfo[call.bar].dir
           dd == Distance(call.speed, cx.delta[a])
           atEnd == call.new \in {Low(call.bar), High(call.bar)}
           moved == Moved(IF asked THEN pos[call.bar] ELSE 0)
           exact == IF moved
                    THEN /\ call.new = call.org + dd
                         /\ atEnd \/ ~asked => pos[call.bar] = call.new
                    ELSE asked \/ pos[call.bar] = call.org
       IN  /\ asked => InfoAnswered(call.bar)
           /\ cx' = [cx EXCEPT !.delta[a] = IF moved THEN Rest(call.speed, @) ELSE @,
                               !.exact[a] = @ /\ exact]
  /\ call' = [NoCall EXCEPT !.todo = call.todo]
  /\ UNCHANGED <<targetVars, injectVars, ieVars>>
  /\ UNCHANGED <<stage, chain, tried, lost, moves>>

\* The step of a track bar: a line, a page, or as for a scroll bar.
TrackSpeed(b) ==
  CASE ModeName(cx.node) = "line-scroll" -> [num |-> 1, den |-> 1]
    [] ModeName(cx.node) = "page-scroll" -> [num |-> BarInfo[b].page, den |-> 1]
    [] OTHER -> Speed(ModeName(cx.node), b, BarInfo[b].length)
TrackDistance(b, delta) ==
  IF Posts(cx.node) THEN Trunc(delta, Unit) * TrackSpeed(b).num
                    ELSE Distance(TrackSpeed(b), delta)

\* The queries are answered, after everything before them, or they are not.
\* The movement counts as made when the time for TBM_SETPOS is up.
ScrollTrackbar(d) ==
  /\ Moving(d, {"trackbar-control"})
  /\ LET c == Added(d)
         b == FirstOf(cx.bars)
         a == BarInfo[b].dir
         s == TrackSpeed(b)
         dd == TrackDistance(b, c.delta[a])
         to == Clamp(pos[b] + dd, Low(b), High(b)) IN
     \/ /\ cx' = c                                   \* no answer, or no step
        /\ dd = 0 \/ MaxTardy > 0
        /\ UNCHANGED <<targetVars, call>>
     \/ /\ dd # 0 /\ queue[procOf[b]] = <<>>
        /\ Send(b, "TBM_SETPOS", to)
        /\ cx' = [c EXCEPT !.delta[a] = @ - Trunc(dd * s.den * Unit, s.num),
                           !.exact[a] = @ /\ to = pos[b] + dd]
        /\ call' = [NoCall EXCEPT !.pc = "setpos", !.bar = b]
        /\ UNCHANGED <<procOf, pos, tardy>>
  /\ UNCHANGED <<injectVars, ieVars>>

\* The parent is then told, which changes nothing here.
TrackbarSet ==
  /\ call.pc = "setpos" /\ Returned(call.bar)
  /\ call' = NoCall
  /\ UNCHANGED <<procOf, pos, queue, injectVars, ieVars>>
  /\ UNCHANGED <<stage, chain, cx, tried, lost, moves>>

IeMode(n) == IF ModeName(n) = "pixel" THEN "bar-unit" ELSE ModeName(n)

\* ie_scroll_r_scroll on both axes. Whether the position was put is not asked.
ScrollIe(d) ==
  /\ Moving(d, {"ie-scroll"})
  /\ \E asks \in SUBSET Axis, puts \in SUBSET Axis :
       LET c == Added(d)
           s(a) == Speed(IeMode(cx.node), IeBars[a], BarInfo[IeBars[a]].length)
           dd(a) == Distance(s(a), c.delta[a])
           to(a) == Clamp(pos[IeBars[a]] + dd(a), Low(IeBars[a]), High(IeBars[a]))
           acts == {a \in asks : PageOf(IeBars[a]) < Whole(IeBars[a]) /\ dd(a) # 0}
       IN  /\ puts \subseteq acts
           /\ pos' = [b \in Bars |-> IF \E a \in puts : IeBars[a] = b
                                     THEN to(BarInfo[b].dir) ELSE pos[b]]
           /\ cx' = [c EXCEPT
                !.delta = [a \in Axis |-> IF a \in acts THEN Rest(s(a), @[a]) ELSE @[a]],
                !.exact = [a \in Axis |-> @[a] /\ (a \in acts =>
                             a \in puts /\ to(a) = pos[IeBars[a]] + dd(a))]]
  /\ UNCHANGED <<procOf, queue, tardy, injectVars, call, ieVars>>

-----------------------------------------------------------------------------
(* end_scroll_mode: the operator that was started is ended, through the meta
   operators around it, and the contexts are freed. *)

EndScroll ==
  IF stage = "failed" THEN UNCHANGED <<injectVars, ieVars>>
  ELSE CASE Op \in BarOps -> Uninject /\ UNCHANGED ieVars
         [] Op = "ie-scroll" -> /\ refs' = Released(refs, ie.walk)
                                /\ ie' = NoWalk
                                /\ UNCHANGED injectVars
         [] OTHER -> UNCHANGED <<injectVars, ieVars>>

End ==
  /\ stage \in {"running", "failed"}
  /\ call.pc = "none" /\ call.todo = <<>>
  /\ EndScroll
  /\ stage' = "idle" /\ chain' = <<>> /\ cx' = NoContext
  /\ UNCHANGED <<tried, lost, moves, targetVars, call>>

-----------------------------------------------------------------------------
TryStep == \/ TryOr \/ TryApplyParent
           \/ InitWindowScrollbar \/ InitNeighborhood \/ InitScrollbarControl
           \/ InitTrackbar \/ InitWheel
           \/ InitIe \/ SearchIe \/ IeNotFound \/ IeFound

CallStep == \/ ScrollBar \/ BarStep \/ Invalidate \/ Settle \/ TrackbarSet

Scroll == \E d \in Deltas :
  \/ ScrollWheel(d) \/ ScrollPosted(d) \/ ScrollBars(d)
  \/ ScrollTrackbar(d) \/ ScrollIe(d)

Target == /\ \E p \in Procs : Handle(p)
          /\ UNCHANGED <<stage, chain, cx, tried, lost, moves, ieVars>>

Next == \/ \E sw \in ScrollWindows : Start(sw[1], sw[2])
        \/ TryStep \/ Scroll \/ CallStep \/ End \/ Target

Spec == Init /\ [][Next]_vars

-----------------------------------------------------------------------------
(* Properties *)

\* The order in which an expression's operators are to be tried on a window.
Candidates[n \in Nodes] ==
  [w \in Windows |->
     LET kids == Expr[n].kids
         of(kid, v) == IF Valid(kid) THEN Candidates[kid][v] ELSE <<>>
     IN  CASE Expr[n].op = "or" -> FlattenSeq([i \in DOMAIN kids |-> of(kids[i], w)])
           [] Expr[n].op = "apply-parent" -> of(kids[1], Ancestor[Expr[n].num][w])
           [] OTHER -> <<<<Expr[n].op, w>>>>]

CandidatesOf == [sw \in ScrollWindows |-> Candidates[sw[1]][sw[2]]]

\* or_init_ctx and apply_parent_init_ctx, nested at will: the operators are
\* tried in the order they are written, each once, until one accepts; the
\* start fails only when all have refused.
StartsFirstSupported ==
  stage # "idle" =>
    LET all == CandidatesOf[<<chain[1].node, chain[1].win>>] IN
    /\ IsPrefix(tried, all)
    /\ stage = "running" => Last(tried) = <<Op, Top.win>>
    /\ stage = "failed" => tried = all

\* uninject_scrollbar_support_proc: without an operator at work there is no
\* hook in any program but those whose removal failed, and no DLL but those
\* that could not be recorded or unloaded, whichever and however many calls
\* fail; with one at work, there is at most one more of each per process.
LeavesNothing ==
  /\ \A p \in Procs : /\ hooked[p] \in left[p] .. left[p] + 1
                      /\ loaded[p] \in stuck[p] .. stuck[p] + 1
  /\ stage \in {"idle", "failed"} =>
       /\ inj = NoInj
       /\ \A p \in Procs : hooked[p] = left[p] /\ loaded[p] = stuck[p]

\* gsi_call_proc's toggle: as long as every call returned in time, a control
\* has its own window procedure back whenever it is not being moved, and sbh
\* is ready for the next one; also when hooks that could not be removed still
\* answer in its thread.
WndProcRestored ==
  (call.pc = "none" /\ tardy = 0) =>
    /\ \A b \in Controls : wndProc[b] = "own"
    /\ \A p \in Procs : orgProc[p] = Null
    /\ ~shm.valid

\* What the injection is for: when a bar of a program with the DLL or the hook
\* has been moved in time, it stands where the operator wanted it. A hook that
\* was left in the thread takes the toggle of the next one back.
TrackedPositionSeen ==
  (/\ call.pc = "settle" /\ tardy = 0 /\ inj.mapped
   /\ LET p == procOf[call.bar] IN
      \/ loaded[p] > 0
      \/ OddHooks(p) /\ call.bar \in Controls) =>
    pos[call.bar] = call.new

\* get_ie_target and end_scroll: the references to the browser's objects are
\* all released, by every way out of the walk, but that of the element being
\* scrolled and those a start that failed after its search gave up.
IeReferences ==
  ie.pc = "none" =>
    \A o \in Objects :
      refs[o] = lost[o] + IF stage = "running" /\ ie.walk = o THEN 1 ELSE 0

\* scrollbar_r_scroll and its like: no bar is put out of its range, neither by a
\* message that is handled late, nor by the position in the shared memory, which
\* may by then be that of a later call.
BarsInRange == \A b \in Bars : pos[b] \in Low(b) .. High(b)

\* The fraction of a step is neither lost nor counted twice, over any sequence
\* of movements and changes of direction: what the operator has kept and what
\* its target was moved by make up all the movements, as long as no end of a
\* bar cut one off; a wheel keeps less than a notch, and what has no speed, its
\* page being as long as the whole, keeps everything.
SpeedOf(a) ==
  CASE Op = "wheel-message" \/ (Op \in BarOps /\ Posts(cx.node)) ->
         [num |-> 1, den |-> 1]
    [] Op = "trackbar-control" -> TrackSpeed(cx.bars[a])
    [] Op = "ie-scroll" -> Speed(IeMode(cx.node), cx.bars[a], BarInfo[cx.bars[a]].length)
    [] OTHER -> Speed(ModeName(cx.node), cx.bars[a], LengthOf(cx.bars[a]))
SentTo(a) ==
  IF Op = "wheel-message" \/ (Op \in BarOps /\ Posts(cx.node))
  THEN cx.given[a] ELSE pos[cx.bars[a]] - cx.origin[a]
MovementAccounted ==
  (stage = "running" /\ call.pc = "none" /\ call.todo = <<>> /\ tardy = 0) =>
    \A a \in Axis :
      IF Op # "wheel-message" /\ cx.bars[a] = Null /\ ~(Op \in BarOps /\ Posts(cx.node))
      THEN cx.delta[a] = cx.asked[a]
      ELSE /\ cx.exact[a] =>
                SentTo(a) * SpeedOf(a).den * Unit
                  = (cx.asked[a] - cx.delta[a]) * SpeedOf(a).num
           /\ SpeedOf(a).num = 0 => cx.delta[a] = cx.asked[a]
           /\ Op = "wheel-message" => Abs(cx.delta[a]) < Unit * Abs(Tick(cx.node))
=============================================================================
