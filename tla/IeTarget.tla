------------------------------- MODULE IeTarget -------------------------------
(***************************************************************************)
(* ie-scroll's search for the element to scroll (get_ie_target in          *)
(* scroll_op_ie.c). Every object of the browser that a call returns is a   *)
(* counted reference the program has to release; every call may fail. The  *)
(* walk goes down through nested frames to the element under the pointer,  *)
(* and from there up to the first one that scrolls.                        *)
(* Coordinates are left out: the element at the point is any element.      *)
(***************************************************************************)
EXTENDS OperatorContext

CONSTANTS
  Docs, Elems,
  Page      \* [frame, offsetParent, parentElement, frameset, scrollable]:
            \* functions on Elems; frame gives the inner document or Null;
            \* doc gives the document an element belongs to

ASSUME IeTargetAssumption == Null \notin Docs \cup Elems

VARIABLES
  ie,       \* the walk: [pc, top, doc, elem, walk]
  refs      \* the references the program holds, per object

ieVars == <<ie, refs>>
Objects == Docs \cup Elems
NoWalk == [pc |-> "none", top |-> Null, doc |-> Null, elem |-> Null,
           walk |-> Null]

IeInit == ie = NoWalk /\ refs = [o \in Objects |-> 0]

-----------------------------------------------------------------------------
Got(r, o) == [r EXCEPT ![o] = @ + 1]                 \* returned, or AddRef
Released(r, o) == [r EXCEPT ![o] = @ - 1]            \* IDispatch_Release

\* get_ie_elem_at fails: get_ie_target releases the top document.
NotFound(r) ==
  /\ refs' = Released(r, ie.top)
  /\ ie' = [NoWalk EXCEPT !.pc = "failed"]

\* get_ie_elem_at has found e, which r still holds: the top document is
\* released, and get_scrollable_parent takes a reference of its own.
Found(r, e) ==
  /\ refs' = Got(Released(r, ie.top), e)
  /\ ie' = [NoWalk EXCEPT !.pc = "scrollable", !.elem = e, !.walk = e]

\* WM_HTML_GETOBJECT and ObjectFromLresult; get_ie_elem_at then adds its own.
GetTopDocument(d) ==
  /\ ie' = [NoWalk EXCEPT !.pc = "window", !.top = d, !.doc = d]
  /\ refs' = Got(Got(refs, d), d)

NoTopDocument ==
  /\ ie' = [NoWalk EXCEPT !.pc = "failed"]
  /\ UNCHANGED refs

ParentWindow ==
  /\ ie.pc = "window"
  /\ \/ NotFound(Released(refs, ie.doc))
     \/ ie' = [ie EXCEPT !.pc = "point"] /\ UNCHANGED refs

\* The document is released whether or not an element is found.
ElementFromPoint ==
  /\ ie.pc = "point"
  /\ LET r == Released(refs, ie.doc) IN
     \/ NotFound(r)
     \/ \E e \in Elems :
          /\ Page.doc[e] = ie.doc
          /\ refs' = Got(r, e)
          /\ ie' = [ie EXCEPT !.pc = "tag", !.doc = Null, !.elem = e]

\* A frame whose document is not to be had is itself the element.
TagName ==
  /\ ie.pc = "tag"
  /\ LET e == ie.elem
         innerDoc == Page.frame[e] IN
     \/ NotFound(Released(refs, e))
     \/ Found(refs, e)
     \/ /\ innerDoc # Null
        /\ refs' = Got(refs, innerDoc)
        /\ ie' = [ie EXCEPT !.pc = "offset", !.doc = innerDoc]

\* The walks that translate the coordinates into those of the inner document.
Climb(p) ==
  /\ refs' = Got(Released(refs, ie.elem), p)
  /\ ie' = [ie EXCEPT !.elem = p]

OffsetParent ==
  /\ ie.pc = "offset"
  /\ LET p == Page.offsetParent[ie.elem] IN
     \/ ie' = [ie EXCEPT !.pc = "parents"] /\ UNCHANGED refs
     \/ p # Null /\ ~Page.frameset[p] /\ Climb(p)

ParentElement ==
  /\ ie.pc = "parents"
  /\ LET p == Page.parentElement[ie.elem] IN
     \/ /\ refs' = Released(refs, ie.elem)
        /\ ie' = [ie EXCEPT !.pc = "point", !.elem = Null]
     \/ p # Null /\ Climb(p)

\* Mutant of ScrollableParent: the element is not released when no parent scrolls.
ScrollableParentKeeps ==
  /\ ie.pc = "scrollable"
  /\ LET p == Page.parentElement[ie.walk]
         r == Released(refs, ie.walk) IN
     \/ /\ Page.scrollable[ie.walk]
        /\ refs' = Released(refs, ie.elem)
        /\ ie' = [ie EXCEPT !.pc = "found", !.elem = Null]
     \/ /\ p # Null
        /\ refs' = Got(r, p)
        /\ ie' = [ie EXCEPT !.walk = p]
     \/ /\ refs' = r
        /\ ie' = [NoWalk EXCEPT !.pc = "failed"]

\* get_scrollable_parent, and the release of the element it started from.
ScrollableParent ==
  /\ ie.pc = "scrollable"
  /\ LET p == Page.parentElement[ie.walk]
         r == Released(refs, ie.walk) IN
     \/ /\ Page.scrollable[ie.walk]
        /\ refs' = Released(refs, ie.elem)
        /\ ie' = [ie EXCEPT !.pc = "found", !.elem = Null]
     \/ /\ p # Null
        /\ refs' = Got(r, p)
        /\ ie' = [ie EXCEPT !.walk = p]
     \/ /\ refs' = Released(r, ie.elem)
        /\ ie' = [NoWalk EXCEPT !.pc = "failed"]

WalkStep == \/ ParentWindow \/ ElementFromPoint \/ TagName
            \/ OffsetParent \/ ParentElement \/ ScrollableParent
=============================================================================
