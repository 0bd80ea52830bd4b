---------------------------- MODULE ButtonPhases ----------------------------
(***************************************************************************)
(* What the button side of the mouse hook promises (doc/CUSTOMIZE.html,    *)
(* button-d-X, button-u-X, button-d-X+Y, button-u-X+Y), without the pressed *)
(* flag, the combination array, the ignore mask and the timers hook.c      *)
(* implements it with.  Each button is in one phase:                       *)
(*   up       not held                                                     *)
(*   pending  held, its press not yet decided (alone or in a combination)  *)
(*   plain    held, decided as a press of its own                          *)
(*   paired   held, one half of a combination that is still complete       *)
(*   ignored  held, the other half was released first                      *)
(* out is the sequence of action slots the last step ran.                  *)
(***************************************************************************)
EXTENDS Integers, Sequences

CONSTANT Btn

VARIABLES phase, pairs, out, filtering

vars == <<phase, pairs, out, filtering>>

Phase == {"up", "pending", "plain", "paired", "ignored"}

Settled == \A b \in Btn : phase[b] \in {"up", "plain"}

Init ==
    /\ phase = [b \in Btn |-> "up"]
    /\ pairs = {}
    /\ out = <<>>
    /\ filtering = "no"

(* Whatever happens first decides a pending press: it was a single press.  *)
Decided == [b \in Btn |-> IF phase[b] = "pending" THEN "plain" ELSE phase[b]]

(* o is what deciding the pending press, if there is one, runs. *)
Decides(o) ==
    \/ /\ \A p \in Btn : phase[p] # "pending"
       /\ o = <<>>
    \/ \E p \in Btn : /\ phase[p] = "pending"
                      /\ o = <<<<"d_act", p, p>>>>

Combine(b) ==
    /\ filtering = "yes" /\ phase[b] = "up"
    /\ \E p \in Btn \ {b} :
         /\ phase[p] = "pending"
         /\ phase' = [phase EXCEPT ![p] = "paired", ![b] = "paired"]
         /\ pairs' = pairs \cup {<<p, b>>}
         /\ out' = <<<<"comb_d_act", p, b>>>>
    /\ UNCHANGED filtering

PressPending(b) ==
    /\ filtering = "yes" /\ phase[b] = "up"
    /\ phase' = [Decided EXCEPT ![b] = "pending"]
    /\ Decides(out')
    /\ UNCHANGED <<pairs, filtering>>

PressAlone(b) ==
    /\ filtering = "yes" /\ phase[b] = "up"
    /\ phase' = [Decided EXCEPT ![b] = "plain"]
    /\ \E o \in {<<>>} \cup {<<<<"d_act", p, p>>>> : p \in Btn} :
         Decides(o) /\ out' = Append(o, <<"d_act", b, b>>)
    /\ UNCHANGED <<pairs, filtering>>

ReleaseAlone(b) ==
    /\ filtering = "yes" /\ phase[b] \in {"pending", "plain"}
    /\ phase' = [Decided EXCEPT ![b] = "up"]
    /\ \E o \in {<<>>} \cup {<<<<"d_act", p, p>>>> : p \in Btn} :
         Decides(o) /\ out' = Append(o, <<"u_act", b, b>>)
    /\ UNCHANGED <<pairs, filtering>>

ReleaseIgnored(b) ==
    /\ filtering = "yes" /\ phase[b] = "ignored"
    /\ phase' = [Decided EXCEPT ![b] = "up"]
    /\ Decides(out')
    /\ UNCHANGED <<pairs, filtering>>

ReleaseCombination(b) ==
    /\ filtering = "yes"
    /\ \E x, y \in Btn :
         /\ <<x, y>> \in pairs /\ b \in {x, y}
         /\ phase' = [Decided EXCEPT ![x] = "ignored", ![y] = "ignored", ![b] = "up"]
         /\ pairs' = pairs \ {<<x, y>>}
         /\ \E o \in {<<>>} \cup {<<<<"d_act", p, p>>>> : p \in Btn} :
              Decides(o) /\ out' = Append(o, <<"comb_u_act", x, y>>)
    /\ UNCHANGED filtering

(* A wheel turn, a movement, or the end of the waiting time. *)
Decide ==
    /\ filtering = "yes"
    /\ phase' = Decided
    /\ \E o \in {<<>>} \cup {<<<<"d_act", p, p>>>> : p \in Btn} :
         /\ Decides(o)
         /\ out' \in {o, Append(o, <<"wheel_act", -1, -1>>),
                         Append(o, <<"move_act", -1, -1>>)}
    /\ UNCHANGED <<pairs, filtering>>

(* Without a hook or a configuration the events reach the applications. *)
Bypass(b) ==
    /\ filtering = "no" /\ phase[b] \in {"up", "plain"}
    /\ phase' = [phase EXCEPT ![b] = IF @ = "up" THEN "plain" ELSE "up"]
    /\ out' = <<>>
    /\ UNCHANGED <<pairs, filtering>>

Switch ==
    /\ Settled
    /\ filtering' \in {"yes", "no"}
    /\ out' = <<>>
    /\ UNCHANGED <<phase, pairs>>

(* Something that runs nothing and decides nothing. *)
Quiet ==
    /\ out' = <<>>
    /\ UNCHANGED <<phase, pairs, filtering>>

Next ==
    \/ \E b \in Btn : \/ Combine(b) \/ PressPending(b) \/ PressAlone(b)
                      \/ ReleaseAlone(b) \/ ReleaseIgnored(b)
                      \/ ReleaseCombination(b) \/ Bypass(b)
    \/ Decide
    \/ Switch
    \/ Quiet

Spec == Init /\ [][Next]_vars
=============================================================================
