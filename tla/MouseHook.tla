------------------------------ MODULE MouseHook ------------------------------
(***************************************************************************)
(* The mouse hook of hook.c: mouse_ll_proc and comb_timer, which run one   *)
(* after the other on the hook thread, and the part of ctx.hook_data and   *)
(* ctx.mode_data they keep.  A physical button goes down and up in turn;   *)
(* the WM_TIMER messages of the thread's queue come in any order and, as   *)
(* KillTimer leaves a posted one in the queue, possibly late.              *)
(***************************************************************************)
EXTENDS Integers, Sequences, FiniteSets

CONSTANTS
    Btn,          \* the buttons of the device, numbered from 0 as in main.h
    ModeName,     \* the modes of the configuration file
    MouseConf,    \* struct mouse_conf of each mode: the action of each slot
    InitialConf,  \* ctx.app_conf.initial_conf
    NULL,         \* cur_conf before the first load_setting
    TimerId,      \* ids SetTimer may return (bounds the timers alive at once)
    Rehook,       \* when clear_hook may run: "never", "idle" or "any"
    MaxComb       \* bounds the combinations recorded at once; with more the
                  \* index i * 3 + 1 of a release leaves the array

MOUSE_BTN_MAX == 5

(***************************************************************************)
(* An action slot of struct mouse_conf.  Single buttons repeat the index;  *)
(* the wheel and the movement have button -1, as msg_to_button says.       *)
(***************************************************************************)
Slot == ({"d_act", "u_act", "comb_d_act", "comb_u_act"} \X Btn \X Btn)
          \cup ({"wheel_act", "move_act"} \X {-1} \X {-1})

(***************************************************************************)
(* struct mouse_action: the code, the button it presses or releases, the   *)
(* mode it changes to.  What MODEMSG and WHEELPOST post is not kept here.  *)
(***************************************************************************)
ActCode == {"NOTHING", "BUTTON_D", "BUTTON_U", "WHEEL", "WHEELPOST", "MOVE",
            "MODECH", "MODEMSG"}

Action == [code : ActCode, button : 0 .. MOUSE_BTN_MAX - 1, mode : ModeName]

(***************************************************************************)
(* What apply_comm_mode_conf leaves in the tables: both orders of a        *)
(* combination hold the same action, a button has none with itself.        *)
(***************************************************************************)
ASSUME ConfAssumption ==
    /\ Btn \subseteq 0 .. MOUSE_BTN_MAX - 1
    /\ MouseConf \in [ModeName -> [Slot -> Action]]
    /\ InitialConf \in ModeName
    /\ NULL \notin ModeName
    /\ TimerId \subseteq Nat
    /\ Rehook \in {"never", "idle", "any"}
    /\ MaxComb \in 1 .. MOUSE_BTN_MAX
    /\ \A m \in ModeName, s \in {"comb_d_act", "comb_u_act"}, x, y \in Btn :
         /\ MouseConf[m][<<s, x, y>>] = MouseConf[m][<<s, y, x>>]
         /\ MouseConf[m][<<s, x, x>>].code = "NOTHING"

VARIABLES
    cur_conf,         \* ctx.mode_data.cur_conf
    pressed,          \* ctx.hook_data: a press waits to be decided
    pressed_btn,
    ignore_btn_mask,  \* the bits as a set of buttons
    combinated,
    combination,
    comb_timer_id,
    armed,            \* ids of the timers the thread owns
    queued,           \* ids of the WM_TIMER messages in its queue
    hook,             \* whether mouse_ll_proc is installed
    physDown,         \* the buttons the user holds
    appDown,          \* the buttons the applications see held
    out               \* the slots the last step ran

vars == <<cur_conf, pressed, pressed_btn, ignore_btn_mask, combinated,
          combination, comb_timer_id, armed, queued, hook, physDown, appDown, out>>

combVars == <<ignore_btn_mask, combinated, combination>>

Init ==
    /\ cur_conf = NULL
    /\ pressed = 0
    /\ pressed_btn = 0
    /\ ignore_btn_mask = {}
    /\ combinated = 0
    /\ combination = [i \in 0 .. MOUSE_BTN_MAX * 3 - 1 |-> 0]
    /\ comb_timer_id = 0
    /\ armed = {}
    /\ queued = {}
    /\ hook = "installed"
    /\ physDown = {}
    /\ appDown = {}
    /\ out = <<>>
-----------------------------------------------------------------------------
(***************************************************************************)
(* do_action, as a function of what it reads and changes: the mode whose   *)
(* slot it runs, the buttons the applications see, the slots run so far.   *)
(***************************************************************************)
Current == [conf |-> cur_conf, app |-> appDown, out |-> <<>>]

Do(st, slot) ==
    LET act == MouseConf[st.conf][slot]
    IN [conf |-> IF act.code = "MODECH" THEN act.mode ELSE st.conf,
        app  |-> (st.app \cup (IF act.code = "BUTTON_D" THEN {act.button} ELSE {}))
                   \ (IF act.code = "BUTTON_U" THEN {act.button} ELSE {}),
        out  |-> Append(st.out, slot)]

(* The pending press decided as a single one. *)
Flushed == IF pressed = 1 THEN Do(Current, <<"d_act", pressed_btn, pressed_btn>>)
                          ELSE Current

Finish(st) == /\ cur_conf' = st.conf
              /\ appDown' = st.app
              /\ out' = st.out

Filtering == hook = "installed" /\ cur_conf # NULL

(* MOUSE_BTN_CONF_ENABLE_COMB of a button. *)
EnableComb(m, b) ==
    \E x \in Btn \ {b}, s \in {"comb_d_act", "comb_u_act"} :
        MouseConf[m][<<s, b, x>>].code # "NOTHING"

(* A press of b completes a combination with the pending button. *)
Completes(b) ==
    /\ pressed = 1
    /\ \E s \in {"comb_d_act", "comb_u_act"} :
         MouseConf[cur_conf][<<s, pressed_btn, b>>].code # "NOTHING"

(* The head of mouse_ll_proc: no press is pending any more, its timer is killed. *)
KillPending ==
    armed' = IF pressed = 1 THEN armed \ {comb_timer_id} ELSE armed

Settle == /\ pressed' = 0
          /\ KillPending
          /\ UNCHANGED <<pressed_btn, comb_timer_id, queued>>
-----------------------------------------------------------------------------
(* The events of a button: mouse_ll_proc, one action per way through it. *)

Down(b) == b \in Btn \ physDown /\ physDown' = physDown \cup {b} /\ UNCHANGED hook
Up(b)   == b \in physDown /\ physDown' = physDown \ {b} /\ UNCHANGED hook

PassDown(b) ==
    /\ Down(b) /\ ~Filtering
    /\ appDown' = appDown \cup {b}
    /\ out' = <<>>
    /\ UNCHANGED <<cur_conf, pressed, pressed_btn, combVars, comb_timer_id, armed, queued>>

PassUp(b) ==
    /\ Up(b) /\ ~Filtering
    /\ appDown' = appDown \ {b}
    /\ out' = <<>>
    /\ UNCHANGED <<cur_conf, pressed, pressed_btn, combVars, comb_timer_id, armed, queued>>

CombinationPress(b) ==
    /\ Down(b) /\ Filtering /\ Completes(b)
    /\ combinated < MaxComb
    /\ Settle
    /\ Finish(Do(Current, <<"comb_d_act", pressed_btn, b>>))
    /\ combination' = [combination EXCEPT ![combinated * 2] = pressed_btn,
                                          ![combinated * 2 + 1] = b]
    /\ combinated' = combinated + 1
    /\ UNCHANGED ignore_btn_mask

IgnoredDown(b) ==
    /\ Down(b) /\ Filtering /\ ~Completes(b)
    /\ b \in ignore_btn_mask
    /\ Settle
    /\ Finish(Flushed)
    /\ ignore_btn_mask' = ignore_btn_mask \ {b}
    /\ UNCHANGED <<combinated, combination>>

(* Mutant: the old timer is killed after the new id is stored. *)
PendingDownKillsNew(b) ==
    /\ Down(b) /\ Filtering /\ ~Completes(b)
    /\ b \notin ignore_btn_mask
    /\ EnableComb(Flushed.conf, b)
    /\ Finish(Flushed)
    /\ pressed' = 1
    /\ pressed_btn' = b
    /\ comb_timer_id' \in TimerId \ (armed \cup queued)
    /\ armed' = IF pressed = 1 THEN armed ELSE armed \cup {comb_timer_id'}
    /\ UNCHANGED <<combVars, queued>>

PendingDown(b) ==
    /\ Down(b) /\ Filtering /\ ~Completes(b)
    /\ b \notin ignore_btn_mask
    /\ EnableComb(Flushed.conf, b)
    /\ Finish(Flushed)
    /\ pressed' = 1
    /\ pressed_btn' = b
    /\ \E id \in TimerId \ (armed \cup queued) :
         /\ comb_timer_id' = id
         /\ armed' = {id} \cup (IF pressed = 1 THEN armed \ {comb_timer_id} ELSE armed)
    /\ UNCHANGED <<combVars, queued>>

PlainDown(b) ==
    /\ Down(b) /\ Filtering /\ ~Completes(b)
    /\ b \notin ignore_btn_mask
    /\ ~EnableComb(Flushed.conf, b)
    /\ Settle
    /\ Finish(Do(Flushed, <<"d_act", b, b>>))
    /\ UNCHANGED combVars

(* Mutant: the bit of the mask stays. *)
IgnoredUpKeepsBit(b) ==
    /\ Up(b) /\ Filtering
    /\ b \in ignore_btn_mask
    /\ Settle
    /\ Finish(Flushed)
    /\ UNCHANGED combVars

(* Mutant: returns before the pending press is decided. *)
IgnoredUpDropsPress(b) ==
    /\ Up(b) /\ Filtering
    /\ b \in ignore_btn_mask
    /\ Settle
    /\ Finish(Current)
    /\ ignore_btn_mask' = ignore_btn_mask \ {b}
    /\ UNCHANGED <<combinated, combination>>

IgnoredUp(b) ==
    /\ Up(b) /\ Filtering
    /\ b \in ignore_btn_mask
    /\ Settle
    /\ Finish(Flushed)
    /\ ignore_btn_mask' = ignore_btn_mask \ {b}
    /\ UNCHANGED <<combinated, combination>>

(* The i-th recorded combination has b. *)
InPair(i, b) == combination[i * 2] = b \/ combination[i * 2 + 1] = b

(* The mask gets a button of combination[i * 3]: the index the code uses. *)
Partner(i, b) == IF combination[i * 3] = b THEN combination[i * 3 + 1]
                                           ELSE combination[i * 3]

(* The memmove: combinated - i - 1 ints, the size the code gives it. *)
Removed(i) ==
    [k \in DOMAIN combination |->
        IF k >= i * 2 /\ k < i * 2 + (combinated - i - 1)
        THEN combination[k + 2] ELSE combination[k]]

(* Mutant: the release action is forgotten. *)
CombinationReleaseSilent(b) ==
    /\ Up(b) /\ Filtering
    /\ b \notin ignore_btn_mask
    /\ Settle
    /\ \E i \in 0 .. combinated - 1 :
         /\ InPair(i, b) /\ \A j \in 0 .. i - 1 : ~InPair(j, b)
         /\ Finish(Flushed)
         /\ ignore_btn_mask' = ignore_btn_mask \cup {Partner(i, b)}
         /\ combination' = Removed(i)
         /\ combinated' = combinated - 1

(* Mutant: the other button is not put in the mask. *)
CombinationReleaseNoMask(b) ==
    /\ Up(b) /\ Filtering
    /\ b \notin ignore_btn_mask
    /\ Settle
    /\ \E i \in 0 .. combinated - 1 :
         /\ InPair(i, b) /\ \A j \in 0 .. i - 1 : ~InPair(j, b)
         /\ Finish(Do(Flushed,
                      <<"comb_u_act", combination[i * 2], combination[i * 2 + 1]>>))
         /\ combination' = Removed(i)
         /\ combinated' = combinated - 1
    /\ UNCHANGED ignore_btn_mask

(* Mutant: the combination stays recorded. *)
CombinationReleaseKeepsPair(b) ==
    /\ Up(b) /\ Filtering
    /\ b \notin ignore_btn_mask
    /\ Settle
    /\ \E i \in 0 .. combinated - 1 :
         /\ InPair(i, b) /\ \A j \in 0 .. i - 1 : ~InPair(j, b)
         /\ Finish(Do(Flushed,
                      <<"comb_u_act", combination[i * 2], combination[i * 2 + 1]>>))
         /\ ignore_btn_mask' = ignore_btn_mask \cup {Partner(i, b)}
    /\ UNCHANGED <<combinated, combination>>

CombinationRelease(b) ==
    /\ Up(b) /\ Filtering
    /\ b \notin ignore_btn_mask
    /\ Settle
    /\ \E i \in 0 .. combinated - 1 :
         /\ InPair(i, b) /\ \A j \in 0 .. i - 1 : ~InPair(j, b)
         /\ Finish(Do(Flushed,
                      <<"comb_u_act", combination[i * 2], combination[i * 2 + 1]>>))
         /\ ignore_btn_mask' = ignore_btn_mask \cup {Partner(i, b)}
         /\ combination' = Removed(i)
         /\ combinated' = combinated - 1

(* Mutant: the counter goes down although no combination was found. *)
PlainUpCounts(b) ==
    /\ Up(b) /\ Filtering
    /\ b \notin ignore_btn_mask
    /\ \A i \in 0 .. combinated - 1 : ~InPair(i, b)
    /\ Settle
    /\ Finish(Do(Flushed, <<"u_act", b, b>>))
    /\ combinated' = combinated - 1
    /\ UNCHANGED <<ignore_btn_mask, combination>>

PlainUp(b) ==
    /\ Up(b) /\ Filtering
    /\ b \notin ignore_btn_mask
    /\ \A i \in 0 .. combinated - 1 : ~InPair(i, b)
    /\ Settle
    /\ Finish(Do(Flushed, <<"u_act", b, b>>))
    /\ UNCHANGED combVars
-----------------------------------------------------------------------------
(* A wheel turn and a movement; the event itself is passed on when the     *)
(* mode says WHEEL or MOVE.                                                *)

Motion(slot, pass) ==
    /\ Filtering
    /\ Settle
    /\ Finish(IF MouseConf[Flushed.conf][slot].code = pass THEN Flushed
                                                          ELSE Do(Flushed, slot))
    /\ UNCHANGED <<combVars, hook, physDown>>

Wheel == Motion(<<"wheel_act", -1, -1>>, "WHEEL")
Move  == Motion(<<"move_act", -1, -1>>, "MOVE")

(* combination-time passes: the periodic timer posts its WM_TIMER. *)
TimerExpires(id) ==
    /\ id \in armed \ queued
    /\ queued' = queued \cup {id}
    /\ out' = <<>>
    /\ UNCHANGED <<cur_conf, pressed, pressed_btn, combVars, comb_timer_id, armed,
                   hook, physDown, appDown>>

(* comb_timer: the thread dispatches a WM_TIMER. *)
CombTimerNone(id) ==
    /\ id \in queued /\ pressed = 0
    /\ queued' = queued \ {id}
    /\ armed' = armed \ {id}
    /\ out' = <<>>
    /\ UNCHANGED <<cur_conf, pressed, pressed_btn, combVars, comb_timer_id,
                   hook, physDown, appDown>>

(* Mutant: pressed is not reset. *)
CombTimerWaitsOn(id) ==
    /\ id \in queued /\ pressed = 1
    /\ queued' = queued \ {id}
    /\ armed' = armed \ {id}
    /\ Finish(Flushed)
    /\ UNCHANGED <<pressed, pressed_btn, combVars, comb_timer_id, hook, physDown>>

(* Mutant: the press action is forgotten. *)
CombTimerSilent(id) ==
    /\ id \in queued /\ pressed = 1
    /\ queued' = queued \ {id}
    /\ armed' = armed \ {id}
    /\ pressed' = 0
    /\ Finish(Current)
    /\ UNCHANGED <<pressed_btn, combVars, comb_timer_id, hook, physDown>>

CombTimer(id) ==
    /\ id \in queued /\ pressed = 1
    /\ queued' = queued \ {id}
    /\ armed' = armed \ {id}
    /\ pressed' = 0
    /\ Finish(Flushed)
    /\ UNCHANGED <<pressed_btn, combVars, comb_timer_id, hook, physDown>>
-----------------------------------------------------------------------------
(* The main thread: the first load_setting, pause (or the first half of    *)
(* the re-hook a reload does) and resume.  The hook thread ends with its   *)
(* hook, so its timers and its queue go; ctx.hook_data stays as it is.     *)

LoadSetting ==
    /\ cur_conf = NULL
    /\ cur_conf' = InitialConf
    /\ out' = <<>>
    /\ UNCHANGED <<pressed, pressed_btn, combVars, comb_timer_id, armed, queued,
                   hook, physDown, appDown>>

AtRest == pressed = 0 /\ combinated = 0 /\ ignore_btn_mask = {}

ClearHook ==
    /\ hook = "installed"
    /\ Rehook = "any" \/ (Rehook = "idle" /\ AtRest)
    /\ hook' = "removed"
    /\ armed' = {}
    /\ queued' = {}
    /\ out' = <<>>
    /\ UNCHANGED <<cur_conf, pressed, pressed_btn, combVars, comb_timer_id,
                   physDown, appDown>>

SetHook ==
    /\ hook = "removed"
    /\ hook' = "installed"
    /\ out' = <<>>
    /\ UNCHANGED <<cur_conf, pressed, pressed_btn, combVars, comb_timer_id, armed,
                   queued, physDown, appDown>>

ButtonEvent(b) ==
    \/ PassDown(b) \/ CombinationPress(b) \/ IgnoredDown(b) \/ PendingDown(b)
    \/ PlainDown(b)
    \/ PassUp(b) \/ IgnoredUp(b) \/ CombinationRelease(b) \/ PlainUp(b)

Next ==
    \/ \E b \in Btn : ButtonEvent(b)
    \/ Wheel \/ Move
    \/ \E id \in TimerId : TimerExpires(id) \/ CombTimerNone(id) \/ CombTimer(id)
    \/ LoadSetting \/ ClearHook \/ SetHook

Spec == Init /\ [][Next]_vars

(* Timers expire and the hook thread keeps taking messages; the user and   *)
(* the menu owe nothing.                                                   *)
Fairness ==
    \A id \in TimerId : /\ WF_vars(TimerExpires(id))
                        /\ WF_vars(CombTimer(id) \/ CombTimerNone(id))

FairSpec == Spec /\ Fairness
-----------------------------------------------------------------------------
TypeOK ==
    /\ cur_conf \in ModeName \cup {NULL}
    /\ pressed \in {0, 1}
    /\ pressed_btn \in Btn \cup {0}
    /\ ignore_btn_mask \subseteq 0 .. MOUSE_BTN_MAX - 1
    /\ combinated \in 0 .. MaxComb
    /\ combination \in [0 .. MOUSE_BTN_MAX * 3 - 1 -> 0 .. MOUSE_BTN_MAX - 1]
    /\ comb_timer_id \in TimerId \cup {0}
    /\ armed \subseteq TimerId
    /\ queued \subseteq TimerId
    /\ hook \in {"installed", "removed"}
    /\ physDown \subseteq Btn
    /\ appDown \subseteq 0 .. MOUSE_BTN_MAX - 1
    /\ out \in Seq(Slot)

(* The buttons of the recorded combinations. *)
Paired == {b \in Btn : \E i \in 0 .. combinated - 1 : InPair(i, b)}

(* Every button the hook keeps a debt for is still held: a pending press,  *)
(* the buttons of a combination and the ignored ones, and it is in one of  *)
(* these roles only, once: so the pairs fit the array of main.h 158.  If   *)
(* it fails a later press is swallowed by a stale mask bit (hook.c 288) or *)
(* a release runs an old combination (hook.c 316).                         *)
DebtsAreHeld ==
    /\ \A i, j \in 0 .. combinated * 2 - 1 : combination[i] = combination[j] => i = j
    /\ ignore_btn_mask \cup Paired \subseteq physDown
    /\ ignore_btn_mask \cap Paired = {}
    /\ pressed = 1 => pressed_btn \in physDown \ (ignore_btn_mask \cup Paired)

(* A waiting press always has a timer that will decide it, although timers *)
(* are created and killed by every event and stale ones come late.         *)
PendingHasTimer ==
    hook = "installed" /\ pressed = 1 => comb_timer_id \in armed \cup queued

(* When the user holds nothing and no press waits, the applications see no *)
(* button held: nothing the hook pressed for them stays down.              *)
NothingStuck == physDown = {} /\ pressed = 0 => appDown = {}

(* What do_action sends is legal for the applications: no button goes down *)
(* twice, none goes up that is not down, also when a delayed press and the *)
(* event that decides it are sent together.                                *)
Legal(app, act) ==
    /\ act.code = "BUTTON_D" => act.button \notin app
    /\ act.code = "BUTTON_U" => act.button \in app

BalancedOutput ==
    [][LET first == MouseConf[cur_conf][out'[1]]
           st == Do(Current, out'[1])
       IN /\ Len(out') >= 1 => Legal(appDown, first)
          /\ Len(out') >= 2 => Legal(st.app, MouseConf[st.conf][out'[2]])
      ]_vars

(* A delayed press is never lost: the step that ends its wait, be it any   *)
(* event or a timer that is late, runs its press action or a combination   *)
(* with it, before anything else it runs (hook.c 223-224, 281-283).        *)
PendingNeverLost ==
    [][pressed = 1 /\ (pressed' = 0 \/ pressed_btn' # pressed_btn) =>
           /\ out' # <<>>
           /\ out'[1][1] \in {"d_act", "comb_d_act"}
           /\ out'[1][2] = pressed_btn]_vars

(* A press is not swallowed: the hook runs an action for it, or it waits   *)
(* (doc/CUSTOMIZE.html 259: button-d-X is the action of pressing X).       *)
PressNotSwallowed ==
    [][\A b \in Btn : Filtering /\ b \in physDown' \ physDown =>
           \/ pressed' = 1 /\ pressed_btn' = b
           \/ \E i \in DOMAIN out' : b \in {out'[i][2], out'[i][3]}]_vars

(* A combination's release action runs for two buttons that are held       *)
(* together when one of them is released (doc/CUSTOMIZE.html 278).         *)
CombinationReleaseHeld ==
    [][\A x, y \in Btn : (\E i \in DOMAIN out' : out'[i] = <<"comb_u_act", x, y>>) =>
           {x, y} \subseteq physDown \ ignore_btn_mask]_vars

(* Only the timer of the waiting press ends its waiting time: a press is   *)
(* not decided alone while its threshold-time still runs                   *)
(* (doc/CUSTOMIZE.html 151).                                               *)
ThresholdHonoured ==
    [][queued' # queued /\ pressed = 1 /\ pressed' = 0 => comb_timer_id \in queued]_vars

(* Every press is decided: the timer sees to it without any further event. *)
PendingDecided == (pressed = 1) ~> (pressed = 0)

(***************************************************************************)
(* The array, the mask and the flags implement the phases of ButtonPhases. *)
(***************************************************************************)
PhaseOf(b) ==
    IF b \notin physDown THEN "up"
    ELSE IF pressed = 1 /\ b = pressed_btn THEN "pending"
    ELSE IF b \in ignore_btn_mask THEN "ignored"
    ELSE IF b \in Paired THEN "paired"
    ELSE "plain"

Phases == INSTANCE ButtonPhases WITH
    phase     <- [b \in Btn |-> PhaseOf(b)],
    pairs     <- {<<combination[i * 2], combination[i * 2 + 1]>> :
                     i \in 0 .. combinated - 1},
    filtering <- IF Filtering THEN "yes" ELSE "no"

(* Every step of the hook is one of ButtonPhases or changes nothing there. *)
ImplementsPhases == Phases!Spec

(* However the hook was removed and set again before, with buttons held    *)
(* and released unseen: as long as what is recorded are debts of buttons   *)
(* that are held, an event is handled as ButtonPhases says (hook.c         *)
(* 229-374), also when actions change the mode and with it the tables.     *)
PhasesWhileHeld ==
    [][DebtsAreHeld /\ DebtsAreHeld' /\ Filtering /\ Filtering' => Phases!Next]_vars
=============================================================================
