----------------------------- MODULE ScrollMode -----------------------------
(***************************************************************************)
(* Modes: what do_action (hook.c) and load_setting (conf.c) do to          *)
(* ctx.mode_data.cur_conf, and how the main thread follows them with the   *)
(* messages of scroll.c.  The hook thread switches the mode at once; the   *)
(* main thread learns of it from the queue, possibly much later (it waits  *)
(* for other windows while it scrolls), and reads cur_conf as it is then.  *)
(* Messages carry pointers into the configuration a reload frees.  One     *)
(* axis is kept, y behaves as x.                                           *)
(***************************************************************************)
EXTENDS Integers, Sequences

CONSTANTS
    NormalConf,   \* the mouse_conf of the normal modes
    ScrollConf,   \* and of the scroll modes
    InitialConf,  \* ctx.app_conf.initial_conf
    Acts,         \* the MODECH and MODEMSG actions each mode may run
    ScrollRatio,  \* scroll_mode.x_ratio of each mode
    NULL,         \* no operator
    MaxGen,       \* bounds the configurations loaded
    MaxQueue,     \* how many messages a queue holds (Windows: 10000)
    MaxRatio,     \* bounds the ratio the user asks for; it is not multiplied after a loss
    MaxMove,      \* bounds the movement not yet scrolled
    Reload        \* when settings are loaded again: "paused" or "any"

Conf == NormalConf \cup ScrollConf

(* The data of a message: the mode a MODECH changes to; n is the movement  *)
(* of a SCROLL, relative to where the scroll mode holds the pointer, and   *)
(* the ratio of a MUL_RATIO or SET_RATIO.                                  *)
Kind == {"MODECH", "SCROLL", "MUL_RATIO", "SET_RATIO"}

Act == [kind : Kind, conf : Conf, n : Int]

(* Of apply_action_* and apply_mode_conf: the mode a MODECH announces is   *)
(* the kind of the mouse_conf it switches to, normal modes have no ratio,  *)
(* only scroll modes report movements.                                     *)
ASSUME ModeAssumption ==
    /\ NormalConf \cap ScrollConf = {}
    /\ InitialConf \in NormalConf
    /\ \A c \in Conf : \A a \in Acts[c] : a \in Act
    /\ \A c \in NormalConf : \A a \in Acts[c] : a.kind # "SCROLL"
    /\ ScrollRatio \in [Conf -> Int]
    /\ \A c \in NormalConf : ScrollRatio[c] = 0
    /\ NULL \notin 1 .. MaxGen
    /\ MaxGen \in Nat \ {0} /\ MaxQueue \in Nat \ {0}
    /\ Reload \in {"paused", "any"}

VARIABLES
    cur_conf,    \* [gen, conf]: a mouse_conf of the gen-th configuration
    hook,        \* the hook thread: "idle", "switch" or "post"
    act,         \* the action do_action runs, with the configuration it is in
    queue,       \* WM_MOUSEHOOK_MODECH and MODEMSG messages
    main,        \* the main thread: "idle", "loop" or a step of load_setting
    cur_mode,
    x_ratio,
    dx,
    op,          \* NULL or the configuration ctx.mode_data.scroll.op is in
    op_context,  \* "none", "allocated" or "initialised"
    app_gen,     \* the configuration in ctx.app_conf
    live,        \* the configurations not freed yet
    raw,         \* the movement dx stands for
    asked,       \* the ratio of the user's last mode change, times and sets since
    lost         \* history: a message was lost since a mode change was last posted

vars == <<cur_conf, hook, act, queue, main, cur_mode, x_ratio, dx, op,
          op_context, app_gen, live, raw, asked, lost>>

hookVars  == <<hook, act, asked, lost>>
scrollVars == <<x_ratio, dx, raw, op, op_context, cur_mode>>
confVars  == <<app_gen, live>>

Init ==
    /\ cur_conf = [gen |-> 1, conf |-> InitialConf]
    /\ hook = "idle"
    /\ act = [kind |-> "MODECH", conf |-> InitialConf, n |-> 0, gen |-> 1]
    /\ queue = <<>>
    /\ main = "idle"
    /\ cur_mode = "NORMAL"
    /\ x_ratio = 0
    /\ dx = 0
    /\ op = NULL
    /\ op_context = "none"
    /\ app_gen = 1
    /\ live = {1}
    /\ raw = 0
    /\ asked = 0
    /\ lost = FALSE
-----------------------------------------------------------------------------
(* The hook thread: do_action. *)

Movement(data) == IF data.kind = "SCROLL" THEN data.n ELSE 0

(* The movements reported in the queue. *)
Waiting(q) ==
    LET sum[i \in 0 .. Len(q)] ==
          IF i = 0 THEN 0 ELSE sum[i - 1] + Movement(q[i].data)
    IN  sum[Len(q)]

(* Reading a mouse_conf or an action of it: anything, once it is freed. *)
ActsOf(c) == IF c.gen \in live THEN Acts[c.conf]
                               ELSE UNION {Acts[d] : d \in Conf}

ReadAct ==
    /\ hook = "idle"
    /\ Reload = "any" \/ main \in {"idle", "loop"}
    /\ \E a \in ActsOf(cur_conf) :
         /\ a.kind = "MUL_RATIO" => ~lost /\ asked * a.n \in -MaxRatio .. MaxRatio
         /\ Waiting(queue) + raw + Movement(a) <= MaxMove
         /\ act' = [kind |-> a.kind, conf |-> a.conf, n |-> a.n, gen |-> cur_conf.gen]
         /\ hook' = IF a.kind = "MODECH" THEN "switch" ELSE "post"
    /\ UNCHANGED <<cur_conf, queue, main, scrollVars, confVars, asked, lost>>

SwitchConf ==
    /\ hook = "switch"
    /\ hook' = "post"
    /\ \E c \in IF act.gen \in live THEN {act.conf} ELSE Conf :
         cur_conf' = [gen |-> act.gen, conf |-> c]
    /\ UNCHANGED <<act, asked, lost, queue, main, scrollVars, confVars>>

(* The ratio after an action, where it was r before. *)
AskedBy(a, r) == CASE a.kind = "MODECH"    -> ScrollRatio[a.conf]
                   [] a.kind = "SCROLL"    -> r
                   [] a.kind = "MUL_RATIO" -> r * a.n
                   [] a.kind = "SET_RATIO" -> a.n

(* Whether PostMessage could store the message is not asked: with a full   *)
(* queue it is lost, and the mode has been switched all the same.          *)
PostAct ==
    /\ hook = "post"
    /\ hook' = "idle"
    /\ asked' = AskedBy(act, asked)
    /\ \/ /\ Len(queue) < MaxQueue
          /\ queue' = Append(queue, [data |-> act, asked |-> asked'])
          /\ lost' = (lost /\ act.kind # "MODECH")
       \/ /\ Len(queue) = MaxQueue
          /\ lost' = TRUE
          /\ UNCHANGED queue
    /\ UNCHANGED <<act, cur_conf, main, scrollVars, confVars>>
-----------------------------------------------------------------------------
(* The main thread: scroll_modech and scroll_modemsg. *)

(* What the handler reads through lparam: once it is freed, any mode that  *)
(* the message's own handler may know, or none. The movement is in wparam. *)
Read(data) ==
    IF data.gen \in live THEN {data}
    ELSE {[kind |-> a.kind, conf |-> a.conf, gen |-> data.gen,
           n |-> IF a.kind = "SCROLL" THEN Movement(data) ELSE a.n] :
             a \in {b \in UNION {Acts[d] : d \in Conf} :
                    b.kind = "MODECH" <=> data.kind = "MODECH"}}
         \cup {[data EXCEPT !.kind = "UNKNOWN"]}

Handles(data) ==
    /\ main = "idle" /\ queue # <<>>
    /\ data \in Read(Head(queue).data)
    /\ queue' = Tail(queue)
    /\ UNCHANGED <<cur_conf, hookVars, confVars>>

(* ctx.mode_data.cur_conf->scroll_mode.x_ratio, as it is now. *)
CurRatio == IF cur_conf.gen \in live THEN {ScrollRatio[cur_conf.conf]}
                                     ELSE {ScrollRatio[d] : d \in Conf}

(* Mutant: a start that fails leaves the mode. *)
StartScrollModeOrNot(data) ==
    /\ Handles(data)
    /\ data.kind = "MODECH" /\ data.conf \in ScrollConf
    /\ cur_mode # "SCROLL"
    /\ x_ratio' \in CurRatio
    /\ \/ UNCHANGED <<op, op_context, cur_mode>>
       \/ op_context' = "initialised" /\ op' = app_gen /\ cur_mode' = "SCROLL"
    /\ UNCHANGED <<main, dx, raw>>

StartScrollMode(data) ==
    /\ Handles(data)
    /\ data.kind = "MODECH" /\ data.conf \in ScrollConf
    /\ cur_mode # "SCROLL"
    /\ x_ratio' \in CurRatio
    /\ \/ UNCHANGED <<op, op_context>>   \* no target, no window conf, no size, no memory
       \/ op_context' = "allocated" /\ UNCHANGED op    \* init_context fails
       \/ op_context' = "initialised" /\ op' = app_gen
    /\ cur_mode' = "SCROLL"
    /\ UNCHANGED <<main, dx, raw>>

(* Mutant: the ratio stays. *)
ShiftScrollModeKeepsRatio(data) ==
    /\ Handles(data)
    /\ data.kind = "MODECH" /\ data.conf \in ScrollConf
    /\ cur_mode = "SCROLL"
    /\ UNCHANGED <<x_ratio, main, cur_mode, dx, raw, op, op_context>>

ShiftScrollMode(data) ==
    /\ Handles(data)
    /\ data.kind = "MODECH" /\ data.conf \in ScrollConf
    /\ cur_mode = "SCROLL"
    /\ x_ratio' \in CurRatio
    /\ UNCHANGED <<main, cur_mode, dx, raw, op, op_context>>

(* Mutant: the name of the mode is kept instead of its kind. *)
EndOpMode ==
    /\ op' = NULL
    /\ op_context' = "none"
    /\ cur_mode' = cur_conf.conf
    /\ UNCHANGED <<x_ratio, dx, raw>>

(* Mutant: the context is freed, the operator stays. *)
EndOpFreesContext ==
    /\ op_context' = "none"
    /\ cur_mode' = "NORMAL"
    /\ UNCHANGED <<x_ratio, dx, raw, op>>

(* Mutant: the operator is forgotten. *)
EndOpModeOnly ==
    /\ cur_mode' = "NORMAL"
    /\ UNCHANGED <<x_ratio, dx, raw, op, op_context>>

EndOp ==
    /\ op' = NULL
    /\ op_context' = "none"
    /\ cur_mode' = "NORMAL"
    /\ UNCHANGED <<x_ratio, dx, raw>>

EndScrollMode(data) ==
    /\ Handles(data)
    /\ data.kind = "MODECH" /\ data.conf \in NormalConf
    /\ EndOp
    /\ UNCHANGED main

(* scroll_modemsg, then scroll_modemsg_scroll up to its loop. *)
ModeMsgScroll(data) ==
    /\ Handles(data)
    /\ data.kind = "SCROLL"
    /\ dx' = data.n * x_ratio
    /\ raw' = IF op = NULL THEN 0 ELSE data.n
    /\ main' = IF op = NULL THEN "idle" ELSE "loop"
    /\ UNCHANGED <<x_ratio, op, op_context, cur_mode>>

(* Neither handler does anything with a mode it does not know. *)
RatioAfter(data) == CASE data.kind = "MUL_RATIO" -> x_ratio * data.n
                      [] data.kind = "SET_RATIO" -> data.n
                      [] data.kind = "UNKNOWN"   -> x_ratio

ModeMsgRatio(data) ==
    /\ Handles(data)
    /\ data.kind \in {"MUL_RATIO", "SET_RATIO", "UNKNOWN"}
    /\ x_ratio' = RatioAfter(data)
    /\ UNCHANGED <<main, dx, raw, op, op_context, cur_mode>>

(* Mutant: the movement replaces the last one. *)
LoopTakeReplaces(data) ==
    /\ main = "loop" /\ queue # <<>>
    /\ data \in Read(Head(queue).data) /\ data.kind = "SCROLL"
    /\ queue' = Tail(queue)
    /\ dx' = data.n * x_ratio
    /\ raw' = raw + data.n
    /\ UNCHANGED <<cur_conf, hookVars, main, x_ratio, op, op_context, cur_mode, confVars>>

(* The loop takes the movements that wait, up to the first other message.  *)
(* Wheel messages are outside the range PeekMessage looks at.              *)
LoopTake(data) ==
    /\ main = "loop" /\ queue # <<>>
    /\ data \in Read(Head(queue).data) /\ data.kind = "SCROLL"
    /\ queue' = Tail(queue)
    /\ dx' = dx + data.n * x_ratio
    /\ raw' = raw + data.n
    /\ UNCHANGED <<cur_conf, hookVars, main, x_ratio, op, op_context, cur_mode, confVars>>

(* proc.scroll of the operator gets dx. *)
Scroll ==
    /\ main = "loop"
    /\ queue # <<>> => \E data \in Read(Head(queue).data) : data.kind # "SCROLL"
    /\ main' = "idle"
    /\ raw' = 0
    /\ UNCHANGED <<cur_conf, hookVars, queue, x_ratio, dx, op, op_context, cur_mode, confVars>>

MainStep(data) ==
    \/ StartScrollMode(data) \/ ShiftScrollMode(data) \/ EndScrollMode(data)
    \/ ModeMsgScroll(data) \/ ModeMsgRatio(data) \/ LoopTake(data)
-----------------------------------------------------------------------------
(* load_setting on the main thread, once the new settings are complete.    *)

ReplaceSetting ==
    /\ main = "idle" /\ app_gen < MaxGen
    /\ Reload = "any" \/ (hook = "idle" /\ queue = <<>>)
    /\ app_gen' = app_gen + 1
    /\ live' = live \cup {app_gen'}
    /\ main' = "set_conf"
    /\ UNCHANGED <<cur_conf, hookVars, queue, scrollVars>>

(* Mutant: cur_conf stays in the old configuration. *)
SetInitialConfForgotten ==
    /\ main = "set_conf"
    /\ main' = "notify"
    /\ UNCHANGED <<cur_conf, hookVars, queue, scrollVars, confVars>>

(* Mutant: the main thread's mode is not ended. *)
SetInitialConfOnly ==
    /\ main = "set_conf"
    /\ cur_conf' = [gen |-> app_gen, conf |-> InitialConf]
    /\ main' = "free"
    /\ UNCHANGED <<hookVars, queue, scrollVars, confVars>>

SetInitialConf ==
    /\ main = "set_conf"
    /\ cur_conf' = [gen |-> app_gen, conf |-> InitialConf]
    /\ main' = "notify"
    /\ UNCHANGED <<hookVars, queue, scrollVars, confVars>>

(* SendMessage to a window of its own thread: a call of scroll_modech. *)
NotifyNormal ==
    /\ main = "notify"
    /\ EndOp
    /\ main' = "free"
    /\ UNCHANGED <<cur_conf, hookVars, queue, confVars>>

FreeSetting ==
    /\ main = "free"
    /\ live' = {app_gen}
    /\ main' = "idle"
    /\ UNCHANGED <<cur_conf, hookVars, queue, scrollVars, app_gen>>

LoadStep == SetInitialConf \/ NotifyNormal \/ FreeSetting

Datas == UNION {Read(queue[i].data) : i \in DOMAIN queue}

Next ==
    \/ ReadAct \/ SwitchConf \/ PostAct
    \/ \E data \in Datas : MainStep(data)
    \/ Scroll
    \/ ReplaceSetting \/ LoadStep

Spec == Init /\ [][Next]_vars

(* Both threads go on with what they have begun; the user owes no event.   *)
FairSpec ==
    /\ Spec
    /\ WF_vars(SwitchConf \/ PostAct)
    /\ WF_vars((\E data \in Datas : MainStep(data)) \/ Scroll \/ LoadStep)
-----------------------------------------------------------------------------
TypeOK ==
    /\ cur_conf \in [gen : 1 .. MaxGen, conf : Conf]
    /\ hook \in {"idle", "switch", "post"}
    /\ act \in [kind : Kind, conf : Conf, n : Int, gen : 1 .. MaxGen]
    /\ Len(queue) <= MaxQueue
    /\ main \in {"idle", "loop", "set_conf", "notify", "free"}
    /\ cur_mode \in {"NORMAL", "SCROLL"}
    /\ x_ratio \in Int /\ dx \in Int /\ raw \in Int /\ asked \in Int
    /\ op \in (1 .. MaxGen) \cup {NULL}
    /\ op_context \in {"none", "allocated", "initialised"}
    /\ app_gen \in 1 .. MaxGen
    /\ live \subseteq 1 .. MaxGen
    /\ lost \in BOOLEAN

(* The operator exists only in the main thread's scroll mode, on a context *)
(* that init_context completed; a context that no operator uses is the one *)
(* of a failed start, and none is left in normal mode (scroll.c 124-144,   *)
(* 166-186), so none is lost when the next one is allocated.               *)
OpLifecycle ==
    /\ op # NULL <=> op_context = "initialised"
    /\ op_context # "none" => cur_mode = "SCROLL"
    /\ main = "loop" => op # NULL

(* The operator never outlives the configuration it was made from: the     *)
(* reload ends it before it frees the old one (conf.c 1409, 1419).         *)
OpConfLive == op # NULL => op \in live

(* Once the messages are handled the main thread is in the mode the hook   *)
(* filters for, however the two were interleaved; a message that a full    *)
(* queue lost is made good by the next mode change that is posted.         *)
Synced ==
    queue = <<>> /\ hook = "idle" /\ main = "idle" /\ ~lost =>
        (cur_mode = "SCROLL" <=> cur_conf.conf \in ScrollConf)

(* And its ratio is the one the user's actions ask for, although it was    *)
(* taken from whatever cur_conf was when each change was handled.          *)
RatioAgrees ==
    /\ queue = <<>> /\ hook = "idle" /\ main = "idle" /\ ~lost
    /\ cur_conf.conf \in ScrollConf
    => x_ratio = asked

(* A reload takes effect: the modes of the old configuration are gone      *)
(* (doc/CUSTOMIZE.html 227).                                               *)
ReloadTakesEffect == main = "idle" => cur_conf.gen = app_gen

(* A reported movement is given to the operator, once: what leaves the     *)
(* queue is in dx, scaled, until proc.scroll gets it; only without an      *)
(* operator is it dropped (scroll.c 236-274, 328-333).                     *)
MovementConserved ==
    [][Waiting(queue') + raw' # Waiting(queue) + raw /\ hook' = hook =>
           \/ op = NULL
           \/ main = "loop" /\ main' = "idle" /\ queue' = queue /\ dx = raw * x_ratio]_vars

(* Once the user stays in normal modes the operator ends and stays ended,  *)
(* if the message that tells it was not lost.                              *)
OperatorEnds ==
    <>[](cur_conf.conf \in NormalConf /\ ~lost) => <>[](op = NULL)
=============================================================================
