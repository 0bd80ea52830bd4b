----------------------------- MODULE HookThread -----------------------------
(***************************************************************************)
(* The life of the hook thread: hook_thread, set_hook and clear_hook of    *)
(* hook.c and their callers in main.c (main_create, menu_pause,            *)
(* menu_reload, main_destroy).  The main thread and the hook threads share *)
(* mouse_ll_hook, hook_thread_id and hook_thread_end_evt without a lock,   *)
(* so every read or write of one of them is a step.  A thread that has     *)
(* ended may be created again: Windows reuses thread ids.                  *)
(***************************************************************************)
EXTENDS Naturals, FiniteSets

CONSTANTS
    Thread,    \* hook threads alive at once, by thread id
    NULL       \* no thread id, no hook handle

ASSUME ThreadAssumption == NULL \notin Thread

VARIABLES
    mouse_ll_hook,        \* the handle, named by the thread that installed it
    hook_thread_id,
    end_evt,              \* hook_thread_end_evt: "none", "open", "set", "closed"
    installed,            \* threads whose hook Windows calls
    ending,               \* threads with HOOK_THREAD_END in their queue
    start_evt,            \* struct hook_data, on set_hook's stack
    ret,
    pc,                   \* where each hook thread is
    op,                   \* what the main thread is doing
    main,                 \* where it is in set_hook or clear_hook
    pause,
    late                  \* the schedule lets an ended hook thread be overtaken by
                          \* the next one between its SetEvent and its last
                          \* statement; chosen once, so that what holds without
                          \* it can be stated

vars == <<mouse_ll_hook, hook_thread_id, end_evt, installed, ending, start_evt,
          ret, pc, op, main, pause, late>>

threadVars == <<mouse_ll_hook, hook_thread_id, installed, pc>>

Init ==
    /\ mouse_ll_hook = NULL
    /\ hook_thread_id = NULL
    /\ end_evt = "none"
    /\ installed = {}
    /\ ending = {}
    /\ start_evt = "none"
    /\ ret = 0
    /\ pc = [t \in Thread |-> "none"]
    /\ op = "create"
    /\ main = "set_hook"
    /\ pause = 0
    /\ late \in BOOLEAN
-----------------------------------------------------------------------------
(* The main thread: the window procedures that hook and unhook. *)

(* menu_pause: the flag first, then clear_hook or set_hook. *)
MenuPause ==
    /\ op = "none"
    /\ op' = "pause"
    /\ pause' = 1 - pause
    /\ main' = IF pause = 0 THEN "clear_hook" ELSE "set_hook"
    /\ UNCHANGED <<threadVars, end_evt, ending, start_evt, ret, late>>

(* menu_reload, when not paused: clear_hook, then set_hook. *)
MenuReload ==
    /\ op = "none" /\ pause = 0
    /\ op' = "reload"
    /\ main' = "clear_hook"
    /\ UNCHANGED <<threadVars, end_evt, ending, start_evt, ret, pause, late>>

(* main_destroy. *)
MainDestroy ==
    /\ op = "none"
    /\ op' = "destroy"
    /\ main' = "clear_hook"
    /\ UNCHANGED <<threadVars, end_evt, ending, start_evt, ret, pause, late>>

(* set_hook or clear_hook has returned r: what the caller does next. *)
Return(r) ==
    IF op = "reload" /\ main \in {"clear_hook", "wait_end"}
    THEN main' = "set_hook" /\ op' = op
    ELSE /\ main' = "idle"
         /\ op' = IF op = "destroy" \/ (op = "create" /\ r = 0) THEN "quit" ELSE "none"

SetHookCreates ==
    /\ main = "set_hook" /\ mouse_ll_hook = NULL
    /\ late \/ \A t \in Thread : pc[t] = "none"
    /\ \E t \in Thread : pc[t] = "none" /\ pc' = [pc EXCEPT ![t] = "start"]
    /\ start_evt' = "open"
    /\ end_evt' = "open"
    /\ ret' = 0
    /\ main' = "wait_start"
    /\ UNCHANGED <<mouse_ll_hook, hook_thread_id, installed, ending, op, pause, late>>

(* CreateEvent or _beginthread fails. *)
SetHookFails ==
    /\ main = "set_hook" /\ mouse_ll_hook = NULL
    /\ end_evt' \in {"none", "open"}
    /\ Return(0)
    /\ UNCHANGED <<threadVars, ending, start_evt, ret, pause, late>>

(* Mutant: no wait for the start event. *)
SetHookReturnsAtOnce ==
    /\ main = "wait_start"
    /\ start_evt' = "closed"
    /\ Return(ret)
    /\ UNCHANGED <<threadVars, end_evt, ending, ret, pause, late>>

SetHookReturns ==
    /\ main = "wait_start" /\ start_evt = "set"
    /\ start_evt' = "closed"
    /\ Return(ret)
    /\ UNCHANGED <<threadVars, end_evt, ending, ret, pause, late>>

ClearHookDone ==
    /\ main = "clear_hook" /\ mouse_ll_hook = NULL
    /\ Return(1)
    /\ UNCHANGED <<threadVars, end_evt, ending, start_evt, ret, pause, late>>

(* PostThreadMessage to whatever hook_thread_id says: lost on no thread. *)
ClearHookPosts ==
    /\ main = "clear_hook" /\ mouse_ll_hook # NULL
    /\ ending' = ending \cup {t \in Thread : t = hook_thread_id /\ pc[t] # "none"}
    /\ main' = "wait_end"
    /\ UNCHANGED <<threadVars, end_evt, start_evt, ret, op, pause, late>>

(* Mutant: no wait for the end event. *)
ClearHookReturnsAtOnce ==
    /\ main = "wait_end"
    /\ end_evt' = "closed"
    /\ Return(1)
    /\ UNCHANGED <<threadVars, ending, start_evt, ret, pause, late>>

ClearHookReturns ==
    /\ main = "wait_end" /\ end_evt = "set"
    /\ end_evt' = "closed"
    /\ Return(1)
    /\ UNCHANGED <<threadVars, ending, start_evt, ret, pause, late>>
-----------------------------------------------------------------------------
(* hook_thread, statement by statement. *)

StoreId(t) ==
    /\ pc[t] = "start"
    /\ hook_thread_id' = t
    /\ pc' = [pc EXCEPT ![t] = "install"]
    /\ UNCHANGED <<mouse_ll_hook, installed, end_evt, ending, start_evt, ret, op, main, pause, late>>

(* Mutant: the handle is not stored. *)
InstallLocally(t) ==
    /\ pc[t] = "install"
    /\ installed' = installed \cup {t}
    /\ ret' = 1
    /\ pc' = [pc EXCEPT ![t] = "started"]
    /\ UNCHANGED <<mouse_ll_hook, hook_thread_id, end_evt, ending, start_evt, op, main, pause, late>>

Install(t) ==
    /\ pc[t] = "install"
    /\ installed' = installed \cup {t}
    /\ mouse_ll_hook' = t
    /\ ret' = 1
    /\ pc' = [pc EXCEPT ![t] = "started"]
    /\ UNCHANGED <<hook_thread_id, end_evt, ending, start_evt, op, main, pause, late>>

(* Mutant: returns without SetEvent. *)
InstallFailsSilently(t) ==
    /\ pc[t] = "install"
    /\ mouse_ll_hook' = NULL
    /\ hook_thread_id' = NULL
    /\ ret' = 0
    /\ pc' = [pc EXCEPT ![t] = "exit"]
    /\ UNCHANGED <<installed, end_evt, ending, start_evt, op, main, pause, late>>

(* SetWindowsHookEx fails. *)
InstallFails(t) ==
    /\ pc[t] = "install"
    /\ mouse_ll_hook' = NULL
    /\ hook_thread_id' = NULL
    /\ ret' = 0
    /\ pc' = [pc EXCEPT ![t] = "started"]
    /\ UNCHANGED <<installed, end_evt, ending, start_evt, op, main, pause, late>>

SignalStart(t) ==
    /\ pc[t] = "started"
    /\ start_evt' = "set"
    /\ pc' = [pc EXCEPT ![t] = "loop"]
    /\ UNCHANGED <<mouse_ll_hook, hook_thread_id, installed, end_evt, ending, ret, op, main, pause, late>>

(* while(hook_thread_id > 0) *)
Loop(t) ==
    /\ pc[t] = "loop"
    /\ pc' = [pc EXCEPT ![t] = IF hook_thread_id # NULL THEN "get_message" ELSE "exit"]
    /\ UNCHANGED <<mouse_ll_hook, hook_thread_id, installed, end_evt, ending,
                   start_evt, ret, op, main, pause, late>>

(* Any other message, a WM_TIMER of a combination: dispatched, around again. *)
OtherMessage(t) ==
    /\ pc[t] = "get_message"
    /\ pc' = [pc EXCEPT ![t] = "loop"]
    /\ UNCHANGED <<mouse_ll_hook, hook_thread_id, installed, end_evt, ending,
                   start_evt, ret, op, main, pause, late>>

(* Mutant: the handle is not reset. *)
EndMessageKeepsHandle(t) ==
    /\ pc[t] = "get_message" /\ t \in ending
    /\ ending' = ending \ {t}
    /\ installed' = installed \ {mouse_ll_hook}
    /\ pc' = [pc EXCEPT ![t] = "ended"]
    /\ UNCHANGED <<mouse_ll_hook, hook_thread_id, end_evt, start_evt, ret, op, main, pause, late>>

(* HOOK_THREAD_END: UnhookWindowsHookEx(mouse_ll_hook). *)
EndMessage(t) ==
    /\ pc[t] = "get_message" /\ t \in ending
    /\ ending' = ending \ {t}
    /\ installed' = installed \ {mouse_ll_hook}
    /\ mouse_ll_hook' = NULL
    /\ pc' = [pc EXCEPT ![t] = "ended"]
    /\ UNCHANGED <<hook_thread_id, end_evt, start_evt, ret, op, main, pause, late>>

(* Mutant: no SetEvent. *)
SignalEndForgotten(t) ==
    /\ pc[t] = "ended"
    /\ pc' = [pc EXCEPT ![t] = "exit"]
    /\ UNCHANGED <<mouse_ll_hook, hook_thread_id, end_evt, installed, ending, start_evt,
                   ret, op, main, pause, late>>

SignalEnd(t) ==
    /\ pc[t] = "ended"
    /\ end_evt' = IF end_evt = "open" THEN "set" ELSE end_evt
    /\ pc' = [pc EXCEPT ![t] = "exit"]
    /\ UNCHANGED <<mouse_ll_hook, hook_thread_id, installed, ending, start_evt, ret, op, main, pause, late>>

(* hook_thread_id = 0 and _endthread: Windows removes what the thread owns. *)
Exit(t) ==
    /\ pc[t] = "exit"
    /\ hook_thread_id' = NULL
    /\ installed' = installed \ {t}
    /\ ending' = ending \ {t}
    /\ pc' = [pc EXCEPT ![t] = "none"]
    /\ UNCHANGED <<mouse_ll_hook, end_evt, start_evt, ret, op, main, pause, late>>

(* After WM_DESTROY the process ends with whatever is left. *)
Quit == op = "quit" /\ UNCHANGED vars

MainStep ==
    \/ SetHookCreates \/ SetHookFails \/ SetHookReturns
    \/ ClearHookDone \/ ClearHookPosts \/ ClearHookReturns

ThreadStep(t) ==
    \/ StoreId(t) \/ Install(t) \/ InstallFails(t) \/ SignalStart(t)
    \/ Loop(t) \/ EndMessage(t) \/ SignalEnd(t) \/ Exit(t)

Next ==
    \/ MenuPause \/ MenuReload \/ MainDestroy
    \/ MainStep
    \/ \E t \in Thread : ThreadStep(t) \/ OtherMessage(t)
    \/ Quit

Spec == Init /\ [][Next]_vars

(* Both threads run; a posted HOOK_THREAD_END is taken although timer      *)
(* messages keep coming, the queue being first in, first out.  Nothing is  *)
(* owed by the user.                                                       *)
FairSpec ==
    /\ Spec
    /\ WF_vars(MainStep)
    /\ \A t \in Thread : WF_vars(ThreadStep(t)) /\ SF_vars(EndMessage(t))
-----------------------------------------------------------------------------
TypeOK ==
    /\ mouse_ll_hook \in Thread \cup {NULL}
    /\ hook_thread_id \in Thread \cup {NULL}
    /\ end_evt \in {"none", "open", "set", "closed"}
    /\ installed \subseteq Thread
    /\ ending \subseteq Thread
    /\ start_evt \in {"none", "open", "set", "closed"}
    /\ ret \in {0, 1}
    /\ pc \in [Thread -> {"none", "start", "install", "started", "loop",
                          "get_message", "ended", "exit"}]
    /\ op \in {"none", "create", "pause", "reload", "destroy", "quit"}
    /\ main \in {"idle", "set_hook", "wait_start", "clear_hook", "wait_end"}
    /\ pause \in {0, 1}
    /\ late \in BOOLEAN

(* A hook Windows still calls is one the program can remove: its handle is *)
(* in mouse_ll_hook.                                                       *)
InstalledIsKnown == installed \subseteq {mouse_ll_hook}

(* Never two hooks at once, although a reload starts the next thread while *)
(* the last one is still on its way out: an event filtered twice would     *)
(* inject every click twice.  The one there is can be removed.  And        *)
(* set_hook always finds the handle reset: its early return (hook.c 431),  *)
(* a success without a hook, never happens and is no action here.          *)
AtMostOneHook ==
    /\ Cardinality(installed) <= 1 /\ InstalledIsKnown
    /\ main = "set_hook" => mouse_ll_hook = NULL

(* README.txt: while paused, mouse input works as before the program was   *)
(* started.  Once menu_pause has returned nothing is hooked.               *)
PausedMeansUnhooked == pause = 1 /\ op = "none" => installed = {}

(* hook_thread reads and writes struct hook_data only while set_hook, on   *)
(* whose stack it lies, still waits.                                       *)
StackDataAlive ==
    \A t \in Thread : pc[t] \in {"start", "install", "started"} =>
        main = "wait_start" /\ start_evt = "open"

(* The end event is signalled while clear_hook waits for it, never through *)
(* a closed handle or into the event of the next thread.                   *)
EndEventAlive ==
    \A t \in Thread : pc[t] = "ended" => main = "wait_end" /\ end_evt = "open"

(* set_hook returns: its thread reports success or failure. *)
SetHookTerminates == main = "wait_start" ~> main # "wait_start"

(* clear_hook returns: the thread it waits for ends (hook.c 471), provided *)
(* that no thread is overtaken.                                            *)
ClearHookTerminates == main = "wait_end" /\ ~late ~> main # "wait_end"

(* menu_reload hooks again if not paused (main.c 169): when the main       *)
(* thread is done, the handle in mouse_ll_hook is a hook Windows calls.    *)
HookIsServed == op = "none" /\ mouse_ll_hook # NULL => mouse_ll_hook \in installed

(* So it is when no thread is overtaken, in any sequence of pauses,        *)
(* reloads and failures: only the late store of hook.c 425 breaks it.      *)
HookIsServedInTurn == ~late => HookIsServed
=============================================================================
