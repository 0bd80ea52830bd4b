-------------------------- MODULE HookThreadProofs --------------------------
(***************************************************************************)
(* Proofs about HookThread, for any set of threads, whether or not an old  *)
(* thread may be overtaken.  Several threads may be alive: the one that    *)
(* serves the hook, old ones on their way out, and ones whose hook failed  *)
(* and that found another thread's id in hook_thread_id.  The invariant    *)
(* says what the shared variables are while a thread is in the statements  *)
(* that use them.                                                          *)
(***************************************************************************)
EXTENDS HookThread, FiniteSetTheorems, TLAPS

Starting == {"start", "install", "started"}

(* The main thread's two variables agree. *)
MainAgrees ==
    /\ main = "idle" <=> op \in {"none", "quit"}
    /\ op = "reload" => pause = 0
    /\ op = "create" => pause = 0 /\ main \in {"set_hook", "wait_start"}

(* A starting thread is the only one, and nothing is hooked before it is. *)
StartIsAlone ==
    /\ \A t \in Thread : pc[t] \in Starting =>
         /\ main = "wait_start" /\ start_evt = "open" /\ end_evt = "open"
         /\ mouse_ll_hook \in {NULL, t}
         /\ pc[t] # "started" => mouse_ll_hook = NULL
         /\ pc[t] = "install" => hook_thread_id \in {NULL, t}
    /\ \A s, t \in Thread : pc[s] \in Starting /\ pc[t] \in Starting => s = t

(* An installed hook has its end event, and nobody else's thread id. *)
HookedState ==
    /\ mouse_ll_hook # NULL => end_evt = "open" /\ hook_thread_id \in {NULL, mouse_ll_hook}
    /\ main = "set_hook" => mouse_ll_hook = NULL

(* Only the thread of the hook is asked to end, while clear_hook waits. *)
EndIsAlone ==
    /\ \A t \in ending : main = "wait_end" /\ mouse_ll_hook = t
    /\ \A t \in Thread : pc[t] = "ended" =>
         main = "wait_end" /\ end_evt = "open" /\ mouse_ll_hook = NULL
    /\ \A s, t \in Thread : pc[s] = "ended" /\ pc[t] = "ended" => s = t

PausedState ==
    pause = 1 => /\ main \in {"idle", "clear_hook", "wait_end"}
                 /\ main = "idle" => mouse_ll_hook = NULL

IInv ==
    /\ TypeOK
    /\ MainAgrees
    /\ StartIsAlone
    /\ HookedState
    /\ EndIsAlone
    /\ PausedState
    /\ InstalledIsKnown

(* The invariant at the start. *)
LEMMA InitIInv == Init => IInv
BY ThreadAssumption DEF Init, IInv, TypeOK, MainAgrees, StartIsAlone, HookedState,
   EndIsAlone, PausedState, InstalledIsKnown, Starting

(* The steps of the main thread. *)
LEMMA MainKeepsIInv ==
    IInv /\ (MenuPause \/ MenuReload \/ MainDestroy \/ MainStep) => IInv'
<1> SUFFICES ASSUME IInv PROVE MenuPause \/ MenuReload \/ MainDestroy \/ MainStep => IInv'
  OBVIOUS
<1> USE ThreadAssumption DEF IInv, TypeOK, MainAgrees, StartIsAlone, HookedState,
        EndIsAlone, PausedState, InstalledIsKnown, Starting, threadVars
<1>1. CASE MenuPause
  BY <1>1 DEF MenuPause
<1>2. CASE MenuReload
  BY <1>2 DEF MenuReload
<1>3. CASE MainDestroy
  BY <1>3 DEF MainDestroy
<1>4. CASE SetHookCreates
  BY <1>4 DEF SetHookCreates
<1>5. CASE SetHookFails
  BY <1>5 DEF SetHookFails, Return
<1>6. CASE SetHookReturns
  BY <1>6 DEF SetHookReturns, Return
<1>7. CASE ClearHookDone
  BY <1>7 DEF ClearHookDone, Return
<1>8. CASE ClearHookPosts
  BY <1>8 DEF ClearHookPosts
<1>9. CASE ClearHookReturns
  BY <1>9 DEF ClearHookReturns, Return
<1> QED
  BY <1>1, <1>2, <1>3, <1>4, <1>5, <1>6, <1>7, <1>8, <1>9 DEF MainStep

(* The statements of a hook thread. *)
LEMMA ThreadKeepsIInv ==
    ASSUME IInv, NEW t \in Thread, ThreadStep(t) \/ OtherMessage(t)
    PROVE  IInv'
<1> USE ThreadAssumption DEF IInv, TypeOK, MainAgrees, StartIsAlone, HookedState,
        EndIsAlone, PausedState, InstalledIsKnown, Starting, threadVars
<1>1. CASE StoreId(t)
  BY <1>1 DEF StoreId
<1>2. CASE Install(t)
  BY <1>2 DEF Install
<1>3. CASE InstallFails(t)
  BY <1>3 DEF InstallFails
<1>4. CASE SignalStart(t)
  BY <1>4 DEF SignalStart
<1>5. CASE Loop(t)
  BY <1>5 DEF Loop
<1>6. CASE OtherMessage(t)
  BY <1>6 DEF OtherMessage
<1>7. CASE EndMessage(t)
  BY <1>7 DEF EndMessage
<1>8. CASE SignalEnd(t)
  BY <1>8 DEF SignalEnd
<1>9. CASE Exit(t)
  BY <1>9 DEF Exit
<1> QED
  BY <1>1, <1>2, <1>3, <1>4, <1>5, <1>6, <1>7, <1>8, <1>9 DEF ThreadStep

(* The invariant holds throughout, with late threads too. *)
THEOREM Invariance == Spec => []IInv
<1>1. IInv /\ [Next]_vars => IInv'
  <2>1. CASE UNCHANGED vars
    BY <2>1 DEF vars, IInv, TypeOK, MainAgrees, StartIsAlone, HookedState,
       EndIsAlone, PausedState, InstalledIsKnown, Starting
  <2>2. CASE Quit
    BY <2>1, <2>2 DEF Quit
  <2> QED
    BY <2>1, <2>2, MainKeepsIInv, ThreadKeepsIInv DEF Next
<1> QED
  BY InitIInv, <1>1, PTL DEF Spec

(* The variables of hook.c 19-24 and the threads' places keep their types. *)
THEOREM TypeCorrectness == Spec => []TypeOK
<1>1. IInv => TypeOK
  BY DEF IInv
<1> QED
  BY Invariance, <1>1, PTL

(* The handle clear_hook tests is that of the only hook that may be        *)
(* installed (hook.c 397, 415, 466): none is left that nobody can remove.  *)
THEOREM KnownHook == Spec => []InstalledIsKnown
<1>1. IInv => InstalledIsKnown
  BY DEF IInv
<1> QED
  BY Invariance, <1>1, PTL

(* hook_thread uses struct hook_data only while set_hook, on whose stack   *)
(* it lies, still waits (hook.c 383-462).                                  *)
THEOREM StackData == Spec => []StackDataAlive
<1>1. IInv => StackDataAlive
  BY DEF IInv, StartIsAlone, StackDataAlive, Starting
<1> QED
  BY Invariance, <1>1, PTL

(* The end event is signalled only while clear_hook waits for it.          *)
THEOREM EndEvent == Spec => []EndEventAlive
<1>1. IInv => EndEventAlive
  BY DEF IInv, EndIsAlone, EndEventAlive
<1> QED
  BY Invariance, <1>1, PTL

(* Once menu_pause has returned nothing is hooked (main.c 187-211).        *)
THEOREM Paused == Spec => []PausedMeansUnhooked
<1>1. IInv => PausedMeansUnhooked
  BY ThreadAssumption DEF IInv, TypeOK, PausedState, MainAgrees, InstalledIsKnown,
     PausedMeansUnhooked
<1> QED
  BY Invariance, <1>1, PTL

(* Windows never calls two hooks of the program, however many of its       *)
(* threads are still alive, and the one it calls is in mouse_ll_hook.      *)
THEOREM OneHook == Spec => []AtMostOneHook
<1>1. IInv => AtMostOneHook
  <2> SUFFICES ASSUME IInv PROVE Cardinality(installed) <= 1
    BY DEF AtMostOneHook, IInv, HookedState
  <2>1. installed = {} \/ installed = {mouse_ll_hook}
    BY DEF IInv, InstalledIsKnown
  <2>2. Cardinality({}) = 0
    BY FS_EmptySet
  <2>3. Cardinality({mouse_ll_hook}) = 1
    BY FS_Singleton
  <2> QED
    BY <2>1, <2>2, <2>3
<1> QED
  BY Invariance, <1>1, PTL

(* As long as no thread is overtaken only one is alive, and that of the    *)
(* hook is starting or in its loop, with its own id stored.                *)
InTurn ==
    ~late =>
        /\ \A s, t \in Thread : pc[s] # "none" /\ pc[t] # "none" => s = t
        /\ \A t \in Thread : pc[t] = "install" => hook_thread_id = t
        /\ mouse_ll_hook # NULL =>
             /\ mouse_ll_hook \in installed
             /\ hook_thread_id = mouse_ll_hook
             /\ pc[mouse_ll_hook] \in {"started", "loop", "get_message"}

(* The main thread keeps the threads in turn. *)
LEMMA MainKeepsInTurn ==
    ASSUME IInv, InTurn, MenuPause \/ MenuReload \/ MainDestroy \/ MainStep
    PROVE  InTurn'
<1> USE ThreadAssumption DEF InTurn, IInv, TypeOK, threadVars
<1>1. CASE SetHookCreates
  BY <1>1 DEF SetHookCreates
<1>2. CASE MenuPause \/ MenuReload \/ MainDestroy
  BY <1>2 DEF MenuPause, MenuReload, MainDestroy
<1>3. CASE MainStep /\ ~SetHookCreates
  BY <1>3 DEF MainStep, SetHookFails, SetHookReturns, ClearHookDone, ClearHookPosts,
     ClearHookReturns, Return
<1> QED
  BY <1>1, <1>2, <1>3

(* So does every hook thread. *)
LEMMA ThreadKeepsInTurn ==
    ASSUME IInv, InTurn, NEW t \in Thread, ThreadStep(t) \/ OtherMessage(t)
    PROVE  InTurn'
<1> USE ThreadAssumption DEF InTurn, IInv, TypeOK, StartIsAlone, Starting
<1>1. CASE StoreId(t) \/ SignalStart(t)
  BY <1>1 DEF StoreId, SignalStart
<1>2. CASE Install(t) \/ InstallFails(t)
  BY <1>2 DEF Install, InstallFails
<1>3. CASE Loop(t) \/ OtherMessage(t)
  BY <1>3 DEF Loop, OtherMessage
<1>4. CASE EndMessage(t) \/ SignalEnd(t)
  BY <1>4 DEF EndMessage, SignalEnd
<1>5. CASE Exit(t)
  BY <1>5 DEF Exit
<1> QED
  BY <1>1, <1>2, <1>3, <1>4, <1>5 DEF ThreadStep

(* When no thread is overtaken the handle is that of a hook Windows calls, *)
(* after any pauses, reloads and failures (hook.c 383-475).                *)
THEOREM Served == Spec => []HookIsServedInTurn
<1>1. Init => InTurn
  BY ThreadAssumption DEF Init, InTurn
<1>2. IInv /\ InTurn /\ [Next]_vars => InTurn'
  <2>1. InTurn /\ UNCHANGED vars => InTurn'
    BY DEF InTurn, vars
  <2> QED
    BY <2>1, MainKeepsInTurn, ThreadKeepsInTurn DEF Next, Quit
<1>3. InTurn => HookIsServedInTurn
  BY DEF InTurn, HookIsServedInTurn, HookIsServed
<1> QED
  BY Invariance, <1>1, <1>2, <1>3, PTL DEF Spec
=============================================================================
