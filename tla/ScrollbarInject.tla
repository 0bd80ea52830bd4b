--------------------------- MODULE ScrollbarInject ---------------------------
(***************************************************************************)
(* How a scroll bar of another program is moved (scroll_op_scrollbar.c,    *)
(* sbi_dllmain.c, sbh_dllmain.c, shmem.c). A program asked to scroll by    *)
(* SB_THUMBTRACK reads the tracked position of the bar, which no call can  *)
(* set. So a DLL is loaded into its process that answers GetScrollInfo     *)
(* (sbi), and, for a scroll bar control, a hook in its thread that         *)
(* replaces the control's window procedure while it is scrolled (sbh).     *)
(* Both take the position from shared memory.                              *)
(*                                                                         *)
(* Messages are sent with a time-out: the caller goes on, and the message  *)
(* stays in the queue of the other process until that handles it. A        *)
(* process is taken to have one window thread.                             *)
(***************************************************************************)
EXTENDS OperatorContext

CONSTANTS
  Procs, Self,     \* the processes, and this program
  ProcChoices,     \* where the bars may live: functions Bars -> Procs
  MaxTardy         \* how many calls may run into their time-out

ASSUME InjectAssumption ==
  /\ Null \notin Procs \cup {"own", "fake"}
  /\ ProcChoices \subseteq [Bars -> Procs]

VARIABLES
  procOf,   \* the process of each bar: never changes
  pos,      \* the position of each bar, in its process
  queue,    \* per process: messages sent to it and not handled yet
  tardy,    \* history: the calls that returned before they were handled
  hooked,   \* per process: hooks of sbh installed in it
  loaded,   \* per process: how often sbi is loaded into it
  wndProc,  \* per bar control: its window procedure, "own" or "fake"
  orgProc,  \* per process: sbh's static org_wnd_proc
  shm,      \* the shared memory
  inj,      \* inject_sb_data
  stuck,    \* history: per process, DLLs that could not be recorded or unloaded
  left,     \* history: per process, hooks that could not be removed
  call      \* the running scrollbar_r_scroll

targetVars == <<procOf, pos, queue, tardy>>
injectVars == <<hooked, loaded, wndProc, orgProc, shm, inj, stuck, left>>

Controls == {b \in Bars : BarInfo[b].kind = "control"}

NoInj == [mapped |-> FALSE, hook |-> <<Null, Null>>,
          process |-> <<Null, Null>>]
NoShm == [valid |-> FALSE, bar |-> Null, track |-> 0]
NoCall == [pc |-> "none", bar |-> Null, org |-> 0, new |-> 0,
           speed |-> [num |-> 0, den |-> 1], todo |-> <<>>]

InjectInit ==
  /\ procOf \in ProcChoices
  /\ pos = [b \in Bars |-> BarInfo[b].start]
  /\ queue = [p \in Procs |-> <<>>]
  /\ tardy = 0
  /\ hooked = [p \in Procs |-> 0]
  /\ loaded = [p \in Procs |-> 0]
  /\ wndProc = [b \in Controls |-> "own"]
  /\ orgProc = [p \in Procs |-> Null]
  /\ shm = NoShm
  /\ inj = NoInj
  /\ stuck = [p \in Procs |-> 0] /\ left = [p \in Procs |-> 0]
  /\ call = NoCall

-----------------------------------------------------------------------------
(* Injection. s is inject_sb_data together with what it did to the system. *)

Placed == [inj |-> inj, hooked |-> hooked, loaded |-> loaded,
              stuck |-> stuck, left |-> left]

\* Mutant of FreeSlot: the second process overwrites the first.
FreeSlotFirst(slots) == 1
FreeSlot(slots) == IF slots[1] = Null THEN 1 ELSE 2

InstallHook(s, b, ok) ==
  LET n == FreeSlot(s.inj.hook)
      p == procOf[b]
  IN  IF b = Null \/ ~ok \/ p = Self \/ (n = 2 /\ s.inj.hook[1] = p) THEN s
      ELSE [s EXCEPT !.inj.hook[n] = p, !.hooked[p] = @ + 1]

\* The DLL is in the process, but its process or its module is not recorded
\* when DuplicateHandle or GetExitCodeThread fails: nobody will unload it.
Loading == {"recorded", "unrecorded", "failed"}
LoadDll(s, b, how) ==
  LET n == FreeSlot(s.inj.process)
      p == procOf[b]
      none == \/ b = Null \/ how = "failed" \/ p = Self
              \/ n = 2 /\ s.inj.process[1] = p
  IN  CASE none -> s
        [] ~none /\ how = "recorded" ->
             [s EXCEPT !.inj.process[n] = p, !.loaded[p] = @ + 1]
        [] OTHER -> [s EXCEPT !.loaded[p] = @ + 1, !.stuck[p] = @ + 1]

\* The slot is cleared even if the DLL could not be unloaded, or the hook not
\* removed.
UnloadDll(s, n, ok) ==
  LET p == s.inj.process[n]
  IN  IF p = Null THEN s
      ELSE [s EXCEPT !.inj.process[n] = Null,
                     !.loaded[p] = IF ok THEN @ - 1 ELSE @,
                     !.stuck[p] = IF ok THEN @ ELSE @ + 1]

RemoveHook(s, n, ok) ==
  LET p == s.inj.hook[n]
  IN  IF p = Null THEN s
      ELSE [s EXCEPT !.inj.hook[n] = Null,
                     !.hooked[p] = IF ok THEN @ - 1 ELSE @,
                     !.left[p] = IF ok THEN @ ELSE @ + 1]

\* Which of a removal's system calls succeed, each on its own.
Pair == BOOLEAN \X BOOLEAN
Removals == [unload : Pair, unhook : Pair]

Uninjected(s, ok) ==
  LET unloaded == UnloadDll(UnloadDll(s, 1, ok.unload[1]), 2, ok.unload[2])
      removed == RemoveHook(RemoveHook(unloaded, 1, ok.unhook[1]), 2, ok.unhook[2])
  IN  [(IF s.inj.mapped THEN removed ELSE s) EXCEPT !.inj = NoInj]

\* And which of an injection's: the shared memory, the path of the DLL, the
\* hooks, the DLLs; and, when the path is not found, the removal of the hooks.
\* A call that is not reached has one outcome.
Injections ==
  {ok \in [shm : BOOLEAN, name : BOOLEAN, hook : Pair,
           dll : Loading \X Loading, unhook : Pair] :
     /\ ~ok.shm => ok.name /\ ok.hook = <<TRUE, TRUE>>
     /\ ~(ok.shm /\ ok.name) => ok.dll = <<"recorded", "recorded">>
     /\ ~ok.shm \/ ok.name => ok.unhook = <<TRUE, TRUE>>}

\* inject_scrollbar_support_proc: it starts by forgetting what is recorded.
Injected(s, b1, b2, isControl, ok) ==
  LET mapped == [s EXCEPT !.inj = [NoInj EXCEPT !.mapped = TRUE]]
      hooks == IF isControl
               THEN InstallHook(InstallHook(mapped, b1, ok.hook[1]), b2, ok.hook[2])
               ELSE mapped
  IN  CASE ~ok.shm -> [s EXCEPT !.inj = NoInj]
        [] ok.shm /\ ~ok.name -> Uninjected(hooks, [unload |-> <<TRUE, TRUE>>, unhook |-> ok.unhook])
        [] OTHER -> LoadDll(LoadDll(hooks, b1, ok.dll[1]), b2, ok.dll[2])

\* Loading sbi replaces GetScrollInfo in all of the process's modules, unloading
\* it puts it back (DllMain).
SetInjection(s) ==
  /\ inj' = s.inj
  /\ hooked' = s.hooked
  /\ loaded' = s.loaded
  /\ stuck' = s.stuck
  /\ left' = s.left

Inject(b1, b2, isControl) ==
  /\ \E ok \in Injections :
       /\ SetInjection(Injected(Placed, b1, b2, isControl, ok))
       /\ shm' = IF ok.shm THEN NoShm ELSE shm
  /\ UNCHANGED <<wndProc, orgProc>>

Uninject ==
  /\ \E ok \in Removals : SetInjection(Uninjected(Placed, ok))
  /\ UNCHANGED <<shm, wndProc, orgProc>>

-----------------------------------------------------------------------------
(* Sending a message with a time-out. *)

Send(b, msg, val) ==
  queue' = [queue EXCEPT ![procOf[b]] =
              Append(@, [msg |-> msg, bar |-> b, val |-> val])]

\* The message before was handled, or the time is up. A window of this program
\* handles its messages in the call itself.
Returned(b) ==
  \/ queue[procOf[b]] = <<>> /\ UNCHANGED tardy
  \/ /\ queue[procOf[b]] # <<>> /\ procOf[b] # Self /\ tardy < MaxTardy
     /\ tardy' = tardy + 1

-----------------------------------------------------------------------------
(* The other process. *)

\* What GetScrollInfo answers a program that asks for the tracked position.
Answered(b) ==
  \/ loaded[procOf[b]] > 0 /\ shm.valid /\ shm.bar = b
  \/ b \in Controls /\ wndProc[b] = "fake" /\ shm.bar = b

ThumbMoved(m) ==
  /\ pos' = [pos EXCEPT ![m.bar] = IF Answered(m.bar) THEN shm.track ELSE @]
  /\ UNCHANGED <<wndProc, orgProc>>

\* Mutant of ToggledOnce: the static is kept when the procedure is put back.
ToggledKeeps(t, mine) ==
  [org |-> IF t.org = Null /\ mine THEN t.proc ELSE t.org,
   proc |-> CASE ~mine -> t.proc
              [] mine /\ t.org = Null -> "fake"
              [] OTHER -> t.org]

\* gsi_call_proc, on sbh's static and the procedure of the bar in the shared
\* memory. SetWindowLongPtr fails for a window of another process.
ToggledOnce(t, mine) ==
  [org |-> IF t.org = Null /\ mine THEN t.proc ELSE Null,
   proc |-> CASE ~mine -> t.proc
              [] mine /\ t.org = Null -> "fake"
              [] OTHER -> t.org]

\* Every hook in the thread calls gsi_call_proc for the message: an even number
\* of them toggles like two, an odd one like one.
OddHooks(p) == hooked[p] % 2 = 1
Toggled(p) ==
  LET b == shm.bar
      mine == procOf[b] = p
      now == [org |-> orgProc[p], proc |-> wndProc[b]]
      once == ToggledOnce(now, mine)
      then == IF OddHooks(p) THEN once ELSE ToggledOnce(once, mine)
  IN  IF hooked[p] > 0 /\ shm.valid /\ b \in Controls
      THEN /\ orgProc' = [orgProc EXCEPT ![p] = then.org]
           /\ wndProc' = [wndProc EXCEPT ![b] = then.proc]
      ELSE UNCHANGED <<orgProc, wndProc>>

Handle(p) ==
  /\ queue[p] # <<>>
  /\ LET m == Head(queue[p]) IN
     CASE m.msg \in {"SB_THUMBTRACK", "SB_THUMBPOSITION"} -> ThumbMoved(m)
       [] m.msg = "hook_subclass_msg" -> Toggled(p) /\ UNCHANGED pos
       [] m.msg = "TBM_SETPOS" -> /\ pos' = [pos EXCEPT ![m.bar] = m.val]
                                  /\ UNCHANGED <<wndProc, orgProc>>
       [] OTHER -> UNCHANGED <<pos, wndProc, orgProc>>
  /\ queue' = [queue EXCEPT ![p] = Tail(@)]
  /\ UNCHANGED <<procOf, tardy, hooked, loaded, shm, inj, stuck, left, call>>

-----------------------------------------------------------------------------
(* scrollbar_r_scroll, from one message to the next. *)

\* The bar is given the position it has, so that it knows it is dragged.
Grab(b, delta, mode, length, todo) ==
  LET speed == Speed(mode, b, length)
      dd == Distance(speed, delta)
  IN  /\ dd # 0
      /\ call' = [pc |-> "grab", bar |-> b, org |-> pos[b],
                  new |-> Clamp(pos[b] + dd, Low(b), High(b)),
                  speed |-> speed, todo |-> todo]
      /\ Send(b, "SB_THUMBTRACK", pos[b])
      /\ UNCHANGED <<procOf, pos, tardy>> /\ UNCHANGED injectVars

\* Mutant of Publish: the data is written, but not declared valid.
PublishInvalid ==
  /\ call.pc = "grab" /\ inj.mapped
  /\ Returned(call.bar)
  /\ shm' = [shm EXCEPT !.bar = call.bar, !.track = call.new]
  /\ IF call.bar \in Controls
     THEN Send(call.bar, "hook_subclass_msg", 0)
     ELSE UNCHANGED queue
  /\ call' = [call EXCEPT !.pc = "publish"]
  /\ UNCHANGED <<procOf, pos, hooked, loaded, wndProc, orgProc, inj, stuck, left>>

Publish ==
  /\ call.pc = "grab" /\ inj.mapped
  /\ Returned(call.bar)
  /\ shm' = [valid |-> TRUE, bar |-> call.bar, track |-> call.new]
  /\ IF call.bar \in Controls
     THEN Send(call.bar, "hook_subclass_msg", 0)
     ELSE UNCHANGED queue
  /\ call' = [call EXCEPT !.pc = "publish"]
  /\ UNCHANGED <<procOf, pos, hooked, loaded, wndProc, orgProc, inj, stuck, left>>

Track ==
  /\ call.pc = IF inj.mapped THEN "publish" ELSE "grab"
  /\ Returned(call.bar)
  /\ Send(call.bar, "SB_THUMBTRACK", call.new)
  /\ call' = [call EXCEPT !.pc = "track"]
  /\ UNCHANGED <<procOf, pos>> /\ UNCHANGED injectVars

Drop ==
  /\ call.pc = "track"
  /\ Returned(call.bar)
  /\ Send(call.bar, "SB_THUMBPOSITION", call.new)
  /\ call' = [call EXCEPT !.pc = "drop"]
  /\ UNCHANGED <<procOf, pos>> /\ UNCHANGED injectVars

Restore ==
  /\ call.pc = "drop" /\ inj.mapped /\ call.bar \in Controls
  /\ Returned(call.bar)
  /\ Send(call.bar, "hook_subclass_msg", 0)
  /\ call' = [call EXCEPT !.pc = "restore"]
  /\ UNCHANGED <<procOf, pos>> /\ UNCHANGED injectVars

\* The last message has returned: the shared data is no longer valid.
LastReturned ==
  /\ call.pc = IF inj.mapped /\ call.bar \in Controls THEN "restore" ELSE "drop"
  /\ Returned(call.bar)
  /\ shm' = [shm EXCEPT !.valid = IF inj.mapped THEN FALSE ELSE @]

\* The movement counts as made if the bar, which is at at now, moved, or could
\* not move further.
Moved(at) == \/ at # call.org
             \/ call.new \in {Low(call.bar), High(call.bar)}
=============================================================================
