# Mouse Processor: a TLA+ verification project

Mouse Processor is a resident Windows program. It hooks the mouse at a low
level, swallows the physical button, wheel and movement events and runs the
actions its settings give for them: clicks of the same or other buttons,
actions for two buttons pressed together, changes of mode, and, in a scroll
mode, scrolling the window under the pointer with the mouse's movement.

This directory holds TLA+ models of it, TLC configurations that check them on
small instances, and theorems with proofs TLAPS checks for every instance.
File and line references are to `src/`.

## 1. Inventory

### Threads and shared state

| thread | runs | owns or shares |
|---|---|---|
| main | message loop, window procedures (`main.c`), mode changes and scrolling (`scroll.c`), settings (`conf.c`), log window (`log.c`), scroll operators (`scroll_op_*.c`) | `ctx.app_conf`, `ctx.mode_data` |
| hook | `hook_thread` (`hook.c`): installs the hook, gets its events (`mouse_ll_proc`) and its timers (`comb_timer`) | `ctx.hook_data`; reads and writes `ctx.mode_data.cur_conf`; `mouse_ll_hook`, `hook_thread_id` |
| other processes | injected DLLs (`sbh_dllmain.c`, `sbi_dllmain.c`) | shared memory (`shmem.c`) |

There is no lock. The hook thread sends the main thread posted messages
(`WM_MOUSEHOOK_MODECH`, `MODEMSG`, `WHEELPOST`) whose `lparam` points into the
configuration; the main thread sends the hook thread one (`HOOK_THREAD_END`);
two events (`start_evt`, `hook_thread_end_evt`) order start and end.

### Components

| component | state | operations | hard behaviour | what makes it correct |
|---|---|---|---|---|
| buttons and combinations (`hook.c` 149-374) | pending press, ignore mask, array of combinations, timer id | a button event, wheel, movement, a timer, the first load, pause and resume | a press is delayed, decided by whichever of six things comes next; records live across mode changes and re-hooking; late `WM_TIMER` | no press lost, swallowed or sent twice; every press decided; records only of buttons that are held |
| hook thread (`hook.c` 383-475, `main.c` 163-211, 262-325) | handle, thread id, two events | start, end, pause, reload, exit | two threads on unlocked globals; a thread id and an event that the next thread reuses; failures after the wait began | one hook at most, none when paused, both calls return, no dead stack data |
| modes and scrolling (`hook.c` 194-205, `scroll.c`) | `cur_conf`, `cur_mode`, ratios, sums, operator and its context | mode change, ratio messages, movements | the main thread lags behind the hook thread and reads its current mode; failed starts; the loop that takes messages out of turn | both in the same mode in the end, movement neither lost nor doubled, operator and context in step and ended |
| loading settings (`conf.c` 1337-1423) | `ctx.app_conf` | replace, notify, free | hook thread and queue hold pointers into what is freed | the old configuration is out of use |
| reading settings (`conf.c` 46-422, `util/read_s_exp.c`, `util/ucs.c`) | data tree, include depth, read buffer, half-read data | read, include, merge | recursion; refill within a character; errors and failing allocations at any depth | what was written is read, in the order of the lines; everything freed once; loading ends |
| applying settings (`conf.c` 539-1334) | tables of actions, windows, operators | apply | defaults, both orders of a combination, references between modes of several files | tables that `hook.c` and `scroll.c` may index blindly |
| tray icon and menu (`main.c` 50-211, 262-373) | icon shown or hidden, pause mark | add, change, delete, Explorer restarts | the icon hidden by settings and re-added by `TaskbarCreated`; the menu is the only way to reload | a wanted icon is not lost |
| wheel redirection (`main.c` 396-441) | none | `wheel_post` | 16-bit deltas and coordinates | message to the window under the pointer |
| wheel operator (`scroll_op_wheel.c`) | residue, origin | scroll | rounding, changes of direction | notches sent = whole part of the movement |
| operator combinators (`scroll_op_meta.c`) | nested contexts | init, scroll, end | several tries, one used | the first that can scroll is started, and only it is ended |
| scroll bars (`scroll_op_scrollbar.c`, `sbi_dllmain.c`, `sbh_dllmain.c`, `shmem.c`) | injection state, shared memory, another program's window procedure | install, uninstall, scroll | calls into another process time out and are carried out later; partial failure | nothing is left behind; the bar goes where it was sent |
| track bars, IE (`scroll_op_trackbar.c`, `scroll_op_ie.c`) | positions; counted references | scroll; search an element | calls that fail half way | positions in range, movement accounted for, references released |
| log (`log.c`) | list of lines, window | append, print, show | limit of lines | at most the configured lines are kept, the latest |

`PROJECT.json` lists every component with its status and, under "hazards",
what is hard to test, at the line where it bites, with the properties that
cover it.

## 2. What is modelled

| module | models | checked by |
|---|---|---|
| `ButtonPhases` | abstract specification: what becomes of each button (up, pending, plain, paired, ignored) and which pairs are held | `ImplementsPhases`, `PhasesWhileHeld` |
| `MouseHook` | the button machine of `hook.c` | `MCMouseHook`, proofs in `MouseHookProofs` |
| `HookThread` | the hook thread and its callers | itself, proofs in `HookThreadProofs` |
| `ScrollMode` | modes, messages, operator and the replacement of settings | `MCScrollMode`, proofs in `ScrollModeProofs` |
| `OperatorContext` | what the operators share: modes, ratios, the step of a drag | through `ScrollOps` |
| `ScrollbarInject` | the injection into other programs and the moving of one scroll bar | through `ScrollOps` |
| `IeTarget` | the search for an element in Internet Explorer | through `ScrollOps` |
| `ScrollOps` | all scroll operators from start to end; composes the three above | `MCScrollOps`, proofs in `ScrollOpsProofs` and `InjectProofs` |
| `SExpText` | characters, words and data | through `SExpReader` |
| `SExpReader` | the reader of the settings files | `MCSExpReader`, proofs in `SExpReaderProofs` |
| `SExpWriter` | the writer; with it the files of the run are made | through `MCSExpReader` |
| `SettingsData` | merge, look-up, and the tables made of the data | through `Settings` |
| `Settings` | loading with includes, replacing, and the tray icon | `MCSettings`, proofs in `SettingsProofs` |
| `SettingsMeaning` | what the files mean after the manual (`LastSettingWins`) | through `MCSettings` |

How they meet: `ScrollMode` sees an operator as something that starts or fails, scrolls
and ends (`OpLifecycle`); `ScrollOps` is what happens inside. `MouseHook` and `ScrollMode` assume
tables of a certain shape; `Settings` checks that the code makes such tables (`TablesUsable`).
`SExpReader` gives the list of data that `Settings` starts from.

### MouseHook

The variables are the fields of `ctx.hook_data` under their own names, `cur_conf`,
the timers (`armed`: `SetTimer` has been called; `queued`: a `WM_TIMER` waits in
the thread's queue), the buttons the user holds (`physDown`), the buttons the
applications see held (`appDown`) and the slots the last step ran (`out`).

`mouse_ll_proc` and `comb_timer` run on one thread, one after the other, so a
call is one step; each action is one way through the procedure:

| action | lines of `hook.c` |
|---|---|
| `PassDown`, `PassUp` | 244: no settings yet, or no hook |
| `CombinationPress` | 265-279 |
| `IgnoredDown`, `IgnoredUp` | 288-291, after the delayed press of 281-283 |
| `PendingDown` | 293-306 |
| `CombinationRelease` | 308-339 |
| `PlainDown`, `PlainUp` | 341-348 |
| `Wheel`, `Move` | 351-369 |
| `CombTimer`, `CombTimerNone` | 214-226 |
| `LoadSetting`, `ClearHook`, `SetHook` | the main thread's effects on the hook |

`Do` is `do_action`; it returns the new mode and the new set of pressed buttons, so
that the delayed press and the event that ends its wait use the table of the
mode before and after it, as the code does. `Partner` and `Removed` keep the
code's `i * 3` and its short `memmove`. A timer stays armed after it expires
(`SetTimer` is periodic) until `comb_timer` kills it, and `KillTimer` leaves a
posted message in the queue: both are needed for late messages. `SetTimer` is
taken to succeed, which `hook.c` (301) does not ask: `PendingHasTimer` and
`PendingDecided` rest on it, the other properties do not.

`MOUSE_BTN_CONF_ENABLE_COMB` and the symmetry of the tables are what
`apply_comm_mode_conf` computes; they are the assumption `ConfAssumption`.

### HookThread

Statements of `hook_thread` that touch shared variables are steps of their own,
as are those of `set_hook` and `clear_hook` before and after their waits. A thread
id can be used again once its thread is gone (Windows does). `late` is chosen
once: when it is FALSE no new thread starts before the last has run its last
statement. So one run shows what holds in any case and what holds without a
late thread. `Exit` removes what the thread owns, as Windows does.

### ScrollMode

One record per message with the generation (`gen`) of the configuration its
pointer leads into: reading it yields its contents while the configuration is
`live` and anything afterwards. The hook thread's `do_action` is three steps
(read the action, store `cur_conf`, post), the main thread's handlers are one step each
except for `scroll_modemsg_scroll`, whose loop takes one message at a time, and
`load_setting`, whose four effects are separate because the hook thread runs
between them. `Reload` says when `load_setting` may begin: `"any"` as in the code (it runs
with the hook installed) or `"paused"` (the hook thread idle, the queue empty),
for what is only true then. A queue holds `MaxQueue` messages (10000 in Windows). When it is full `PostMessage`
fails, which `do_action` does not ask: `PostAct` then loses the message, with `cur_conf` switched all the
same. `lost` says that this has happened since a mode change was last posted, and the properties of the two
threads' agreement speak of the time from that mode change on. A handler that reads freed data may find any mode its message can
have, or one it does not know (`RatioAfter`). `raw` and `asked` record the movement in `dx` and the
ratio the user's actions have asked for; the program does not read them or `lost`, but they bound what is
explored (`ReadAct`: movements up to `MaxMove`, ratios up to `MaxRatio`, and no multiplied ratio while `lost`, when nothing
would bound `x_ratio`). `asked` in a message is the ratio after it.

### ScrollOps, ScrollbarInject, IeTarget, OperatorContext

A start walks the operator expression of a scroll window: `chain` is the C stack of
nested contexts, each with the window it works on and the alternative it is at
(`TryOr`, `TryApplyParent`). Each operator's `init_context` is one action, that may always
refuse, since each makes system calls that may fail; `IeTarget` takes the search through the browser call by call
because references are held in between. `refs` counts them per object.

A movement is an integer number of 1/`Unit`; speeds are fractions, so that `trunc` and
the rest kept are exact. `scrollbar_r_scroll` is one action per message it sends
(`Grab`, `Publish`, `Track`, `Drop`, `Restore`, `Settle`). A message goes into the
queue of its process; the caller goes on when it was handled, or at most `MaxTardy` times
before that, and the message is handled later all the same (`Handle`). `Toggled` is the hook procedure
of `sbh`, `ThumbMoved` the program that asks `GetScrollInfo` for the tracked position and gets
`sbi`'s answer. `Injected` and `Uninjected` go through the system calls in the code's order;
`Injections` and `Removals` let each of them fail on its own, any number of them in one injection. Three
failures the code does not ask about leave something behind, and history variables count it: a DLL that is loaded while its process handle or its module is not
recorded (`scroll_op_scrollbar.c` 154, 163), or that is not unloaded (`stuck`); and a hook that is not removed (84, `left`). A hook that was left answers
`hook_subclass_msg` beside the next one's, so `Toggled` toggles as often as there are hooks (`OddHooks`).
The `GetScrollInfo` after a move (427) may fail as well; the bar is then taken to be at 0 (`Settle`).

`IeFound` shows a leak: a start that refuses after its search (an unknown mode, or no size or
property ids) does not release the element (`scroll_op_ie.c` 548-571). `lost` counts these
references; `IeReferences` says there are no others. `window-scrollbar` uses the window's
width for its vertical bar as well (`scroll_op_scrollbar.c` 615), and so does `LengthOf`. No
document speaks of either.

### SExpReader, SExpText, SExpWriter

One action reads one character, `Fill` is `fill_read_buf`. `frames` is the C stack of `read_list`,
`at` the place in the reader, `live` counts what is allocated: cells, strings, symbol references;
a datum carries its own number of them (`cells`), which is what `free_s_exp` gives back.
`f` says that the allocation of a step fails. A file is a sequence of bytes; one character has two.
`Text` is the writer; `MCSExpReader` makes the files with it from data, in several layouts, so that
`ReadsWhatIsWritten` relates reader and writer. The reader itself takes any set of files (`Inputs`).

The code is modelled where it differs from its own grammar comment (`read_s_exp.c` 27-63):
a list's element that begins with a dot is taken for the dot of a pair; an integer that is too large reads as
`LongMax`, and -`LongMax`-1 as -`LongMax`; an integer there is no memory for is tried as a flonum;
a stray `)` makes a word of no characters, whose first character is read all the same
(`Garbage`); a block that cannot be decoded, or a read error, is skipped or ends the file silently.

### Settings, SettingsData, SettingsMeaning

An element of the data is a key with a plain value (a sequence of words) or with elements
of its own; `Nested[d]` is the set of those with lists at most `d` deep, over `Words`, and `MaxDepth`
bounds `d`. `Merge` is `merge_conf_data`: `Merging[d]` merges elements that deep, with `Merging[d - 1]` for the
pairs in a list (`MergeWith`). `stack` is the C stack of nested includes.
`ModeTables` and its helpers are `apply_mode_conf`. `disk` is one of a set of disks
and may change between two loads. `Spec` has the icon too: `shown` is what Explorer has, `announced`
the `TaskbarCreated` messages under way. Explorer may refuse what it is asked: at the start the program then
ends; after `TaskbarCreated` this is only logged (`main.c` 333-336), and the icon is gone with its menu until
Explorer starts again. `refused` says that it was so the last time, and `IconNotLost` that a wanted icon is
gone in no other way. An icon that is to be hidden may stay when `NIM_DELETE` fails (`IconDeleted`).

What the model shows of the code, beside the properties: a hidden icon comes back when
Explorer restarts (`main.c` 327, though `tray-icon` of `doc/CUSTOMIZE.html` 196-197 says it is not shown); a file with
a syntax error counts as an empty file, so that a reload with one replaces the settings
(the branch `conf.c` 1362-1377 is never reached); a list of modes that is none leaves
the start without initial mode (`TablesUsable` excludes it by name).

## 3. Runs

| run | shows | bounds |
|---|---|---|
| `MouseHook_click` | no stuck, swallowed or doubled button, every press decided, the arrays implement `ButtonPhases` | 3 buttons (the least with a combination, a bystander and a second combination sharing a button), 2 timers (one pending, one late), re-hooking at rest |
| `MouseHook_scroll` | events are handled right when the mode changes under the records, and again after the hook was removed and set again at any time | the same with 2 modes after `conf/default.mprc`; `MaxComb` 1: one pair recorded at a time |
| `MouseHook_two_pairs` | finding: `i * 3` | 4 buttons, 2 combinations |
| `MouseHook_stale_timer` | finding: a late timer decides the next press | 2 timers |
| `MouseHook_rehook` | finding: a press after a pause is swallowed | `MaxComb` 5 bounds stale records |
| `HookThread_life` | one hook, none when paused, no dead data, both calls return | 2 threads: one leaving, one coming; a third would need two late threads, and each late thread has a single statement left |
| `HookThread_race` | finding: the late store of `hook_thread_id` | the same |
| `ScrollMode_paused` | operator, context and mode are in step, the operator's configuration is alive, modes and ratios agree, movement conserved, operator ends | 3 modes, 2 configurations, queue of 2, which is full at times and loses messages, movements up to 3, ratios -3 to 3; settings are loaded with nothing under way |
| `ScrollMode_reload` | finding: back into the old configuration | queue of 2 |
| `ScrollOps` | the first operator that can scroll is used, nothing is left in other programs, no bar leaves its range, movement is accounted for | 9 scroll windows over 5 windows and 9 bars, so that every operator and mode moves, a bar of speed 0 among them; 2 starts and 1 movement with the bars in one process (a second start meets what the first left, a hook among it), 1 start and 2 movements, each onwards or back, with the bars in three (a rest that is kept meets the next movement); 1 late call, any failing calls |
| `SExpReader` | the data written are read, everything is freed once, the reader ends | blocks of 5 bytes (63 in the code), so that every token of the files meets a block's end; 1 failing allocation; `LongMax` 19; flonums of hundredths |
| `Settings` | the last setting counts, tables usable, loading ends, the icon is there | 4 names in 3 places, 60 disks, includes 3 deep (20 in the code: the third level is cut off as the twentieth is), lists 3 deep (`MaxDepth`, what the modes' tables need), 1 reload, 2 restarts of Explorer (the second adds the icon the first did not) |

Two of the limits stand for the program's own: `MaxQueue` for the 10000 messages of a queue, and an include depth of
3 for 20. Re-hooking at any time breaks the records (`MouseHook_rehook`), and `MouseHook_scroll` says what holds
even so; reloading at any time breaks the mode (`ScrollMode_reload`), and `Lifecycle` and `OperatorConfLive` prove
what holds even so.

With one pair recorded at a time `i` is 0 and `i * 3` is right: with three
buttons two pairs cannot be held at once, which is why the passing runs have
three and the finding needs four.

`CHECK_DEADLOCK` is off in `HookThread_life` (with an overtaken thread `clear_hook` waits
for ever for a thread that has gone), in `ScrollOps` (the starts are used up), in `SExpReader`
(the reader returns) and in `Settings` (the program ends).

### Fairness

`MouseHook`: an armed timer expires and the hook thread dispatches its messages
(Windows runs a message loop's thread; there is no other work on it). Buttons
and the menu owe nothing. `HookThread`: both threads run; `HOOK_THREAD_END` is taken
although timer messages keep coming (posted messages come before `WM_TIMER`), which
is strong fairness of `EndMessage`. `ScrollMode`: both threads go on with what they have
begun; `OperatorEnds` needs no user event. `SExpReader`: one thread that runs (`WF_vars(Next)`).
`Settings`: the main thread goes on reading and returns; the user, who edits and reloads, and
Explorer owe nothing. `ScrollOps` has safety properties only.

### Findings

Five violations, each with its line and the document's sentence in
`PROJECT.json`: the index of a second combination (`hook.c` 325-332), a late
combination timer (`hook.c` 215-222), stale records over a pause (`hook.c`
429-475), the late store of the thread id (`hook.c` 425), and a mode change under a
reload (`conf.c` 1408).

## 4. Theorems

The proofs hold for every value of the constants the modules' assumptions allow.

* `MouseHookProofs`: `TypeCorrectness`; `DelayedPress` (`PendingNeverLost`, for any number of
  buttons, any tables, re-hooking at any time: it needs only the shape of the steps
  and that `Do` appends); `Debts` and `Timers` for three buttons when the hook
  is not removed while a button is recorded. Neither is inductive: the invariant (`Book`) adds that at
  most one pair is recorded (two pairs need four buttons that are down), that the pair's buttons
  differ and are neither ignored nor the pending one, that the pending press has its timer
  armed or posted, and that nothing is recorded while the hook does not filter.
* `HookThreadProofs`: `TypeCorrectness`, `OneHook`, `KnownHook`, `Served`, `Paused`, `StackData`, `EndEvent`, for any set of
  thread ids and with late threads. The invariant says where the threads may
  be at each place of the main thread (`MainAgrees`): while it waits for a start
  exactly one thread is before its `SetEvent` (`StartIsAlone`), while it waits for an end
  exactly one may be about to set the event (`EndIsAlone`), and the handle is that
  of the only installed hook (`HookedState`, `InstalledIsKnown`).
* `MouseHookProofs`, the refinement of `ButtonPhases`: `PhaseStep` shows that every action that starts and ends
  with the debts held (`Held`) is a step of the abstract specification or leaves the phases alone.
  `HandledAsPhases` (`PhasesWhileHeld`) follows for three buttons even when the hook is removed and set at any
  time; `Implements` (`ImplementsPhases`) and `PressKept` (`PressNotSwallowed`) when it is removed only with
  nothing recorded, where `Book` gives `Held` (`MouseHook_rehook` and `MouseHook_two_pairs` refute more).
* `MouseHookProofs`, the output: `NothingStaysDown` (`NothingStuck`) and `OutputBalanced` (`BalancedOutput`), under the same
  hypotheses, for all tables of clicks (`Clicks`): a button alone clicks as itself, a pair clicks as a button
  the device does not have, or as none. The table of `MouseHook_click` is one; other tables may
  press what nothing releases, and the user's settings decide. The invariant says exactly which buttons the
  applications see down (`Shown`): those that are held, decided, and neither ignored nor of a pair, and the
  one the recorded pair presses.
* `ScrollModeProofs`: `TypeCorrectness`, `Lifecycle` and `OperatorConfLive` with reloads at any time;
  `ModesAgree`, `RatiosAgree` and `Movements` (`MovementConserved`) for any modes and
  queue length only when settings are loaded with nothing under way (`Reload = "paused"`; `ScrollMode_reload` shows what happens without), and
  with messages that a full queue loses. The invariant says that the last mode change in the queue
  announces the kind of `cur_conf` (or, if there is none, that `cur_mode` does), that everything in use is
  of one generation of the settings (`OneGeneration`: with nothing under way `ReloadTakesEffect` is a part of it), and that each message's ratio follows from the one before it and the first from `x_ratio`; after a loss
  only what follows the last mode change in the queue is said to.
  `Movements` adds that the handler's sum is what it took out, scaled; `Waiting`, the sum over the queue, is
  unfolded by induction over the queue's length.
* `ScrollOpsProofs` has what the proofs about the scroll operators share, for any expressions, windows, bars, processes and pages:
  `OpKnown`, an inductive invariant of the shape of the nested contexts, the bars they chose and the running call;
  that `apply-parent`'s walk (`Ancestor`) is defined and ends at a window; and the order in which an
  expression's operators are to be tried (`Candidates`), unfolded from the last expression to the first.
* `ScrollOpsProofs`, the starts: `ReferencesReleased` (`IeReferences`), with every call failing at will: `IeInv` says which places of
  the walk hold a reference at each of its steps, and counts them per object. `FirstSupported` (`StartsFirstSupported`), for
  every nesting of `or` and `apply-parent`: `StartsFirstSupported` says nothing of what is still to be tried, so it is not inductive. `TryInv`
  adds that what was tried, then the innermost context's alternatives from its current one, then
  those of each context around it after its current one, make up `CandidatesOf`.
* `InjectProofs`: `LeftClean` (`LeavesNothing`), with every call failing on its own: `InjInv` counts, per
  process, the hooks and DLLs that the two slots of `inj` stand for and those of `left` and `stuck`, through every partial failure of
  `Injected` and `Uninjected`. `ProceduresRestored` (`WndProcRestored`) and `PositionsSeen` (`TrackedPositionSeen`):
  `TimelyInv` says, as long as no call was late (`tardy` = 0), which message waits at each place
  of `scrollbar_r_scroll`, in which process, and who owns
  the window procedure and the shared memory then, also when a hook that was left toggles a second time (`TogglesOdd`, `ToggledTwice`). The properties have the same condition. `PositionsInRange` (`BarsInRange`)
  has none: a message that is handled late moves a bar to the position that the shared memory holds by then. `RangeInv` says that every
  place a position may come from is in the range of the bar it is for: the running call (`CallInRange`), the shared
  memory, which names its bar (`SharedInRange`), and the messages still in the queues (`QueuesInRange`). It also says that the kept
  movement stays a whole number (`DeltaKnown`), through every ratio, speed and rest, none of which divides by zero (`DistanceKnown`).
* `SExpReaderProofs`, for any files, block size and failing allocations: `Clean` (`NothingLeaked`) and `Place` (`PlaceInFile`).
  `NothingLeaked` speaks of the return only. `LeakInv` says what is allocated at every place of the reader: the
  lists begun in `frames`, each with the cells of its items and one more per item (`Built`), and beside them the datum
  just given or the string or word being read. `PlaceInv` says it with the number of characters
  given, which each character read raises by one, and adds that the bytes of a block that do not make a
  character yet (`pending`) leave room in the next block. It rests on `DecodeSplit`: however a file is cut in two, decoding
  the first part and then its rest with the second gives what decoding the whole gives.
* `SettingsProofs`, for any files, include graphs, words and depth of lists: `Tables` (`TablesUsable`) and `Icon`
  (`IconNotLost`). That a mode's number is right needs names that are there once, so the invariant (`DataInv`) is that within
  a group of the merged data no key is there twice; `MergeWith` keeps that, since it adds to a group one pair at a time, and
  everything that is still to be merged is of the files' shape. `Icon` needs that the icon is there, too, while
  settings are loaded, from its menu or at the start, unless a `TaskbarCreated` is under way or the last one was refused.
* `Induction`: `SetInduction`, induction over the naturals in the form the provers can use, over a set of numbers
  rather than a predicate. With it what a recursive function computes is proved (`Waiting`, `Ancestor`, `Candidates`,
  `ListOf`, `Merging`). Also how sequences are put together and cut (`Then`, `PartOf`, `RestOf`, `FlattenSeq`).

The assumptions on the constants are those of the modules that declare them: tables and expressions as
`Settings` makes them (`ConfAssumption`, `ExpressionsAssumption`: an operator's
arguments come after it, so that expressions are finite), windows whose parents are windows
(`WindowsAssumption`), movements, ratios and bars in whole numbers, lengths that are not zero
and bars that are within their ranges before they are scrolled (`MovementAssumption`), bars and processes that exist (`InjectAssumption`, `IeTargetAssumption`), files whose characters are those their bytes
decode to, and a block with room for more than one character (`SExpReaderAssumption`), and files whose lists are nested at most
`MaxDepth` deep, for any `MaxDepth` (`SettingsAssumption`). TLC
evaluates each of them in a run.

Only model-checked, and why:

* liveness (`PendingDecided`, `SetHookTerminates`, `ClearHookTerminates`, `OperatorEnds`, `ReaderEnds`,
  `IncludesEnd`): the prover has no fairness or ENABLED;
* `MovementAccounted`: it multiplies out divisions that round, so it is true only of speeds that divide the movements, as
  those of the instance do, and of messages that fit 16 bits; and for all such
  speeds the provers do not multiply the divisions out;
* `ReadsWhatIsWritten` and `LastSettingWins`: the text of a datum, and what the files say after the manual, are
  RECURSIVE operators over data (`SExpWriter`, `SettingsMeaning`), for which the provers have no induction.

## 5. Plan

Every part of the program with logic of its own that can be checked is modelled, and every safety property the
passing runs check is proved (`ReloadTakesEffect` as a part of `OneGeneration`) but `MovementAccounted`, `ReadsWhatIsWritten` and `LastSettingWins`.

## 6. Not modelled

* Wheel redirection (`main.c` 396-441) and window search (`window.c`): a walk over the desktop's windows,
  external, and one sum.
* Regular expressions (`regexp.c`): a call into another library. `Settings` knows accepted and refused patterns.
* The log (`log.c`): one list of lines and an edit control on the main thread; dialogs; formatting.
* `dllinj.c`'s walk over import tables, the variants of `util/automation_idispatch.c`.
* Of `MSLLHOOKSTRUCT` only button and direction are kept; times, positions and
  `dwExtraInfo` are copied and never tested by `hook.c`. Injected events (240) are passed
  on without a change of state and so are no step.
* Lack of memory in the merge (`conf.c` 300 goes on with freed data) and the file closed twice
  (`conf.c` 186): undefined from there on.
* Buffers of words and strings (`read_s_exp.c` 966-989): they are grown to a number of bytes that is then taken
  for the number of wide characters, so that a long word or string is written past its end. `SExpReader` has no
  limit, and what the program does then has no model.
* Failures of `SetTimer` (`hook.c` 301) and `RegisterWindowMessage` (`main.c` 289-292, which leaves a program
  without an icon and a hook).
* `main_destroy` (`main.c` 312-325) does not end a running operator: what a program that ends in scroll mode leaves in
  others is outside `LeavesNothing`. So is what happens in a process when `sbh` is unloaded from it between two
  injections (its `org_wnd_proc` starts as NULL again; in the model it is that only when every call has returned in time).
* In `ScrollMode` handle leaks of failed `CreateEvent` calls and one axis of two; everywhere real
  numbers are integers.
