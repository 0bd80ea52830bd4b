-------------------------------- MODULE Settings --------------------------------
(***************************************************************************)
(* Loading the settings at the start and from the menu: load_setting,      *)
(* load_conf and its include statements in conf.c, and the tray icon in    *)
(* main.c that shows what was loaded and carries the menu to load again.   *)
(* The C stack of nested include statements is the sequence stack.         *)
(***************************************************************************)
EXTENDS SettingsData

CONSTANTS
  Names,        \* file names; other words in an include are no strings
  RcNames,      \* rc_names, a sequence
  ConfFile,     \* the file named on the command line, Null if none
  Dirs,         \* where files are looked for, in order
  Absolute,     \* the names that are paths, looked for in Root only
  Root,
  Disks,        \* contents of the disk: [<<dir, name>> -> a file]
  MAX_INCLUDE,  \* 20 in load_conf
  MaxReloads, MaxRestarts   \* bounds: reloads, and restarts of Explorer

ASSUME SettingsAssumption ==
  /\ MAX_INCLUDE \in Nat \ {0}
  /\ Absolute \subseteq Names /\ RcNames \in Seq(Names)
  /\ ConfFile \in Names \cup {Null} /\ Dirs \in Seq(Range(Dirs))
  /\ \A k \in Disks : \A p \in (Range(Dirs) \cup {Root}) \X Names :
       k[p].elements \in Seq(Nested[MaxDepth])
  /\ MaxReloads \in Nat /\ MaxRestarts \in Nat

VARIABLES
  disk,
  pc,       \* what the main thread does
  force,    \* load_setting's force_apply
  stack,    \* the files being read: [rest, args], args of an include
  data,     \* what has been merged so far
  include_depth,
  app,      \* ctx.app_conf, Null before the first one
  shown,    \* whether Explorer has the icon
  refused,  \* history: whether Explorer was last asked in vain to add it
  announced,  \* TaskbarCreated messages that wait
  reloads, restarts

loadVars == <<force, stack, data, include_depth>>
iconVars == <<shown, refused, announced, restarts>>
vars == <<disk, pc, loadVars, app, iconVars, reloads>>

Init ==
  /\ disk \in Disks
  /\ pc = "start" /\ force = TRUE
  /\ stack = <<>> /\ data = <<>> /\ include_depth = 0
  /\ app = Null
  /\ shown = FALSE /\ refused = FALSE /\ announced = 0
  /\ reloads = 0 /\ restarts = 0

-----------------------------------------------------------------------------
(* load_conf: the first place that has the file is used, whatever is in    *)
(* it. One that cannot be parsed gives an error, which has no elements.    *)

Places(name) ==
  IF name \in Absolute THEN <<Root>> ELSE Dirs
Holding(name) ==
  {i \in DOMAIN Places(name) : disk[Places(name)[i], name].there}
IsFound(name) == Holding(name) # {}
ElementsOf(name) ==
  LET file == disk[Places(name)[Min(Holding(name))], name]
  IN  IF file.sound THEN file.elements ELSE <<>>

Frame(elements) == [rest |-> elements, args |-> <<>>]
TopNames == IF ConfFile = Null THEN RcNames ELSE <<ConfFile>>
FoundTops == {i \in DOMAIN TopNames : IsFound(TopNames[i])}
TopName == TopNames[Min(FoundTops)]

\* load_setting as far as opening the first file.
Begin(f) ==
  /\ force' = f
  /\ data' = <<>> /\ include_depth' = 0
  /\ IF FoundTops = {} THEN stack' = <<>> /\ pc' = "loaded"
     ELSE stack' = <<Frame(ElementsOf(TopName))>> /\ pc' = "load"

Top == stack[Len(stack)]
SetTop(frame) == [stack EXCEPT ![Len(stack)] = frame]

\* merge_conf_data_with_include, one element.
TakeElement ==
  /\ pc = "load" /\ Top.args = <<>> /\ Top.rest # <<>>
  /\ LET e == Head(Top.rest)
     IN  stack' = SetTop([rest |-> Tail(Top.rest),
                         args |-> IF e.key = "include" THEN e.val ELSE <<>>])

\* Mutant of ReadElement: what an earlier line has set is kept.
ReadElementFirstWins ==
  /\ TakeElement
  /\ data' = IF \/ Head(Top.rest).key = "include"
                \/ EntryFor(data, Head(Top.rest).key) # 0
             THEN data ELSE Merge(data, Head(Top.rest))
  /\ UNCHANGED <<disk, pc, force, include_depth, app, iconVars, reloads>>

ReadElement ==
  /\ TakeElement
  /\ data' = IF Head(Top.rest).key = "include" THEN data
             ELSE Merge(data, Head(Top.rest))
  /\ UNCHANGED <<disk, pc, force, include_depth, app, iconVars, reloads>>

\* One argument of an include: load_conf gives the data back as they are when
\* the files are nested too deeply, and no data when there is no such file.
Include ==
  /\ pc = "load" /\ Top.args # <<>>
  /\ LET name == Head(Top.args)
         next == SetTop([Top EXCEPT !.args = Tail(@)])
     IN  IF name \in Names /\ include_depth + 1 < MAX_INCLUDE /\ IsFound(name)
         THEN /\ stack' = Append(next, Frame(ElementsOf(name)))
              /\ include_depth' = include_depth + 1
         ELSE stack' = next /\ UNCHANGED include_depth
  /\ UNCHANGED <<disk, pc, force, data, app, iconVars, reloads>>

\* Mutant of EndOfFile: the depth is not counted back.
EndOfFileKeepsDepth ==
  /\ pc = "load" /\ Top.args = <<>> /\ Top.rest = <<>>
  /\ stack' = Front(stack)
  /\ pc' = IF Len(stack) > 1 THEN pc ELSE "loaded"
  /\ UNCHANGED <<disk, force, data, include_depth, app, iconVars, reloads>>

\* The end of a file, and of the load_conf call that read it.
EndOfFile ==
  /\ pc = "load" /\ Top.args = <<>> /\ Top.rest = <<>>
  /\ stack' = Front(stack)
  /\ include_depth' = IF Len(stack) > 1 THEN include_depth - 1
                      ELSE include_depth
  /\ pc' = IF Len(stack) > 1 THEN pc ELSE "loaded"
  /\ UNCHANGED <<disk, force, data, app, iconVars, reloads>>

\* NIM_DELETE, whose failure nobody asks for.
IconDeleted == shown' \in {FALSE, shown}

\* WM_TASKTRAY_CH: Explorer is told to forget the icon, or how it looks now.
TrayIconChange(hide) == IF hide THEN IconDeleted ELSE UNCHANGED shown

\* apply_setting and the end of load_setting: settings that cannot be applied
\* replace the old ones only at the start.
Return == pc = "loaded" /\ pc' = "idle"
Apply ==
  /\ Return
  /\ LET s == Setting(data)
     IN  IF s.modes.ok \/ force THEN app' = s /\ TrayIconChange(s.hide)
         ELSE UNCHANGED <<app, shown>>
  /\ UNCHANGED <<disk, loadVars, refused, announced, restarts, reloads>>

-----------------------------------------------------------------------------
\* main_create adds the icon before main loads the settings, or fails.
Start ==
  /\ pc = "start"
  /\ \/ shown' = TRUE /\ Begin(TRUE)
     \/ pc' = "ended" /\ UNCHANGED <<shown, loadVars>>
  /\ UNCHANGED <<disk, app, refused, announced, restarts, reloads>>

\* menu_reload: the menu is the icon's.
Reload ==
  /\ pc = "idle" /\ shown /\ reloads < MaxReloads
  /\ reloads' = reloads + 1
  /\ Begin(FALSE)
  /\ UNCHANGED <<disk, app, iconVars>>

EditFiles ==
  /\ pc = "idle" /\ reloads < MaxReloads
  /\ disk' \in Disks
  /\ UNCHANGED <<pc, loadVars, app, iconVars, reloads>>

\* Mutant of TaskbarCreated: the icon is modified, which a new Explorer has not.
TaskbarCreatedModifies ==
  /\ pc = "idle" /\ announced > 0
  /\ announced' = announced - 1
  /\ UNCHANGED <<disk, pc, loadVars, app, shown, refused, restarts, reloads>>

\* main_taskbar_created: NIM_ADD, which may fail (Explorer is busy, or has the
\* icon); that is only logged, and not tried again.
TaskbarCreated ==
  /\ pc = "idle" /\ announced > 0
  /\ announced' = announced - 1
  /\ \/ shown' = TRUE /\ refused' = FALSE
     \/ UNCHANGED shown /\ refused' = ~shown
  /\ UNCHANGED <<disk, pc, loadVars, app, restarts, reloads>>

\* Explorer starts again, without icons; it says so to every program.
ExplorerRestarts ==
  /\ pc \notin {"start", "ended"} /\ restarts < MaxRestarts
  /\ restarts' = restarts + 1
  /\ shown' = FALSE
  /\ announced' = announced + 1
  /\ UNCHANGED <<disk, pc, loadVars, app, refused, reloads>>

\* main_destroy, from the menu or when Windows closes the program.
Destroy ==
  /\ pc = "idle"
  /\ IconDeleted
  /\ pc' = "ended"
  /\ UNCHANGED <<disk, loadVars, app, refused, announced, restarts, reloads>>

Next == Start \/ ReadElement \/ Include \/ EndOfFile \/ Apply \/ Reload
        \/ EditFiles \/ TaskbarCreated \/ ExplorerRestarts \/ Destroy

\* The main thread goes on with the files it reads, and returns.
Spec == /\ Init /\ [][Next]_vars
        /\ WF_stack(TakeElement \/ Include \/ EndOfFile) /\ WF_pc(Return)

-----------------------------------------------------------------------------
(* Properties                                                              *)

\* Files that include each other, or themselves, are read to an end, and the
\* depth counted on the way is back where it was.
IncludesEnd == pc = "load" ~> (pc = "idle" /\ include_depth = 0)

\* What MouseHook and ScrollMode assume of the tables (ConfAssumption there):
\* there is an initial mode, combinations are the same from both buttons and
\* only enabled ones do something, and the modes actions lead to exist. That
\* needs the modes' names to be distinct, however the files are merged. A list
\* of modes that is none leaves the start without any (hook.c does nothing then).
TablesUsable ==
  app # Null /\ app.modes.ok =>
    LET t == app.modes
        actions == UNION {Range(m.act) \cup Range(m.comb) :
                            m \in Range(t.normal \o t.scroll)}
    IN  /\ t.initial \in DOMAIN t.normal
        /\ \A a \in actions :
             /\ a.code = "normal-mode" => a.to \in DOMAIN t.normal
             /\ a.code = "scroll-mode" => a.to \in DOMAIN t.scroll
        /\ \A m \in Range(t.normal \o t.scroll), s \in {"d", "u"}, x, y \in Btn :
             /\ m.comb[s, x, y] = m.comb[s, y, x]
             /\ m.comb[s, x, y] # NOTHING => {x, y} \subseteq m.enabled
             /\ m.comb[s, x, x] = NOTHING
        /\ \A p \in {"normal-mode", "scroll-mode"} :
             LET modes == Massq(data, <<p>>).kids
             IN  \A i, j \in DOMAIN modes :
                   modes[i].key = modes[j].key /\ NamesAMode(modes[i]) => i = j

\* An icon that is to be shown is not left hidden: it cannot be removed, by
\* settings or with Explorer, and be wanted again without being added. It is
\* missing only when the last NIM_ADD of main_taskbar_created failed.
IconNotLost ==
  pc = "idle" /\ announced = 0 /\ ~app.hide => shown \/ refused

=============================================================================
