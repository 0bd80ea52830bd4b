------------------------------ MODULE SettingsData ------------------------------
(***************************************************************************)
(* What conf.c makes of the data it has read: how a further element is     *)
(* merged into the settings, how a setting is looked up, and the tables    *)
(* the hook and the scroll operators work with.                            *)
(*                                                                         *)
(* An element [key, val, kids] stands for a pair whose car is the symbol   *)
(* key and whose cdr is the list kids, when its first member is a pair,    *)
(* and the words val otherwise; its key is Null when it is no such pair.   *)
(***************************************************************************)
EXTENDS Integers, Sequences, FiniteSetsExt, SequencesExt

CONSTANTS
  Null,
  Btn,        \* 0 .. MOUSE_BTN_MAX - 1
  EventKey,   \* [{"d", "u"} \X Btn \X Btn -> keys]: button-d-1, button-d-1+2
  Words,      \* the symbols, strings and numbers in the files
  MaxDepth,   \* bound: how deep lists are nested
  ButtonWord, \* the words for button numbers: a function to Btn
  Operators   \* the names in builtin_scroll_op

ASSUME SettingsDataAssumption ==
  /\ Btn \subseteq Nat
  /\ Null \notin Words \cup {"normal-mode", "scroll-mode"}
  /\ MaxDepth \in Nat
  /\ DOMAIN ButtonWord \subseteq Words
  /\ \A w \in DOMAIN ButtonWord : ButtonWord[w] \in Btn

Element(key, val, kids) == [key |-> key, val |-> val, kids |-> kids]

\* The elements with lists in them d deep, or less.
Nested[d \in 0 .. MaxDepth] ==
  [key : Words \cup {Null}, val : Seq(Words),
   kids : IF d = 0 THEN {<<>>} ELSE Seq(Nested[d - 1])]

-----------------------------------------------------------------------------
(* merge_conf_data                                                         *)

\* The entry s_exp_assq_get finds, 0 when there is none.
EntryFor(data, key) ==
  Min({Len(data) + 1} \cup {i \in DOMAIN data : data[i].key = key})
  % (Len(data) + 1)

\* An element without a key is put in front; a pair with a plain value takes
\* the place of the entry, and the pairs in a list are merged one by one, as
\* the function inner merges them.
MergeWith(inner, data, part) ==
  LET known == EntryFor(data, part.key)
      all == IF known # 0 THEN data ELSE <<Element(part.key, <<>>, <<>>)>> \o data
      at == Max({known, 1})
      kids[k \in 0 .. Len(part.kids)] ==
        IF k = 0 THEN all[at].kids ELSE inner[<<kids[k - 1], part.kids[k]>>]
  IN  IF part.key = Null THEN <<part>> \o data
      ELSE IF part.kids = <<>> THEN [all EXCEPT ![at] = part]
      ELSE [all EXCEPT ![at].kids = kids[Len(part.kids)]]

Merging[d \in 0 .. MaxDepth] ==
  [merge \in Seq(Nested[d]) \X Nested[d] |->
     MergeWith(IF d = 0 THEN <<>> ELSE Merging[d - 1], merge[1], merge[2])]
Merge(data, part) == Merging[MaxDepth][<<data, part>>]

-----------------------------------------------------------------------------
(* s_exp_assq and s_exp_massq; get_conf_list gives a list, empty if there  *)
(* is none. A plain value is a list of words.                              *)

Nothing == Element(Null, <<>>, <<>>)
Assq(data, key) ==
  LET i == EntryFor(data, key) IN IF i = 0 THEN Nothing ELSE data[i]
Massq(data, path) ==
  LET reached[k \in 0 .. Len(path)] ==
        IF k = 0 THEN Element(Null, <<>>, data) ELSE Assq(reached[k - 1].kids, path[k])
  IN  reached[Len(path)]
Items(e) ==
  e.kids \o [i \in DOMAIN e.val |-> Element(Null, <<e.val[i]>>, <<>>)]

-----------------------------------------------------------------------------
(* Modes: apply_mode_name, apply_comm_mode_conf and apply_mode_conf        *)

Act(code, to) == [code |-> code, to |-> to]
NOTHING == Act("NOTHING", 0)
Invalid == Act("invalid", 0)

\* get_mode_ptr: the first mode of that name, 0 when there is none.
ModePtr(modes, name) == EntryFor(modes, name)

\* apply_button_act and the apply_action_ functions, for the words of an
\* action; t has the lists of modes and the initial mode.
ButtonAct(words, t) ==
  LET n == Len(words)
      name == IF n >= 2 THEN words[2] ELSE Null
  IN  IF n = 0 THEN Invalid
      ELSE CASE words[1] = "nothing" -> NOTHING
             [] words[1] \in {"button-d", "button-u"} ->
                  IF name \in DOMAIN ButtonWord
                  THEN Act(words[1], ButtonWord[name]) ELSE Invalid
             [] words[1] = "normal-mode" /\ n = 1 -> Act("normal-mode", t.initial)
             [] words[1] \in {"normal-mode", "scroll-mode"} /\ n > 1 ->
                  LET i == ModePtr(IF words[1] = "normal-mode" THEN t.normal
                                   ELSE t.scroll, name)
                  IN  IF i = 0 THEN Invalid ELSE Act(words[1], i)
             [] words[1] \in {"set-scroll-ratio", "mul-scroll-ratio"} ->
                  Act(words[1], 0)
             [] OTHER -> Invalid

\* apply_wheel_act; the action is nothing when it cannot be applied.
WheelAct(words) ==
  IF words # <<>> /\ words[1] \in {"wheel-input", "post-wheel-message"}
  THEN Act(words[1], 0) ELSE NOTHING

\* Mutant of Configured: a combination is entered for its lower button only.
ConfiguredOneWay(mode, s, n, m, t) ==
  LET e == Assq(mode.kids, EventKey[s, n, m])
  IN  IF e.kids # <<>> THEN Invalid ELSE ButtonAct(e.val, t)

\* What is configured for an event of buttons n and m of a mode.
Configured(mode, s, n, m, t) ==
  LET e == Assq(mode.kids, EventKey[s, Min({n, m}), Max({n, m})])
  IN  IF e.kids # <<>> THEN Invalid ELSE ButtonAct(e.val, t)

\* One button's own actions have a default in a normal mode; the actions of a
\* combination are entered for both buttons, and enable it for both.
ModeTable(mode, t, default) ==
  LET Own(s, n) ==
        LET a == Configured(mode, s, n, n, t)
        IN  IF a # Invalid THEN a
            ELSE IF default THEN Act(IF s = "d" THEN "button-d" ELSE "button-u", n)
            ELSE NOTHING
      Comb(s, n, m) ==
        LET a == Configured(mode, s, n, m, t)
        IN  IF n = m \/ a = Invalid THEN NOTHING ELSE a
  IN  [act |-> [e \in {"d", "u"} \X Btn |-> Own(e[1], e[2])],
       comb |-> [e \in {"d", "u"} \X Btn \X Btn |-> Comb(e[1], e[2], e[3])],
       enabled |-> {n \in Btn : \E s \in {"d", "u"}, m \in Btn :
                                   Comb(s, n, m) # NOTHING},
       wheel |-> WheelAct(Assq(mode.kids, "wheel").val)]

DefaultTable ==
  [act |-> [e \in {"d", "u"} \X Btn |->
              Act(IF e[1] = "d" THEN "button-d" ELSE "button-u", e[2])],
   comb |-> [e \in {"d", "u"} \X Btn \X Btn |-> NOTHING],
   enabled |-> {}, wheel |-> Act("wheel-input", 0)]

\* The initial mode is the first one when none, or one that is not there, is
\* named. Without normal modes there is one that passes every event on.
NamesAMode(e) == e.key # Null
ModeTables(data) ==
  LET normal == Items(Massq(data, <<"normal-mode">>))
      scroll == Items(Massq(data, <<"scroll-mode">>))
      named == Massq(data, <<"global", "initial-mode">>)
      found == IF Len(named.val) = 1 THEN ModePtr(normal, named.val[1]) ELSE 0
      t == [normal |-> normal, scroll |-> scroll, initial |-> Max({found, 1})]
  IN  IF normal = <<>>
      THEN [ok |-> TRUE, initial |-> 1, normal |-> <<DefaultTable>>, scroll |-> <<>>]
      ELSE IF \E e \in Range(normal \o scroll) : ~NamesAMode(e)
      THEN [ok |-> FALSE, initial |-> Null, normal |-> <<>>, scroll |-> <<>>]
      ELSE [ok |-> TRUE, initial |-> t.initial,
            normal |-> [i \in DOMAIN normal |-> ModeTable(normal[i], t, TRUE)],
            scroll |-> [i \in DOMAIN scroll |-> ModeTable(scroll[i], t, FALSE)]]

-----------------------------------------------------------------------------
(* Windows: get_class_title_regexp, abstracted to whether it accepts the   *)
(* pattern, and apply_scroll_window. A setting is the words pattern and    *)
(* operator; what cannot be used is left out.                              *)

UsableWindow(e) ==
  /\ e.key = Null /\ Len(e.val) = 2
  /\ e.val[1] # "bad pattern" /\ e.val[2] \in Operators
Windows(data) ==
  LET used == SelectSeq(Items(Massq(data, <<"scroll-window">>)), UsableWindow)
  IN  [i \in DOMAIN used |-> [pattern |-> used[i].val[1], op |-> used[i].val[2]]]

\* apply_setting, as far as modes, windows, the icon and one plain value go.
TrayIconHidden(data) ==
  LET words == Massq(data, <<"global", "tray-icon">>).val
  IN  words # <<>> /\ words[1] = "#f"
CombTime(data) == Massq(data, <<"global", "combination-time">>).val
Setting(data) ==
  LET modes == ModeTables(data)
  IN  [modes |-> modes, windows |-> IF modes.ok THEN Windows(data) ELSE <<>>,
       hide |-> TrayIconHidden(data), combTime |-> CombTime(data)]

=============================================================================
