---------------------------- MODULE SettingsMeaning ----------------------------
(***************************************************************************)
(* What the settings files mean, after the manual, against what load_conf  *)
(* has merged from them.                                                   *)
(***************************************************************************)
EXTENDS Settings

\* The settings of the files in the order they are written, an include
\* standing for the files it names.
RECURSIVE Expanded(_, _)
Expanded(elements, depth) ==
  LET File(name) ==
        IF name \in Names /\ depth + 1 < MAX_INCLUDE /\ IsFound(name)
        THEN Expanded(ElementsOf(name), depth + 1) ELSE <<>>
      Files(args) == FlattenSeq([j \in DOMAIN args |-> File(args[j])])
  IN  FlattenSeq([i \in DOMAIN elements |->
        IF elements[i].key = "include" THEN Files(elements[i].val)
        ELSE <<elements[i]>>])

\* What an element says: the value of one setting, or one more list member.
RECURSIVE Says(_, _)
Says(e, path) ==
  IF e.key = Null THEN <<[path |-> path, value |-> FALSE, what |-> e.val]>>
  ELSE LET p == path \o <<e.key>>
       IN  IF e.kids = <<>> THEN <<[path |-> p, value |-> TRUE, what |-> e.val]>>
           ELSE FlattenSeq([i \in DOMAIN e.kids |-> Says(e.kids[i], p)])

\* doc/CUSTOMIZE.html, lines 116-117 and 495: settings are read from the first
\* line to the last, the last one for an item counts, and of several windows
\* that match the last one does, being the first in the list that is searched.
\* A value given for a whole group takes the place of what the group held.
LastSettingWins ==
  pc = "loaded" =>
    LET files == IF FoundTops = {} THEN <<>>
                 ELSE Expanded(ElementsOf(TopName), 0)
        said == FlattenSeq([i \in DOMAIN files |-> Says(files[i], <<>>)])
        valid == {i \in DOMAIN said :
                    ~\E j \in DOMAIN said :
                       j > i /\ said[j].value /\ IsPrefix(said[j].path, said[i].path)}
        Members(path) ==
          SelectSeq([i \in DOMAIN said |-> IF i \in valid THEN i ELSE 0],
                    LAMBDA i : i # 0 /\ ~said[i].value /\ said[i].path = path)
        Listed(path) ==
          SelectSeq(Massq(data, path).kids, LAMBDA e : e.key = Null)
    IN  \A i \in valid :
          LET path == said[i].path
              members == Members(path)
          IN  IF said[i].value THEN Massq(data, path).val = said[i].what
              ELSE [k \in DOMAIN Listed(path) |-> Listed(path)[k].val]
                     = Reverse([k \in DOMAIN members |-> said[members[k]].what])

=============================================================================
