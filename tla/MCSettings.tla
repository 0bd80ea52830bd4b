------------------------------- MODULE MCSettings -------------------------------
(***************************************************************************)
(* Two directories, a file with an absolute path, and three files that     *)
(* include each other or themselves, set things again, end in a syntax     *)
(* error or are not there.                                                 *)
(***************************************************************************)
EXTENDS SettingsMeaning

MCEventKey ==
  [e \in {"d", "u"} \X Btn \X Btn |->
     CASE e = <<"d", 0, 0>> -> "button-d-1" [] e = <<"u", 0, 0>> -> "button-u-1"
       [] e = <<"d", 1, 1>> -> "button-d-2" [] e = <<"u", 1, 1>> -> "button-u-2"
       [] e = <<"d", 0, 1>> -> "button-d-1+2" [] e = <<"u", 0, 1>> -> "button-u-1+2"
       [] OTHER -> "no event"]
MCButtonWord == [w \in {"1", "2"} |-> IF w = "1" THEN 0 ELSE 1]

MCWords ==
  {"include", "user", "other", "default", "C:/more", "not a string",
   "global", "combination-time", "initial-mode", "tray-icon", "#f", "icon",
   "100", "200", "300", "500", "normal-mode", "scroll-mode", "n1", "n2", "n3", "s",
   "t", "button-d-1", "button-d-2", "button-u-1", "button-u-2", "button-d-1+2",
   "button-u-1+2", "button-d", "button-u", "1", "2", "wheel", "post-wheel-message",
   "nothing", "mul-scroll-ratio", "scroll-window", "A", "B", "C", "D", "E", "or",
   "bad pattern", "no such operator"}

P(key, val) == Element(key, val, <<>>)
L(key, kids) == Element(key, <<>>, kids)
Item(words) == Element(Null, words, <<>>)
Incl(names) == P("include", names)
Global(key, val) == L("global", <<P(key, val)>>)
Window(pattern, op) == L("scroll-window", <<Item(<<pattern, op>>)>>)

Default == <<
  L("global", <<P("combination-time", <<"500">>), P("initial-mode", <<"n2">>)>>),
  L("normal-mode", <<
    L("n1", <<P("button-d-1+2", <<"scroll-mode", "s">>),
              P("wheel", <<"post-wheel-message">>)>>),
    L("n2", <<P("button-d-2", <<"normal-mode">>),
              P("button-u-1+2", <<"button-u", "2">>)>>)>>),
  L("scroll-mode", <<L("s", <<P("button-u-1", <<"normal-mode", "n1">>),
                              P("button-d-1+2", <<"nothing">>)>>)>>),
  L("scroll-window", <<Item(<<"A", "or">>), Item(<<"B", "wheel">>)>>) >>

More == <<
  Window("A", "wheel"),
  L("normal-mode", <<L("n1", <<P("button-d-1", <<"scroll-mode", "t">>),
                               P("button-d-1+2", <<"mul-scroll-ratio">>)>>),
                     L("n3", <<P("button-d-1", <<"button-d", "2">>),
                               L("button-u-1", <<P("nothing", <<>>)>>)>>)>>),
  Window("bad pattern", "or"), Window("C", "no such operator"),
  Global("initial-mode", <<"n3">>) >>

File(elements) == [there |-> TRUE, sound |-> TRUE, elements |-> elements]
Bad == [there |-> TRUE, sound |-> FALSE, elements |-> <<>>]
Absent == [there |-> FALSE, sound |-> TRUE, elements |-> <<>>]

\* What may stand in a user's file, in another one, and beside the program.
UserFiles == {
  Absent, Bad,
  File(<<Incl(<<"default">>), Global("tray-icon", <<"#f">>)>>),
  File(<<Global("combination-time", <<"100">>), Incl(<<"default", "other">>),
         Window("A", "or"), Global("tray-icon", <<"icon">>)>>),
  File(<<Incl(<<"user", "other", "C:/more", "not a string">>),
         Global("combination-time", <<"200">>)>>) }
OtherFiles == {
  Absent, Bad, File(More), File(<<Incl(<<"user">>), Window("B", "or")>>),
  File(<<P("normal-mode", <<"n1">>)>>),
  File(<<P("global", <<>>), Incl(<<"default", "other">>), P("scroll-window", <<>>),
         Window("D", "or")>>) }

MCDisks ==
  {[p \in (Range(Dirs) \cup {Root}) \X Names |->
      CASE p = <<"home", "user">> -> user
        [] p[2] = "other" /\ p[1] = otherDir -> other
        [] p = <<Root, "C:/more">> -> File(<<Global("combination-time", <<"300">>)>>)
        [] p = <<"module", "other">> -> File(<<Window("E", "wheel")>>)
        [] p = <<"module", "default">> -> File(Default)
        [] OTHER -> Absent] :
     user \in UserFiles, other \in OtherFiles, otherDir \in {"home", "nowhere"}}
MCRcNames == <<"user", "default">>
MCDirs == <<"home", "module">>

=============================================================================
